--------------------------- MODULE TextInterface ----------------------------
(***************************************************************************)
(* vga_text_avl_interface.sv: the video memory and the palette behind an   *)
(* Avalon slave, and the pixel pipeline that reads both.  The bus and the  *)
(* two memories work on the 50 MHz clock CLK, the pipeline on the rising   *)
(* edges of VGA_CLK, which are every second edge of CLK.                   *)
(*                                                                         *)
(* A word is four byte lanes.  A cell of the screen is half a word: an     *)
(* attribute byte (foreground, background) and a character byte (inverse   *)
(* bit, code).                                                             *)
(***************************************************************************)
EXTENDS VGAController

CONSTANTS
    COLUMNS, ROWS,              \* cells on the screen: 80 by 30
    glyphWidth, glyphHeight,    \* pixels of a cell: 8 by 16
    PaletteBase,                \* AVL_ADDR[11]: 2048
    Registers,                  \* how many color_registers: 8
    font,                       \* code -> row -> the lit bits of font_rom's data
    DontCare                    \* words a read may return that collides with a write

Lane == 0 .. 3
Byte == 0 .. 255
Word == [Lane -> Byte]
Number(w) == w[0] + 256 * w[1] + 65536 * w[2] + 16777216 * w[3]
Lanes(v) == [k \in Lane |-> (v \div 256 ^ k) % 256]

ASSUME ScreenAssumption ==
    /\ hdisplay = COLUMNS * glyphWidth /\ vdisplay = ROWS * glyphHeight
    /\ {COLUMNS, ROWS, glyphWidth, glyphHeight, PaletteBase, Registers} \subseteq Nat \ {0}
    /\ DontCare \subseteq Word /\ DontCare # {}
    \* No position of the beam, the picture's or not, reaches the palette.
    /\ (vlines \div glyphHeight) * COLUMNS + hpixels \div glyphWidth < 2 * PaletteBase
    /\ PaletteBase % Registers = 0

VARIABLES
    avl,                \* what the interconnect drives: AVL_READ/WRITE, ADDR, BYTE_EN, WRITEDATA
    AVL_READDATA,
    color_registers,
    mem, READ_A, READ_B,    \* ONCHIPMEM and its two outputs
    RGB, pixel              \* the colour looked up, the outputs red, green, blue

busVars == <<avl, AVL_READDATA>>
memVars == <<color_registers, mem, READ_A, READ_B>>
pixelVars == <<RGB, pixel>>
interfaceVars == <<vgaVars, busVars, memVars, pixelVars>>

Blank == [k \in Lane |-> 0]
Idle == [op |-> "idle", addr |-> 0, lanes |-> {}, data |-> Blank]

\* The bus cycle reads, writes, or addresses the palette.
AVL_READ == avl.op \in {"read", "wait"}
AVL_WRITE == avl.op = "write"
High == avl.addr >= PaletteBase
Register == avl.addr % Registers

-----------------------------------------------------------------------------
(* The glyph under the beam *)

row_major_index == (DrawY \div glyphHeight) * COLUMNS + DrawX \div glyphWidth
row_major_address == (row_major_index \div 2) % PaletteBase

HalfWord(w, index) == [attribute |-> w[2 * (index % 2)], character |-> w[2 * (index % 2) + 1]]

FG(cell) == cell.attribute \div 16
BG(cell) == cell.attribute % 16
invert(cell) == cell.character >= 128
CHAR1(cell) == cell.character % 128
out(cell) == (glyphWidth - 1) - (DrawX % glyphWidth) \in font[CHAR1(cell)][DrawY % glyphHeight]

\* Colour c of a palette: bits 12..1 or 24..13 of register c / 2.
PaletteColour(registers, c) ==
    (Number(registers[c \div 2]) \div (IF c % 2 = 0 THEN 2 ELSE 8192)) % 4096

-----------------------------------------------------------------------------
Interface_Init ==
    /\ Init
    /\ avl = Idle /\ AVL_READDATA = Blank
    /\ color_registers = [r \in 0 .. Registers - 1 |-> Blank]
    /\ mem = [a \in 0 .. PaletteBase + Registers - 1 |-> Blank]
    /\ READ_A = Blank /\ READ_B = Blank /\ RGB = 0 /\ pixel = 0

\* The Avalon slave.  A read of the memory answers with READ_A as it was
\* before this edge; byte enables are ignored by the palette.
Avalon_Clock ==
    /\ AVL_READDATA' = IF ~AVL_READ THEN AVL_READDATA
                       ELSE IF High THEN color_registers[Register] ELSE READ_A
    /\ color_registers' = IF AVL_WRITE /\ High
                          THEN [color_registers EXCEPT ![Register] = avl.data]
                          ELSE color_registers

\* Faulty variant: an address bit too few, so that the palette overlays the text.
Written_ShortAddress ==
    [mem EXCEPT ![avl.addr % PaletteBase] =
        [k \in Lane |-> IF k \in avl.lanes THEN avl.data[k] ELSE @[k]]]

\* wren_a is AVL_WRITE alone: the palette's words are written here too.
Written ==
    [mem EXCEPT ![avl.addr] = [k \in Lane |-> IF k \in avl.lanes THEN avl.data[k] ELSE @[k]]]

\* The dual-port memory: registered addresses, unregistered outputs, any word
\* on port B when port A writes the word it reads.
ONCHIPMEM_Clock ==
    /\ mem' = IF AVL_WRITE THEN Written ELSE mem
    /\ READ_A' = IF AVL_READ THEN mem[avl.addr] ELSE READ_A
    /\ READ_B' \in IF AVL_WRITE /\ avl.addr = row_major_address
                   THEN DontCare ELSE {mem[row_major_address]}

\* A rising edge of VGA_CLK: RGB takes the colour under the beam and the
\* outputs the colour RGB had, so that the picture is one pixel late.
Pixel_Clock ==
    LET cell == HalfWord(READ_B, row_major_index)
    IN /\ RGB' = IF blank
                 THEN PaletteColour(color_registers, IF out(cell) = invert(cell) THEN BG(cell) ELSE FG(cell))
                 ELSE RGB
       /\ pixel' = IF blank THEN RGB ELSE 0

\* Where the interconnect's bus cycle goes: one clock for a write, two for a
\* read (AV_READ_WAIT_CYCLES 1), whose data it takes at the end of the second.
\* Faulty variant: no wait state.
NextCycle_NoWait == Idle
NextCycle == IF avl.op = "read" THEN [avl EXCEPT !.op = "wait"] ELSE Idle

\* A rising edge of CLK.
Interface_Clock ==
    /\ Avalon_Clock /\ ONCHIPMEM_Clock
    /\ avl' = NextCycle
    /\ \/ ClkEdge /\ (IF clkdiv THEN UNCHANGED pixelVars ELSE Pixel_Clock)
       \/ Reset /\ UNCHANGED <<vgaVars, pixelVars>>

\* RESET reaches the timing generator, and the bus master with it; the
\* memories, the palette and the pipeline keep what they hold.
Interface_Reset ==
    /\ AssertReset
    /\ avl' = Idle
    /\ UNCHANGED <<AVL_READDATA, memVars, pixelVars>>

Interface_Release == ReleaseReset /\ UNCHANGED <<busVars, memVars, pixelVars>>

\* The master begins a bus cycle.
Issue(cycle) == avl.op = "idle" /\ avl' = cycle /\ UNCHANGED <<vgaVars, AVL_READDATA, memVars, pixelVars>>

ReadOf(address) == [op |-> "read", addr |-> address, lanes |-> Lane, data |-> Blank]
WordWrite(address, w) == [op |-> "write", addr |-> address, lanes |-> Lane, data |-> w]
ByteWrite(byte, v) == [op |-> "write", addr |-> byte \div 4, lanes |-> {byte % 4}, data |-> [k \in Lane |-> v]]

-----------------------------------------------------------------------------
(* Properties *)

\* Reading back what was written (the readback test of text_mode_vga.c): the
\* word the master takes is the one the interface holds at the address.
ReadsReturnContents ==
    avl.op = "wait" => AVL_READDATA = IF High THEN color_registers[Register] ELSE mem[avl.addr]
=============================================================================
