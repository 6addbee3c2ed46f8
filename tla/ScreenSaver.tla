---------------------------- MODULE ScreenSaver -----------------------------
(***************************************************************************)
(* text_mode_vga_color.c run by the processor of the SoC against the text  *)
(* interface: the program clears the text, sets the palette colour by      *)
(* colour with two read-modify-writes each, and then draws random texts in *)
(* random colours, while the beam keeps painting.  Each access to vga_ctrl *)
(* is one bus cycle, and any time may pass between two of them.  A reset   *)
(* of the board starts the program again and clears no memory.             *)
(***************************************************************************)
EXTENDS TextInterface, Sequences

CONSTANTS
    colors,             \* number -> 12-bit colour, of the 16 colours of the driver
    ColorString(_, _),  \* what sprintf makes of a foreground and a background: character codes
    Rolls               \* quadruples rand() may yield

NumColors == Len(colors)
ColorNumbers == 0 .. NumColors - 1

HasColours(a) == a \div 16 \in ColorNumbers /\ a % 16 \in ColorNumbers

ASSUME DriverAssumption ==
    /\ colors \in Seq(0 .. 4095) /\ NumColors = 2 * Registers /\ NumColors <= 16
    /\ \A j, k \in 1 .. NumColors : colors[j] = colors[k] => j = k
    /\ \A f, b \in ColorNumbers : /\ ColorString(f, b) \in Seq(1 .. 127)
                                 /\ Len(ColorString(f, b)) < COLUMNS
    /\ Rolls \subseteq Nat \X Nat \X Nat \X Nat
    \* Of sixteen colours, any attribute a read may return has two.
    /\ \A w \in DontCare : HasColours(w[0]) /\ HasColours(w[2])

VARIABLES
    pc,
    i,      \* the loop counter of whichever loop is running
    val,    \* what the last read returned
    text    \* the text being drawn: string, fg, bg, x, y

saverVars == <<interfaceVars, pc, i, val, text>>
programVars == <<pc, i, val, text>>

NoText == [string |-> <<>>, fg |-> 0, bg |-> 0, x |-> 0, y |-> 0]

\* main enters textVGAColorScreenSaver.
Start == pc' = "clear" /\ i' = 0 /\ val' = 0 /\ text' = NoText

ScreenSaver_Init == Interface_Init /\ pc = "clear" /\ i = 0 /\ val = 0 /\ text = NoText

Running == ~Reset /\ avl.op = "idle"

-----------------------------------------------------------------------------
\* textVGAColorClr: one byte of VRAM.
Clear ==
    /\ pc = "clear" /\ Running
    /\ Issue(ByteWrite(i, 0))
    /\ IF i + 1 < 2 * ROWS * COLUMNS
       THEN i' = i + 1 /\ pc' = pc
       ELSE i' = 0 /\ pc' = "and_read"
    /\ UNCHANGED <<val, text>>

\* setColorPalette: 0xFFFFE000 clears the lower colour, 0x00001FFF the upper.
Mask(color, v) == IF color % 2 = 0 THEN v - (v % 8192) ELSE v % 8192
Shifted(color, rgb) == IF color % 2 = 0 THEN rgb * 2 ELSE rgb * 8192

\* palette[color/2] &= mask; palette[color/2] += shifted.  The red, green and
\* blue nibbles go to adjoining fields: rgb is the three together.
PaletteWord == PaletteBase + i \div 2

PaletteRead ==
    /\ pc \in {"and_read", "add_read"} /\ Running
    /\ Issue(ReadOf(PaletteWord))
    /\ pc' = IF pc = "and_read" THEN "and_write" ELSE "add_write"
    /\ UNCHANGED <<i, val, text>>

PaletteMask ==
    /\ pc = "and_write" /\ Running
    /\ Issue(WordWrite(PaletteWord, Lanes(Mask(i, val))))
    /\ pc' = "add_read"
    /\ UNCHANGED <<i, val, text>>

PaletteAdd ==
    /\ pc = "add_write" /\ Running
    /\ Issue(WordWrite(PaletteWord, Lanes(val + Shifted(i, colors[i + 1]))))
    /\ IF i + 1 < NumColors
       THEN i' = i + 1 /\ pc' = "and_read"
       ELSE i' = 0 /\ pc' = "roll"
    /\ val' = 0 /\ text' = text

\* The loop that rolls again while both colours are the same ends by leaving
\* it: rand() is no adversary.
Roll ==
    /\ pc = "roll" /\ Running
    /\ \E r \in Rolls :
        LET fg == r[1] % NumColors
            bg == r[2] % NumColors
            string == ColorString(fg, bg)
        IN /\ fg # bg
           /\ text' = [string |-> string, fg |-> fg, bg |-> bg,
                       x |-> r[3] % (COLUMNS - Len(string)), y |-> r[4] % ROWS]
    /\ pc' = "draw"
    /\ UNCHANGED <<interfaceVars, i, val>>

\* Faulty variant: text on its own colour.
DrawnValue_NoBackground(k) ==
    IF k % 2 = 0 THEN 16 * text.fg + text.fg ELSE text.string[k \div 2 + 1]

\* textVGADrawColorText: byte k of the string's cells, first the colours, then
\* the character.
DrawnByte(k) == 2 * (text.y * COLUMNS + text.x) + k
DrawnValue(k) == IF k % 2 = 0 THEN 16 * text.fg + text.bg ELSE text.string[k \div 2 + 1]

Draw ==
    /\ pc = "draw" /\ Running
    /\ IF i < 2 * Len(text.string)
       THEN Issue(ByteWrite(DrawnByte(i), DrawnValue(i))) /\ i' = i + 1 /\ pc' = pc
       ELSE i' = 0 /\ pc' = "sleep" /\ UNCHANGED interfaceVars
    /\ UNCHANGED <<val, text>>

\* usleep(100000) returns.
WakeUp ==
    /\ pc = "sleep" /\ Running
    /\ pc' = "roll" /\ text' = NoText
    /\ UNCHANGED <<interfaceVars, i, val>>

Program == Clear \/ PaletteRead \/ PaletteMask \/ PaletteAdd \/ Roll \/ Draw \/ WakeUp

\* A clock edge; at the end of a read's wait cycle the processor has the data.
Clock ==
    /\ Interface_Clock
    /\ val' = IF avl.op = "wait" THEN Number(AVL_READDATA) ELSE val
    /\ UNCHANGED <<pc, i, text>>

BoardReset == Interface_Reset /\ Start
BoardRelease == Interface_Release /\ UNCHANGED programVars

ScreenSaver_Next == Clock \/ BoardReset \/ BoardRelease \/ Program

\* The oscillator runs and the processor executes; nothing is assumed of resets.
ScreenSaver_Spec ==
    ScreenSaver_Init /\ [][ScreenSaver_Next]_saverVars /\ WF_saverVars(Clock) /\ WF_saverVars(Program)

-----------------------------------------------------------------------------
(* Properties *)

Cells == 0 .. COLUMNS * ROWS - 1
Attributes == [c \in Cells |-> mem[c \div 2][2 * (c % 2)]]
Characters == [c \in Cells |-> mem[c \div 2][2 * (c % 2) + 1]]
Palette == [k \in ColorNumbers |-> PaletteColour(color_registers, k)]

\* Once the saver has begun to draw, the palette holds the driver's colours,
\* whatever a reset left half set in a register two colours share.
PaletteLoaded == pc \in {"draw", "sleep"} => \A k \in ColorNumbers : Palette[k] = colors[k + 1]

\* A text that has been drawn is on the screen, in one row, in its colours;
\* and no cell of the screen, that of an earlier text or half overwritten,
\* holds a character that cannot be told from its background.
TextDrawn ==
    /\ pc = "sleep" =>
        /\ text.x + Len(text.string) <= COLUMNS
        /\ \A k \in 1 .. Len(text.string) :
            LET c == text.y * COLUMNS + text.x + k - 1
            IN Characters[c] = text.string[k] /\ Attributes[c] = 16 * text.fg + text.bg
    /\ pc \in {"draw", "sleep"} =>
        \A c \in Cells :
            Characters[c] # 0 => Palette[Attributes[c] \div 16] # Palette[Attributes[c] % 16]

\* The memory, the palette and the pipeline together are a text screen.
Screen == INSTANCE TextScreen WITH
    Scheme <- [k \in ColorNumbers |-> colors[k + 1]], Black <- 0,
    Foreground <- LAMBDA a : a \div 16, Background <- LAMBDA a : a % 16,
    CellAt <- LAMBDA x, y : (y \div glyphHeight) * COLUMNS + x \div glyphWidth,
    Lit <- LAMBDA ch, x, y :
        (ch >= 128) # ((glyphWidth - 1) - (x % glyphWidth) \in font[ch % 128][y % glyphHeight]),
    Visible <- LAMBDA x, y : x < hdisplay /\ y < vdisplay,
    Together <- LAMBDA c, d : c \div 2 = d \div 2,
    attribute <- Attributes, character <- Characters, colour <- Palette,
    on <- ~Reset, X <- hc, Y <- vc, sample <- RGB, shown <- pixel,
    fetched <- IF ~Reset /\ ~clkdiv /\ display THEN {HalfWord(READ_B, row_major_index)} ELSE {}

\* Whatever the program, the beam and the resets do at once, each pixel is
\* that of the cell under the beam in the palette's colours at that moment,
\* except for one pixel when a write meets the reading of its word; writing a
\* byte changes one cell, and setting a colour disturbs no other.
ImplementsTextScreen == Screen!Spec
=============================================================================
