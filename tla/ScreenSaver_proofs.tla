------------------------- MODULE ScreenSaver_proofs -------------------------
(***************************************************************************)
(* Proofs about the timing generator, for every frame, picture and pulse   *)
(* the assumptions allow, and about the driver and the text interface      *)
(* together, for every size of screen, frame, palette and font.            *)
(***************************************************************************)
EXTENDS ScreenSaver, SequenceTheorems, TLAPS

-----------------------------------------------------------------------------
(* The timing generator alone. *)

\* What the assumptions say, one by one.
LEMMA Timing ==
    /\ hpixels \in Nat /\ vlines \in Nat /\ hdisplay \in Nat /\ vdisplay \in Nat
    /\ hsync \in Nat /\ hsyncEnd \in Nat /\ vsync \in Nat
    /\ 0 < hdisplay /\ hdisplay <= hsync /\ hsync < hsyncEnd /\ hsyncEnd <= hpixels
    /\ 0 < vdisplay /\ vdisplay < vsync /\ vsync < vlines
  BY TimingAssumption

\* The position stays on the raster.
LEMMA TypeStep == TypeOK /\ [Next]_vgaVars => TypeOK'
  <1> SUFFICES ASSUME TypeOK, [Next]_vgaVars PROVE TypeOK'
    OBVIOUS
  <1> USE Timing DEF TypeOK
  <1>1. CASE ClkEdge
    <2>1. hc' \in 0 .. hpixels /\ vc' \in 0 .. vlines
      BY <1>1 DEF ClkEdge, counter_proc
    <2>2. hs' \in BOOLEAN /\ vs' \in BOOLEAN
      BY <1>1 DEF ClkEdge, hsync_proc, vsync_proc
    <2>3. Reset' \in BOOLEAN /\ clkdiv' \in BOOLEAN
      BY <1>1 DEF ClkEdge
    <2> QED BY <2>1, <2>2, <2>3
  <1>2. CASE AssertReset
    <2>1. hc' \in 0 .. hpixels /\ vc' \in 0 .. vlines
      BY <1>2 DEF AssertReset
    <2>2. /\ Reset' \in BOOLEAN /\ clkdiv' \in BOOLEAN
          /\ hs' \in BOOLEAN /\ vs' \in BOOLEAN
      BY <1>2 DEF AssertReset
    <2> QED BY <2>1, <2>2
  <1>3. CASE ReleaseReset
    BY <1>3 DEF ReleaseReset
  <1>4. CASE UNCHANGED vgaVars
    BY <1>4 DEF vgaVars
  <1> QED BY <1>1, <1>2, <1>3, <1>4 DEF Next

\* The position is on the raster at power-up.
LEMMA TypeInit == Init => TypeOK
  <1> SUFFICES ASSUME Init PROVE TypeOK
    OBVIOUS
  <1>1. hc \in 0 .. hpixels /\ vc \in 0 .. vlines
    BY Timing DEF Init
  <1>2. /\ Reset \in BOOLEAN /\ clkdiv \in BOOLEAN
        /\ hs \in BOOLEAN /\ vs \in BOOLEAN
    BY DEF Init
  <1> QED BY <1>1, <1>2 DEF TypeOK

\* The two counters never leave the frame.
THEOREM PositionOnRaster == Spec => []TypeOK
  BY TypeInit, TypeStep, PTL DEF Spec

-----------------------------------------------------------------------------
(* The sync pulses. *)

\* Every step keeps the pulses where PulsePositions has them.
LEMMA PulseStep == TypeOK /\ PulsePositions /\ [Next]_vgaVars => PulsePositions'
  <1> SUFFICES ASSUME TypeOK, PulsePositions, [Next]_vgaVars PROVE PulsePositions'
    OBVIOUS
  <1> USE Timing DEF TypeOK, PulsePositions
  <1>1. CASE ClkEdge /\ clkdiv
    BY <1>1 DEF ClkEdge
  <1>2. CASE ClkEdge /\ ~clkdiv
    <2>1. counter_proc /\ hsync_proc /\ vsync_proc
      BY <1>2 DEF ClkEdge
    <2>2. /\ ~hs' => hsync <= hc + 1 /\ hc + 1 < hsyncEnd
          /\ ~vs' => vc + 1 = vsync \/ vc + 1 = vsync + 1
      BY <2>1 DEF hsync_proc, vsync_proc
    <2>3. CASE hc = hpixels
      BY <2>1, <2>2, <2>3 DEF counter_proc
    <2>4. CASE hc # hpixels
      BY <2>1, <2>2, <2>4 DEF counter_proc
    <2> QED BY <2>3, <2>4
  <1>3. CASE AssertReset
    BY <1>3 DEF AssertReset
  <1>4. CASE ReleaseReset
    BY <1>4 DEF ReleaseReset
  <1>5. CASE UNCHANGED vgaVars
    BY <1>5 DEF vgaVars
  <1> QED BY <1>1, <1>2, <1>3, <1>4, <1>5 DEF Next

\* They start there.
LEMMA PulseInit == Init => PulsePositions
  BY DEF Init, PulsePositions

\* Where they are there is no picture.
LEMMA PulseBlank == TypeOK /\ PulsePositions => BlankDuringSync
  BY Timing DEF TypeOK, PulsePositions, BlankDuringSync, display

\* No pixel of the picture is drawn during a sync pulse, but for the first
\* one after a reset.
THEOREM AlwaysBlankDuringSync == Spec => []BlankDuringSync
  BY PulseInit, PulseBlank, PulseStep, TypeInit, TypeStep, PTL DEF Spec

-----------------------------------------------------------------------------
(* The refinement. *)

\* The two counters and the number of the pixel determine one another.
LEMMA PixelNumber ==
    ASSUME NEW C \in Nat \ {0}, NEW v \in Nat, NEW h \in 0 .. C - 1
    PROVE  /\ v * C + h \in Nat
           /\ (v * C + h) % C = h
           /\ (v * C + h) \div C = v
  OBVIOUS

\* The pixels of line v and those of the lines before it.
LEMMA LinesInOrder ==
    ASSUME NEW C \in Nat \ {0}, NEW v \in Nat, NEW h \in 0 .. C - 1, NEW a \in Nat
    PROVE  /\ a * C <= v * C + h <=> a <= v
           /\ v * C + h < a * C <=> v < a
  <1>1. CASE a <= v
    <2>1. (v - a) * C >= 0
      BY <1>1
    <2>2. (v - a) * C = v * C - a * C
      OBVIOUS
    <2> QED BY <1>1, <2>1, <2>2
  <1>2. CASE v < a
    <2>1. (a - v - 1) * C >= 0
      BY <1>2
    <2>2. (a - v - 1) * C = a * C - v * C - C
      OBVIOUS
    <2> QED BY <1>2, <2>1, <2>2
  <1> QED BY <1>1, <1>2

\* Remainders at both ends of a frame.
LEMMA Remainder ==
    ASSUME NEW k \in Nat \ {0}, NEW m \in Nat
    PROVE  /\ m < k => m % k = m
           /\ k % k = 0
  OBVIOUS

\* The step of the two counters is the step of the pixel's number.
LEMMA NextPixel ==
    ASSUME NEW C \in Nat \ {0}, NEW L \in Nat \ {0},
           NEW v \in 0 .. L - 1, NEW h \in 0 .. C - 1
    PROVE  /\ h # C - 1 => v * C + h + 1 = (v * C + h + 1) % (C * L)
           /\ h = C - 1 /\ v # L - 1 => (v + 1) * C = (v * C + h + 1) % (C * L)
           /\ h = C - 1 /\ v = L - 1 => 0 = (v * C + h + 1) % (C * L)
  <1> DEFINE k == C * L
             m == v * C + h + 1
  <1>1. k \in Nat \ {0} /\ m \in Nat
    OBVIOUS
  <1>2. L * C = k
    OBVIOUS
  <1>3. CASE h # C - 1
    <2>1. v * C + (h + 1) < L * C
      BY <1>3, LinesInOrder
    <2>2. m < k
      BY <1>2, <2>1
    <2> HIDE DEF k, m
    <2>3. m % k = m
      BY <1>1, <2>2, Remainder
    <2> QED BY <1>3, <2>3 DEF k, m
  <1>4. CASE h = C - 1 /\ v # L - 1
    <2>1. m = (v + 1) * C + 0
      BY <1>4
    <2>2. (v + 1) * C + 0 < L * C
      BY <1>4, LinesInOrder
    <2>3. m < k
      BY <1>2, <2>1, <2>2
    <2> HIDE DEF k, m
    <2>4. m % k = m
      BY <1>1, <2>3, Remainder
    <2>5. (v + 1) * C \in Nat
      OBVIOUS
    <2> QED BY <1>4, <2>1, <2>4, <2>5 DEF k, m
  <1>5. CASE h = C - 1 /\ v = L - 1
    <2>1. m = k
      BY <1>5
    <2> HIDE DEF k, m
    <2>2. m % k = 0
      BY <1>1, <2>1, Remainder
    <2> QED BY <1>5, <2>2 DEF k, m
  <1> QED BY <1>3, <1>4, <1>5

\* The two lines that follow line s - 1, counted from their second pixel.
LEMMA PulseLines ==
    ASSUME NEW C \in Nat \ {0}, NEW v \in Nat, NEW h \in 0 .. C - 1, NEW s \in Nat \ {0}
    PROVE  v * C + h + 1 \in (s - 1) * C + 1 .. (s - 1) * C + 1 + 2 * C - 1
             <=> v = s - 1 \/ v = s
  <1>1. /\ (s - 1) * C <= v * C + h <=> s - 1 <= v
        /\ v * C + h < (s + 1) * C <=> v < s + 1
    BY LinesInOrder
  <1>2. (s + 1) * C = (s - 1) * C + 2 * C
    OBVIOUS
  <1>3. (s - 1) * C \in Nat /\ v * C \in Nat
    OBVIOUS
  <1> QED BY <1>1, <1>2, <1>3

\* A rising edge of the pixel clock is the next pixel of the frame.
LEMMA PixelEdge ==
    ASSUME TypeOK, ClkEdge, ~clkdiv
    PROVE  Raster!Pixel
  <1> DEFINE C == hpixels + 1
             L == vlines + 1
             N == vc * C + hc
             first == (vsync - 1) * C + 1
  <1>1. counter_proc /\ hsync_proc /\ vsync_proc /\ ~Reset /\ Reset' = Reset
    BY DEF ClkEdge
  <1>2. /\ C \in Nat \ {0} /\ L \in Nat \ {0}
        /\ vc \in 0 .. L - 1 /\ hc \in 0 .. C - 1
        /\ vc' \in 0 .. L - 1 /\ hc' \in 0 .. C - 1
    BY <1>1, Timing DEF TypeOK, counter_proc
  <1>3. \/ hc # C - 1 /\ hc' = hc + 1 /\ vc' = vc
        \/ hc = C - 1 /\ vc # L - 1 /\ hc' = 0 /\ vc' = vc + 1
        \/ hc = C - 1 /\ vc = L - 1 /\ hc' = 0 /\ vc' = 0
    BY <1>1, Timing DEF TypeOK, counter_proc
  <1>4. vc' * C + hc' = (vc * C + hc + 1) % (C * L)
    <2> HIDE DEF C, L
    <2>1. /\ hc # C - 1 => vc * C + hc + 1 = (vc * C + hc + 1) % (C * L)
          /\ hc = C - 1 /\ vc # L - 1 => (vc + 1) * C = (vc * C + hc + 1) % (C * L)
          /\ hc = C - 1 /\ vc = L - 1 => 0 = (vc * C + hc + 1) % (C * L)
      BY <1>2, NextPixel
    <2>2. vc * C \in Nat /\ (vc + 1) * C \in Nat
      BY <1>2
    <2>3. CASE hc # C - 1 /\ hc' = hc + 1 /\ vc' = vc
      <3>1. vc' * C + hc' = vc * C + hc + 1
        BY <1>2, <2>2, <2>3
      <3> QED BY <2>1, <2>3, <3>1
    <2>4. CASE hc = C - 1 /\ vc # L - 1 /\ hc' = 0 /\ vc' = vc + 1
      <3>1. vc' * C + hc' = (vc + 1) * C
        BY <2>2, <2>4
      <3> QED BY <2>1, <2>4, <3>1
    <2>5. CASE hc = C - 1 /\ vc = L - 1 /\ hc' = 0 /\ vc' = 0
      <3>1. vc' * C + hc' = 0
        BY <1>2, <2>5
      <3> QED BY <2>1, <2>5, <3>1
    <2> QED BY <1>3, <2>3, <2>4, <2>5
  <1>5. (vc' * C + hc') % C = hc' /\ (vc' * C + hc') \div C = vc'
    <2>1. vc' \in Nat
      BY <1>2
    <2> HIDE DEF C, L
    <2> QED BY <1>2, <2>1, PixelNumber
  <1>6. hs' = (hc' \notin hsync .. hsyncEnd - 1)
    <2>1. (hsync <= hc + 1 /\ hc + 1 < hsyncEnd) <=> hc' \in hsync .. hsyncEnd - 1
      BY <1>2, <1>3, Timing
    <2> QED BY <1>1, <2>1, Zenon DEF hsync_proc
  <1>7. vs' = ~(vc' * C + hc' \in first .. first + 2 * C - 1)
    <2>1. (vc + 1 = vsync \/ vc + 1 = vsync + 1)
            <=> vc' * C + hc' \in first .. first + 2 * C - 1
      <3>1. vsync \in Nat \ {0} /\ vsync < L - 1
        BY Timing
      <3>2. (vsync - 1) * C \in Nat /\ vc * C \in Nat /\ vc \in Nat
        BY <1>2, <3>1
      <3>3. vc * C + hc + 1 \in first .. first + 2 * C - 1
              <=> vc = vsync - 1 \/ vc = vsync
        <4> HIDE DEF C, L
        <4> QED BY <1>2, <3>1, <3>2, PulseLines DEF first
      <3>4. CASE vc' * C + hc' = vc * C + hc + 1
        BY <3>1, <3>2, <3>3, <3>4
      <3>5. CASE hc = C - 1 /\ vc # L - 1 /\ hc' = 0 /\ vc' = vc + 1
        <4>1. vc' * C + hc' = vc * C + hc + 1
          BY <1>2, <3>5
        <4> QED BY <3>4, <4>1
      <3>6. CASE hc = C - 1 /\ vc = L - 1 /\ hc' = 0 /\ vc' = 0
        <4>1. vc' * C + hc' = 0
          BY <1>2, <3>6
        <4> QED BY <3>1, <3>2, <3>6, <4>1
      <3>7. CASE hc # C - 1 /\ hc' = hc + 1 /\ vc' = vc
        <4>1. vc' * C + hc' = vc * C + hc + 1
          BY <1>2, <3>2, <3>7
        <4> QED BY <3>4, <4>1
      <3> QED BY <1>3, <3>5, <3>6, <3>7
    <2> QED BY <1>1, <2>1, Zenon DEF vsync_proc
  <1>8. display' = (hc' < hdisplay /\ vc' < vdisplay)
    BY DEF display
  <1>9. N' = (N + 1) % (C * L)
    BY <1>4
  <1> QED BY <1>1, <1>5, <1>6, <1>7, <1>8, <1>9
          DEF Raster!Pixel, Raster!Column, Raster!Line, Raster!Visible,
              Raster!Pulsing, DrawX, DrawY

\* Every step is a step of the raster or invisible to it.
LEMMA RasterStep == TypeOK /\ [Next]_vgaVars => [Raster!Next]_Raster!rasterVars
  <1> SUFFICES ASSUME TypeOK, [Next]_vgaVars PROVE [Raster!Next]_Raster!rasterVars
    OBVIOUS
  <1>1. CASE ClkEdge /\ clkdiv
    BY <1>1 DEF ClkEdge, Raster!rasterVars, DrawX, DrawY, display
  <1>2. CASE ClkEdge /\ ~clkdiv
    BY <1>2, PixelEdge DEF Raster!Next
  <1>3. CASE AssertReset
    <2>1. 0 * (hpixels + 1) + 0 = 0
      BY Timing
    <2>2. Raster!Visible(0) /\ display'
      BY <1>3, Timing DEF Raster!Visible, Raster!Column, Raster!Line, AssertReset, display
    <2>3. Raster!TurnOff
      BY <1>3, <2>1, <2>2 DEF Raster!TurnOff, AssertReset, DrawX, DrawY
    <2> QED BY <2>3 DEF Raster!Next
  <1>4. CASE ReleaseReset
    <2>1. Raster!TurnOn
      BY <1>4 DEF Raster!TurnOn, ReleaseReset, DrawX, DrawY, display
    <2> QED BY <2>1 DEF Raster!Next
  <1>5. CASE UNCHANGED vgaVars
    BY <1>5 DEF vgaVars, Raster!rasterVars, DrawX, DrawY, display
  <1> QED BY <1>1, <1>2, <1>3, <1>4, <1>5 DEF Next

\* It starts at the corner of the picture.
LEMMA RasterInit == Init => Raster!Init
  <1> SUFFICES ASSUME Init PROVE Raster!Init
    OBVIOUS
  <1>1. 0 * (hpixels + 1) + 0 = 0
    BY Timing
  <1>2. Raster!Visible(0) /\ display
    BY Timing DEF Init, Raster!Visible, Raster!Column, Raster!Line, display
  <1> QED BY <1>1, <1>2 DEF Init, Raster!Init, DrawX, DrawY

\* For every frame and picture size and every place of the pulses, the
\* generator never shows a pixel or a pulse that the raster does not have at
\* that step.
THEOREM AlwaysOnRaster == Spec => RasterSafety
  BY RasterInit, RasterStep, TypeInit, TypeStep, PTL DEF Spec, RasterSafety

-----------------------------------------------------------------------------
(* The inductive invariants. *)

Numbers == {n \in Nat : n <= 4294967295}    \* of 32 bits
Rgb == 0 .. 4095
Codes == 1 .. 127
Addresses == 0 .. PaletteBase + Registers - 1
RegisterNumbers == 0 .. Registers - 1
Bytes == 0 .. 2 * (ROWS * COLUMNS) - 1

\* What the memories hold once a bus cycle is over.
MemoryAfter(m, cycle) ==
    IF cycle.op = "write"
    THEN [m EXCEPT ![cycle.addr] = [k \in Lane |-> IF k \in cycle.lanes THEN cycle.data[k] ELSE @[k]]]
    ELSE m
RegistersAfter(r, cycle) ==
    IF cycle.op = "write" /\ cycle.addr >= PaletteBase
    THEN [r EXCEPT ![cycle.addr % Registers] = cycle.data]
    ELSE r
Memory == MemoryAfter(mem, avl)
FinalRegisters == RegistersAfter(color_registers, avl)

Setting == {"and_read", "and_write", "add_read", "add_write"}
Drawing == {"roll", "draw", "sleep"}

Cycles == [op : {"idle", "read", "wait", "write"}, addr : Addresses,
           lanes : SUBSET Lane, data : Word]

Types ==
    /\ avl \in Cycles
    /\ {AVL_READDATA, READ_A, READ_B} \subseteq Word
    /\ color_registers \in [RegisterNumbers -> Word]
    /\ mem \in [Addresses -> Word]
    /\ pc \in {"clear"} \cup Setting \cup Drawing
    /\ i \in Nat /\ val \in Numbers

\* The loop counter is inside its loop.
LoopInv ==
    /\ pc = "clear" => i \in Bytes
    /\ pc \in Setting => i \in ColorNumbers
    /\ pc \in {"roll", "sleep"} => i = 0
    /\ pc = "draw" => i <= 2 * Len(text.string)

\* What the bus cycle under way is for.
BusInv ==
    /\ AVL_READ => pc \in {"and_write", "add_write"} /\ avl.addr = PaletteWord
    /\ avl.op = "wait" => AVL_READDATA = color_registers[i \div 2]
    /\ pc \in {"and_write", "add_write"} =>
        avl.op # "write" /\ (avl.op = "idle" => val = Number(color_registers[i \div 2]))
    /\ pc = "sleep" => avl.op = "idle"
    /\ pc = "draw" /\ AVL_WRITE => ~High

\* The colours below n are set.
ColoursSet(n) == \A k \in 0 .. n - 1 : PaletteColour(FinalRegisters, k) = colors[k + 1]

\* The field of colour k has been masked.
Masked(k, v) == IF k % 2 = 0 THEN v % 8192 = 0 ELSE v < 8192

PaletteInv ==
    /\ pc \in Setting => ColoursSet(i)
    /\ pc \in {"add_read", "add_write"} => Masked(i, Number(FinalRegisters[i \div 2]))
    /\ pc \in Drawing => ColoursSet(NumColors)

\* Byte b of the text.
ByteAt(m, b) == m[b \div 4][b % 4]

\* The attributes of two different colours.
Contrasts == {16 * f + b : f, b \in ColorNumbers} \ {17 * f : f \in ColorNumbers}

Readable(m) == \A c \in Cells : ByteAt(m, 2 * c + 1) # 0 => ByteAt(m, 2 * c) \in Contrasts

IsText ==
    /\ text.string \in Seq(Codes)
    /\ text.fg \in ColorNumbers /\ text.bg \in ColorNumbers /\ text.fg # text.bg
    /\ text.x \in Nat /\ text.y \in 0 .. ROWS - 1 /\ text.x + Len(text.string) <= COLUMNS

TextInv ==
    /\ pc = "clear" => \A b \in 0 .. i - 1 : ByteAt(Memory, b) = 0
    /\ pc \in Setting => \A b \in Bytes : ByteAt(Memory, b) = 0
    /\ pc \in Drawing => Readable(mem) /\ Readable(Memory)
    /\ pc \in {"draw", "sleep"} => IsText
    /\ pc = "draw" => \A k \in 0 .. i - 1 : ByteAt(Memory, DrawnByte(k)) = DrawnValue(k)
    /\ pc = "sleep" => \A k \in 0 .. 2 * Len(text.string) - 1 : ByteAt(Memory, DrawnByte(k)) = DrawnValue(k)

\* Nothing reads an attribute without colours.
ColouredInv ==
    /\ HasColours(READ_B[0]) /\ HasColours(READ_B[2])
    /\ \A a \in 0 .. PaletteBase - 1 : HasColours(mem[a][0]) /\ HasColours(mem[a][2])

\* A write changes one byte of a cell, or one colour and to black or for good.
WriteInv ==
    AVL_WRITE =>
        \/ \E b \in Bytes, v \in Byte : avl = ByteWrite(b, v) /\ (b % 2 = 0 => HasColours(v))
        \/ /\ High
           /\ \E k \in ColorNumbers :
                /\ PaletteColour(FinalRegisters, k) \in {0, colors[k + 1]}
                /\ \A j \in ColorNumbers \ {k} :
                    PaletteColour(FinalRegisters, j) = PaletteColour(color_registers, j)

SaverInv == Types /\ LoopInv /\ BusInv /\ PaletteInv /\ TextInv /\ ColouredInv /\ WriteInv
-----------------------------------------------------------------------------
(* Constants and numbers. *)

\* What the assumptions say, one by one.
LEMMA Sizes ==
    /\ COLUMNS \in Nat \ {0} /\ ROWS \in Nat \ {0}
    /\ glyphWidth \in Nat \ {0} /\ glyphHeight \in Nat \ {0}
    /\ hdisplay = COLUMNS * glyphWidth /\ vdisplay = ROWS * glyphHeight
    /\ PaletteBase \in Nat \ {0} /\ Registers \in Nat \ {0} /\ PaletteBase % Registers = 0
    /\ NumColors = 2 * Registers /\ NumColors <= 16
    /\ DontCare \subseteq Word
  BY ScreenAssumption, DriverAssumption

\* Division is monotonic, and the inverse of multiplication.
LEMMA Quotients ==
    ASSUME NEW d \in Nat \ {0}, NEW q \in Nat, NEW m \in Nat, q * d <= m
    PROVE  m \div d \in Nat /\ q <= m \div d
  <1> DEFINE p == m \div d
  <1>1. p \in Nat /\ m < (p + 1) * d
    OBVIOUS
  <1> HIDE DEF p
  <1>2. q * d < (p + 1) * d
    BY <1>1
  <1>3. CASE q > p
    <2>1. (q - p - 1) * d >= 0
      BY <1>1, <1>3
    <2>2. (q - p - 1) * d = q * d - (p + 1) * d
      BY <1>1
    <2> QED BY <1>1, <1>2, <2>1, <2>2
  <1> QED BY <1>1, <1>3 DEF p

\* The text lies below the palette.
LEMMA TextBelowPalette ==
    /\ ROWS * COLUMNS \in Nat \ {0} /\ ROWS * COLUMNS < 2 * PaletteBase
    /\ COLUMNS * ROWS = ROWS * COLUMNS
    /\ \A b \in Bytes : b \div 4 \in 0 .. PaletteBase - 1 /\ b % 4 \in Lane
  <1>1. ROWS <= vlines \div glyphHeight /\ vlines \div glyphHeight \in Nat
    <2>1. ROWS * glyphHeight <= vlines /\ vlines \in Nat
      BY Sizes, Timing
    <2> QED BY <2>1, Sizes, Quotients
  <1>2. hpixels \div glyphWidth \in Nat
    BY Sizes, Timing
  <1>3. ROWS * COLUMNS <= (vlines \div glyphHeight) * COLUMNS
    <2> DEFINE l == vlines \div glyphHeight
    <2>1. l \in Nat /\ l - ROWS >= 0
      BY <1>1, Sizes
    <2> HIDE DEF l
    <2>2. (l - ROWS) * COLUMNS >= 0
      BY <2>1, Sizes
    <2>3. (l - ROWS) * COLUMNS = l * COLUMNS - ROWS * COLUMNS
      BY <2>1, Sizes
    <2>4. ROWS * COLUMNS <= l * COLUMNS
      BY <2>1, <2>2, <2>3, Sizes
    <2> QED BY <2>4 DEF l
  <1>4. /\ ROWS * COLUMNS \in Nat \ {0}
        /\ (vlines \div glyphHeight) * COLUMNS \in Nat
        /\ COLUMNS * ROWS = ROWS * COLUMNS
    BY <1>1, Sizes
  <1>5. (vlines \div glyphHeight) * COLUMNS + hpixels \div glyphWidth < 2 * PaletteBase
    BY ScreenAssumption
  <1> DEFINE cells == ROWS * COLUMNS
             high == (vlines \div glyphHeight) * COLUMNS
  <1>6. cells \in Nat \ {0} /\ high \in Nat /\ cells <= high
    BY <1>3, <1>4
  <1>7. high + hpixels \div glyphWidth < 2 * PaletteBase
    BY <1>5
  <1> HIDE DEF cells, high
  <1>8. cells < 2 * PaletteBase
    BY <1>2, <1>6, <1>7, Sizes
  <1>9. \A b \in 0 .. 2 * cells - 1 : b \div 4 \in 0 .. PaletteBase - 1 /\ b % 4 \in Lane
    BY <1>6, <1>8, Sizes DEF Lane
  <1> QED BY <1>4, <1>8, <1>9 DEF cells, Bytes

\* A word and its four lanes.
LEMMA WordNumber ==
    ASSUME NEW w \in Word
    PROVE  Number(w) \in Numbers
  <1>1. /\ w[0] \in Nat /\ w[1] \in Nat /\ w[2] \in Nat /\ w[3] \in Nat
        /\ w[0] <= 255 /\ w[1] <= 255 /\ w[2] <= 255 /\ w[3] <= 255
    BY DEF Word, Lane, Byte
  <1> QED BY <1>1, SMT DEF Number, Numbers

\* A number of 32 bits and its four byte lanes determine each other.
LEMMA NumberLanes ==
    ASSUME NEW v \in Numbers
    PROVE  Lanes(v) \in Word /\ Number(Lanes(v)) = v
  <1>1. v \in Nat /\ v <= 4294967295
    BY SMT DEF Numbers
  <1>2. 256 ^ 0 = 1 /\ 256 ^ 1 = 256 /\ 256 ^ 2 = 65536 /\ 256 ^ 3 = 16777216
    BY SMT
  <1>3. /\ Lanes(v)[0] = v % 256
        /\ Lanes(v)[1] = (v \div 256) % 256
        /\ Lanes(v)[2] = (v \div 65536) % 256
        /\ Lanes(v)[3] = (v \div 16777216) % 256
    <2>1. 0 \in Lane /\ 1 \in Lane /\ 2 \in Lane /\ 3 \in Lane
      BY DEF Lane
    <2>2. \A k \in Lane : Lanes(v)[k] = (v \div 256 ^ k) % 256
      BY Zenon DEF Lanes
    <2>3. v \div 1 = v
      BY <1>1, SMT
    <2>4. /\ Lanes(v)[0] = (v \div 256 ^ 0) % 256
          /\ Lanes(v)[1] = (v \div 256 ^ 1) % 256
          /\ Lanes(v)[2] = (v \div 256 ^ 2) % 256
          /\ Lanes(v)[3] = (v \div 256 ^ 3) % 256
      BY <2>1, <2>2, Zenon
    <2> QED BY <1>2, <2>3, <2>4, SMTT(30)
  <1>4. Lanes(v) \in Word
    <2>1. \A q \in Nat : q % 256 \in Byte
      BY DEF Byte
    <2>2. \A q \in Nat : v \div 256 \in Nat /\ v \div 65536 \in Nat /\ v \div 16777216 \in Nat
      BY <1>1, SMT
    <2>3. \A k \in Lane : Lanes(v)[k] \in Byte
      BY <1>1, <1>3, <2>1, <2>2, SMT DEF Lane
    <2> QED BY <2>3, Zenon DEF Lanes, Word
  <1>5. v = (v % 256) + 256 * ((v \div 256) % 256) + 65536 * ((v \div 65536) % 256)
              + 16777216 * ((v \div 16777216) % 256)
    BY <1>1, SMT
  <1> QED BY <1>3, <1>4, <1>5, SMT DEF Number

\* The two fields of a register, masked and set.
Field(v, c) == (v \div (IF c % 2 = 0 THEN 2 ELSE 8192)) % 4096

\* The driver's mask clears the field of the colour and keeps the other colour
\* of the register.
LEMMA MaskClears ==
    ASSUME NEW v \in Numbers, NEW k \in Nat, NEW j \in Nat
    PROVE  /\ Mask(k, v) \in Numbers
           /\ Masked(k, Mask(k, v))
           /\ Field(Mask(k, v), k) = 0
           /\ j % 2 # k % 2 => Field(Mask(k, v), j) = Field(v, j)
  <1> DEFINE q == v \div 8192
             r == v % 8192
  <1>1. v \in Nat /\ v <= 4294967295
    BY SMT DEF Numbers
  <1>2. v = 8192 * q + r /\ q \in Nat /\ r \in Nat /\ r < 8192
    BY <1>1, SMT
  <1> HIDE DEF q, r
  <1>3. CASE k % 2 = 0
    <2>1. v - r \in Numbers /\ (v - r) % 8192 = 0
      BY <1>1, <1>2, SMT DEF Numbers
    <2>2. ((v - r) \div 2) % 4096 = 0 /\ (v - r) \div 8192 = q
      <3>1. v - r = 2 * (4096 * q) /\ v - r = 8192 * q
        BY <1>1, <1>2, SMT
      <3> QED BY <1>2, <3>1, SMT
    <2> QED BY <1>3, <2>1, <2>2, SMT DEF Mask, Masked, Field, q, r
  <1>4. CASE k % 2 # 0
    <2>1. r \in Numbers
      BY <1>2, SMT DEF Numbers
    <2>2. r \div 8192 = 0 /\ (r \div 2) % 4096 = (v \div 2) % 4096
      BY <1>2, SMT
    <2> QED BY <1>2, <1>4, <2>1, <2>2, SMT DEF Mask, Masked, Field, r
  <1> QED BY <1>3, <1>4

\* Adding the shifted colour to a cleared field sets it, without a carry into
\* the other field.
LEMMA AddSets ==
    ASSUME NEW v \in Numbers, NEW k \in Nat, NEW j \in Nat, NEW rgb \in Rgb,
           Masked(k, v)
    PROVE  /\ v + Shifted(k, rgb) \in Numbers
           /\ Field(v + Shifted(k, rgb), k) = rgb
           /\ j % 2 # k % 2 => Field(v + Shifted(k, rgb), j) = Field(v, j)
  <1>1. v \in Nat /\ v <= 4294967295 /\ rgb \in Nat /\ rgb <= 4095
    BY SMT DEF Numbers, Rgb
  <1>2. CASE k % 2 = 0
    <2> DEFINE q == v \div 8192
    <2>1. v = 8192 * q /\ q \in Nat /\ v <= 4294959104
      BY <1>1, <1>2, SMT DEF Masked
    <2> HIDE DEF q
    <2>2. v + 2 * rgb \in Numbers
      BY <1>1, <2>1, SMT DEF Numbers
    <2>3. (v + 2 * rgb) \div 8192 = q
      BY <1>1, <2>1, SMT
    <2>4. ((v + 2 * rgb) \div 2) % 4096 = rgb
      <3>1. v + 2 * rgb = 2 * (4096 * q + rgb)
        BY <1>1, <2>1, SMT
      <3>2. (v + 2 * rgb) \div 2 = 4096 * q + rgb
        BY <1>1, <2>1, <3>1, SMT
      <3> QED BY <1>1, <2>1, <3>2, SMT
    <2> QED BY <1>1, <1>2, <2>2, <2>3, <2>4, SMT DEF Shifted, Field, q
  <1>3. CASE k % 2 # 0
    <2>1. v < 8192
      BY <1>3 DEF Masked
    <2>2. v + 8192 * rgb \in Numbers
      BY <1>1, <2>1, SMT DEF Numbers
    <2>3. ((v + 8192 * rgb) \div 8192) % 4096 = rgb
      BY <1>1, <2>1, SMT
    <2>4. ((v + 8192 * rgb) \div 2) % 4096 = (v \div 2) % 4096
      BY <1>1, <2>1, SMT
    <2>5. rgb * 8192 = 8192 * rgb
      BY <1>1
    <2> QED BY <1>3, <2>2, <2>3, <2>4, <2>5, SMT DEF Shifted, Field
  <1> QED BY <1>2, <1>3

-----------------------------------------------------------------------------
(* Bus cycles. *)

\* The cycles the driver issues are cycles.
LEMMA CycleTypes ==
    /\ Idle \in Cycles
    /\ \A b \in Bytes, v \in Byte : ByteWrite(b, v) \in Cycles
    /\ \A r \in RegisterNumbers : ReadOf(PaletteBase + r) \in Cycles
    /\ \A r \in RegisterNumbers, w \in Word : WordWrite(PaletteBase + r, w) \in Cycles
  <1>1. Blank \in Word
    BY DEF Blank, Word, Byte
  <1>2. 0 \in Addresses /\ \A r \in RegisterNumbers : PaletteBase + r \in Addresses
    BY Sizes DEF Addresses, RegisterNumbers
  <1>3. \A b \in Bytes : b \div 4 \in Addresses /\ b % 4 \in Lane
    BY Sizes, TextBelowPalette DEF Addresses
  <1>4. \A v \in Byte : [k \in Lane |-> v] \in Word
    BY DEF Word
  <1>5. Idle \in Cycles
    BY <1>1, <1>2 DEF Idle, Cycles
  <1>6. \A b \in Bytes, v \in Byte : ByteWrite(b, v) \in Cycles
    BY <1>3, <1>4 DEF ByteWrite, Cycles
  <1>7. \A r \in RegisterNumbers : ReadOf(PaletteBase + r) \in Cycles
    BY <1>1, <1>2 DEF ReadOf, Cycles
  <1>8. \A r \in RegisterNumbers, w \in Word : WordWrite(PaletteBase + r, w) \in Cycles
    BY <1>2 DEF WordWrite, Cycles
  <1> QED BY <1>5, <1>6, <1>7, <1>8

\* The memories hold words after every cycle.
LEMMA WordsAfter ==
    ASSUME NEW m \in [Addresses -> Word], NEW r \in [RegisterNumbers -> Word], NEW cycle \in Cycles
    PROVE  /\ MemoryAfter(m, cycle) \in [Addresses -> Word]
           /\ RegistersAfter(r, cycle) \in [RegisterNumbers -> Word]
  <1>1. cycle.addr \in Addresses /\ cycle.data \in Word /\ cycle.addr % Registers \in RegisterNumbers
    BY Sizes DEF Cycles, Addresses, RegisterNumbers
  <1> DEFINE w == [k \in Lane |-> IF k \in cycle.lanes THEN cycle.data[k] ELSE m[cycle.addr][k]]
  <1>2. w \in Word
    BY <1>1 DEF Word
  <1>3. MemoryAfter(m, cycle) = IF cycle.op = "write" THEN [m EXCEPT ![cycle.addr] = w] ELSE m
    BY <1>1 DEF MemoryAfter
  <1> HIDE DEF w
  <1>4. MemoryAfter(m, cycle) \in [Addresses -> Word]
    BY <1>1, <1>2, <1>3
  <1>5. RegistersAfter(r, cycle) \in [RegisterNumbers -> Word]
    BY <1>1 DEF RegistersAfter
  <1> QED BY <1>4, <1>5

\* A byte written into the text is that byte, and nothing else changes.
LEMMA ByteWritten ==
    ASSUME NEW m \in [Addresses -> Word], NEW b \in Bytes, NEW v \in Byte
    PROVE  /\ ByteAt(MemoryAfter(m, ByteWrite(b, v)), b) = v
           /\ \A c \in Bytes \ {b} : ByteAt(MemoryAfter(m, ByteWrite(b, v)), c) = ByteAt(m, c)
           /\ \A a \in Addresses, k \in Lane :
                MemoryAfter(m, ByteWrite(b, v))[a][k] = IF a = b \div 4 /\ k = b % 4 THEN v ELSE m[a][k]
  <1> DEFINE n == MemoryAfter(m, ByteWrite(b, v))
             w == [k \in Lane |-> IF k \in {b % 4} THEN [l \in Lane |-> v][k] ELSE m[b \div 4][k]]
  <1>1. /\ b \div 4 \in Addresses /\ b % 4 \in Lane
        /\ \A c \in Bytes : c \div 4 \in Addresses /\ c % 4 \in Lane
    BY Sizes, TextBelowPalette DEF Addresses
  <1>2. n = [m EXCEPT ![b \div 4] = w]
    BY DEF MemoryAfter, ByteWrite
  <1>3. \A k \in Lane : w[k] = IF k = b % 4 THEN v ELSE m[b \div 4][k]
    OBVIOUS
  <1> HIDE DEF w, n
  <1>4. \A a \in Addresses, k \in Lane : n[a][k] = IF a = b \div 4 /\ k = b % 4 THEN v ELSE m[a][k]
    BY <1>1, <1>2, <1>3
  <1>5. \A c \in Bytes \ {b} : c \div 4 # b \div 4 \/ c % 4 # b % 4
    <2>1. \A c \in Bytes : c = 4 * (c \div 4) + (c % 4)
      BY Sizes, TextBelowPalette DEF Bytes
    <2> QED BY <2>1 DEF Bytes
  <1>6. ByteAt(n, b) = v /\ \A c \in Bytes \ {b} : ByteAt(n, c) = ByteAt(m, c)
    BY <1>1, <1>4, <1>5 DEF ByteAt
  <1> QED BY <1>4, <1>6 DEF n

\* The palette does not change with it.
LEMMA RegistersKept ==
    ASSUME NEW r, NEW b \in Bytes, NEW v
    PROVE  RegistersAfter(r, ByteWrite(b, v)) = r
  <1>1. b \div 4 < PaletteBase /\ b \div 4 \in Nat
    BY Sizes, TextBelowPalette
  <1> QED BY <1>1, Sizes DEF RegistersAfter, ByteWrite

\* A word written to the palette is that register's, and the text does not change.
LEMMA RegisterWritten ==
    ASSUME NEW m \in [Addresses -> Word], NEW r, NEW q \in RegisterNumbers, NEW w \in Word
    PROVE  /\ (PaletteBase + q) % Registers = q
           /\ RegistersAfter(r, WordWrite(PaletteBase + q, w)) = [r EXCEPT ![q] = w]
           /\ \A a \in 0 .. PaletteBase - 1 : MemoryAfter(m, WordWrite(PaletteBase + q, w))[a] = m[a]
           /\ \A b \in Bytes : ByteAt(MemoryAfter(m, WordWrite(PaletteBase + q, w)), b) = ByteAt(m, b)
  <1> DEFINE p == PaletteBase \div Registers
  <1>1. PaletteBase = Registers * p /\ p \in Nat
    BY Sizes
  <1> HIDE DEF p
  <1>2. (PaletteBase + q) % Registers = q
    <2>1. Registers \in Nat \ {0} /\ q \in 0 .. Registers - 1
      BY Sizes DEF RegisterNumbers
    <2>2. (Registers * p + q) % Registers = q
      BY <1>1, <2>1
    <2> QED BY <1>1, <2>2
  <1>3. RegistersAfter(r, WordWrite(PaletteBase + q, w)) = [r EXCEPT ![q] = w]
    <2> DEFINE cycle == WordWrite(PaletteBase + q, w)
    <2>1. cycle.op = "write" /\ cycle.addr = PaletteBase + q /\ cycle.data = w
      BY DEF WordWrite
    <2>2. PaletteBase + q >= PaletteBase
      BY Sizes DEF RegisterNumbers
    <2> HIDE DEF cycle
    <2>3. RegistersAfter(r, cycle) = [r EXCEPT ![q] = w]
      BY <1>2, <2>1, <2>2 DEF RegistersAfter
    <2> QED BY <2>3 DEF cycle
  <1>4. \A a \in 0 .. PaletteBase - 1 : a \in Addresses /\ a # PaletteBase + q
    BY Sizes DEF Addresses, RegisterNumbers
  <1>5. \A a \in 0 .. PaletteBase - 1 : MemoryAfter(m, WordWrite(PaletteBase + q, w))[a] = m[a]
    BY <1>4 DEF MemoryAfter, WordWrite
  <1> QED BY <1>2, <1>3, <1>5, TextBelowPalette DEF ByteAt

\* The register of a colour.
LEMMA ColourRegister ==
    /\ \A k \in ColorNumbers : k \in Nat /\ k \div 2 \in RegisterNumbers
    /\ \A addr \in Addresses : addr % Registers \in RegisterNumbers
    /\ NumColors \in Nat
  BY Sizes DEF ColorNumbers, RegisterNumbers, Addresses

\* Every colour has a value.
LEMMA ColourValues == \A k \in ColorNumbers : colors[k + 1] \in Rgb
  <1>1. colors \in Seq(Rgb) /\ Len(colors) \in Nat
    BY DriverAssumption DEF Rgb
  <1>2. \A n \in 1 .. Len(colors) : colors[n] \in Rgb
    BY <1>1
  <1>3. \A k \in ColorNumbers : k + 1 \in 1 .. Len(colors)
    BY <1>1 DEF ColorNumbers, NumColors
  <1> QED BY <1>2, <1>3

\* The word under the beam is below the palette.
LEMMA WordUnderBeam ==
    ASSUME TypeOK
    PROVE  row_major_index \in Nat /\ row_major_address \in 0 .. PaletteBase - 1
  <1>1. vc \div glyphHeight \in Nat /\ hc \div glyphWidth \in Nat
    BY Sizes, Timing DEF TypeOK
  <1> DEFINE line == vc \div glyphHeight
             column == hc \div glyphWidth
  <1>2. row_major_index = line * COLUMNS + column
    BY DEF row_major_index, DrawX, DrawY
  <1>3. line \in Nat /\ column \in Nat
    BY <1>1
  <1> HIDE DEF line, column
  <1>4. row_major_index \in Nat
    BY <1>2, <1>3, Sizes
  <1> QED BY <1>4, Sizes DEF row_major_address

\* A clock edge ends a write and leaves what is to come as it was.
LEMMA Clocked ==
    ASSUME Types, Clock
    PROVE  /\ mem' = Memory /\ color_registers' = FinalRegisters
           /\ Memory' = Memory /\ FinalRegisters' = FinalRegisters
           /\ avl' = NextCycle /\ ~AVL_WRITE' /\ UNCHANGED <<pc, i, text>>
           /\ mem' \in [Addresses -> Word] /\ color_registers' \in [RegisterNumbers -> Word]
  <1>1. mem' = Memory
    BY DEF Clock, Interface_Clock, ONCHIPMEM_Clock, Memory, MemoryAfter, Written, AVL_WRITE
  <1>2. color_registers' = FinalRegisters
    BY DEF Clock, Interface_Clock, Avalon_Clock, FinalRegisters, RegistersAfter,
           AVL_WRITE, High, Register
  <1>3. avl' = NextCycle /\ avl'.op # "write" /\ UNCHANGED <<pc, i, text>>
    BY DEF Clock, Interface_Clock, NextCycle, Idle, Types, Cycles
  <1>4. Memory' = mem' /\ FinalRegisters' = color_registers'
    BY <1>3 DEF Memory, MemoryAfter, FinalRegisters, RegistersAfter
  <1>5. Memory \in [Addresses -> Word] /\ FinalRegisters \in [RegisterNumbers -> Word]
    BY WordsAfter DEF Types, Memory, FinalRegisters
  <1> QED BY <1>1, <1>2, <1>3, <1>4, <1>5 DEF AVL_WRITE

\* What a new cycle leaves and what it will change.
LEMMA Issued ==
    ASSUME Types, NEW cycle \in Cycles, Issue(cycle)
    PROVE  /\ Memory = mem /\ FinalRegisters = color_registers
           /\ Memory' = MemoryAfter(mem, cycle) /\ FinalRegisters' = RegistersAfter(color_registers, cycle)
           /\ avl.op = "idle" /\ avl' = cycle
           /\ UNCHANGED <<AVL_READDATA, READ_A, READ_B, mem, color_registers>>
  <1>1. /\ avl.op = "idle" /\ avl' = cycle
        /\ UNCHANGED <<AVL_READDATA, READ_A, READ_B, mem, color_registers>>
    BY DEF Issue, memVars
  <1>2. Memory = mem /\ FinalRegisters = color_registers
    BY <1>1 DEF Memory, FinalRegisters, MemoryAfter, RegistersAfter
  <1>3. Memory' = MemoryAfter(mem, cycle)
    BY <1>1 DEF Memory, MemoryAfter
  <1>4. FinalRegisters' = RegistersAfter(color_registers, cycle)
    BY <1>1 DEF FinalRegisters, RegistersAfter
  <1> QED BY <1>1, <1>2, <1>3, <1>4

\* Where the interface's state may hold anything that was there before.
SameBus == UNCHANGED <<avl, AVL_READDATA, color_registers, mem, READ_A, READ_B>>

\* A step that leaves the interface alone leaves the cycle under way alone.
LEMMA BusKept == ASSUME SameBus PROVE Memory' = Memory /\ FinalRegisters' = FinalRegisters
  BY DEF SameBus, Memory, FinalRegisters, MemoryAfter, RegistersAfter

-----------------------------------------------------------------------------
(* The steps. *)

\* A clock edge.
LEMMA ClockTypes == ASSUME TypeOK, SaverInv, Clock PROVE Types'
  <1> USE DEF SaverInv
  <1>1. mem' \in [Addresses -> Word] /\ color_registers' \in [RegisterNumbers -> Word]
    BY Clocked
  <1>2. avl' \in Cycles
    <2>1. avl' = NextCycle /\ avl \in Cycles
      BY Clocked DEF Types
    <2>2. Idle \in Cycles
      BY CycleTypes
    <2> QED BY <2>1, <2>2 DEF NextCycle, Cycles
  <1>3. avl.addr \in Addresses /\ Register \in RegisterNumbers
    BY ColourRegister DEF Types, Cycles, Register
  <1>4. AVL_READDATA' \in Word
    BY <1>3 DEF Clock, Interface_Clock, Avalon_Clock, Types
  <1>5. READ_A' \in Word
    BY <1>3 DEF Clock, Interface_Clock, ONCHIPMEM_Clock, Types
  <1>6. READ_B' \in Word
    <2>1. mem[row_major_address] \in Word
      BY WordUnderBeam, Sizes DEF Addresses, Types
    <2> QED BY <2>1, Sizes DEF Clock, Interface_Clock, ONCHIPMEM_Clock
  <1>7. val' \in Numbers
    BY WordNumber DEF Clock, Types
  <1> QED BY <1>1, <1>2, <1>4, <1>5, <1>6, <1>7, Clocked DEF Types

\* A clock edge carries the bus cycle out, which changes nothing that was due.
LEMMA ClockStep == ASSUME TypeOK, SaverInv, Clock PROVE SaverInv'
  <1> USE DEF SaverInv
  <1>1. /\ mem' = Memory /\ color_registers' = FinalRegisters
        /\ Memory' = Memory /\ FinalRegisters' = FinalRegisters
        /\ avl' = NextCycle /\ ~AVL_WRITE' /\ UNCHANGED <<pc, i, text>>
    BY Clocked
  <1>2. Types'
    BY ClockTypes
  <1>3. LoopInv'
    BY <1>1 DEF LoopInv, Bytes, ColorNumbers, NumColors
  <1>4. BusInv'
    <2>1. ASSUME pc \in {"and_write", "add_write"}
          PROVE  color_registers' = color_registers
      BY <1>1, <2>1 DEF BusInv, FinalRegisters, RegistersAfter
    <2>2. AVL_READ' => avl.op = "read" /\ avl'.addr = avl.addr
      BY <1>1 DEF NextCycle, AVL_READ, Idle, Types, Cycles
    <2>3. avl'.op = "wait" => AVL_READDATA' = color_registers'[i' \div 2]
      <3> SUFFICES ASSUME avl'.op = "wait" PROVE AVL_READDATA' = color_registers'[i' \div 2]
        OBVIOUS
      <3>1. avl.op = "read" /\ pc \in {"and_write", "add_write"} /\ avl.addr = PaletteWord
        BY <2>2 DEF AVL_READ, BusInv
      <3>2. i \div 2 \in RegisterNumbers
        BY <3>1, ColourRegister DEF LoopInv, Setting
      <3>3. High /\ Register = i \div 2
        <4>1. Blank \in Word
          BY DEF Blank, Word, Byte
        <4>2. (PaletteBase + (i \div 2)) % Registers = i \div 2
          BY <3>2, <4>1, RegisterWritten DEF Types
        <4> QED BY <3>1, <3>2, <4>2, Sizes DEF PaletteWord, High, Register, RegisterNumbers
      <3>4. AVL_READDATA' = color_registers[i \div 2]
        BY <3>1, <3>3 DEF Clock, Interface_Clock, Avalon_Clock, AVL_READ
      <3> QED BY <1>1, <2>1, <3>1, <3>4
    <2>4. ASSUME pc \in {"and_write", "add_write"}, avl'.op = "idle"
          PROVE  val' = Number(color_registers'[i' \div 2])
      <3>1. avl.op \in {"idle", "wait"}
        BY <1>1, <2>4 DEF NextCycle, BusInv, Types, Cycles
      <3>2. CASE avl.op = "idle"
        BY <1>1, <2>1, <2>4, <3>2 DEF Clock, BusInv
      <3>3. CASE avl.op = "wait"
        BY <1>1, <2>1, <2>4, <3>3 DEF Clock, BusInv
      <3> QED BY <3>1, <3>2, <3>3
    <2>5. pc = "sleep" => avl'.op = "idle"
      BY <1>1 DEF BusInv, NextCycle, Idle
    <2>6. AVL_READ' => pc' \in {"and_write", "add_write"} /\ avl'.addr = PaletteWord'
      BY <1>1, <2>2 DEF BusInv, AVL_READ, PaletteWord
    <2> QED BY <1>1, <2>3, <2>4, <2>5, <2>6 DEF BusInv, AVL_WRITE
  <1>5. PaletteInv'
    BY <1>1 DEF PaletteInv, ColoursSet
  <1>6. TextInv'
    BY <1>1 DEF TextInv, Readable, IsText, DrawnByte, DrawnValue
  <1>7. ColouredInv'
    <2>1. HasColours(READ_B'[0]) /\ HasColours(READ_B'[2])
      <3>1. READ_B' \in DontCare \/ READ_B' = mem[row_major_address]
        BY DEF Clock, Interface_Clock, ONCHIPMEM_Clock
      <3> QED BY <3>1, WordUnderBeam, DriverAssumption DEF ColouredInv
    <2>2. \A a \in 0 .. PaletteBase - 1 : HasColours(Memory[a][0]) /\ HasColours(Memory[a][2])
      <3>1. CASE ~AVL_WRITE
        BY <3>1 DEF Memory, MemoryAfter, AVL_WRITE, ColouredInv
      <3>2. CASE AVL_WRITE /\ High
        <4>1. \A a \in 0 .. PaletteBase - 1 : a # avl.addr
          BY <3>2, Sizes DEF High
        <4>2. \A a \in 0 .. PaletteBase - 1 : a \in Addresses
          BY Sizes DEF Addresses
        <4>3. \A a \in 0 .. PaletteBase - 1 : Memory[a] = mem[a]
          BY <4>1, <4>2 DEF Memory, MemoryAfter, Types
        <4> QED BY <4>3 DEF ColouredInv
      <3>3. ASSUME NEW b \in Bytes, NEW v \in Byte, avl = ByteWrite(b, v), b % 2 = 0 => HasColours(v)
            PROVE  \A a \in 0 .. PaletteBase - 1 : HasColours(Memory[a][0]) /\ HasColours(Memory[a][2])
        <4>1. \A a \in Addresses, k \in Lane : Memory[a][k] = IF a = b \div 4 /\ k = b % 4 THEN v ELSE mem[a][k]
          <5>1. mem \in [Addresses -> Word] /\ Memory = MemoryAfter(mem, ByteWrite(b, v))
            BY <3>3 DEF Memory, Types
          <5> QED BY <5>1, ByteWritten
        <4>2. b % 4 \in {0, 2} => b % 2 = 0
          BY TextBelowPalette DEF Bytes
        <4>3. 0 \in Lane /\ 2 \in Lane /\ \A a \in 0 .. PaletteBase - 1 : a \in Addresses
          BY Sizes DEF Addresses, Lane
        <4> QED BY <3>3, <4>1, <4>2, <4>3 DEF ColouredInv
      <3> QED BY <3>1, <3>2, <3>3 DEF WriteInv
    <2> QED BY <1>1, <2>1, <2>2 DEF ColouredInv
  <1>8. WriteInv'
    BY <1>1 DEF WriteInv
  <1> QED BY <1>2, <1>3, <1>4, <1>5, <1>6, <1>7, <1>8

\* A reset starts the program again: all that was known is forgotten.
LEMMA ResetStep == ASSUME SaverInv, BoardReset PROVE SaverInv'
  <1>1. /\ avl' = Idle /\ pc' = "clear" /\ i' = 0 /\ val' = 0
        /\ UNCHANGED <<AVL_READDATA, color_registers, mem, READ_A, READ_B>>
    BY DEF BoardReset, Interface_Reset, Start, memVars
  <1>2. Idle.op = "idle"
    BY DEF Idle
  <1>3. Types'
    BY <1>1, CycleTypes DEF SaverInv, Types, Numbers
  <1>4. LoopInv'
    BY <1>1, TextBelowPalette DEF LoopInv, Bytes, Setting
  <1>5. BusInv'
    BY <1>1, <1>2 DEF BusInv, AVL_READ, AVL_WRITE
  <1>6. PaletteInv' /\ TextInv'
    BY <1>1 DEF PaletteInv, TextInv, Setting, Drawing
  <1>7. ColouredInv' /\ WriteInv'
    BY <1>1, <1>2 DEF ColouredInv, WriteInv, AVL_WRITE, SaverInv
  <1> QED BY <1>3, <1>4, <1>5, <1>6, <1>7 DEF SaverInv

\* The end of a reset, and steps that leave everything alone.
LEMMA SameStep == ASSUME SaverInv, SameBus, UNCHANGED programVars PROVE SaverInv'
  <1> USE DEF SameBus, programVars
  <1>1. Memory' = Memory /\ FinalRegisters' = FinalRegisters
    BY BusKept
  <1>2. Types' /\ LoopInv'
    BY DEF SaverInv, Types, LoopInv, Bytes, ColorNumbers, NumColors
  <1>3. BusInv'
    BY DEF SaverInv, BusInv, AVL_READ, AVL_WRITE, High, PaletteWord
  <1>4. PaletteInv' /\ TextInv'
    BY <1>1 DEF SaverInv, PaletteInv, ColoursSet, TextInv, Readable, IsText,
                DrawnByte, DrawnValue
  <1>5. ColouredInv' /\ WriteInv'
    BY <1>1 DEF SaverInv, ColouredInv, WriteInv, AVL_WRITE, High
  <1> QED BY <1>2, <1>3, <1>4, <1>5 DEF SaverInv

\* A byte of the text that is cleared.
LEMMA ClearStep == ASSUME SaverInv, Clear PROVE SaverInv'
  <1> USE DEF SaverInv
  <1>1. pc = "clear" /\ i \in Bytes /\ i \in Nat /\ 0 \in Byte /\ HasColours(0)
    <2>1. 0 \div 16 = 0 /\ 0 % 16 = 0 /\ 0 \in ColorNumbers /\ 0 \in Byte
      BY Sizes DEF ColorNumbers, Byte
    <2> QED BY <2>1 DEF Clear, LoopInv, Types, HasColours
  <1> DEFINE cycle == ByteWrite(i, 0)
  <1>2. /\ cycle \in Cycles /\ cycle.op = "write" /\ cycle.addr < PaletteBase
    <2>1. cycle \in Cycles
      BY <1>1, CycleTypes
    <2>2. i \div 4 < PaletteBase
      BY <1>1, TextBelowPalette, Sizes
    <2> QED BY <2>1, <2>2 DEF ByteWrite
  <1>3. /\ Memory = mem /\ FinalRegisters = color_registers
        /\ Memory' = MemoryAfter(mem, cycle) /\ FinalRegisters' = RegistersAfter(color_registers, cycle)
        /\ avl' = cycle /\ avl.op = "idle"
        /\ UNCHANGED <<AVL_READDATA, READ_A, READ_B, mem, color_registers>>
    BY <1>2, Issued DEF Clear
  <1>4. /\ FinalRegisters' = color_registers
        /\ ByteAt(Memory', i) = 0
        /\ \A b \in Bytes \ {i} : ByteAt(Memory', b) = ByteAt(mem, b)
    <2>1. mem \in [Addresses -> Word]
      BY DEF Types
    <2>2. FinalRegisters' = color_registers
      BY <1>1, <1>3, RegistersKept
    <2> QED BY <1>1, <1>3, <2>1, <2>2, ByteWritten
  <1>5. /\ i \in Bytes /\ UNCHANGED <<val, text>>
        /\ \/ i + 1 \in Bytes /\ i' = i + 1 /\ pc' = "clear"
           \/ i = 2 * (ROWS * COLUMNS) - 1 /\ i' = 0 /\ pc' = "and_read"
    <2>1. 2 * ROWS * COLUMNS = 2 * (ROWS * COLUMNS)
      BY Sizes
    <2> QED BY <1>1, <2>1, TextBelowPalette DEF Clear, Bytes
  <1>6. \A b \in 0 .. i : ByteAt(Memory', b) = 0
    <2>1. \A b \in 0 .. i : b \in Bytes
      BY <1>1, TextBelowPalette DEF Bytes
    <2>2. \A b \in 0 .. i - 1 : ByteAt(mem, b) = 0
      BY <1>1, <1>3 DEF TextInv
    <2>3. \A b \in 0 .. i : b = i \/ b \in 0 .. i - 1
      BY <1>1
    <2> QED BY <1>4, <2>1, <2>2, <2>3
  <1> HIDE DEF cycle
  <1>7. Types'
    BY <1>2, <1>3, <1>5, TextBelowPalette DEF Types, Setting, Bytes
  <1>8. LoopInv'
    <2>1. 0 \in ColorNumbers
      BY Sizes DEF ColorNumbers
    <2> QED BY <1>5, <2>1 DEF LoopInv, Setting
  <1>9. BusInv'
    BY <1>2, <1>3, <1>5 DEF BusInv, AVL_READ, AVL_WRITE
  <1>10. PaletteInv'
    BY <1>5 DEF PaletteInv, ColoursSet, Setting, Drawing
  <1>11. TextInv'
    BY <1>1, <1>5, <1>6 DEF TextInv, Setting, Drawing, Bytes
  <1>12. ColouredInv'
    BY <1>3 DEF ColouredInv
  <1>13. WriteInv'
    BY <1>1, <1>3 DEF WriteInv, cycle
  <1> QED BY <1>7, <1>8, <1>9, <1>10, <1>11, <1>12, <1>13

\* The driver reads the word of a colour.
LEMMA ReadStep == ASSUME SaverInv, PaletteRead PROVE SaverInv'
  <1> USE DEF SaverInv
  <1>1. pc \in {"and_read", "add_read"} /\ i \in ColorNumbers /\ i \div 2 \in RegisterNumbers
    BY ColourRegister DEF PaletteRead, LoopInv, Setting
  <1> DEFINE cycle == ReadOf(PaletteWord)
  <1>2. cycle \in Cycles /\ cycle.op = "read" /\ cycle.addr = PaletteWord
    BY <1>1, CycleTypes DEF ReadOf, PaletteWord
  <1>3. /\ Memory = mem /\ FinalRegisters = color_registers
        /\ Memory' = MemoryAfter(mem, cycle) /\ FinalRegisters' = RegistersAfter(color_registers, cycle)
        /\ avl' = cycle /\ avl.op = "idle"
        /\ UNCHANGED <<AVL_READDATA, READ_A, READ_B, mem, color_registers>>
    BY <1>2, Issued DEF PaletteRead
  <1>4. Memory' = Memory /\ FinalRegisters' = FinalRegisters
    BY <1>2, <1>3 DEF MemoryAfter, RegistersAfter
  <1>5. /\ UNCHANGED <<i, val, text>>
        /\ \/ pc = "and_read" /\ pc' = "and_write"
           \/ pc = "add_read" /\ pc' = "add_write"
    BY DEF PaletteRead
  <1> HIDE DEF cycle
  <1>6. Types'
    BY <1>2, <1>3, <1>5 DEF Types, Setting
  <1>7. LoopInv'
    BY <1>1, <1>5 DEF LoopInv, Setting, ColorNumbers, NumColors
  <1>8. BusInv'
    BY <1>2, <1>3, <1>5 DEF BusInv, AVL_READ, AVL_WRITE, PaletteWord
  <1>9. PaletteInv'
    BY <1>1, <1>4, <1>5 DEF PaletteInv, ColoursSet, Setting, Drawing
  <1>10. TextInv'
    BY <1>1, <1>4, <1>5 DEF TextInv, Setting, Drawing
  <1>11. ColouredInv' /\ WriteInv'
    BY <1>2, <1>3 DEF ColouredInv, WriteInv, AVL_WRITE
  <1> QED BY <1>6, <1>7, <1>8, <1>9, <1>10, <1>11

\* Setting one field of a register sets one colour.
LEMMA ColourWritten ==
    ASSUME NEW r \in [RegisterNumbers -> Word], NEW k \in ColorNumbers, NEW v \in Numbers,
           \A j \in Nat : j % 2 # k % 2 => Field(v, j) = Field(Number(r[k \div 2]), j)
    PROVE  /\ PaletteColour([r EXCEPT ![k \div 2] = Lanes(v)], k) = Field(v, k)
           /\ \A j \in ColorNumbers \ {k} :
                PaletteColour([r EXCEPT ![k \div 2] = Lanes(v)], j) = PaletteColour(r, j)
  <1> DEFINE n == [r EXCEPT ![k \div 2] = Lanes(v)]
  <1>1. k \div 2 \in RegisterNumbers /\ Lanes(v) \in Word /\ Number(Lanes(v)) = v
    BY ColourRegister, NumberLanes
  <1>2. \A q \in RegisterNumbers : n[q] = IF q = k \div 2 THEN Lanes(v) ELSE r[q]
    BY <1>1
  <1> HIDE DEF n
  <1>3. PaletteColour(n, k) = Field(v, k)
    BY <1>1, <1>2 DEF PaletteColour, Field
  <1>4. ASSUME NEW j \in ColorNumbers \ {k}
        PROVE  PaletteColour(n, j) = PaletteColour(r, j)
    <2>1. j \in Nat /\ k \in Nat /\ j \div 2 \in RegisterNumbers
      BY ColourRegister
    <2>2. CASE j \div 2 # k \div 2
      BY <1>2, <2>1, <2>2 DEF PaletteColour
    <2>3. CASE j \div 2 = k \div 2
      <3>1. j % 2 # k % 2
        BY <2>1, <2>3
      <3>2. Field(v, j) = Field(Number(r[j \div 2]), j)
        BY <2>1, <2>3, <3>1
      <3> QED BY <1>1, <1>2, <2>1, <2>3, <3>2 DEF PaletteColour, Field
    <2> QED BY <2>2, <2>3
  <1> QED BY <1>3, <1>4 DEF n

\* What writing colour i's register has in common: the bus, the text and the colours but i.
LEMMA PaletteWritten ==
    ASSUME SaverInv, i \in ColorNumbers, NEW v \in Numbers,
           Issue(WordWrite(PaletteWord, Lanes(v))),
           \A j \in Nat : j % 2 # i % 2 => Field(v, j) = Field(Number(color_registers[i \div 2]), j),
           Field(v, i) \in {0, colors[i + 1]}
    PROVE  /\ avl' \in Cycles /\ avl'.op = "write"
           /\ UNCHANGED <<AVL_READDATA, READ_A, READ_B, mem, color_registers>>
           /\ FinalRegisters = color_registers /\ Number(FinalRegisters'[i \div 2]) = v
           /\ PaletteColour(FinalRegisters', i) = Field(v, i)
           /\ \A j \in ColorNumbers \ {i} :
                PaletteColour(FinalRegisters', j) = PaletteColour(FinalRegisters, j)
           /\ \A b \in Bytes : ByteAt(Memory', b) = ByteAt(Memory, b) /\ Memory = mem
           /\ ColouredInv' /\ WriteInv'
  <1> DEFINE w == Lanes(v)
             q == i \div 2
             cycle == WordWrite(PaletteBase + q, w)
  <1>1. w \in Word /\ Number(w) = v /\ q \in RegisterNumbers
    BY NumberLanes, ColourRegister
  <1>2. cycle \in Cycles
    BY <1>1, CycleTypes
  <1>3. cycle.op = "write" /\ cycle.addr = PaletteBase + q
    BY DEF WordWrite
  <1> HIDE DEF cycle, q, w
  <1>4. /\ Memory = mem /\ FinalRegisters = color_registers
        /\ Memory' = MemoryAfter(mem, cycle) /\ FinalRegisters' = RegistersAfter(color_registers, cycle)
        /\ avl' = cycle
        /\ UNCHANGED <<AVL_READDATA, READ_A, READ_B, mem, color_registers>>
    <2>1. Types /\ Issue(cycle)
      BY DEF SaverInv, PaletteWord, cycle, q, w
    <2> QED BY <1>2, <2>1, Issued
  <1>5. mem \in [Addresses -> Word] /\ color_registers \in [RegisterNumbers -> Word]
    BY DEF SaverInv, Types
  <1>6. /\ FinalRegisters' = [color_registers EXCEPT ![q] = w]
        /\ \A b \in Bytes : ByteAt(Memory', b) = ByteAt(mem, b)
    <2>1. /\ RegistersAfter(color_registers, cycle) = [color_registers EXCEPT ![q] = w]
          /\ \A b \in Bytes : ByteAt(MemoryAfter(mem, cycle), b) = ByteAt(mem, b)
      BY <1>1, <1>5, RegisterWritten DEF cycle
    <2> QED BY <1>4, <2>1
  <1>7. /\ PaletteColour(FinalRegisters', i) = Field(v, i)
        /\ \A j \in ColorNumbers \ {i} :
             PaletteColour(FinalRegisters', j) = PaletteColour(color_registers, j)
    BY <1>5, <1>6, ColourWritten DEF q, w
  <1>8. Number(FinalRegisters'[i \div 2]) = v
    BY <1>1, <1>5, <1>6 DEF q
  <1>9. ColouredInv'
    BY <1>4 DEF SaverInv, ColouredInv
  <1>10. WriteInv'
    <2>1. High'
      BY <1>1, <1>3, <1>4, Sizes DEF High, RegisterNumbers
    <2>2. ColorNumbers' = ColorNumbers
      BY DEF ColorNumbers, NumColors
    <2> QED BY <1>4, <1>7, <2>1, <2>2 DEF WriteInv
  <1> QED BY <1>2, <1>3, <1>4, <1>6, <1>7, <1>8, <1>9, <1>10

\* What the driver read is still in the register when it writes it back.
LEMMA ValueRead ==
    ASSUME SaverInv, pc \in {"and_write", "add_write"}, avl.op = "idle"
    PROVE  /\ i \in ColorNumbers /\ i \in Nat /\ i \div 2 \in RegisterNumbers
           /\ val \in Numbers /\ val = Number(color_registers[i \div 2])
  BY ColourRegister DEF SaverInv, LoopInv, Setting, BusInv, Types

\* The field of the colour is masked.
LEMMA MaskStep == ASSUME SaverInv, PaletteMask PROVE SaverInv'
  <1> USE DEF SaverInv
  <1> DEFINE v == Mask(i, val)
  <1>1. /\ pc = "and_write" /\ pc' = "add_read" /\ UNCHANGED <<i, val, text>>
        /\ Issue(WordWrite(PaletteWord, Lanes(v))) /\ avl.op = "idle"
    BY DEF PaletteMask, Running
  <1>2. i \in ColorNumbers /\ i \in Nat /\ val \in Numbers /\ val = Number(color_registers[i \div 2])
    BY <1>1, ValueRead
  <1>3. /\ v \in Numbers /\ Masked(i, v)
        /\ Field(v, i) = 0
        /\ \A j \in Nat : j % 2 # i % 2 => Field(v, j) = Field(val, j)
    BY <1>2, MaskClears
  <1> HIDE DEF v
  <1>4. /\ avl' \in Cycles /\ avl'.op = "write"
        /\ UNCHANGED <<AVL_READDATA, READ_A, READ_B, mem, color_registers>>
        /\ FinalRegisters = color_registers /\ Number(FinalRegisters'[i \div 2]) = v
        /\ \A j \in ColorNumbers \ {i} :
             PaletteColour(FinalRegisters', j) = PaletteColour(FinalRegisters, j)
        /\ \A b \in Bytes : ByteAt(Memory', b) = ByteAt(Memory, b)
        /\ ColouredInv' /\ WriteInv'
    BY <1>1, <1>2, <1>3, PaletteWritten
  <1>5. Types'
    BY <1>1, <1>4 DEF Types, Setting
  <1>6. LoopInv' /\ BusInv'
    BY <1>1, <1>2, <1>4 DEF LoopInv, BusInv, Setting, AVL_READ, ColorNumbers, NumColors
  <1>7. PaletteInv'
    <2>1. \A k \in 0 .. i - 1 : k \in ColorNumbers \ {i}
      BY <1>2, Sizes DEF ColorNumbers
    <2>2. ColoursSet(i)
      BY <1>1 DEF PaletteInv, Setting
    <2>3. \A k \in 0 .. i - 1 : PaletteColour(FinalRegisters', k) = colors[k + 1]
      BY <1>4, <2>1, <2>2 DEF ColoursSet
    <2> QED BY <1>1, <1>3, <1>4, <2>3 DEF PaletteInv, ColoursSet, Setting, Drawing
  <1>8. TextInv'
    BY <1>1, <1>4 DEF TextInv, Setting, Drawing
  <1> QED BY <1>4, <1>5, <1>6, <1>7, <1>8

\* The colour is set.
LEMMA AddStep == ASSUME SaverInv, PaletteAdd PROVE SaverInv'
  <1> USE DEF SaverInv
  <1> DEFINE rgb == colors[i + 1]
             v == val + Shifted(i, rgb)
  <1>1. /\ pc = "add_write" /\ val' = 0 /\ text' = text
        /\ Issue(WordWrite(PaletteWord, Lanes(v))) /\ avl.op = "idle"
        /\ IF i + 1 < NumColors
           THEN i' = i + 1 /\ pc' = "and_read"
           ELSE i' = 0 /\ pc' = "roll"
    BY DEF PaletteAdd, Running
  <1>2. i \in ColorNumbers /\ i \in Nat /\ val \in Numbers /\ val = Number(color_registers[i \div 2])
    BY <1>1, ValueRead
  <1>3. rgb \in Rgb
    BY <1>2, ColourValues
  <1>4. FinalRegisters = color_registers
    BY <1>1 DEF FinalRegisters, RegistersAfter
  <1>5. Masked(i, val)
    BY <1>1, <1>2, <1>4 DEF PaletteInv
  <1> HIDE DEF rgb
  <1>6. /\ v \in Numbers /\ Field(v, i) = rgb
        /\ \A j \in Nat : j % 2 # i % 2 => Field(v, j) = Field(val, j)
    BY <1>2, <1>3, <1>5, AddSets
  <1> HIDE DEF v
  <1>7. /\ avl' \in Cycles /\ avl'.op = "write"
        /\ UNCHANGED <<AVL_READDATA, READ_A, READ_B, mem, color_registers>>
        /\ PaletteColour(FinalRegisters', i) = rgb
        /\ \A j \in ColorNumbers \ {i} :
             PaletteColour(FinalRegisters', j) = PaletteColour(FinalRegisters, j)
        /\ \A b \in Bytes : ByteAt(Memory', b) = ByteAt(Memory, b) /\ Memory = mem
        /\ ColouredInv' /\ WriteInv'
    <2>1. Field(v, i) \in {0, colors[i + 1]}
      BY <1>6 DEF rgb
    <2> QED BY <1>1, <1>2, <1>6, <2>1, PaletteWritten
  <1>8. \A k \in 0 .. i : PaletteColour(FinalRegisters', k) = colors[k + 1]
    <2>1. \A k \in 0 .. i - 1 : k \in ColorNumbers \ {i}
      BY <1>2, Sizes DEF ColorNumbers
    <2>2. ColoursSet(i)
      BY <1>1 DEF PaletteInv, Setting
    <2>3. \A k \in 0 .. i : k = i \/ k \in 0 .. i - 1
      BY <1>2
    <2> QED BY <1>7, <2>1, <2>2, <2>3 DEF ColoursSet, rgb
  <1>9. \/ i' = i + 1 /\ pc' = "and_read" /\ i' \in ColorNumbers /\ \A k \in 0 .. i' - 1 : k \in 0 .. i
        \/ i' = 0 /\ pc' = "roll" /\ \A k \in 0 .. NumColors - 1 : k \in 0 .. i
    BY <1>1, <1>2, Sizes DEF ColorNumbers
  <1>10. Types'
    BY <1>1, <1>2, <1>7, <1>9 DEF Types, Setting, Drawing, Numbers
  <1>11. LoopInv' /\ BusInv'
    BY <1>7, <1>9 DEF LoopInv, BusInv, Setting, AVL_READ, ColorNumbers, NumColors
  <1>12. PaletteInv'
    BY <1>8, <1>9 DEF PaletteInv, ColoursSet, Setting, Drawing, NumColors
  <1>13. TextInv'
    <2>1. \A b \in Bytes : ByteAt(mem, b) = 0 /\ ByteAt(Memory', b) = 0
      BY <1>1, <1>7 DEF TextInv, Setting
    <2>2. \A c \in Cells : 2 * c + 1 \in Bytes
      BY TextBelowPalette DEF Cells, Bytes
    <2>3. Readable(mem)' /\ Readable(Memory)'
      BY <1>7, <2>1, <2>2 DEF Readable
    <2> QED BY <1>9, <2>1, <2>3 DEF TextInv, Setting, Drawing
  <1> QED BY <1>7, <1>10, <1>11, <1>12, <1>13

-----------------------------------------------------------------------------
(* Drawing a text. *)

\* Products of cells: line y and column x of the text are a cell.
LEMMA CellOfText ==
    ASSUME NEW y \in 0 .. ROWS - 1, NEW x \in 0 .. COLUMNS - 1
    PROVE  y * COLUMNS + x \in Cells
  <1>1. (ROWS - 1 - y) * COLUMNS >= 0 /\ y * COLUMNS \in Nat
    BY Sizes
  <1>2. (ROWS - 1 - y) * COLUMNS = ROWS * COLUMNS - COLUMNS - y * COLUMNS
    BY Sizes
  <1>3. ROWS * COLUMNS \in Nat /\ COLUMNS * ROWS = ROWS * COLUMNS
    BY TextBelowPalette
  <1> DEFINE a == y * COLUMNS
             b == ROWS * COLUMNS
  <1> HIDE DEF a, b
  <1>4. a \in Nat /\ b \in Nat /\ b - COLUMNS - a >= 0
    BY <1>1, <1>2, <1>3 DEF a, b
  <1>5. a + x \in 0 .. b - 1
    BY <1>4, Sizes
  <1> QED BY <1>3, <1>5 DEF Cells, a, b

\* A remainder is below the divisor.
LEMMA Rest == ASSUME NEW n \in Nat, NEW d \in Nat \ {0} PROVE n % d \in 0 .. d - 1
  OBVIOUS

\* Two bytes are a cell.
LEMMA Halves ==
    ASSUME NEW n \in Nat, NEW k \in Nat
    PROVE  /\ 2 * n + k = 2 * (n + (k \div 2)) + (k % 2)
           /\ k % 2 = 1 => 2 * n + (k - 1) = 2 * (n + (k \div 2))
           /\ k % 2 = 0 \/ (k % 2 = 1 /\ k - 1 \in Nat /\ (k - 1) % 2 = 0)
  OBVIOUS

\* The attribute of two different colours.
LEMMA ContrastType ==
    ASSUME NEW f \in ColorNumbers, NEW b \in ColorNumbers, f # b
    PROVE  /\ 16 * f + b \in Contrasts /\ 16 * f + b \in Byte /\ HasColours(16 * f + b)
           /\ (16 * f + b) \div 16 = f /\ (16 * f + b) % 16 = b
  <1>1. f \in 0 .. 15 /\ b \in 0 .. 15
    BY Sizes DEF ColorNumbers
  <1>2. (16 * f + b) \div 16 = f /\ (16 * f + b) % 16 = b /\ 16 * f + b \in Byte
    BY <1>1 DEF Byte
  <1>3. \A g \in ColorNumbers : 16 * f + b # 17 * g
    <2>1. \A g \in 0 .. 15 : 16 * f + b = 17 * g => f = g /\ b = g
      BY <1>1
    <2> QED BY <2>1, Sizes DEF ColorNumbers
  <1> QED BY <1>2, <1>3 DEF Contrasts, HasColours

\* The bytes of a text are bytes of the screen, each another one.
LEMMA DrawnBytes ==
    ASSUME IsText, NEW k \in 0 .. 2 * Len(text.string) - 1
    PROVE  /\ Len(text.string) \in Nat
           /\ DrawnByte(k) \in Bytes /\ DrawnValue(k) \in Byte
           /\ \E c \in Cells :
                \/ k % 2 = 0 /\ DrawnByte(k) = 2 * c
                \/ k % 2 = 1 /\ DrawnByte(k) = 2 * c + 1 /\ DrawnByte(k - 1) = 2 * c
                     /\ k - 1 \in Nat /\ (k - 1) % 2 = 0
           /\ k % 2 = 0 => DrawnValue(k) \in Contrasts /\ HasColours(DrawnValue(k))
           /\ \A j \in Nat : j # k => DrawnByte(j) # DrawnByte(k)
  <1> DEFINE x == text.x + (k \div 2)
             c == text.y * COLUMNS + x
  <1>1. Len(text.string) \in Nat /\ text.string \in Seq(Codes) /\ k \in Nat
    BY DEF IsText
  <1>2. x \in 0 .. COLUMNS - 1 /\ text.y \in 0 .. ROWS - 1 /\ text.x \in Nat
    <2>1. \A l \in Nat : k \in 0 .. 2 * l - 1 => k \div 2 \in 0 .. l - 1
      BY <1>1
    <2>2. k \div 2 \in 0 .. Len(text.string) - 1
      BY <1>1, <2>1
    <2>3. /\ text.x \in Nat /\ text.y \in 0 .. ROWS - 1
          /\ text.x + Len(text.string) <= COLUMNS
      BY DEF IsText
    <2> QED BY <1>1, <2>2, <2>3, Sizes
  <1>3. c \in Cells
    BY <1>2, CellOfText
  <1>4. text.y * COLUMNS \in Nat
    BY <1>2, Sizes
  <1> DEFINE a == text.y * COLUMNS
  <1>5. a \in Nat /\ c = a + text.x + (k \div 2) /\ \A j : DrawnByte(j) = 2 * (a + text.x) + j
    BY <1>2, <1>4, <1>1 DEF DrawnByte
  <1> HIDE DEF a, c
  <1>6. \/ k % 2 = 0 /\ DrawnByte(k) = 2 * c
        \/ k % 2 = 1 /\ DrawnByte(k) = 2 * c + 1 /\ DrawnByte(k - 1) = 2 * c
             /\ k - 1 \in Nat /\ (k - 1) % 2 = 0
    <2> DEFINE n == a + text.x
               h == k \div 2
    <2>1. n \in Nat /\ h \in Nat /\ c = n + h
      BY <1>1, <1>2, <1>5
    <2>2. \A j : DrawnByte(j) = 2 * n + j
      BY <1>5
    <2> HIDE DEF n
    <2>3. /\ 2 * n + k = 2 * (n + h) + (k % 2)
          /\ k % 2 = 1 => 2 * n + (k - 1) = 2 * (n + h)
          /\ k % 2 = 0 \/ (k % 2 = 1 /\ k - 1 \in Nat /\ (k - 1) % 2 = 0)
      BY <1>1, <2>1, Halves
    <2> HIDE DEF h
    <2>4. DrawnByte(k) = 2 * c + (k % 2)
      BY <2>1, <2>2, <2>3
    <2>5. k % 2 = 1 => DrawnByte(k - 1) = 2 * c
      BY <2>1, <2>2, <2>3
    <2>6. 2 * c + 0 = 2 * c
      BY <2>1
    <2> QED BY <2>3, <2>4, <2>5, <2>6
  <1>7. DrawnByte(k) \in Bytes
    BY <1>3, <1>6, TextBelowPalette DEF Cells, Bytes
  <1>8. \A j \in Nat : j # k => DrawnByte(j) # DrawnByte(k)
    BY <1>1, <1>2, <1>5
  <1>9. /\ k % 2 = 0 => DrawnValue(k) \in Contrasts /\ HasColours(DrawnValue(k))
        /\ DrawnValue(k) \in Byte
    <2>1. CASE k % 2 = 0
      BY <2>1, ContrastType DEF DrawnValue, IsText
    <2>2. CASE k % 2 # 0
      <3>1. k \div 2 + 1 \in 1 .. Len(text.string)
        BY <1>1
      <3>2. text.string[k \div 2 + 1] \in Codes
        <4>1. \A n \in 1 .. Len(text.string) : text.string[n] \in Codes
          BY <1>1
        <4> QED BY <3>1, <4>1
      <3> QED BY <2>2, <3>2 DEF DrawnValue, Byte, Codes
    <2> QED BY <2>1, <2>2
  <1> QED BY <1>1, <1>3, <1>6, <1>7, <1>8, <1>9

\* Some colours and a place for the text are chosen.
LEMMA RollStep == ASSUME SaverInv, Roll PROVE SaverInv'
  <1> USE DEF SaverInv
  <1>1. /\ pc = "roll" /\ pc' = "draw" /\ UNCHANGED <<interfaceVars, i, val>> /\ avl.op = "idle"
    BY DEF Roll, Running
  <1>2. SameBus /\ Memory' = Memory /\ FinalRegisters' = FinalRegisters
    BY <1>1, BusKept DEF SameBus, interfaceVars, busVars, memVars
  <1>3. i = 0
    BY <1>1 DEF LoopInv
  <1>4. IsText' /\ Len(text'.string) \in Nat
    <2> PICK r \in Rolls :
          /\ r[1] % NumColors # r[2] % NumColors
          /\ text' = [string |-> ColorString(r[1] % NumColors, r[2] % NumColors),
                      fg |-> r[1] % NumColors, bg |-> r[2] % NumColors,
                      x |-> r[3] % (COLUMNS - Len(ColorString(r[1] % NumColors, r[2] % NumColors))),
                      y |-> r[4] % ROWS]
      BY DEF Roll
    <2> DEFINE f == r[1] % NumColors
               b == r[2] % NumColors
               s == ColorString(f, b)
    <2>1. r[1] \in Nat /\ r[2] \in Nat /\ r[3] \in Nat /\ r[4] \in Nat
      BY DriverAssumption
    <2>2. f \in ColorNumbers /\ b \in ColorNumbers /\ f # b
      <3>1. NumColors \in Nat \ {0}
        BY Sizes
      <3> QED BY <2>1, <3>1, Rest DEF ColorNumbers
    <2>3. s \in Seq(Codes) /\ Len(s) < COLUMNS /\ Len(s) \in Nat
      BY <2>2, DriverAssumption DEF Codes
    <2>4. text' = [string |-> s, fg |-> f, bg |-> b, x |-> r[3] % (COLUMNS - Len(s)), y |-> r[4] % ROWS]
      OBVIOUS
    <2> HIDE DEF s, f, b
    <2>5. /\ r[3] % (COLUMNS - Len(s)) \in Nat /\ (r[3] % (COLUMNS - Len(s))) + Len(s) <= COLUMNS
          /\ r[4] % ROWS \in 0 .. ROWS - 1
      <3>1. COLUMNS - Len(s) \in Nat \ {0} /\ ROWS \in Nat \ {0}
        BY <2>3, Sizes
      <3>2. r[3] % (COLUMNS - Len(s)) \in 0 .. COLUMNS - Len(s) - 1
        BY <2>1, <3>1, Rest
      <3>3. r[4] % ROWS \in 0 .. ROWS - 1
        BY <2>1, <3>1, Rest
      <3> QED BY <2>3, <3>2, <3>3, Sizes
    <2> QED BY <2>2, <2>3, <2>4, <2>5 DEF IsText, ColorNumbers, NumColors
  <1>5. Types' /\ LoopInv'
    BY <1>1, <1>2, <1>3, <1>4 DEF Types, LoopInv, SameBus, Setting, Drawing
  <1>6. BusInv'
    BY <1>1, <1>2 DEF BusInv, SameBus, AVL_READ, AVL_WRITE
  <1>7. PaletteInv'
    BY <1>1, <1>2 DEF PaletteInv, ColoursSet, Setting, Drawing
  <1>8. TextInv'
    BY <1>1, <1>2, <1>3, <1>4 DEF TextInv, SameBus, Readable, Setting, Drawing
  <1>9. ColouredInv' /\ WriteInv'
    BY <1>1, <1>2 DEF ColouredInv, WriteInv, SameBus, AVL_WRITE
  <1> QED BY <1>5, <1>6, <1>7, <1>8, <1>9

\* One byte of the text is drawn, or it is all there.
LEMMA DrawStep == ASSUME SaverInv, Draw PROVE SaverInv'
  <1> USE DEF SaverInv
  <1>1. pc = "draw" /\ avl.op = "idle" /\ UNCHANGED <<val, text>> /\ i \in Nat /\ IsText
    BY DEF Draw, Running, Types, TextInv
  <1>2. Len(text.string) \in Nat /\ i <= 2 * Len(text.string)
    BY <1>1 DEF IsText, LoopInv
  <1>3. CASE i < 2 * Len(text.string)
    <2> DEFINE b == DrawnByte(i)
               v == DrawnValue(i)
               cycle == ByteWrite(b, v)
    <2>1. Issue(cycle) /\ i' = i + 1 /\ pc' = "draw"
      BY <1>1, <1>3 DEF Draw
    <2>2. /\ b \in Bytes /\ v \in Byte
          /\ \A j \in Nat : j # i => DrawnByte(j) # b
          /\ i % 2 = 0 => v \in Contrasts /\ HasColours(v)
      BY <1>1, <1>2, <1>3, DrawnBytes
    <2>3. PICK c \in Cells :
            \/ i % 2 = 0 /\ b = 2 * c
            \/ i % 2 = 1 /\ b = 2 * c + 1 /\ DrawnByte(i - 1) = 2 * c
                 /\ i - 1 \in Nat /\ (i - 1) % 2 = 0
      BY <1>1, <1>2, <1>3, DrawnBytes
    <2> HIDE DEF b, v
    <2>4. cycle \in Cycles /\ cycle.op = "write" /\ cycle.addr < PaletteBase
      <3>1. cycle \in Cycles
        BY <2>2, CycleTypes
      <3>2. b \div 4 < PaletteBase
        BY <2>2, TextBelowPalette, Sizes
      <3> QED BY <3>1, <3>2 DEF ByteWrite
    <2>5. /\ Memory = mem /\ FinalRegisters = color_registers
          /\ Memory' = MemoryAfter(mem, cycle) /\ FinalRegisters' = RegistersAfter(color_registers, cycle)
          /\ avl' = cycle
          /\ UNCHANGED <<AVL_READDATA, READ_A, READ_B, mem, color_registers>>
      <3>1. Types
        OBVIOUS
      <3> HIDE DEF cycle
      <3> QED BY <2>1, <2>4, <3>1, Issued
    <2>6. /\ FinalRegisters' = FinalRegisters
          /\ ByteAt(Memory', b) = v
          /\ \A a \in Bytes \ {b} : ByteAt(Memory', a) = ByteAt(mem, a)
      <3>1. mem \in [Addresses -> Word]
        BY DEF Types
      <3>2. FinalRegisters' = color_registers
        BY <2>2, <2>5, RegistersKept
      <3> QED BY <2>2, <2>5, <3>1, <3>2, ByteWritten
    <2>7. ColouredInv' /\ WriteInv'
      <3>1. b % 2 = 0 => HasColours(v)
        BY <2>2, <2>3 DEF Cells
      <3> QED BY <2>2, <2>5, <3>1 DEF ColouredInv, WriteInv
    <2> HIDE DEF cycle
    <2>8. Types' /\ LoopInv'
      BY <1>1, <1>2, <1>3, <2>1, <2>4, <2>5 DEF Types, LoopInv, Setting
    <2>9. BusInv'
      BY <2>1, <2>4, <2>5, Sizes DEF BusInv, AVL_READ, High, Cycles, Addresses
    <2>10. PaletteInv'
      BY <1>1, <2>1, <2>6 DEF PaletteInv, ColoursSet, Setting, Drawing
    <2>11. \A k \in 0 .. i : ByteAt(Memory', DrawnByte(k)) = DrawnValue(k)
      <3>1. ASSUME NEW k \in 0 .. i - 1
            PROVE  ByteAt(Memory', DrawnByte(k)) = DrawnValue(k)
        <4>1. ByteAt(mem, DrawnByte(k)) = DrawnValue(k)
          BY <1>1, <2>5 DEF TextInv
        <4>2. k \in Nat /\ k # i /\ k \in 0 .. 2 * Len(text.string) - 1
          BY <1>1, <1>2, <1>3
        <4>3. DrawnByte(k) \in Bytes
          BY <1>1, <4>2, DrawnBytes
        <4>4. DrawnByte(k) # b
          BY <2>2, <4>2
        <4> QED BY <2>6, <4>1, <4>3, <4>4
      <3>2. \A k \in 0 .. i : k = i \/ k \in 0 .. i - 1
        BY <1>1
      <3> QED BY <2>6, <3>1, <3>2 DEF b, v
    <2>12. Readable(Memory)'
      <3> SUFFICES ASSUME NEW d \in Cells, ByteAt(Memory', 2 * d + 1) # 0
                   PROVE  ByteAt(Memory', 2 * d) \in Contrasts
        BY DEF Readable, Contrasts, ColorNumbers, NumColors
      <3>1. 2 * d \in Bytes /\ 2 * d + 1 \in Bytes /\ d \in Nat /\ c \in Nat
        BY TextBelowPalette DEF Cells, Bytes
      <3>2. CASE d # c
        <4>1. 2 * d # b /\ 2 * d + 1 # b
          BY <2>3, <3>1, <3>2
        <4>2. Readable(mem)
          BY <1>1 DEF TextInv, Drawing
        <4> QED BY <2>6, <3>1, <4>1, <4>2 DEF Readable
      <3>3. CASE d = c /\ i % 2 = 0
        BY <2>2, <2>3, <2>6, <3>3
      <3>4. CASE d = c /\ i % 2 = 1
        <4>1. DrawnByte(i - 1) = 2 * d /\ i - 1 \in 0 .. i /\ (i - 1) % 2 = 0
          BY <1>1, <2>3, <3>4
        <4>2. ByteAt(Memory', 2 * d) = DrawnValue(i - 1)
          BY <2>11, <4>1
        <4>3. i - 1 \in 0 .. 2 * Len(text.string) - 1
          BY <1>1, <1>2, <1>3, <4>1
        <4>4. DrawnValue(i - 1) \in Contrasts
          BY <1>1, <4>1, <4>3, DrawnBytes
        <4> QED BY <4>2, <4>4
      <3> QED BY <1>1, <3>2, <3>3, <3>4
    <2>13. TextInv'
      <3>1. Readable(mem)'
        BY <1>1, <2>5 DEF TextInv, Drawing, Readable
      <3>2. \A k \in 0 .. i' - 1 : k \in 0 .. i
        BY <1>1, <2>1
      <3>3. \A k : DrawnByte(k)' = DrawnByte(k) /\ DrawnValue(k)' = DrawnValue(k)
        BY <1>1 DEF DrawnByte, DrawnValue
      <3>4. IsText'
        BY <1>1 DEF IsText
      <3> QED BY <2>1, <2>11, <2>12, <3>1, <3>2, <3>3, <3>4 DEF TextInv, Setting, Drawing
    <2> QED BY <2>7, <2>8, <2>9, <2>10, <2>13
  <1>4. CASE ~(i < 2 * Len(text.string))
    <2>1. i' = 0 /\ pc' = "sleep" /\ UNCHANGED interfaceVars /\ i = 2 * Len(text.string)
      BY <1>1, <1>2, <1>4 DEF Draw
    <2>2. SameBus /\ Memory' = Memory /\ FinalRegisters' = FinalRegisters
      BY <2>1, BusKept DEF SameBus, interfaceVars, busVars, memVars
    <2>3. Types' /\ LoopInv'
      BY <1>1, <2>1, <2>2 DEF Types, LoopInv, SameBus, Setting, Drawing
    <2>4. BusInv'
      BY <1>1, <2>1, <2>2 DEF BusInv, SameBus, AVL_READ, AVL_WRITE
    <2>5. PaletteInv'
      BY <1>1, <2>1, <2>2 DEF PaletteInv, ColoursSet, Setting, Drawing
    <2>6. TextInv'
      <3>1. IsText' /\ Readable(mem)' /\ Readable(Memory)'
        BY <1>1, <2>2 DEF TextInv, SameBus, Readable, IsText, Drawing
      <3>2. \A k : DrawnByte(k)' = DrawnByte(k) /\ DrawnValue(k)' = DrawnValue(k)
        BY <1>1 DEF DrawnByte, DrawnValue
      <3> QED BY <1>1, <2>1, <2>2, <3>1, <3>2 DEF TextInv, Setting, Drawing
    <2>7. ColouredInv' /\ WriteInv'
      BY <1>1, <2>2 DEF ColouredInv, WriteInv, SameBus, AVL_WRITE
    <2> QED BY <2>3, <2>4, <2>5, <2>6, <2>7
  <1> QED BY <1>3, <1>4

\* The driver wakes up for another text.
LEMMA WakeStep == ASSUME SaverInv, WakeUp PROVE SaverInv'
  <1> USE DEF SaverInv
  <1>1. /\ pc = "sleep" /\ pc' = "roll" /\ UNCHANGED <<interfaceVars, i, val>> /\ avl.op = "idle"
        /\ i = 0
    BY DEF WakeUp, Running, LoopInv
  <1>2. SameBus /\ Memory' = Memory /\ FinalRegisters' = FinalRegisters
    BY <1>1, BusKept DEF SameBus, interfaceVars, busVars, memVars
  <1>3. Types' /\ LoopInv' /\ BusInv'
    BY <1>1, <1>2 DEF Types, LoopInv, BusInv, SameBus, AVL_READ, AVL_WRITE, Setting, Drawing
  <1>4. PaletteInv' /\ TextInv'
    BY <1>1, <1>2 DEF PaletteInv, ColoursSet, TextInv, SameBus, Readable, Setting, Drawing
  <1>5. ColouredInv' /\ WriteInv'
    BY <1>1, <1>2 DEF ColouredInv, WriteInv, SameBus, AVL_WRITE
  <1> QED BY <1>3, <1>4, <1>5

-----------------------------------------------------------------------------
(* The palette and the text. *)

\* Every step is a step of the timing generator or invisible to it.
LEMMA BeamStep == ScreenSaver_Next => [Next]_vgaVars
  <1>1. Clock => [Next]_vgaVars
    BY DEF Clock, Interface_Clock, Next, vgaVars
  <1>2. BoardReset \/ BoardRelease => [Next]_vgaVars
    BY DEF BoardReset, BoardRelease, Interface_Reset, Interface_Release, Next
  <1>3. Program => [Next]_vgaVars
    BY DEF Program, Clear, PaletteRead, PaletteMask, PaletteAdd, Roll, Draw, WakeUp, Issue,
           interfaceVars
  <1> QED BY <1>1, <1>2, <1>3 DEF ScreenSaver_Next

\* The invariants hold at power-up.
LEMMA SaverInit == ScreenSaver_Init => TypeOK /\ SaverInv
  <1> SUFFICES ASSUME ScreenSaver_Init PROVE TypeOK /\ SaverInv
    OBVIOUS
  <1>1. /\ avl = Idle /\ AVL_READDATA = Blank /\ READ_A = Blank /\ READ_B = Blank
        /\ color_registers = [r \in RegisterNumbers |-> Blank]
        /\ mem = [a \in Addresses |-> Blank]
        /\ pc = "clear" /\ i = 0 /\ val = 0 /\ Init
    BY DEF ScreenSaver_Init, Interface_Init, RegisterNumbers, Addresses
  <1>2. Blank \in Word /\ Blank[0] = 0 /\ Blank[2] = 0 /\ Idle.op = "idle"
    BY DEF Blank, Word, Lane, Byte, Idle
  <1>3. HasColours(0)
    <2>1. 0 \div 16 = 0 /\ 0 % 16 = 0 /\ 0 \in ColorNumbers
      BY Sizes DEF ColorNumbers
    <2> QED BY <2>1 DEF HasColours
  <1>4. Types
    BY <1>1, <1>2, CycleTypes DEF Types, Numbers
  <1>5. LoopInv /\ BusInv
    BY <1>1, <1>2, TextBelowPalette DEF LoopInv, BusInv, Bytes, Setting, AVL_READ, AVL_WRITE
  <1>6. PaletteInv /\ TextInv
    BY <1>1 DEF PaletteInv, TextInv, Setting, Drawing
  <1>7. ColouredInv /\ WriteInv
    <2>1. \A a \in 0 .. PaletteBase - 1 : a \in Addresses
      BY Sizes DEF Addresses
    <2>2. \A a \in Addresses : mem[a] = Blank
      BY <1>1
    <2> QED BY <1>1, <1>2, <1>3, <2>1, <2>2 DEF ColouredInv, WriteInv, AVL_WRITE
  <1>8. TypeOK
    BY <1>1, TypeInit
  <1> QED BY <1>4, <1>5, <1>6, <1>7, <1>8 DEF SaverInv

\* Every step keeps them.
LEMMA SaverStep == TypeOK /\ SaverInv /\ [ScreenSaver_Next]_saverVars => TypeOK' /\ SaverInv'
  <1> SUFFICES ASSUME TypeOK, SaverInv, [ScreenSaver_Next]_saverVars PROVE TypeOK' /\ SaverInv'
    OBVIOUS
  <1>1. TypeOK'
    <2>1. [Next]_vgaVars
      BY BeamStep DEF saverVars, interfaceVars
    <2> QED BY <2>1, TypeStep
  <1>2. CASE Clock
    BY <1>1, <1>2, ClockStep
  <1>3. CASE BoardReset
    BY <1>1, <1>3, ResetStep
  <1>4. CASE BoardRelease
    BY <1>1, <1>4, SameStep DEF BoardRelease, Interface_Release, SameBus, busVars, memVars
  <1>5. CASE Program
    BY <1>1, <1>5, ClearStep, ReadStep, MaskStep, AddStep, RollStep, DrawStep, WakeStep DEF Program
  <1>6. CASE UNCHANGED saverVars
    BY <1>1, <1>6, SameStep DEF saverVars, programVars, SameBus, interfaceVars, busVars, memVars
  <1> QED BY <1>1, <1>2, <1>3, <1>4, <1>5, <1>6 DEF ScreenSaver_Next

\* The loop, the bus cycle under way and the memories always agree: whatever the
\* driver has written so far is there once the cycle under way is done, after any
\* number of resets.
THEOREM AlwaysSaverInv == ScreenSaver_Spec => [](TypeOK /\ SaverInv)
  BY SaverInit, SaverStep, PTL DEF ScreenSaver_Spec

\* In the end the palette has the colours.
LEMMA PaletteThere == SaverInv => PaletteLoaded
  <1> SUFFICES ASSUME SaverInv, pc \in {"draw", "sleep"}, NEW k \in ColorNumbers
               PROVE  Palette[k] = colors[k + 1]
    BY DEF PaletteLoaded
  <1>1. FinalRegisters = color_registers
    BY DEF SaverInv, BusInv, FinalRegisters, RegistersAfter, AVL_WRITE, High
  <1>2. PaletteColour(FinalRegisters, k) = colors[k + 1]
    BY DEF SaverInv, PaletteInv, ColoursSet, Drawing, ColorNumbers
  <1> QED BY <1>1, <1>2 DEF Palette

\* For every palette and size of screen: once the driver draws, every colour
\* number stands for the driver's colour, whatever resets interrupted.
THEOREM AlwaysPaletteLoaded == ScreenSaver_Spec => []PaletteLoaded
  BY AlwaysSaverInv, PaletteThere, PTL

\* The two bytes of a cell.
LEMMA CellHalves ==
    \A c \in Cells : /\ c \in Nat /\ 2 * c \in Bytes /\ 2 * c + 1 \in Bytes
                     /\ (2 * c) \div 4 = c \div 2 /\ (2 * c) % 4 = 2 * (c % 2)
                     /\ (2 * c + 1) \div 4 = c \div 2 /\ (2 * c + 1) % 4 = 2 * (c % 2) + 1
  BY TextBelowPalette DEF Cells, Bytes

\* The two bytes of a cell are its attributes and its character.
LEMMA CellBytes ==
    ASSUME NEW c \in Cells
    PROVE  ByteAt(mem, 2 * c) = Attributes[c] /\ ByteAt(mem, 2 * c + 1) = Characters[c]
  BY CellHalves DEF ByteAt, Attributes, Characters

\* Contrasting attributes show.
LEMMA ContrastShows ==
    ASSUME PaletteLoaded, pc \in {"draw", "sleep"}, NEW a \in Contrasts
    PROVE  Palette[a \div 16] # Palette[a % 16]
  <1> PICK f \in ColorNumbers, b \in ColorNumbers : a = 16 * f + b
    BY DEF Contrasts
  <1>1. f # b
    <2>1. f \in Nat /\ 16 * f + f = 17 * f
      BY ColourRegister
    <2> QED BY <2>1 DEF Contrasts
  <1>2. a \div 16 = f /\ a % 16 = b
    BY <1>1, ContrastType
  <1>3. colors[f + 1] # colors[b + 1]
    <2>1. f + 1 \in 1 .. NumColors /\ b + 1 \in 1 .. NumColors /\ f + 1 # b + 1
      BY <1>1, Sizes DEF ColorNumbers
    <2> QED BY <2>1, DriverAssumption
  <1> QED BY <1>2, <1>3 DEF PaletteLoaded

\* While the driver sleeps, the text is on the screen where it was drawn.
LEMMA TextThere == SaverInv => TextDrawn
  <1> SUFFICES ASSUME SaverInv PROVE TextDrawn
    OBVIOUS
  <1> USE DEF SaverInv
  <1>1. ASSUME pc = "sleep"
        PROVE  /\ text.x + Len(text.string) <= COLUMNS
               /\ \A k \in 1 .. Len(text.string) :
                    LET c == text.y * COLUMNS + text.x + k - 1
                    IN Characters[c] = text.string[k] /\ Attributes[c] = 16 * text.fg + text.bg
    <2>1. Memory = mem /\ IsText
      BY <1>1 DEF BusInv, TextInv, Memory, MemoryAfter
    <2>2. Len(text.string) \in Nat /\ text.x + Len(text.string) <= COLUMNS
      BY <2>1 DEF IsText
    <2>3. ASSUME NEW k \in 1 .. Len(text.string), NEW c, c = text.y * COLUMNS + text.x + k - 1
          PROVE  Characters[c] = text.string[k] /\ Attributes[c] = 16 * text.fg + text.bg
      <3> DEFINE x == text.x + (k - 1)
                 j == 2 * (k - 1)
      <3>1. x \in 0 .. COLUMNS - 1 /\ text.y \in 0 .. ROWS - 1 /\ text.x \in Nat
        BY <2>1, <2>2, Sizes DEF IsText
      <3>2. text.y * COLUMNS \in Nat
        BY <3>1, Sizes
      <3>3. c = text.y * COLUMNS + x
        BY <2>3, <3>1, <3>2
      <3>4. c \in Cells
        BY <3>1, <3>3, CellOfText
      <3>5. DrawnByte(j) = 2 * c /\ DrawnByte(j + 1) = 2 * c + 1
        <4> DEFINE a == text.y * COLUMNS
        <4>1. a \in Nat /\ DrawnByte(j) = 2 * (a + text.x) + j /\ DrawnByte(j + 1) = 2 * (a + text.x) + (j + 1)
          BY <3>2 DEF DrawnByte
        <4>2. c = a + x
          BY <3>3
        <4> HIDE DEF a
        <4>3. \A u, l \in Nat : 2 * (a + u) + 2 * l = 2 * (a + (u + l)) /\ 2 * (a + u) + (2 * l + 1) = 2 * (a + (u + l)) + 1
          BY <4>1
        <4>4. k - 1 \in Nat
          BY <2>2
        <4> QED BY <3>1, <4>1, <4>2, <4>3, <4>4
      <3>6. j \in 0 .. 2 * Len(text.string) - 1 /\ j + 1 \in 0 .. 2 * Len(text.string) - 1
        BY <2>2
      <3>7. DrawnValue(j) = 16 * text.fg + text.bg /\ DrawnValue(j + 1) = text.string[k]
        <4>1. j % 2 = 0 /\ (j + 1) % 2 # 0 /\ (j + 1) \div 2 + 1 = k
          BY <2>2
        <4> QED BY <4>1 DEF DrawnValue
      <3>8. ByteAt(mem, 2 * c) = DrawnValue(j) /\ ByteAt(mem, 2 * c + 1) = DrawnValue(j + 1)
        BY <1>1, <2>1, <3>5, <3>6 DEF TextInv
      <3> QED BY <3>4, <3>7, <3>8, CellBytes
    <2> QED BY <2>2, <2>3
  <1>2. ASSUME pc \in {"draw", "sleep"}, NEW c \in Cells, Characters[c] # 0
        PROVE  Palette[Attributes[c] \div 16] # Palette[Attributes[c] % 16]
    <2>1. Attributes[c] \in Contrasts
      BY <1>2, CellBytes DEF TextInv, Drawing, Readable
    <2> QED BY <1>2, <2>1, PaletteThere, ContrastShows
  <1> QED BY <1>1, <1>2 DEF TextDrawn

\* For every font, palette, size of screen and choice of texts: a text that has
\* been drawn is there in its row and its colours, and no character anywhere
\* has the colour of its background.
THEOREM AlwaysTextDrawn == ScreenSaver_Spec => []TextDrawn
  BY AlwaysSaverInv, TextThere, PTL

\* The timing of the picture is the same under the driver: the beam is off
\* during the pulses, and every pixel and pulse is where the raster has it.
THEOREM BeamUnderSaver == ScreenSaver_Spec => []BlankDuringSync /\ RasterSafety
  <1>1. ScreenSaver_Init => Init
    BY DEF ScreenSaver_Init, Interface_Init
  <1>2. [ScreenSaver_Next]_saverVars => [Next]_vgaVars
    BY BeamStep DEF saverVars, interfaceVars
  <1> QED BY <1>1, <1>2, PulseInit, PulseBlank, PulseStep, TypeInit, TypeStep, RasterInit, RasterStep,
             PTL DEF ScreenSaver_Spec, RasterSafety

-----------------------------------------------------------------------------
(* The text screen. *)

\* During a reset the beam is in the corner.
CornerInv == Reset => hc = 0 /\ vc = 0

\* The beam leaves the corner only when the reset is over.
LEMMA CornerStep == CornerInv /\ [ScreenSaver_Next]_saverVars => CornerInv'
  <1>1. CornerInv /\ [Next]_vgaVars => CornerInv'
    BY DEF CornerInv, Next, ClkEdge, AssertReset, ReleaseReset, vgaVars
  <1> QED BY <1>1, BeamStep DEF saverVars, interfaceVars

\* A position of the picture is over a cell, whose word is the one addressed.
LEMMA CellUnderBeam ==
    ASSUME TypeOK, display
    PROVE  /\ row_major_index \in Cells
           /\ row_major_address = row_major_index \div 2
  <1> DEFINE y == vc \div glyphHeight
             x == hc \div glyphWidth
  <1>1. hc \in Nat /\ vc \in Nat /\ hc < COLUMNS * glyphWidth /\ vc < ROWS * glyphHeight
    BY Sizes, Timing DEF TypeOK, display
  <1>2. ASSUME NEW n \in Nat, NEW d \in Nat \ {0}, NEW m \in Nat, n < m * d
        PROVE  n \div d \in 0 .. m - 1
    <2> DEFINE q == n \div d
    <2>1. q \in Nat /\ q * d <= n
      OBVIOUS
    <2> HIDE DEF q
    <2>2. CASE q >= m
      <3>1. (q - m) * d >= 0 /\ (q - m) * d = q * d - m * d
        BY <2>1, <2>2
      <3> QED BY <1>2, <2>1, <3>1
    <2> QED BY <2>1, <2>2 DEF q
  <1>3. y \in 0 .. ROWS - 1 /\ x \in 0 .. COLUMNS - 1
    BY <1>1, <1>2, Sizes
  <1>4. row_major_index = y * COLUMNS + x
    BY DEF row_major_index, DrawX, DrawY
  <1> HIDE DEF x, y
  <1>5. row_major_index \in Cells
    BY <1>3, <1>4, CellOfText
  <1>6. row_major_index \div 2 \in 0 .. PaletteBase - 1
    BY <1>5, TextBelowPalette, Sizes DEF Cells
  <1>7. \A n \in 0 .. PaletteBase - 1 : n % PaletteBase = n
    BY Sizes
  <1> QED BY <1>5, <1>6, <1>7 DEF row_major_address

\* Where a write leaves the cells alone.
LEMMA SameText ==
    ASSUME \A b \in Bytes : ByteAt(mem', b) = ByteAt(mem, b)
    PROVE  Attributes' = Attributes /\ Characters' = Characters
  <1>1. \A c \in Cells : 2 * c \in Bytes /\ 2 * c + 1 \in Bytes
    BY CellHalves
  <1>2. /\ Attributes' = [c \in Cells |-> ByteAt(mem', 2 * c)]
        /\ Characters' = [c \in Cells |-> ByteAt(mem', 2 * c + 1)]
    BY CellHalves DEF Attributes, Characters, ByteAt
  <1>3. /\ Attributes = [c \in Cells |-> ByteAt(mem, 2 * c)]
        /\ Characters = [c \in Cells |-> ByteAt(mem, 2 * c + 1)]
    BY CellHalves DEF Attributes, Characters, ByteAt
  <1> QED BY <1>1, <1>2, <1>3

\* One byte of one cell is written.
LEMMA OneCell ==
    ASSUME NEW b \in Bytes, \A a \in Bytes \ {b} : ByteAt(mem', a) = ByteAt(mem, a)
    PROVE  /\ b \div 2 \in Cells
           /\ \A d \in Cells \ {b \div 2} : Attributes'[d] = Attributes[d] /\ Characters'[d] = Characters[d]
           /\ Attributes'[b \div 2] = Attributes[b \div 2] \/ Characters'[b \div 2] = Characters[b \div 2]
  <1> DEFINE c == b \div 2
  <1>1. c \in Cells /\ b \in Nat /\ (b = 2 * c \/ b = 2 * c + 1)
    BY TextBelowPalette DEF Cells, Bytes
  <1> HIDE DEF c
  <1>2. \A d \in Cells : Attributes'[d] = ByteAt(mem', 2 * d) /\ Characters'[d] = ByteAt(mem', 2 * d + 1)
    BY CellHalves DEF Attributes, Characters, ByteAt
  <1>3. \A d \in Cells : Attributes[d] = ByteAt(mem, 2 * d) /\ Characters[d] = ByteAt(mem, 2 * d + 1)
    BY CellHalves DEF Attributes, Characters, ByteAt
  <1>4. \A d \in Cells \ {c} : Attributes'[d] = Attributes[d] /\ Characters'[d] = Characters[d]
    <2> SUFFICES ASSUME NEW d \in Cells \ {c}
                 PROVE  Attributes'[d] = Attributes[d] /\ Characters'[d] = Characters[d]
      OBVIOUS
    <2>1. d \in Nat /\ c \in Nat /\ 2 * d \in Bytes /\ 2 * d + 1 \in Bytes
      BY <1>1, CellHalves
    <2>2. 2 * d # b /\ 2 * d + 1 # b
      BY <1>1, <2>1
    <2> QED BY <1>2, <1>3, <2>1, <2>2
  <1>5. Attributes'[c] = Attributes[c] \/ Characters'[c] = Characters[c]
    <2>1. c \in Nat /\ 2 * c \in Bytes /\ 2 * c + 1 \in Bytes
      BY <1>1, CellHalves
    <2>2. 2 * c # b \/ 2 * c + 1 # b
      BY <1>1, <2>1
    <2> QED BY <1>1, <1>2, <1>3, <2>1, <2>2
  <1> QED BY <1>1, <1>4, <1>5 DEF c

\* The cell read under the beam, if one has been: what Screen calls fetched.
Fetched == IF ~Reset /\ ~clkdiv /\ display THEN {HalfWord(READ_B, row_major_index)} ELSE {}

\* Half a pixel: the memory answers with the word under the beam, or anyhow
\* while that word is written.
LEMMA FetchStep ==
    ASSUME TypeOK, Types, Clock, ClkEdge, clkdiv, NEW D,
           AVL_WRITE /\ avl.addr = row_major_address /\ display
                => \E d \in D : row_major_index \div 2 = d \div 2
    PROVE  Screen!Beam(D)
  <1>1. /\ UNCHANGED <<Reset, hc, vc, RGB, pixel>> /\ ~Reset /\ clkdiv' = FALSE
    BY DEF Clock, Interface_Clock, ClkEdge, pixelVars
  <1>2. display' = display /\ row_major_index' = row_major_index
    BY <1>1 DEF display, row_major_index, DrawX, DrawY
  <1>3. Fetched = {} /\ Fetched' = IF display THEN {HalfWord(READ_B', row_major_index)} ELSE {}
    BY <1>1, <1>2 DEF Fetched, HalfWord
  <1>4. CASE ~display
    BY <1>1, <1>3, <1>4 DEF Screen!Beam, Fetched
  <1>5. CASE display
    <2>1. row_major_index \in Cells /\ row_major_address = row_major_index \div 2
      BY <1>5, CellUnderBeam
    <2>2. CASE READ_B' = mem[row_major_address]
      <3>1. HalfWord(READ_B', row_major_index)
              = [attribute |-> Attributes[row_major_index], character |-> Characters[row_major_index]]
        BY <2>1, <2>2 DEF HalfWord, Attributes, Characters
      <3>2. Screen!Fetch(D)
        BY <1>1, <1>3, <1>5, <3>1 DEF Screen!Fetch, Fetched, display, row_major_index, DrawX, DrawY
      <3> QED BY <3>2 DEF Screen!Beam
    <2>3. CASE AVL_WRITE /\ avl.addr = row_major_address
      <3>1. \E d \in D : row_major_index \div 2 = d \div 2
        BY <1>5, <2>3
      <3>2. Screen!Fetch(D)
        BY <1>1, <1>3, <1>5, <3>1 DEF Screen!Fetch, Fetched, display, row_major_index, DrawX, DrawY
      <3> QED BY <3>2 DEF Screen!Beam
    <2> QED BY <2>2, <2>3 DEF Clock, Interface_Clock, ONCHIPMEM_Clock
  <1> QED BY <1>4, <1>5

\* The other half: the pixel is painted and the beam moves.
LEMMA PaintStep ==
    ASSUME TypeOK, SaverInv, Clock, ClkEdge, ~clkdiv, NEW D
    PROVE  Screen!Beam(D)
  <1>1. ~Reset /\ ~Reset' /\ clkdiv' /\ counter_proc
    BY DEF ClkEdge
  <1>2. <<hc', vc'>> # <<hc, vc>>
    BY <1>1, Timing DEF counter_proc, TypeOK
  <1>3. Pixel_Clock
    BY DEF Clock, Interface_Clock, ClkEdge
  <1>4. Fetched' = {} /\ (display => Fetched = {HalfWord(READ_B, row_major_index)})
    BY <1>1 DEF Fetched
  <1>5. CASE ~display
    <2>1. RGB' = RGB /\ pixel' = 0
      BY <1>3, <1>5 DEF Pixel_Clock, blank
    <2> QED BY <1>1, <1>2, <1>4, <1>5, <2>1 DEF Screen!Beam, Screen!PaintAndMove, Fetched, display
  <1>6. CASE display
    <2> DEFINE cell == HalfWord(READ_B, row_major_index)
               lit == (cell.character >= 128) #
                        ((glyphWidth - 1) - (hc % glyphWidth) \in font[cell.character % 128][vc % glyphHeight])
               number == IF lit THEN cell.attribute \div 16 ELSE cell.attribute % 16
    <2>1. RGB' = PaletteColour(color_registers, number) /\ pixel' = RGB
      BY <1>3, <1>6 DEF Pixel_Clock, blank, out, invert, CHAR1, FG, BG, DrawX, DrawY
    <2>2. HasColours(cell.attribute)
      <3>1. row_major_index % 2 \in {0, 1}
        BY WordUnderBeam
      <3>2. cell.attribute = READ_B[2 * (row_major_index % 2)]
        BY DEF HalfWord
      <3> QED BY <3>1, <3>2 DEF SaverInv, ColouredInv
    <2>3. RGB' = Palette[number]
      BY <2>1, <2>2 DEF HasColours, Palette
    <2>4. Screen!PaintAndMove
      BY <1>1, <1>2, <1>4, <1>6, <2>1, <2>3 DEF Screen!PaintAndMove, Fetched, display
    <2> QED BY <2>4 DEF Screen!Beam
  <1> QED BY <1>5, <1>6

\* What a clock edge does to the beam.
LEMMA BeamClock ==
    ASSUME TypeOK, SaverInv, Clock, NEW D,
           AVL_WRITE /\ avl.addr = row_major_address /\ display
                => \E d \in D : row_major_index \div 2 = d \div 2
    PROVE  Screen!Beam(D)
  <1>1. CASE ClkEdge /\ clkdiv
    BY <1>1, FetchStep DEF SaverInv
  <1>2. CASE ClkEdge /\ ~clkdiv
    BY <1>2, PaintStep
  <1>3. CASE Reset /\ UNCHANGED <<vgaVars, pixelVars>>
    BY <1>3 DEF Screen!Beam, vgaVars, pixelVars
  <1> QED BY <1>1, <1>2, <1>3 DEF Clock, Interface_Clock

\* The colours of one field of a register.
LEMMA OneColour ==
    ASSUME NEW k \in ColorNumbers, color_registers' = FinalRegisters,
           PaletteColour(FinalRegisters, k) \in {0, colors[k + 1]},
           \A j \in ColorNumbers \ {k} :
             PaletteColour(FinalRegisters, j) = PaletteColour(color_registers, j)
    PROVE  \/ Palette' = [Palette EXCEPT ![k] = 0]
           \/ Palette' = [Palette EXCEPT ![k] = colors[k + 1]]
  <1>1. Palette' = [j \in ColorNumbers |-> PaletteColour(FinalRegisters, j)]
    BY DEF Palette, ColorNumbers, NumColors
  <1>2. Palette = [j \in ColorNumbers |-> PaletteColour(color_registers, j)]
    BY DEF Palette
  <1> QED BY <1>1, <1>2

\* A clock edge is a step of the screen.
LEMMA ScreenClock == ASSUME TypeOK, SaverInv, Clock PROVE Screen!Next
  <1>1. mem' = Memory /\ color_registers' = FinalRegisters
    BY Clocked DEF SaverInv
  <1>2. CASE ~AVL_WRITE
    <2>1. Screen!Beam({})
      BY <1>2, BeamClock
    <2>2. mem' = mem /\ color_registers' = color_registers
      BY <1>1, <1>2 DEF Memory, MemoryAfter, FinalRegisters, RegistersAfter, AVL_WRITE
    <2>3. UNCHANGED <<Attributes, Characters, Palette>>
      BY <2>2 DEF Attributes, Characters, Palette, Cells, ColorNumbers, NumColors
    <2> QED BY <2>1, <2>3 DEF Screen!Next, Screen!Keep
  <1>3. ASSUME NEW b \in Bytes, NEW v \in Byte, avl = ByteWrite(b, v)
        PROVE  Screen!Next
    <2> DEFINE c == b \div 2
    <2>1. /\ FinalRegisters = color_registers
          /\ \A a \in Bytes \ {b} : ByteAt(Memory, a) = ByteAt(mem, a)
      <3>1. mem \in [Addresses -> Word]
        BY DEF SaverInv, Types
      <3> QED BY <1>3, <3>1, ByteWritten, RegistersKept DEF Memory, FinalRegisters
    <2>2. /\ c \in Cells
          /\ \A d \in Cells \ {c} : Attributes'[d] = Attributes[d] /\ Characters'[d] = Characters[d]
          /\ Attributes'[c] = Attributes[c] \/ Characters'[c] = Characters[c]
      BY <1>1, <2>1, OneCell
    <2>3. Palette' = Palette
      BY <1>1, <2>1 DEF Palette, ColorNumbers, NumColors
    <2>4. Screen!Beam({c})
      <3>1. avl.addr = c \div 2
        <4>1. b \in Nat /\ b \div 4 = (b \div 2) \div 2
          BY TextBelowPalette DEF Bytes
        <4> QED BY <1>3, <4>1 DEF ByteWrite
      <3>2. AVL_WRITE /\ avl.addr = row_major_address /\ display
                => \E d \in {c} : row_major_index \div 2 = d \div 2
        BY <3>1, CellUnderBeam
      <3> QED BY <3>2, BeamClock
    <2> HIDE DEF c
    <2>5. Screen!WriteCell(c)
      BY <2>2, <2>3, <2>4 DEF Screen!WriteCell
    <2> QED BY <2>2, <2>5 DEF Screen!Next
  <1>4. ASSUME AVL_WRITE, High, NEW k \in ColorNumbers,
               PaletteColour(FinalRegisters, k) \in {0, colors[k + 1]},
               \A j \in ColorNumbers \ {k} :
                 PaletteColour(FinalRegisters, j) = PaletteColour(color_registers, j)
        PROVE  Screen!Next
    <2>1. \/ Palette' = [Palette EXCEPT ![k] = 0]
          \/ Palette' = [Palette EXCEPT ![k] = colors[k + 1]]
      BY <1>1, <1>4, OneColour
    <2>2. \A b \in Bytes : ByteAt(Memory, b) = ByteAt(mem, b)
      <3>1. \A b \in Bytes : b \div 4 \in Addresses /\ b \div 4 # avl.addr
        BY <1>4, TextBelowPalette, Sizes DEF High, Addresses
      <3> QED BY <3>1 DEF Memory, MemoryAfter, ByteAt, SaverInv, Types
    <2>3. Attributes' = Attributes /\ Characters' = Characters
      BY <1>1, <2>2, SameText
    <2>4. Screen!Beam({})
      <3>1. avl.addr # row_major_address
        BY <1>4, WordUnderBeam, Sizes DEF High
      <3> QED BY <3>1, BeamClock
    <2>5. Screen!SetColour(k)
      BY <2>1, <2>3, <2>4 DEF Screen!SetColour
    <2> QED BY <2>5 DEF Screen!Next
  <1> QED BY <1>2, <1>3, <1>4 DEF SaverInv, WriteInv

\* A step of the program, while no clock ticks, shows nothing.
LEMMA ScreenSame ==
    ASSUME UNCHANGED <<vgaVars, mem, color_registers, READ_B, pixelVars>>
    PROVE  UNCHANGED Screen!screenVars
  <1>1. UNCHANGED <<Attributes, Characters, Palette>>
    BY DEF Attributes, Characters, Palette, Cells, ColorNumbers, NumColors
  <1>2. Fetched' = Fetched
    BY DEF Fetched, vgaVars, display, HalfWord, row_major_index, DrawX, DrawY
  <1> QED BY <1>1, <1>2 DEF Screen!screenVars, Fetched, vgaVars, pixelVars

\* A reset comes or goes.
LEMMA ScreenReset ==
    ASSUME TypeOK, CornerInv, BoardReset \/ BoardRelease
    PROVE  [Screen!Next]_Screen!screenVars
  <1>1. /\ UNCHANGED <<mem, color_registers, READ_B, RGB, pixel>>
        /\ Reset' \in BOOLEAN /\ hc' = 0 /\ vc' = 0
        /\ Reset' \/ Reset
    BY DEF BoardReset, BoardRelease, Interface_Reset, Interface_Release, memVars, pixelVars,
           AssertReset, ReleaseReset, CornerInv
  <1>2. UNCHANGED <<Attributes, Characters, Palette>>
    BY <1>1 DEF Attributes, Characters, Palette, Cells, ColorNumbers, NumColors
  <1>3. CASE Reset' /\ Reset
    <2>1. Fetched = {} /\ Fetched' = {} /\ hc' = hc /\ vc' = vc
      BY <1>1, <1>3 DEF Fetched, CornerInv
    <2>2. (~Reset)' = ~Reset
      BY <1>3
    <2>3. Screen!Beam({})
      BY <1>1, <2>1, <2>2 DEF Screen!Beam, Fetched
    <2> QED BY <1>2, <2>3 DEF Screen!Next, Screen!Keep
  <1>4. CASE ~(Reset' /\ Reset)
    <2>1. (~Reset)' # ~Reset
      BY <1>1, <1>4 DEF TypeOK
    <2>2. Screen!Beam({})
      BY <1>1, <2>1 DEF Screen!Beam, Screen!Switch
    <2> QED BY <1>2, <2>2 DEF Screen!Next, Screen!Keep
  <1> QED BY <1>3, <1>4

\* Every step is a step of the screen or invisible to it.
LEMMA ScreenStep ==
    TypeOK /\ SaverInv /\ CornerInv /\ [ScreenSaver_Next]_saverVars
        => [Screen!Next]_Screen!screenVars
  <1> SUFFICES ASSUME TypeOK, SaverInv, CornerInv, [ScreenSaver_Next]_saverVars
               PROVE  [Screen!Next]_Screen!screenVars
    OBVIOUS
  <1>1. CASE Clock
    BY <1>1, ScreenClock
  <1>2. CASE BoardReset \/ BoardRelease
    BY <1>2, ScreenReset
  <1>3. CASE Program \/ UNCHANGED saverVars
    <2>1. UNCHANGED <<vgaVars, mem, color_registers, READ_B, pixelVars>>
      BY <1>3 DEF Program, Clear, PaletteRead, PaletteMask, PaletteAdd, Roll, Draw, WakeUp, Issue,
                  saverVars, interfaceVars, memVars
    <2> QED BY <2>1, ScreenSame
  <1> QED BY <1>1, <1>2, <1>3 DEF ScreenSaver_Next

\* The screen starts empty and black.
LEMMA ScreenInit == ScreenSaver_Init => Screen!Init /\ CornerInv
  <1> SUFFICES ASSUME ScreenSaver_Init PROVE Screen!Init /\ CornerInv
    OBVIOUS
  <1>1. /\ color_registers = [r \in RegisterNumbers |-> Blank]
        /\ mem = [a \in Addresses |-> Blank]
        /\ RGB = 0 /\ pixel = 0 /\ hc = 0 /\ vc = 0
    BY DEF ScreenSaver_Init, Interface_Init, RegisterNumbers, Addresses, Init
  <1>2. Blank[0] = 0 /\ Blank[1] = 0 /\ Blank[2] = 0 /\ Blank[3] = 0
    BY DEF Blank, Lane
  <1>3. ASSUME NEW c \in Cells
        PROVE  Attributes[c] = 0 /\ Characters[c] = 0
    <2>1. c \in Nat /\ c \div 2 \in Addresses /\ (c % 2 = 0 \/ c % 2 = 1)
      BY TextBelowPalette, Sizes DEF Cells, Addresses
    <2> QED BY <1>1, <1>2, <2>1 DEF Attributes, Characters
  <1>4. Attributes = [c \in Cells |-> 0] /\ Characters = [c \in Cells |-> 0]
    BY <1>3 DEF Attributes, Characters
  <1>5. Palette = [k \in ColorNumbers |-> 0]
    <2>1. Number(Blank) = 0
      BY <1>2, SMT DEF Number
    <2>2. \A k \in ColorNumbers : color_registers[k \div 2] = Blank
      BY <1>1, ColourRegister
    <2>3. 0 \div 2 = 0 /\ 0 \div 8192 = 0 /\ 0 % 4096 = 0
      BY SMT
    <2>4. \A k \in ColorNumbers : PaletteColour(color_registers, k) = 0
      BY <2>1, <2>2, <2>3 DEF PaletteColour
    <2> QED BY <2>4 DEF Palette
  <1> QED BY <1>1, <1>4, <1>5 DEF Screen!Init, CornerInv

\* For every size of screen, font, palette and choice of texts, whatever the
\* program, the beam and the resets do at once: the pixels are those of the
\* cells, and cells and colours change one at a time.
THEOREM AlwaysTextScreen == ScreenSaver_Spec => ImplementsTextScreen
  BY AlwaysSaverInv, ScreenInit, CornerStep, ScreenStep, PTL
     DEF ScreenSaver_Spec, ImplementsTextScreen, Screen!Spec
=============================================================================
