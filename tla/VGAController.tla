--------------------------- MODULE VGAController ----------------------------
(***************************************************************************)
(* VGA_controller.sv: the timing generator of the VGA text interface.  The *)
(* 50 MHz clock Clk is halved into the pixel clock clkdiv; its rising      *)
(* edges move the position <<hc, vc>> and load the registered sync pulses. *)
(* Reset is asynchronous: it may come and go between two edges of Clk.     *)
(***************************************************************************)
EXTENDS Integers

CONSTANTS
    hpixels, vlines,        \* the last column and line: 799 and 524
    hdisplay, vdisplay,     \* the size of the picture: 640 by 480
    hsync, hsyncEnd,        \* where the horizontal pulse begins and ends: 656, 752
    vsync                   \* vsync_proc compares vc + 1 with vsync and vsync + 1: 490

ASSUME TimingAssumption ==
    /\ {hpixels, vlines, hdisplay, vdisplay, hsync, hsyncEnd, vsync} \subseteq Nat
    /\ 0 < hdisplay /\ hdisplay <= hsync /\ hsync < hsyncEnd /\ hsyncEnd <= hpixels
    /\ 0 < vdisplay /\ vdisplay < vsync /\ vsync < vlines

VARIABLES Reset, clkdiv, hc, vc, hs, vs

vgaVars == <<Reset, clkdiv, hc, vc, hs, vs>>

DrawX == hc
DrawY == vc
display == hc < hdisplay /\ vc < vdisplay
blank == display        \* active low: FALSE while the beam is off

-----------------------------------------------------------------------------

\* Every flip-flop powers up at 0.
Init ==
    /\ Reset \in BOOLEAN
    /\ clkdiv = FALSE /\ hc = 0 /\ vc = 0 /\ hs = FALSE /\ vs = FALSE

\* Faulty variants: a frame one line too long or too short.
counter_proc_ExtraLine ==
    IF hc = hpixels
    THEN hc' = 0 /\ vc' = (IF vc > vlines THEN 0 ELSE vc + 1)
    ELSE hc' = hc + 1 /\ vc' = vc

counter_proc_ShortFrame ==
    IF hc = hpixels
    THEN hc' = 0 /\ vc' = (IF vc = vlines - 1 THEN 0 ELSE vc + 1)
    ELSE hc' = hc + 1 /\ vc' = vc

counter_proc ==
    IF hc = hpixels
    THEN hc' = 0 /\ vc' = (IF vc = vlines THEN 0 ELSE vc + 1)
    ELSE hc' = hc + 1 /\ vc' = vc

\* Faulty variants: the pulse looks at the column it leaves, or has no start.
hsync_proc_Late == hs' = ~(hsync <= hc /\ hc < hsyncEnd)
hsync_proc_NoStart == hs' = ~(hc + 1 < hsyncEnd)

hsync_proc == hs' = ~(hsync <= hc + 1 /\ hc + 1 < hsyncEnd)
vsync_proc == vs' = ~(vc + 1 = vsync \/ vc + 1 = vsync + 1)

\* A rising edge of Clk.
ClkEdge ==
    /\ ~Reset
    /\ clkdiv' = ~clkdiv
    /\ IF clkdiv THEN UNCHANGED <<hc, vc, hs, vs>>
                 ELSE counter_proc /\ hsync_proc /\ vsync_proc
    /\ UNCHANGED Reset

AssertReset ==
    /\ Reset' = TRUE
    /\ clkdiv' = FALSE /\ hc' = 0 /\ vc' = 0 /\ hs' = FALSE /\ vs' = FALSE

ReleaseReset == Reset /\ Reset' = FALSE /\ UNCHANGED <<clkdiv, hc, vc, hs, vs>>

Next == ClkEdge \/ AssertReset \/ ReleaseReset

\* The oscillator never stops; nothing is assumed of Reset.
Spec == Init /\ [][Next]_vgaVars /\ WF_vgaVars(ClkEdge)

-----------------------------------------------------------------------------
(* Properties *)

\* The position is on the raster.
TypeOK ==
    /\ Reset \in BOOLEAN /\ clkdiv \in BOOLEAN
    /\ hc \in 0 .. hpixels /\ vc \in 0 .. vlines
    /\ hs \in BOOLEAN /\ vs \in BOOLEAN

\* The beam is off whenever a sync pulse is on, except on the first pixel
\* after a reset, where both pulses are on: the pulses are registered one
\* pixel behind the counters they are computed from.
BlankDuringSync == ~hs \/ ~vs => ~display \/ (hc = 0 /\ vc = 0)

\* Where the registered pulses are on, from the reset on.  What
\* BlankDuringSync follows from: hs is on time because it looks one column
\* ahead; vs looks one line ahead although the line does not change, so it
\* is one line less one pixel early.
PulsePositions ==
    /\ ~hs => (hc = 0 /\ vc = 0) \/ (hsync <= hc /\ hc < hsyncEnd)
    /\ ~vs => \/ hc = 0 /\ vc = 0
              \/ hc > 0 /\ vc \in {vsync - 1, vsync}
              \/ hc = 0 /\ vc \in {vsync, vsync + 1}

\* What the comment before vsync_proc says: the vertical pulse is lines 490
\* and 491.  The first pixel of a line is left open, since the pulses are
\* registered.  The code does not do this: see PulsePositions.
VSyncOnItsLines == hc # 0 => (~vs <=> vc \in {vsync, vsync + 1})

\* Once resets stop, frame follows frame.
FramesGoOn == <>[]~Reset => []<>(hc = hpixels /\ vc = vlines)

\* One counter of the pixels of a frame describes all five outputs.  VPulse is
\* where the code begins the vertical pulse, one line less one pixel before
\* the line its comment names (VSyncOnItsLines).
Raster == INSTANCE Raster WITH
            Columns <- hpixels + 1, Lines <- vlines + 1,
            Width <- hdisplay, Height <- vdisplay,
            HPulse <- hsync .. hsyncEnd - 1,
            VPulse <- (vsync - 1) * (hpixels + 1) + 1,
            on <- ~Reset, n <- vc * (hpixels + 1) + hc,
            X <- DrawX, Y <- DrawY, visible <- display, hsyncN <- hs, vsyncN <- vs

\* Every pixel of a frame is shown once and in order, each line has one
\* horizontal pulse and each frame one unbroken vertical pulse two lines long
\* (though not on the two lines VSyncOnItsLines asks for), across the wrap of
\* line and frame and from every reset on.
ImplementsRaster == Raster!Spec

\* Its safety part.
RasterSafety == Raster!Init /\ [][Raster!Next]_Raster!rasterVars
=============================================================================
