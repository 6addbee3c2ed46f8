------------------------------- MODULE Raster -------------------------------
(***************************************************************************)
(* What a monitor expects of a VGA timing generator: the pixels of a frame *)
(* in order, one per step, and every output a function of the pixel's      *)
(* number n in the frame.                                                  *)
(***************************************************************************)
EXTENDS Integers

CONSTANTS
    Columns, Lines,     \* size of the frame, with the blanked part
    Width, Height,      \* size of the picture
    HPulse,             \* the columns of the horizontal pulse
    VPulse              \* the pixel at which the vertical pulse begins

VARIABLES on, n, X, Y, visible, hsyncN, vsyncN

rasterVars == <<on, n, X, Y, visible, hsyncN, vsyncN>>

\* The outputs at pixel p of a frame.
Column(p)  == p % Columns
Line(p)    == p \div Columns
Visible(p) == Column(p) < Width /\ Line(p) < Height
Pulsing(p) == p \in VPulse .. VPulse + 2 * Columns - 1

Init ==
    /\ on \in BOOLEAN
    /\ n = 0 /\ X = 0 /\ Y = 0
    /\ visible = Visible(0)
    /\ hsyncN = FALSE /\ vsyncN = FALSE

Pixel ==
    /\ on
    /\ n' = (n + 1) % (Columns * Lines)
    /\ X' = Column(n') /\ Y' = Line(n')
    /\ visible' = Visible(n')
    /\ hsyncN' = (Column(n') \notin HPulse)
    /\ vsyncN' = ~Pulsing(n')
    /\ on' = on

\* Off: the first pixel, with both pulses on.
TurnOff ==
    /\ on' = FALSE
    /\ n' = 0 /\ X' = 0 /\ Y' = 0
    /\ visible' = Visible(0)
    /\ hsyncN' = FALSE /\ vsyncN' = FALSE

TurnOn == ~on /\ on' = TRUE /\ UNCHANGED <<n, X, Y, visible, hsyncN, vsyncN>>

Next == Pixel \/ TurnOff \/ TurnOn

Spec == Init /\ [][Next]_rasterVars /\ WF_rasterVars(Pixel)
=============================================================================
