----------------------------- MODULE TextScreen -----------------------------
(***************************************************************************)
(* What a text screen promises: cells and colours change one at a time,    *)
(* and the beam paints the cell it is over in the colours of the scheme,   *)
(* one pixel late.  Nothing is said of words, lanes, registers or buses,   *)
(* and the order of the positions is left to Raster.                       *)
(***************************************************************************)
EXTENDS Integers

CONSTANTS
    Cells,                          \* their numbers
    Scheme, Black,                  \* the colour each number stands for in the end, and none
    Foreground(_), Background(_),   \* the colour numbers of an attribute
    CellAt(_, _),                   \* the cell under a position of the beam
    Lit(_, _, _),                   \* whether a character is lit at a position
    Visible(_, _),                  \* positions of the picture
    Together(_, _)                  \* cells that are read together

VARIABLES
    attribute, character,   \* of every cell
    colour,                 \* of every number
    on, X, Y,               \* the beam
    fetched,                \* the cell read under the beam, if one has been
    sample, shown           \* the pixel painted last, the pixel on the cable

screenVars == <<attribute, character, colour, on, X, Y, fetched, sample, shown>>

\* Half a pixel: the cell under the beam is read, as it is or, while one that
\* is read together with it changes, anyhow.
Fetch(changed) ==
    /\ on /\ Visible(X, Y)
    /\ \/ fetched' = {[attribute |-> attribute[CellAt(X, Y)], character |-> character[CellAt(X, Y)]]}
       \/ fetched' # {} /\ \E d \in changed : Together(CellAt(X, Y), d)
    /\ UNCHANGED <<on, X, Y, sample, shown>>

\* The other half: it is painted, the pixel before it goes out, the beam moves.
PaintAndMove ==
    /\ on /\ on' /\ <<X', Y'>> # <<X, Y>>
    /\ IF Visible(X, Y)
       THEN /\ \E cell \in fetched :
                sample' = colour[IF Lit(cell.character, X, Y)
                                 THEN Foreground(cell.attribute) ELSE Background(cell.attribute)]
            /\ shown' = sample
       ELSE sample' = sample /\ shown' = Black
    /\ fetched' = {}

\* The beam is switched off, or on again from the corner; what is read there
\* first may be old.
Switch == on' # on /\ X' = 0 /\ Y' = 0 /\ UNCHANGED <<sample, shown>>

Beam(changed) ==
    \/ Fetch(changed)
    \/ PaintAndMove
    \/ Switch
    \/ UNCHANGED <<on, X, Y, fetched, sample, shown>>

Keep == UNCHANGED <<attribute, character, colour>> /\ Beam({})

\* One byte of one cell is written, perhaps as it was.
WriteCell(c) ==
    /\ \A d \in Cells \ {c} : attribute'[d] = attribute[d] /\ character'[d] = character[d]
    /\ attribute'[c] = attribute[c] \/ character'[c] = character[c]
    /\ colour' = colour
    /\ Beam({c})

\* A colour passes through black to the one it stands for; no other changes.
SetColour(k) ==
    /\ colour' \in {[colour EXCEPT ![k] = Black], [colour EXCEPT ![k] = Scheme[k]]}
    /\ UNCHANGED <<attribute, character>>
    /\ Beam({})

Next == Keep \/ (\E c \in Cells : WriteCell(c)) \/ (\E k \in DOMAIN Scheme : SetColour(k))

Init ==
    /\ attribute = [c \in Cells |-> 0] /\ character = [c \in Cells |-> 0]
    /\ colour = [k \in DOMAIN Scheme |-> Black]
    /\ X = 0 /\ Y = 0 /\ sample = Black /\ shown = Black

Spec == Init /\ [][Next]_screenVars
=============================================================================
