--------------------------- MODULE MCTextInterface --------------------------
(***************************************************************************)
(* The text interface with any master on its bus, one that writes bytes of *)
(* the text and words of the palette and reads both back.                  *)
(***************************************************************************)
EXTENDS TextInterface

MCfont == [code \in 0 .. 2 |-> [row \in 0 .. 0 |-> {}]]
MCDontCare == {Blank}

Cycles ==
    {ReadOf(a) : a \in {0, 1, PaletteBase}}
        \cup {ByteWrite(b, 2) : b \in {0, 4}}
        \cup {WordWrite(PaletteBase, Lanes(2))}

AnyMaster ==
    \/ Interface_Clock \/ Interface_Reset \/ Interface_Release
    \/ ~Reset /\ \E cycle \in Cycles : Issue(cycle)

BusSpec == Interface_Init /\ [][AnyMaster]_interfaceVars
=============================================================================
