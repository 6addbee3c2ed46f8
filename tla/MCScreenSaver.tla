--------------------------- MODULE MCScreenSaver ----------------------------
(***************************************************************************)
(* A screen of two rows of four cells, two by two pixels each, in a frame  *)
(* that is two columns and some lines larger; four colours in two          *)
(* registers; texts of one and of two characters.                          *)
(***************************************************************************)
EXTENDS ScreenSaver

MCcolors == <<0, 160, 2560, 4095>>
MCfont == [code \in 0 .. 2 |-> [row \in 0 .. 1 |->
            IF code = 0 THEN {} ELSE IF code = 1 THEN {row} ELSE {0, 1 - row}]]
MCColorString(f, b) == IF f < b THEN <<1, 2>> ELSE <<2>>
MCRolls == {<<1, 2, 1, 0>>, <<3, 4, 4, 3>>}
MCDontCare == {[k \in Lane |-> IF k % 2 = 0 THEN 50 ELSE 2]}
=============================================================================
