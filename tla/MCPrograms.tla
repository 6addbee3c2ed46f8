----------------------------- MODULE MCPrograms -----------------------------
(***************************************************************************)
(* Runs of the image's programs.  256 words of RAM hold the image and the  *)
(* word that stores to xFFFF fall on.                                      *)
(***************************************************************************)
EXTENDS Programs, BitwiseWords

MCImage == [a \in 0 .. 174 |-> ProgramWord(a)]
MCFloatingWords == {0, 1, 32768}
=============================================================================
