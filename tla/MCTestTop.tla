----------------------------- MODULE MCTestTop ------------------------------
(***************************************************************************)
(* An instance of the simulation top level: a 16-word program in a memory  *)
(* of 32 words.                                                            *)
(***************************************************************************)
EXTENDS TestTop, SLC3_2

MCContents == [a \in 0 .. 31 |-> IF a > 15 THEN 0 ELSE
    <<opLDR(1, 0, inSW), opBR(z, 2), opNOT(2, 1), opBR(nzp, 1),
      opADDi(2, 1, 1), opSTR(2, 0, outHEX), opJSR(3), opPSE(2053),
      32768, opJMP(0),
      opAND(3, 2, 1), opBR(p, 1), opSTR(2, 0, 16), opADD(3, 2, 2),
      opLDR(4, 0, 16), opRET>>[a + 1]]

MCFloatingWords == {0, 1, 32768}
=============================================================================
