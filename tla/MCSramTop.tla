----------------------------- MODULE MCSramTop ------------------------------
(***************************************************************************)
(* Instances of the machine for TLC, with the history of the Continue      *)
(* button: a 16-word RAM and a program that uses every kind of             *)
(* instruction, branches both ways on the switches, calls and returns,     *)
(* pauses twice a few clocks apart, and starts again.                      *)
(***************************************************************************)
EXTENDS SramTopISA, PauseHandshake, SLC3_2

MCImage == [a \in 0 .. 12 |->
    <<opLDR(1, 0, inSW),        \*  0   R1 <- switches
      opBR(z, 1),               \*  1   to 3 when they are 0
      opNOT(1, 1),              \*  2
      opSTR(1, 0, outHEX),      \*  3   shows R1, and stores it in word 15
      opJSR(3),                 \*  4   call 8
      opPSE(2053),              \*  5   pause, LEDs show 5
      opPSE(2),                 \*  6   pause again
      opJMP(0),                 \*  7   start again
      opADD(1, 1, 1),           \*  8
      opANDi(1, 1, 4),          \*  9
      opLDR(1, 0, 15),          \* 10   R1 <- word 15
      32768,                    \* 11   an opcode the SLC-3 lacks
      opRET>>[a + 1]]           \* 12   return to 5

\* A processor started too early may fetch a store over word 3.
MCDontCareWords == {opSTR(0, 0, 3)}

\* Sets the condition codes, then a NO_OP.
MCNoOpImage == [a \in 0 .. 3 |->
    <<opCLR(1), NO_OP, opPSE(1), opJMP(0)>>[a + 1]]
=============================================================================
