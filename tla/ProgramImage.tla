---------------------------- MODULE ProgramImage ----------------------------
(***************************************************************************)
(* Instantiateram.sv: the image the loader writes, program by program.     *)
(* The words above 174 are zero.                                           *)
(***************************************************************************)
EXTENDS SLC3_2, Sequences

\* 0..2: clears R0, reads the start address from the switches, jumps.
Boot == <<
    opCLR(0), opLDR(1, 0, inSW), opJMP(1) >>

\* 3..5: copies the switches to the displays for ever.
IOTest1 == <<
    opLDR(1, 0, inSW), opSTR(1, 0, outHEX), opBR(nzp, -3) >>

\* 6..10: the same with a pause before each read.
IOTest2 == <<
    opPSE(2049), opLDR(1, 0, inSW), opSTR(1, 0, outHEX), opPSE(3074),
    opBR(nzp, -4) >>

\* 11..19: the same, incrementing the word of its own pause at 16.
IOTest3 == <<
    opPSE(2049), opJSR(0), opLDR(2, 7, 3), opLDR(1, 0, inSW),
    opSTR(1, 0, outHEX), opPSE(3074), opINC(2), opSTR(2, 7, 3), opBR(nzp, -6) >>

\* 20..41: shows the exclusive or of two inputs.
XorTest == <<
    opCLR(0), opPSE(2049), opLDR(1, 0, inSW), opPSE(2050), opLDR(2, 0, inSW),
    opNOT(3, 1), opAND(3, 3, 2), opNOT(3, 3), opNOT(4, 2), opAND(4, 4, 1),
    opNOT(4, 4), opAND(3, 3, 4), opNOT(3, 3), opSTR(3, 0, outHEX),
    opPSE(1029), opBR(nzp, -15), NO_OP, NO_OP, NO_OP, NO_OP, NO_OP, NO_OP >>

\* 42..48: counts pauses.
RunOnceTest == <<
    opCLR(0), opCLR(1), opJSR(0), opSTR(1, 0, outHEX), opPSE(1025), opINC(1),
    opRET >>

\* 49..73: the product of two inputs; word 73 is a mask.
Multiplier == <<
    opCLR(0), opJSR(0), opLDR(3, 7, 22), opCLR(4), opCLR(5), opPSE(2049),
    opLDR(1, 0, inSW), opPSE(2050), opLDR(2, 0, inSW), opADD(5, 5, 5),
    opAND(7, 3, 1), opBR(z, 1), opADD(5, 5, 2), opADDi(4, 4, 0), opBR(p, 2),
    opNOT(5, 5), opINC(5), opINC(4), opADD(1, 1, 1), opADDi(7, 4, -8),
    opBR(n, -12), opSTR(5, 0, outHEX), opPSE(1027), opBR(nzp, -21), 128 >>

\* 74..89: the sixteen numbers of the bubble sort.
SortData == <<
    239, 27, 1, 140, 219, 250, 71, 70, 31, 13, 184, 3, 107, 78, 248, 7 >>

\* 90..108: selects entry, sort or display.
SortMenu == <<
    opCLR(0), opJSR(0), opADDi(6, 7, -16), opADDi(6, 6, -2), opPSE(1023),
    opLDR(1, 0, inSW), opBR(z, -3), opDEC(1), opBR(np, 2), opJSR(9),
    opBR(nzp, -7), opDEC(1), opBR(np, 2), opJSR(15), opBR(nzp, -11),
    opDEC(1), opBR(np, -13), opJSR(29), opBR(nzp, -15) >>

\* 109..118: reads sixteen numbers from the switches.
SortEntry == <<
    opCLR(1), opSTR(1, 0, outHEX), opPSE(3073), opLDR(2, 0, inSW),
    opADD(5, 6, 1), opSTR(2, 5, 0), opINC(1), opADDi(3, 1, -16), opBR(n, -8),
    opRET >>

\* 119..136: sorts them.
SortFunction == <<
    opADDi(1, 0, -16), opADDi(2, 0, 1), opADD(3, 6, 2), opLDR(4, 3, -1),
    opLDR(5, 3, 0), opNOT(5, 5), opADDi(5, 5, 1), opADD(5, 4, 5),
    opBR(nz, 3), opLDR(5, 3, 0), opSTR(5, 3, -1), opSTR(4, 3, 0), opINC(2),
    opADD(3, 1, 2), opBR(n, -13), opINC(1), opBR(n, -16), opRET >>

\* 137..155: shows them one by one, modifying its pause at 148.
SortDisplay == <<
    opCLR(1), opADD(4, 7, 0), opJSR(0), opADD(5, 7, 0), opADD(7, 4, 0),
    opLDR(3, 5, 15), opADDi(2, 0, 8), opADD(2, 2, 2), opADD(4, 6, 1),
    opLDR(4, 4, 0), opSTR(4, 0, outHEX), opPSE(2050), opADD(3, 3, 2),
    opSTR(3, 5, 8), opINC(1), opADDi(4, 1, -16), opBR(n, -9), opRET,
    opPSE(2050) >>

\* 156..174: counts with a delay made of two nested loops.
AutoCounter == <<
    opCLR(0), opCLR(1), opCLR(2), opCLR(3), opJSR(0), opLDR(1, 7, 12),
    opLDR(2, 7, 13), opDEC(1), opBR(z, 1), opBR(nzp, -3), opDEC(2),
    opBR(z, 2), opLDR(1, 7, 12), opBR(nzp, -7), opSTR(3, 0, outHEX),
    opINC(3), opBR(nzp, -12), 65535, 5 >>

Programs ==
    Boot \o IOTest1 \o IOTest2 \o IOTest3 \o XorTest \o RunOnceTest \o Multiplier
      \o SortData \o SortMenu \o SortEntry \o SortFunction \o SortDisplay
      \o AutoCounter

ProgramWord(a) == IF a < Len(Programs) THEN Programs[a + 1] ELSE 0
=============================================================================
