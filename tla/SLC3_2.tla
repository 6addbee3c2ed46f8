------------------------------- MODULE SLC3_2 -------------------------------
(***************************************************************************)
(* SLC3_2.sv: the functions that assemble the words of a program image.    *)
(* An offset is an integer of which the instruction keeps the low bits.    *)
(***************************************************************************)
EXTENDS Integers

p   == 1        \* branch condition aliases
z   == 2
zp  == 3
n   == 4
np  == 5
nz  == 6
nzp == 7

NO_OP == 0
outHEX == -1
inSW == -1

\* opcode in [15:12], two register fields, the low six bits
Instr(opcode, r11to9, r8to6, low) ==
    opcode * 4096 + r11to9 * 512 + r8to6 * 64 + low

opADD(DR, SR1, SR2)  == Instr(1, DR, SR1, SR2)
opADDi(DR, SR, imm5) == Instr(1, DR, SR, 32 + (imm5 % 32))
opINC(DR)            == opADDi(DR, DR, 1)
opDEC(DR)            == opADDi(DR, DR, -1)
opAND(DR, SR1, SR2)  == Instr(5, DR, SR1, SR2)
opANDi(DR, SR, imm5) == Instr(5, DR, SR, 32 + (imm5 % 32))
opCLR(DR)            == opANDi(DR, DR, 0)

\* Faulty variant: source and destination swapped.
opNOT_Swapped(DR, SR) == Instr(9, SR, DR, 1)

opNOT(DR, SR)        == Instr(9, DR, SR, 1)
opBR(condition, PCoffset9) == Instr(0, condition, 0, PCoffset9 % 512)
opJMP(BaseR)         == Instr(12, 0, BaseR, 0)
opRET                == opJMP(7)
opJSR(PCoffset11)    == Instr(4, 4, 0, PCoffset11 % 2048)
opLDR(DR, BaseR, offset6) == Instr(6, DR, BaseR, offset6 % 64)
opSTR(SR, BaseR, offset6) == Instr(7, SR, BaseR, offset6 % 64)
opPSE(ledVect12)     == Instr(13, 0, 0, ledVect12)
=============================================================================
