------------------------------- MODULE Word16 -------------------------------
(***************************************************************************)
(* The 16-bit words of the SLC-3 and the fields the datapath cuts out of   *)
(* them.  A word is a natural below 2^16; the arithmetic wraps as the      *)
(* 16-bit adders of slc3.sv and ALU.sv do.                                 *)
(***************************************************************************)
EXTENDS Integers

Word == {w \in Nat : w < 65536}
SwitchWord == {w \in Nat : w < 1024}     \* the ten switches

\* Faulty variant: no wrap-around.
Plus_NoWrap(a, b) == a + b

Plus(a, b) == (a + b) % 65536
Complement(a) == 65535 - a

\* The bit of weight w of a word, and that bit of a /\ b as a number.
Bit(a, w) == (a \div w) % 2
AndBit(a, b, w) == IF Bit(a, w) = 1 /\ Bit(b, w) = 1 THEN w ELSE 0

\* A & B, bit by bit.
AndByte(a, b, w) ==
    AndBit(a, b, w) + AndBit(a, b, 2*w) + AndBit(a, b, 4*w) + AndBit(a, b, 8*w)
      + AndBit(a, b, 16*w) + AndBit(a, b, 32*w) + AndBit(a, b, 64*w)
      + AndBit(a, b, 128*w)
And(a, b) == AndByte(a, b, 1) + AndByte(a, b, 256)

\* Sign extension of a field v whose sign bit weighs half.
Sext(v, half) == IF v < half THEN v ELSE v + 65536 - 2*half

-----------------------------------------------------------------------------
(* The fields of an instruction word IR. *)

IRopcode(ir) == ir \div 4096            \* IR[15:12]
IR11to9(ir)  == (ir \div 512) % 8
IR8to6(ir)   == (ir \div 64) % 8
IR2to0(ir)   == ir % 8
IR5(ir)      == Bit(ir, 32) = 1
IR9to0(ir)   == ir % 1024
IRSEXT5(ir)  == Sext(ir % 32, 16)
IRSEXT6(ir)  == Sext(ir % 64, 32)
IRSEXT9(ir)  == Sext(ir % 512, 256)
IRSEXT11(ir) == Sext(ir % 2048, 1024)

-----------------------------------------------------------------------------
(* Condition codes: the set of n, z, p that are on.  BEN.sv derives one    *)
(* from the bus (never two), and a BR instruction names a set in           *)
(* IR[11:9].                                                               *)

Flag == {"n", "z", "p"}
CCOf(v) == IF v = 0 THEN {"z"} ELSE IF v >= 32768 THEN {"n"} ELSE {"p"}

\* Faulty variant: n and p swapped.
BranchMask_Swapped(ir) == (IF Bit(ir, 2048) = 1 THEN {"p"} ELSE {})
                            \cup (IF Bit(ir, 1024) = 1 THEN {"z"} ELSE {})
                            \cup (IF Bit(ir, 512) = 1 THEN {"n"} ELSE {})

BranchMask(ir) == (IF Bit(ir, 2048) = 1 THEN {"n"} ELSE {})
                    \cup (IF Bit(ir, 1024) = 1 THEN {"z"} ELSE {})
                    \cup (IF Bit(ir, 512) = 1 THEN {"p"} ELSE {})
=============================================================================
