------------------------------ MODULE ISAView -------------------------------
(***************************************************************************)
(* What a program sees of the processor, in the terms of LC3ISA: the part  *)
(* of the refinement mapping that the board and the simulation top level   *)
(* share.  An instruction takes effect at one clock edge (the one that     *)
(* leaves S_1, S_5, S_9, S_27, S_16_1, S_4, S_12, S_0 or S_32); until then *)
(* the abstract pc is the address it was fetched from, after it the        *)
(* address of the next one.                                                *)
(***************************************************************************)
EXTENDS SLC3, Buttons

absMode == CASE Reset_ah -> "reset"
             [] ~Reset_ah /\ State = "Halted" -> "halted"
             [] ~Reset_ah /\ State \in Pauses -> "paused"
             [] OTHER -> "running"

\* States in which PC already is the address of the next instruction.
Retired == {"S_18", "S_16_2", "S_16_3", "S_16_4", "Halted"} \cup Pauses

absPC == CASE Reset_ah -> 0
           [] ~Reset_ah /\ State \in Retired -> PC
           [] ~Reset_ah /\ State = "S_21" -> Plus(PC, IRSEXT11(IR))
           [] ~Reset_ah /\ State = "S_22" -> Plus(PC, IRSEXT9(IR))
           [] OTHER -> Plus(PC, 65535)

absReg == IF Reset_ah THEN [r \in Reg |-> 0] ELSE register
absCC  == IF Reset_ah THEN {} ELSE cc
absHex == IF Reset_ah THEN 0 ELSE hex_data
absLED == IF Reset_ah THEN 0 ELSE LED
=============================================================================
