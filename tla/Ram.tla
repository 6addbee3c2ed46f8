-------------------------------- MODULE Ram ---------------------------------
(***************************************************************************)
(* ram.v: the on-chip memory of the SLC-3, a single-port altsyncram with   *)
(* registered inputs and a registered output.  A read presented at one     *)
(* clock edge is in the output latch after it and on q after the next one; *)
(* with rden low the latch keeps its value.                                *)
(***************************************************************************)
EXTENDS Word16

CONSTANT RamWords       \* number of words, 1024 in ram.v

ASSUME RamWordsAssumption == RamWords \in Nat \ {0}

VARIABLES mem, latch, q

ramVars == <<mem, latch, q>>

RamAddress == 0 .. RamWords - 1

\* The low address bits that reach the RAM (ADDR[9:0]).
Cell(addr) == addr % RamWords

Ram_Init ==
    /\ mem = [a \in RamAddress |-> 0]
    /\ latch = 0
    /\ q = 0

\* A read in the cycle of a write returns dontcare, any word:
\* read_during_write_mode_port_a is "DONT_CARE".
Ram_Clock(addr, data, rden, wren, dontcare) ==
    /\ mem' = IF wren THEN [mem EXCEPT ![Cell(addr)] = data] ELSE mem
    /\ latch' = IF ~rden THEN latch
                ELSE IF wren THEN dontcare
                ELSE mem[Cell(addr)]
    /\ q' = latch
=============================================================================
