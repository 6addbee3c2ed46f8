----------------------------- MODULE TestMemory -----------------------------
(***************************************************************************)
(* test_memory.sv: the memory of the simulation top level.  It answers     *)
(* after one clock, holds the contents again while Reset is on, and gives  *)
(* x (any word) in every cycle that is not a plain read.                   *)
(***************************************************************************)
EXTENDS Word16

CONSTANTS
    size,           \* number of words, 256 in test_memory.sv
    Contents        \* what memory_contents.sv puts there

ASSUME TestMemoryAssumption ==
    /\ size \in Nat \ {0}
    /\ Contents \in [0 .. size - 1 -> Word]

VARIABLES mem_array, mem_out

\* address[7:0], the bits that select one of the size words.
TestCell(addr) == addr % size

TestMemory_Init(unknown) == mem_array = Contents /\ mem_out = unknown

\* Faulty variant: a reset leaves the words of the last program.
TestMemory_Clock_KeepsWords(Reset, resetNext, addr, data, rden, wren, unknown) ==
    /\ mem_array' = IF ~Reset /\ ~rden /\ wren
                    THEN [mem_array EXCEPT ![TestCell(addr)] = data]
                    ELSE mem_array
    /\ mem_out' = IF ~Reset /\ ~resetNext /\ rden /\ ~wren
                  THEN mem_array[TestCell(addr)] ELSE unknown

\* The reset is asynchronous: its level after the edge, resetNext, already
\* holds the memory.
TestMemory_Clock(Reset, resetNext, addr, data, rden, wren, unknown) ==
    /\ mem_array' = IF Reset \/ resetNext THEN Contents
                    ELSE IF ~rden /\ wren
                    THEN [mem_array EXCEPT ![TestCell(addr)] = data]
                    ELSE mem_array
    /\ mem_out' = IF ~Reset /\ ~resetNext /\ rden /\ ~wren
                  THEN mem_array[TestCell(addr)] ELSE unknown
=============================================================================
