------------------------------ MODULE TestTop -------------------------------
(***************************************************************************)
(* slc3_testtop.sv: the machine of the simulations, i.e. the same          *)
(* processor and buttons on a TestMemory, without a loader.  A step of     *)
(* Next is a rising clock edge.                                            *)
(***************************************************************************)
EXTENDS ISAView, TestMemory

CONSTANTS SwitchValues, FloatingWords, Unknown  \* Unknown: the words x stands for

ASSUME TestTopAssumption ==
    /\ SwitchValues \subseteq SwitchWord
    /\ FloatingWords \subseteq Word
    /\ Unknown \subseteq Word /\ Unknown # {}

testVars == <<State, PC, MAR, MDR, IR, register, BEN, cc, hex_data,
              mem_array, mem_out, RUN_S, CONTINUE_S>>

-----------------------------------------------------------------------------

\* The simulation from its first reset on: what testbench.sv does before has
\* no effect that outlives it.
Init ==
    /\ CPU_Init
    /\ \E x \in Unknown : TestMemory_Init(x)
    /\ Buttons_Init

ClockEdge(switches, floating, x) ==
    /\ CPU_Clock(Reset_ah, Run_ah, Continue_ah, switches, mem_out, floating)
    /\ TestMemory_Clock(Reset_ah, Reset_ah', MAR, MDR, Mem_OE, Mem_WE, x)

Next ==
    \E run, continue \in BOOLEAN, switches \in SwitchValues,
       floating \in FloatingWords, x \in Unknown :
        Sample(run, continue) /\ ClockEdge(switches, floating, x)

\* The testbench's clock never stops.
Spec == Init /\ [][Next]_testVars /\ WF_testVars(Next)

-----------------------------------------------------------------------------
(* Properties *)

\* No x gets into IR or a register: when the ISDU gates MDR onto the bus, MDR
\* is the word that the memory now holds at MAR, or the switches.  (A reset
\* reloads the memory one clock before it halts the processor.)
KnownReads ==
    State \in {"S_35", "S_27"} /\ ~Reset_ah =>
        IF MAR = IOAddress THEN MDR \in SwitchValues
                           ELSE MDR = mem_array[TestCell(MAR)]

\* What makes KnownReads inductive: from the second wait state on, the
\* memory has answered.
TestReadInv ==
    /\ State \in States /\ RUN_S \in BOOLEAN
    /\ State \in (FetchWait \cup LoadWait) \ {"S_33_1", "S_25_1"} /\ ~Reset_ah =>
           mem_out = mem_array[TestCell(MAR)]
    /\ KnownReads

ISA == INSTANCE LC3ISA WITH
          RamWords <- size, LoaderLast <- size - 1, Image <- Contents,
          mode <- absMode, pc <- absPC, reg <- absReg, cc <- absCC,
          mem <- mem_array, hex <- absHex, led <- absLED

\* The simulated machine implements the same instruction set as the board,
\* without any restriction on the operator: there is no loader to wait for.
TestImplementsISA == ISA!Safety

\* ... and no instruction is left unfinished for ever but by a reset.
TestInstructionsTakeEffect == ISA!Progress
=============================================================================
