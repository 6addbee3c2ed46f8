-------------------------------- MODULE ISDU --------------------------------
(***************************************************************************)
(* ISDU.sv: the instruction sequencer/decoder unit.  A Moore machine: each *)
(* control signal is a predicate on State, and a clock edge moves State to *)
(* NextState.                                                              *)
(***************************************************************************)
EXTENDS Integers

VARIABLE State

FetchWait == {"S_33_1", "S_33_2", "S_33_3", "S_33_4"}
LoadWait  == {"S_25_1", "S_25_2", "S_25_3", "S_25_4"}
StoreWait == {"S_16_1", "S_16_2", "S_16_3", "S_16_4"}
Pauses    == {"PauseIR1", "PauseIR2"}
States    == {"Halted", "S_18", "S_35", "S_32", "S_1", "S_5", "S_9", "S_6",
              "S_27", "S_7", "S_23", "S_4", "S_21", "S_12", "S_0", "S_22"}
               \cup Pauses \cup FetchWait \cup LoadWait \cup StoreWait

\* Faulty variant: no default in the opcode case, which would leave the
\* sequencer in S_32 for an opcode the SLC-3 lacks.
Dispatch_NoDefault(Opcode) ==
    CASE Opcode = 1 -> "S_1" [] Opcode = 5 -> "S_5"   [] Opcode = 9  -> "S_9"
      [] Opcode = 6 -> "S_6" [] Opcode = 7 -> "S_7"   [] Opcode = 4  -> "S_4"
      [] Opcode = 0 -> "S_0" [] Opcode = 12 -> "S_12" [] Opcode = 13 -> "PauseIR1"
      [] OTHER -> "S_32"

\* S_32: where each opcode goes; an opcode the SLC-3 lacks is skipped.
Dispatch(Opcode) ==
    CASE Opcode = 1  -> "S_1"       \* ADD
      [] Opcode = 5  -> "S_5"       \* AND
      [] Opcode = 9  -> "S_9"       \* NOT
      [] Opcode = 6  -> "S_6"       \* LDR
      [] Opcode = 7  -> "S_7"       \* STR
      [] Opcode = 4  -> "S_4"       \* JSR
      [] Opcode = 12 -> "S_12"      \* JMP
      [] Opcode = 0  -> "S_0"       \* BR
      [] Opcode = 13 -> "PauseIR1"  \* PSE
      [] OTHER       -> "S_18"

\* The states whose successor depends on nothing but themselves.
Successor ==
    [S_18   |-> "S_33_1", S_33_1 |-> "S_33_2", S_33_2 |-> "S_33_3",
     S_33_3 |-> "S_33_4", S_33_4 |-> "S_35",   S_35   |-> "S_32",
     S_6    |-> "S_25_1", S_25_1 |-> "S_25_2", S_25_2 |-> "S_25_3",
     S_25_3 |-> "S_25_4", S_25_4 |-> "S_27",
     S_7    |-> "S_23",   S_23   |-> "S_16_1", S_16_1 |-> "S_16_2",
     S_16_2 |-> "S_16_3", S_16_3 |-> "S_16_4", S_4    |-> "S_21"]

\* Faulty variants: going on while Continue is still held, and going back
\* to the first pause state when it is released.
AfterPause_NoRelease(Continue) ==
    IF Continue THEN "S_18" ELSE "PauseIR1"
AfterPause_Back(Continue) ==
    IF Continue THEN "PauseIR2" ELSE "PauseIR1"

\* A pause is left when Continue has been pressed and released.
AfterPause(Continue) ==
    IF Continue THEN "PauseIR2"
    ELSE IF State = "PauseIR1" THEN "PauseIR1" ELSE "S_18"

NextState(Run, Continue, Opcode, BEN) ==
    CASE State = "Halted"   -> IF Run THEN "S_18" ELSE "Halted"
      [] State \in Pauses   -> AfterPause(Continue)
      [] State = "S_32"     -> Dispatch(Opcode)
      [] State = "S_0"      -> IF BEN THEN "S_22" ELSE "S_18"
      [] State \in DOMAIN Successor -> Successor[State]
      [] OTHER              -> "S_18"

\* Faulty variant: a sequencer that a reset does not stop.
ISDU_Clock_NoReset(Reset, Run, Continue, Opcode, BEN) ==
    State' = NextState(Run, Continue, Opcode, BEN)

ISDU_Clock(Reset, Run, Continue, Opcode, BEN) ==
    State' = IF Reset THEN "Halted" ELSE NextState(Run, Continue, Opcode, BEN)

-----------------------------------------------------------------------------
(* The control signals. *)

LD_MAR == State \in {"S_18", "S_6", "S_7"}
LD_MDR == State \in {"S_33_4", "S_25_4", "S_23"}
LD_IR  == State = "S_35"
\* Faulty variant: deciding a branch only in the state that needs it.
LD_BEN_Late == State = "S_0"

LD_BEN == State \in {"S_32", "S_0"}
LD_CC  == State \in {"S_1", "S_5", "S_9", "S_27", "S_0"}
LD_REG == State \in {"S_1", "S_5", "S_9", "S_27", "S_4"}
LD_PC  == State \in {"S_18", "S_21", "S_12", "S_22"}
LD_LED == State \in {"Halted"} \cup Pauses

GatePC     == State \in {"S_18", "S_4"}
GateMARMUX == State \in {"S_6", "S_7", "S_23"}
GateMDR    == State \in {"S_35", "S_27"}
GateALU    == State \in {"S_1", "S_5", "S_9"}

ALUK     == IF State = "S_5" THEN 1 ELSE IF State = "S_9" THEN 2 ELSE 0
PCMUX    == IF State \in {"S_21", "S_12", "S_22"} THEN 2 ELSE 0
DRMUX    == State = "S_4"
SR1MUX   == State \in {"S_1", "S_5", "S_9", "S_6", "S_7", "S_12"}
ADDR1MUX == State \in {"S_6", "S_7", "S_23", "S_12"}
ADDR2MUX == CASE State \in {"S_6", "S_7"} -> 1
              [] State = "S_22" -> 2
              [] State = "S_21" -> 3
              [] OTHER -> 0

\* Faulty variants: reading in the last two wait states or the last one only.
Mem_OE_Late == State \in {"S_33_3", "S_33_4", "S_25_3", "S_25_4"}
Mem_OE_Last == State \in {"S_33_4", "S_25_4"}

Mem_OE == State \in FetchWait \cup LoadWait
Mem_WE == State \in StoreWait
=============================================================================
