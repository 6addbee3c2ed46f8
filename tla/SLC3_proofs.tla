---------------------------- MODULE SLC3_proofs -----------------------------
(***************************************************************************)
(* Facts that the proofs of both machines use: what the operators on words *)
(* return, what a clock edge does in each state of the sequencer, what the *)
(* sequencer remembers of the instruction under way (Decoded), and what a  *)
(* program may see of an edge (Sees).  They speak of any memory, so the    *)
(* board's RAM and the simulation's can both stand for it.                 *)
(***************************************************************************)
EXTENDS ISAView, TLAPS

-----------------------------------------------------------------------------
(* What the operators of Word16 return, for every word. *)

\* The wrapping adder of two words is a word.
LEMMA PlusType == ASSUME NEW a \in Nat, NEW b \in Nat PROVE Plus(a, b) \in Word
  BY DEF Plus, Word

\* The conjunction of two words is a word: each of its sixteen terms is zero
\* or its own weight.
LEMMA AndType == ASSUME NEW a, NEW b PROVE And(a, b) \in Word
  <1>1. ASSUME NEW w \in Nat PROVE AndBit(a, b, w) \in 0 .. w
    BY <1>1 DEF AndBit
  <1>2. ASSUME NEW w \in Nat PROVE AndByte(a, b, w) \in 0 .. 255*w
    <2>1. /\ AndBit(a, b, w) \in 0 .. w       /\ AndBit(a, b, 2*w) \in 0 .. 2*w
          /\ AndBit(a, b, 4*w) \in 0 .. 4*w   /\ AndBit(a, b, 8*w) \in 0 .. 8*w
          /\ AndBit(a, b, 16*w) \in 0 .. 16*w /\ AndBit(a, b, 32*w) \in 0 .. 32*w
          /\ AndBit(a, b, 64*w) \in 0 .. 64*w /\ AndBit(a, b, 128*w) \in 0 .. 128*w
      BY <1>1, <1>2
    <2> QED BY <2>1, <1>2 DEF AndByte
  <1>3. /\ AndByte(a, b, 1) \in Nat /\ AndByte(a, b, 1) <= 255
        /\ AndByte(a, b, 256) \in Nat /\ AndByte(a, b, 256) <= 255*256
    BY <1>2
  <1> QED BY <1>3 DEF And, Word

\* A sign-extended field is a word.
LEMMA SextType ==
    ASSUME NEW half \in Nat, half <= 32768, NEW v \in Nat, v < 2*half
    PROVE  Sext(v, half) \in Word
  BY DEF Sext, Word

\* The fields of an instruction word.
LEMMA FieldTypes ==
    ASSUME NEW ir \in Word
    PROVE  /\ IR11to9(ir) \in 0 .. 7 /\ IR8to6(ir) \in 0 .. 7 /\ IR2to0(ir) \in 0 .. 7
           /\ IRSEXT5(ir) \in Word /\ IRSEXT6(ir) \in Word
           /\ IRSEXT9(ir) \in Word /\ IRSEXT11(ir) \in Word
  <1>1. IR11to9(ir) \in 0 .. 7 /\ IR8to6(ir) \in 0 .. 7 /\ IR2to0(ir) \in 0 .. 7
    BY DEF IR11to9, IR8to6, IR2to0, Word
  <1>2. /\ ir % 32 \in Nat /\ ir % 32 < 32      /\ ir % 64 \in Nat /\ ir % 64 < 64
        /\ ir % 512 \in Nat /\ ir % 512 < 512   /\ ir % 2048 \in Nat /\ ir % 2048 < 2048
    BY DEF Word
  <1>4. Sext(ir % 32, 16) \in Word /\ Sext(ir % 64, 32) \in Word
    BY <1>2, SextType
  <1>5. Sext(ir % 512, 256) \in Word /\ Sext(ir % 2048, 1024) \in Word
    BY <1>2, SextType
  <1> QED BY <1>1, <1>4, <1>5 DEF IRSEXT5, IRSEXT6, IRSEXT9, IRSEXT11

\* Condition codes are flags.
LEMMA CCOfType == ASSUME NEW v PROVE CCOf(v) \subseteq Flag
  BY DEF CCOf, Flag

-----------------------------------------------------------------------------
(* The sequencer. *)

\* The sequencer stays among its states.
LEMMA NextStateType ==
    ASSUME State \in States, NEW Run, NEW Continue, NEW Opcode, NEW taken
    PROVE  NextState(Run, Continue, Opcode, taken) \in States
  <1>1. Dispatch(Opcode) \in States
    BY DEF Dispatch, States, Pauses
  <1>2. AfterPause(Continue) \in States
    BY DEF AfterPause, States, Pauses
  <1>3. \A s \in DOMAIN Successor : Successor[s] \in States
    BY DEF Successor, States, FetchWait, LoadWait, StoreWait
  <1>4. "S_18" \in States /\ "S_22" \in States /\ "Halted" \in States
    BY DEF States
  <1> QED BY <1>1, <1>2, <1>3, <1>4 DEF NextState

\* Only a reset brings the sequencer back to Halted.
LEMMA NeverBackToHalted ==
    ASSUME State # "Halted", NEW Run, NEW Continue, NEW Opcode, NEW taken
    PROVE  NextState(Run, Continue, Opcode, taken) # "Halted"
  <1>1. Dispatch(Opcode) # "Halted"
    BY DEF Dispatch
  <1>2. AfterPause(Continue) # "Halted"
    BY DEF AfterPause
  <1>3. \A s \in DOMAIN Successor : Successor[s] # "Halted"
    BY DEF Successor
  <1> QED BY <1>1, <1>2, <1>3 DEF NextState

\* Where the sequencer can have come from.
LEMMA Predecessors ==
    ASSUME State \in States, NEW Run \in BOOLEAN, NEW Continue, NEW Opcode, NEW taken,
           NEW next, next = NextState(Run, Continue, Opcode, taken)
    PROVE  /\ next = "S_33_2" => State = "S_33_1"
           /\ next = "S_33_3" => State = "S_33_2"
           /\ next = "S_33_4" => State = "S_33_3"
           /\ next = "S_35" => State = "S_33_4"
           /\ next = "S_25_2" => State = "S_25_1"
           /\ next = "S_25_3" => State = "S_25_2"
           /\ next = "S_25_4" => State = "S_25_3"
           /\ next = "S_27" => State = "S_25_4"
           /\ State = "Halted" => next = "Halted" \/ (Run /\ next = "S_18")
  <1> DEFINE Read == {"S_33_2", "S_33_3", "S_33_4", "S_35",
                      "S_25_2", "S_25_3", "S_25_4", "S_27"}
  <1>1. Dispatch(Opcode) \notin Read
    BY DEF Dispatch
  <1>2. AfterPause(Continue) \notin Read
    BY DEF AfterPause
  <1>3. CASE State \in DOMAIN Successor
    <2>1. State \notin {"Halted", "S_32", "S_0"} /\ State \notin Pauses
      BY <1>3 DEF Successor, Pauses
    <2>2. next = Successor[State]
      BY <1>3, <2>1 DEF NextState
    <2> QED BY <1>3, <2>1, <2>2 DEF Successor
  <1>4. CASE State \notin DOMAIN Successor
    <2>1. next \notin Read
      BY <1>1, <1>2, <1>4 DEF NextState
    <2>2. CASE State = "Halted"
      <3>1. next = IF Run THEN "S_18" ELSE "Halted"
        BY <1>4, <2>2 DEF NextState, Pauses
      <3> QED BY <2>1, <3>1
    <2> QED BY <2>1, <2>2
  <1> QED BY <1>3, <1>4

-----------------------------------------------------------------------------
(* The datapath. *)

\* Every register of the processor holds a value it has bits for.
CpuTypes ==
    /\ State \in States
    /\ PC \in Word /\ MAR \in Word /\ MDR \in Word /\ IR \in Word
    /\ register \in [Reg -> Word]
    /\ BEN \in BOOLEAN
    /\ cc \subseteq Flag
    /\ hex_data \in Word

\* The datapath carries words.
LEMMA DatapathType ==
    ASSUME CpuTypes, NEW floating \in Word
    PROVE  /\ SR1 \in Word /\ SR2MUX_Output \in Word
           /\ address1 \in Word /\ address2 \in Word
           /\ DRMUX_Output \in Reg
           /\ BUS(floating) \in Word
           /\ PCREG_IN(floating) \in Word
  <1>1. SR1MUX_Output \in Reg /\ DRMUX_Output \in Reg /\ IR2to0(IR) \in Reg
    BY FieldTypes DEF CpuTypes, SR1MUX_Output, DRMUX_Output, Reg
  <1>2. SR1 \in Word /\ SR2 \in Word
    BY <1>1 DEF CpuTypes, SR1, SR2
  <1>3. SR2MUX_Output \in Word
    BY <1>2, FieldTypes DEF CpuTypes, SR2MUX_Output
  <1>4. address1 \in Word
    BY <1>2 DEF CpuTypes, address1
  <1>5. address2 \in Word
    <2>1. 0 \in Word
      BY DEF Word
    <2> QED BY <2>1, FieldTypes DEF CpuTypes, address2
  <1>6. \A a, b \in Word : Plus(a, b) \in Word
    BY PlusType DEF Word
  <1>7. ALU(ALUK, SR1, SR2MUX_Output) \in Word
    <2>1. Complement(SR1) \in Word
      BY <1>2 DEF Complement, Word
    <2> QED BY <1>2, <1>3, <1>6, <2>1, AndType DEF ALU
  <1>8. BUS(floating) \in Word
    BY <1>4, <1>5, <1>6, <1>7 DEF BUS, CpuTypes
  <1>9. PCREG_IN(floating) \in Word
    <2>1. 1 \in Word
      BY DEF Word
    <2> QED BY <1>4, <1>5, <1>6, <1>8, <2>1 DEF PCREG_IN, CpuTypes
  <1> QED BY <1>1, <1>2, <1>3, <1>4, <1>5, <1>8, <1>9

\* A clock edge keeps the types of the processor's registers.
LEMMA CpuTypeStep ==
    ASSUME CpuTypes, NEW Reset, NEW Run, NEW Continue, NEW Switches \in SwitchWord,
           NEW data \in Word, NEW floating \in Word,
           CPU_Clock(Reset, Run, Continue, Switches, data, floating)
    PROVE  CpuTypes'
  <1>1. Switches \in Word /\ 0 \in Word
    BY DEF Word, SwitchWord
  <1>2. BUS(floating) \in Word /\ PCREG_IN(floating) \in Word /\ DRMUX_Output \in Reg
    BY DatapathType
  <1>3. MDRREG_IN(floating, Switches, data) \in Word
    BY <1>1, <1>2 DEF MDRREG_IN, Data_to_CPU
  <1>4. State' \in States
    <2>1. "Halted" \in States
      BY DEF States
    <2> QED BY <2>1, NextStateType DEF CPU_Clock, ISDU_Clock, CpuTypes
  <1>5. PC' \in Word /\ MAR' \in Word /\ MDR' \in Word /\ IR' \in Word
    BY <1>1, <1>2, <1>3 DEF CPU_Clock, REGISTER, CpuTypes
  <1>6. register' \in [Reg -> Word]
    BY <1>1, <1>2 DEF CPU_Clock, REGISTER_FILE_Clock, CpuTypes
  <1>7. BEN' \in BOOLEAN /\ cc' \subseteq Flag
    BY CCOfType DEF CPU_Clock, BEN_Clock, CpuTypes
  <1>8. hex_data' \in Word
    BY <1>1 DEF CPU_Clock, Mem2IO_Clock, CpuTypes
  <1> QED BY <1>4, <1>5, <1>6, <1>7, <1>8 DEF CpuTypes

-----------------------------------------------------------------------------
(* What a clock edge does in each state of the sequencer, while there is no *)
(* reset.                                                                   *)

\* Adding 65535 takes one away again.
LEMMA PlusBack ==
    ASSUME NEW a \in Word
    PROVE  /\ Plus(a, 1) \in Word /\ Plus(a, 65535) \in Word
           /\ Plus(Plus(a, 1), 65535) = a /\ Plus(Plus(a, 65535), 1) = a
           /\ Plus(a, 0) = a
  BY DEF Plus, Word

\* The program counter and the address register.
AddressMoves ==
    /\ State \notin {"S_18", "S_21", "S_22", "S_12"} => PC' = PC
    /\ State = "S_18" => PC' = Plus(PC, 1) /\ MAR' = PC
    /\ State = "S_21" => PC' = Plus(PC, IRSEXT11(IR))
    /\ State = "S_22" => PC' = Plus(PC, IRSEXT9(IR))
    /\ State = "S_12" => PC' = register[IR8to6(IR)]
    /\ State \in {"S_6", "S_7"} => MAR' = Plus(register[IR8to6(IR)], IRSEXT6(IR))
    /\ State \notin {"S_18", "S_6", "S_7"} => MAR' = MAR

\* The edge moves PC and MAR as AddressMoves says.
LEMMA Addresses ==
    ASSUME CpuTypes, NEW run, NEW continue, NEW sw, NEW data, NEW floating,
           CPU_Clock(FALSE, run, continue, sw, data, floating)
    PROVE  AddressMoves
  <1>1. /\ PC' = (IF LD_PC THEN PCREG_IN(floating) ELSE PC)
        /\ MAR' = (IF LD_MAR THEN BUS(floating) ELSE MAR)
    BY DEF CPU_Clock, REGISTER
  <1>2. State \in {"S_21", "S_22"} => address1 = PC
    BY DEF address1, ADDR1MUX
  <1>3. State \in {"S_12", "S_6", "S_7"} => address1 = register[IR8to6(IR)]
    BY DEF address1, ADDR1MUX, SR1, SR1MUX_Output, SR1MUX
  <1>4. /\ State = "S_12" => address2 = 0
        /\ State = "S_21" => address2 = IRSEXT11(IR)
        /\ State = "S_22" => address2 = IRSEXT9(IR)
        /\ State \in {"S_6", "S_7"} => address2 = IRSEXT6(IR)
    BY DEF address2, ADDR2MUX
  <1>5. register[IR8to6(IR)] \in Word
    BY FieldTypes DEF CpuTypes, Reg
  <1>6. /\ State = "S_18" => PCREG_IN(floating) = Plus(PC, 1)
        /\ State \in {"S_21", "S_22", "S_12"} => PCREG_IN(floating) = Plus(address1, address2)
    BY DEF PCREG_IN, PCMUX
  <1>7. /\ State = "S_18" => BUS(floating) = PC
        /\ State \in {"S_6", "S_7"} => BUS(floating) = Plus(address1, address2)
    BY DEF BUS, GatePC, GateMARMUX
  <1> QED BY <1>1, <1>2, <1>3, <1>4, <1>5, <1>6, <1>7, PlusBack DEF LD_PC, LD_MAR, AddressMoves

\* The data and instruction registers, and the displays.
DataMoves(sw, data) ==
    /\ State \in {"S_33_4", "S_25_4"} => MDR' = IF MAR = IOAddress THEN sw ELSE data
    /\ State = "S_23" => MDR' = register[IR11to9(IR)]
    /\ State \notin {"S_33_4", "S_25_4", "S_23"} => MDR' = MDR
    /\ IR' = IF State = "S_35" THEN MDR ELSE IR
    /\ hex_data' = IF State \in StoreWait /\ MAR = IOAddress THEN MDR ELSE hex_data

\* The edge moves MDR, IR and the displays as DataMoves says.
LEMMA Data ==
    ASSUME CpuTypes, NEW run, NEW continue, NEW sw, NEW data, NEW floating,
           CPU_Clock(FALSE, run, continue, sw, data, floating)
    PROVE  DataMoves(sw, data)
  <1>1. /\ MDR' = IF LD_MDR THEN MDRREG_IN(floating, sw, data) ELSE MDR
        /\ IR' = IF LD_IR THEN BUS(floating) ELSE IR
        /\ hex_data' = IF Mem_WE /\ MAR = IOAddress THEN MDR ELSE hex_data
    BY DEF CPU_Clock, REGISTER, Mem2IO_Clock
  <1>2. State \in {"S_33_4", "S_25_4"} =>
           MDRREG_IN(floating, sw, data) = IF MAR = IOAddress THEN sw ELSE data
    BY DEF MDRREG_IN, Data_to_CPU, Mem_OE, Mem_WE, FetchWait, LoadWait, StoreWait
  <1>3. ASSUME State = "S_23" PROVE MDRREG_IN(floating, sw, data) = register[IR11to9(IR)]
    <2>1. address1 = register[IR11to9(IR)] /\ address2 = 0
      BY <1>3 DEF address1, ADDR1MUX, SR1, SR1MUX_Output, SR1MUX, address2, ADDR2MUX
    <2>2. register[IR11to9(IR)] \in Word
      BY FieldTypes DEF CpuTypes, Reg
    <2>3. MDRREG_IN(floating, sw, data) = Plus(address1, address2)
      BY <1>3 DEF MDRREG_IN, Mem_OE, FetchWait, LoadWait, BUS, GatePC, GateMARMUX
    <2> QED BY <2>1, <2>2, <2>3, PlusBack
  <1>4. State = "S_35" => BUS(floating) = MDR
    BY DEF BUS, GatePC, GateMARMUX, GateMDR
  <1> QED BY <1>1, <1>2, <1>3, <1>4 DEF LD_MDR, LD_IR, Mem_WE, DataMoves

\* What an arithmetic instruction computes.
Operand(ir) == IF IR5(ir) THEN IRSEXT5(ir) ELSE register[IR2to0(ir)]
Result == CASE State = "S_1" -> Plus(register[IR8to6(IR)], Operand(IR))
            [] State = "S_5" -> And(register[IR8to6(IR)], Operand(IR))
            [] State = "S_9" -> Complement(register[IR8to6(IR)])
            [] OTHER -> MDR

\* The register file, the condition codes and the branch decision.
ResultMoves(floating) ==
    /\ State \in {"S_1", "S_5", "S_9", "S_27"} =>
           register' = [register EXCEPT ![IR11to9(IR)] = Result] /\ cc' = CCOf(Result)
    /\ State = "S_4" => register' = [register EXCEPT ![7] = PC]
    /\ State \notin {"S_1", "S_5", "S_9", "S_27", "S_4"} => register' = register
    /\ State = "S_0" => cc' = CCOf(floating)
    /\ State \notin {"S_1", "S_5", "S_9", "S_27", "S_0"} => cc' = cc
    /\ State \in {"S_32", "S_0"} => (BEN' <=> BranchMask(IR) \cap cc # {})
    /\ State \notin {"S_32", "S_0"} => BEN' = BEN

\* The edge moves the registers, the condition codes and BEN as ResultMoves
\* says.
LEMMA Results ==
    ASSUME CpuTypes, NEW run, NEW continue, NEW sw, NEW data, NEW floating,
           CPU_Clock(FALSE, run, continue, sw, data, floating)
    PROVE  ResultMoves(floating)
  <1>1. /\ register' = IF LD_REG THEN [register EXCEPT ![DRMUX_Output] = BUS(floating)] ELSE register
        /\ cc' = IF LD_CC THEN CCOf(BUS(floating)) ELSE cc
        /\ BEN' = IF LD_BEN THEN BranchMask(IR) \cap cc # {} ELSE BEN
    BY DEF CPU_Clock, REGISTER_FILE_Clock, BEN_Clock
  <1>2. State \in {"S_1", "S_5", "S_9", "S_27"} => DRMUX_Output = IR11to9(IR)
    BY DEF DRMUX_Output, DRMUX
  <1>3. State = "S_4" => DRMUX_Output = 7 /\ BUS(floating) = PC
    BY DEF DRMUX_Output, DRMUX, BUS, GatePC
  <1>4. State = "S_0" => BUS(floating) = floating
    BY DEF BUS, GatePC, GateMARMUX, GateMDR, GateALU
  <1>5. State = "S_27" => BUS(floating) = Result
    BY DEF BUS, GatePC, GateMARMUX, GateMDR, Result
  <1>6. ASSUME State \in {"S_1", "S_5", "S_9"} PROVE BUS(floating) = Result
    <2>1. BUS(floating) = ALU(ALUK, SR1, SR2MUX_Output)
      BY <1>6 DEF BUS, GatePC, GateMARMUX, GateMDR, GateALU
    <2>2. SR1 = register[IR8to6(IR)] /\ SR2MUX_Output = Operand(IR)
      BY <1>6 DEF SR1, SR1MUX_Output, SR1MUX, SR2MUX_Output, SR2, Operand
    <2> QED BY <1>6, <2>1, <2>2 DEF ALU, ALUK, Result
  <1> QED BY <1>1, <1>2, <1>3, <1>4, <1>5, <1>6 DEF LD_REG, LD_CC, LD_BEN, ResultMoves

\* Where the sequencer goes.
SequencerMoves(run, continue) ==
    /\ State = "Halted" => State' = IF run THEN "S_18" ELSE "Halted"
    /\ State \in Pauses => State' = AfterPause(continue)
    /\ State = "S_32" => State' = Dispatch(IRopcode(IR))
    /\ State = "S_0" => State' = IF BEN THEN "S_22" ELSE "S_18"
    /\ State = "S_18" => State' = "S_33_1"
    /\ State \in FetchWait => State' \in FetchWait \cup {"S_35"}
    /\ State = "S_35" => State' = "S_32"
    /\ State = "S_4" => State' = "S_21"
    /\ State = "S_6" => State' = "S_25_1"
    /\ State \in LoadWait => State' \in LoadWait \cup {"S_27"}
    /\ State = "S_7" => State' = "S_23"
    /\ State = "S_23" => State' = "S_16_1"
    /\ State \in StoreWait \ {"S_16_4"} => State' \in StoreWait \ {"S_16_1"}
    /\ State \in {"S_1", "S_5", "S_9", "S_27", "S_16_4", "S_12", "S_21", "S_22"} => State' = "S_18"

\* The edge moves the sequencer as SequencerMoves says.
LEMMA Successors ==
    ASSUME State \in States, NEW run, NEW continue, NEW sw, NEW data, NEW floating,
           CPU_Clock(FALSE, run, continue, sw, data, floating)
    PROVE  SequencerMoves(run, continue)
  <1>1. State' = NextState(run, continue, IRopcode(IR), BEN)
    BY DEF CPU_Clock, ISDU_Clock
  <1>2. CASE State \in DOMAIN Successor
    <2>1. State \notin Pauses \cup {"Halted", "S_32", "S_0"}
      BY <1>2 DEF Successor, Pauses
    <2>2. State' = Successor[State]
      BY <1>1, <1>2, <2>1 DEF NextState
    <2> QED BY <1>2, <2>1, <2>2 DEF SequencerMoves, Successor, FetchWait, LoadWait, StoreWait
  <1>3. CASE State \notin DOMAIN Successor
    <2>1. State \notin FetchWait \cup LoadWait \cup (StoreWait \ {"S_16_4"})
                         \cup {"S_18", "S_35", "S_4", "S_6", "S_7", "S_23"}
      BY <1>3 DEF Successor, FetchWait, LoadWait, StoreWait
    <2>2. State' = CASE State = "Halted"   -> IF run THEN "S_18" ELSE "Halted"
                     [] State \in Pauses   -> AfterPause(continue)
                     [] State = "S_32"     -> Dispatch(IRopcode(IR))
                     [] State = "S_0"      -> IF BEN THEN "S_22" ELSE "S_18"
                     [] OTHER              -> "S_18"
      BY <1>1, <1>3 DEF NextState
    <2> QED BY <2>1, <2>2 DEF SequencerMoves, Pauses
  <1> QED BY <1>2, <1>3

-----------------------------------------------------------------------------
(* The instruction under way. *)

\* What a read of an address may return, of a memory and the switches.
ReadAt(memory, size, switches, a) == IF a = IOAddress THEN switches ELSE {memory[a % size]}

\* The states of an instruction until it has taken effect, and its opcode.
Loading == LoadWait \cup {"S_6", "S_27"}
Storing == {"S_7", "S_23", "S_16_1"}
Executing == {"S_1", "S_5", "S_9", "S_4", "S_12", "S_0"} \cup Loading \cup Storing
Opcode(s) == IF s \in Loading THEN 6 ELSE IF s \in Storing THEN 7
             ELSE CASE s = "S_1" -> 1 [] s = "S_5" -> 5 [] s = "S_9" -> 9
               [] s = "S_4" -> 4 [] s = "S_12" -> 12 [] OTHER -> 0

\* What the sequencer remembers of the instruction in each state: the word in
\* IR is the one in memory before PC; MAR has its address, MDR what is to be
\* stored, BEN whether to branch. A store that has happened once happens
\* three more times without effect.
Decoded(memory, size, switches) ==
    /\ State = "Halted" => IR = 0
    /\ State \in FetchWait \cup {"S_35"} => MAR = Plus(PC, 65535)
    /\ State \in Executing \cup {"S_32"} => IR \in ReadAt(memory, size, switches, Plus(PC, 65535))
    /\ State \in Executing => IRopcode(IR) = Opcode(State)
    /\ State \in LoadWait \cup {"S_27", "S_23", "S_16_1"} =>
           MAR = Plus(register[IR8to6(IR)], IRSEXT6(IR))
    /\ State = "S_16_1" => MDR = register[IR11to9(IR)]
    /\ State \in StoreWait \ {"S_16_1"} =>
           memory[MAR % size] = MDR /\ (MAR = IOAddress => hex_data = MDR)
    /\ State = "S_0" => (BEN <=> BranchMask(IR) \cap cc # {})

\* From S_32 each opcode goes to the states that are part of it.
LEMMA Dispatched ==
    ASSUME NEW o \in Nat
    PROVE  /\ Dispatch(o) \in Executing => Opcode(Dispatch(o)) = o
           /\ Dispatch(o) \in {"S_1", "S_5", "S_9", "S_6", "S_7", "S_4", "S_12", "S_0",
                                "PauseIR1", "S_18"}
           /\ (Dispatch(o) = "PauseIR1" <=> o = 13)
           /\ (Dispatch(o) = "S_18" <=> o \notin {0, 1, 4, 5, 6, 7, 9, 12, 13})
  <1>1. o = 0 => Dispatch(o) = "S_0"
    BY DEF Dispatch
  <1>2. o = 1 => Dispatch(o) = "S_1"
    BY DEF Dispatch
  <1>3. o = 4 => Dispatch(o) = "S_4"
    BY DEF Dispatch
  <1>4. o = 5 => Dispatch(o) = "S_5"
    BY DEF Dispatch
  <1>5. o = 6 => Dispatch(o) = "S_6"
    BY DEF Dispatch
  <1>6. o = 7 => Dispatch(o) = "S_7"
    BY DEF Dispatch
  <1>7. o = 9 => Dispatch(o) = "S_9"
    BY DEF Dispatch
  <1>8. o = 12 => Dispatch(o) = "S_12"
    BY DEF Dispatch
  <1>9. o = 13 => Dispatch(o) = "PauseIR1"
    BY DEF Dispatch
  <1>10. o \notin {0, 1, 4, 5, 6, 7, 9, 12, 13} => Dispatch(o) = "S_18"
    BY DEF Dispatch
  <1>11. \A s \in {"S_1", "S_5", "S_9", "S_6", "S_7", "S_4", "S_12", "S_0"} :
            Opcode(s) = CASE s = "S_0" -> 0 [] s = "S_1" -> 1 [] s = "S_4" -> 4 [] s = "S_5" -> 5
                          [] s = "S_6" -> 6 [] s = "S_7" -> 7 [] s = "S_9" -> 9 [] OTHER -> 12
    BY DEF Opcode, Loading, Storing, LoadWait
  <1>12. "PauseIR1" \notin Executing /\ "S_18" \notin Executing
    BY DEF Executing, Loading, Storing, LoadWait
  <1> QED BY <1>1, <1>2, <1>3, <1>4, <1>5, <1>6, <1>7, <1>8, <1>9, <1>10, <1>11, <1>12

\* A memory that only the stores of the processor change.
MemoryMoves(memory, memory2, size) ==
    /\ size \in Nat \ {0} /\ memory \in [0 .. size - 1 -> Word]
    /\ memory2 = IF State \in StoreWait THEN [memory EXCEPT ![MAR % size] = MDR] ELSE memory

\* A clock edge keeps what is remembered, of such a memory.
LEMMA DecodedStep ==
    ASSUME CpuTypes, NEW run \in BOOLEAN, NEW continue, NEW sw, NEW data, NEW floating,
           CPU_Clock(FALSE, run, continue, sw, data, floating),
           NEW size, NEW switches, NEW memory, NEW memory2,
           MemoryMoves(memory, memory2, size),
           State = "S_35" => MDR \in ReadAt(memory, size, switches, MAR),
           Decoded(memory, size, switches)
    PROVE  Decoded(memory2, size, switches)'
  <1> DEFINE D == Decoded(memory, size, switches)
             Reads == ReadAt(memory, size, switches, Plus(PC, 65535))
  <1>1. State \in States
    BY DEF CpuTypes
  <1>2. /\ AddressMoves /\ DataMoves(sw, data) /\ ResultMoves(floating)
        /\ SequencerMoves(run, continue)
    BY <1>1, Addresses, Data, Results, Successors
  <1>3. ASSUME State' \in Pauses \cup {"S_18", "S_21", "S_22"}
        PROVE  Decoded(memory2, size, switches)'
    BY <1>3 DEF Decoded, Pauses, FetchWait, LoadWait, StoreWait, Executing, Loading, Storing
  <1>a. ASSUME State' \in Executing \cup {"S_32"},
               IR' \in ReadAt(memory2, size, switches, Plus(PC', 65535)),
               State' \in Executing => IRopcode(IR') = Opcode(State'),
               State' \in LoadWait \cup {"S_27", "S_23", "S_16_1"} =>
                   MAR' = Plus(register'[IR8to6(IR')], IRSEXT6(IR')),
               State' = "S_16_1" => MDR' = register'[IR11to9(IR')],
               State' = "S_0" => (BEN' <=> BranchMask(IR') \cap cc' # {})
        PROVE  Decoded(memory2, size, switches)'
    <2>1. State' \notin FetchWait \cup (StoreWait \ {"S_16_1"}) \cup {"S_35", "Halted"}
      BY <1>a DEF FetchWait, LoadWait, StoreWait, Executing, Loading, Storing
    <2> QED BY <1>a, <2>1 DEF Decoded
  <1>4. CASE State = "Halted"
    <2>1. IR = 0
      BY <1>4 DEF Decoded
    <2>2. (State' = "Halted" \/ State' = "S_18") /\ IR' = 0
      BY <1>2, <1>4, <2>1 DEF SequencerMoves, DataMoves
    <2>3. CASE State' = "Halted"
      BY <2>2, <2>3 DEF Decoded, FetchWait, LoadWait, StoreWait, Executing, Loading, Storing
    <2> QED BY <1>3, <2>2, <2>3
  <1>5. CASE State \in Pauses \cup {"S_4", "S_0", "S_1", "S_5", "S_9", "S_27", "S_12",
                                    "S_21", "S_22", "S_16_4"}
    <2>1. AfterPause(continue) \in Pauses \cup {"S_18"}
      BY DEF AfterPause, Pauses
    <2>2. State' \in Pauses \cup {"S_18", "S_21", "S_22"}
      BY <1>2, <1>5, <2>1 DEF SequencerMoves
    <2> QED BY <1>3, <2>2
  <1>6. CASE State = "S_18"
    <2>1. State' = "S_33_1" /\ PC' = Plus(PC, 1) /\ MAR' = PC
      BY <1>2, <1>6 DEF SequencerMoves, AddressMoves
    <2>2. MAR' = Plus(PC', 65535)
      BY <2>1, PlusBack DEF CpuTypes
    <2> QED BY <2>1, <2>2 DEF Decoded, FetchWait, LoadWait, StoreWait, Executing, Loading, Storing
  <1>7. CASE State \in FetchWait
    <2>1. State' \in FetchWait \cup {"S_35"} /\ PC' = PC /\ MAR' = MAR
      BY <1>2, <1>7 DEF SequencerMoves, AddressMoves, FetchWait
    <2>2. MAR = Plus(PC, 65535)
      BY <1>7 DEF Decoded
    <2> QED BY <2>1, <2>2 DEF Decoded, FetchWait, LoadWait, StoreWait, Executing, Loading, Storing
  <1>8. CASE State = "S_35"
    <2>1. State' = "S_32" /\ PC' = PC /\ IR' = MDR /\ memory2 = memory
      BY <1>2, <1>8 DEF SequencerMoves, AddressMoves, DataMoves, MemoryMoves, StoreWait
    <2>2. MDR \in Reads
      BY <1>8 DEF Decoded
    <2>3. State' \notin Executing \cup LoadWait
      BY <2>1 DEF Executing, Loading, Storing, LoadWait
    <2>4. IR' \in ReadAt(memory2, size, switches, Plus(PC', 65535))
      BY <2>1, <2>2
    <2>5. /\ State' \notin LoadWait \cup {"S_27", "S_23", "S_16_1"}
          /\ State' # "S_0" /\ State' = "S_32"
      BY <2>1, <2>3
    <2> QED BY <1>a, <2>3, <2>4, <2>5
  <1>9. ASSUME State \in (Executing \cup {"S_32"}) \ {"S_4", "S_12", "S_16_1"}
        PROVE  PC' = PC /\ IR' = IR /\ memory2 = memory /\ IR \in Reads
    <2>1. PC' = PC /\ IR' = IR /\ memory2 = memory
      BY <1>2, <1>9
         DEF AddressMoves, DataMoves, MemoryMoves, StoreWait, LoadWait, Executing, Loading, Storing
    <2> QED BY <1>9, <2>1 DEF Decoded
  <1>10. CASE State = "S_32"
    <2>1. /\ State' = Dispatch(IRopcode(IR)) /\ cc' = cc
          /\ BEN' <=> BranchMask(IR) \cap cc # {}
      BY <1>2, <1>10 DEF SequencerMoves, ResultMoves
    <2>2. /\ State' \in {"S_1", "S_5", "S_9", "S_6", "S_7", "S_4", "S_12", "S_0",
                         "PauseIR1", "S_18"}
          /\ State' \in Executing => IRopcode(IR) = Opcode(State')
      <3>1. IRopcode(IR) \in Nat
        BY DEF CpuTypes, IRopcode, Word
      <3> QED BY <2>1, <3>1, Dispatched
    <2>3. PC' = PC /\ IR' = IR /\ memory2 = memory /\ IR \in Reads
      BY <1>9, <1>10
    <2>4. CASE State' \in Executing
      <3>1. State' \notin LoadWait \cup {"S_27", "S_23", "S_16_1"}
        BY <2>2 DEF LoadWait
      <3> QED BY <1>a, <2>1, <2>2, <2>3, <2>4, <3>1
    <2>5. CASE State' \notin Executing
      <3>1. State' \in Pauses \cup {"S_18"}
        BY <2>2, <2>5 DEF Executing, Loading, Storing, Pauses
      <3> QED BY <1>3, <3>1
    <2> QED BY <2>4, <2>5
  <1>11. CASE State \in {"S_6", "S_7"}
    <2>1. /\ State' = (IF State = "S_6" THEN "S_25_1" ELSE "S_23")
          /\ MAR' = Plus(register[IR8to6(IR)], IRSEXT6(IR)) /\ register' = register
      BY <1>2, <1>11 DEF SequencerMoves, AddressMoves, ResultMoves
    <2>2. PC' = PC /\ IR' = IR /\ memory2 = memory /\ IR \in Reads
      BY <1>9, <1>11 DEF Executing, Loading, Storing
    <2>3. IRopcode(IR) = Opcode(State)
      BY <1>11 DEF Decoded, Executing, Loading, Storing
    <2>4. Opcode(State') = Opcode(State)
      BY <1>11, <2>1 DEF Opcode, Loading, Storing, LoadWait
    <2>5. State' \in Executing /\ State' # "S_16_1" /\ State' # "S_0"
      BY <1>11, <2>1 DEF Executing, Loading, Storing, LoadWait
    <2> QED BY <1>a, <2>1, <2>2, <2>3, <2>4, <2>5
  <1>12. CASE State \in LoadWait
    <2>1. State' \in LoadWait \cup {"S_27"} /\ MAR' = MAR /\ register' = register
      BY <1>2, <1>12 DEF SequencerMoves, AddressMoves, ResultMoves, LoadWait
    <2>2. PC' = PC /\ IR' = IR /\ memory2 = memory /\ IR \in Reads
      BY <1>9, <1>12 DEF Executing, Loading, LoadWait
    <2>3. IRopcode(IR) = Opcode(State) /\ MAR = Plus(register[IR8to6(IR)], IRSEXT6(IR))
      BY <1>12 DEF Decoded, Executing, Loading
    <2>4. Opcode(State') = Opcode(State)
      <3>1. State \in Loading /\ State' \in Loading
        BY <1>12, <2>1 DEF Loading
      <3> QED BY <3>1 DEF Opcode
    <2>5. State' \in Executing /\ State' # "S_16_1" /\ State' # "S_0"
      BY <2>1 DEF Executing, Loading, Storing, LoadWait
    <2> QED BY <1>a, <2>1, <2>2, <2>3, <2>4, <2>5
  <1>13. CASE State = "S_23"
    <2>1. /\ State' = "S_16_1" /\ MAR' = MAR /\ register' = register
          /\ MDR' = register[IR11to9(IR)]
      BY <1>2, <1>13 DEF SequencerMoves, AddressMoves, ResultMoves, DataMoves
    <2>2. PC' = PC /\ IR' = IR /\ memory2 = memory /\ IR \in Reads
      BY <1>9, <1>13 DEF Executing, Storing
    <2>3. IRopcode(IR) = Opcode(State) /\ MAR = Plus(register[IR8to6(IR)], IRSEXT6(IR))
      BY <1>13 DEF Decoded, Executing, Storing
    <2>4. Opcode(State') = Opcode(State)
      BY <1>13, <2>1 DEF Opcode, Loading, Storing, LoadWait
    <2>5. State' \in Executing /\ State' # "S_0"
      BY <2>1 DEF Executing, Storing
    <2> QED BY <1>a, <2>1, <2>2, <2>3, <2>4, <2>5
  <1>14. CASE State \in StoreWait \ {"S_16_4"}
    <2>1. State' \in StoreWait \ {"S_16_1"} /\ MAR' = MAR /\ MDR' = MDR
      BY <1>2, <1>14 DEF SequencerMoves, AddressMoves, DataMoves, StoreWait
    <2>2. MAR = IOAddress => hex_data' = MDR
      BY <1>2, <1>14 DEF DataMoves
    <2>3. memory2[MAR % size] = MDR
      <3>1. MAR % size \in 0 .. size - 1
        BY DEF CpuTypes, Word, MemoryMoves
      <3> QED BY <1>14, <3>1 DEF MemoryMoves
    <2> QED BY <2>1, <2>2, <2>3
            DEF Decoded, FetchWait, LoadWait, StoreWait, Executing, Loading, Storing
  <1> QED BY <1>1, <1>4, <1>5, <1>6, <1>7, <1>8, <1>10, <1>11, <1>12, <1>13, <1>14
          DEF States, FetchWait, LoadWait, StoreWait

\* The store under way changes the memory at the edge that leaves S_16_1, and
\* at no other.
LEMMA StoreOnce ==
    ASSUME CpuTypes, NEW size, NEW switches, NEW memory, NEW memory2,
           MemoryMoves(memory, memory2, size), Decoded(memory, size, switches)
    PROVE  /\ State # "S_16_1" => memory2 = memory
           /\ State = "S_16_1" =>
                memory2 = [memory EXCEPT ![Plus(register[IR8to6(IR)], IRSEXT6(IR)) % size]
                                            = register[IR11to9(IR)]]
  <1>1. CASE State = "S_16_1"
    <2>1. MAR = Plus(register[IR8to6(IR)], IRSEXT6(IR)) /\ MDR = register[IR11to9(IR)]
      BY <1>1 DEF Decoded
    <2> QED BY <1>1, <2>1 DEF MemoryMoves, StoreWait
  <1>2. CASE State \in StoreWait \ {"S_16_1"}
    <2>1. memory[MAR % size] = MDR
      BY <1>2 DEF Decoded
    <2> QED BY <1>2, <2>1 DEF MemoryMoves
  <1>3. CASE State \notin StoreWait
    BY <1>3 DEF MemoryMoves, StoreWait
  <1> QED BY <1>1, <1>2, <1>3

-----------------------------------------------------------------------------
(* What the program sees of a clock edge. *)

view == <<absMode, absPC, absReg, absCC, absHex, absLED>>

\* The view while there is no reset.
Unreset ==
    /\ absMode = IF State = "Halted" THEN "halted"
                 ELSE IF State \in Pauses THEN "paused" ELSE "running"
    /\ absPC = IF State \in Retired THEN PC
               ELSE IF State = "S_21" THEN Plus(PC, IRSEXT11(IR))
               ELSE IF State = "S_22" THEN Plus(PC, IRSEXT9(IR))
               ELSE Plus(PC, 65535)
    /\ absReg = register /\ absCC = cc /\ absHex = hex_data
    /\ absLED = IF State \in Pauses \cup {"Halted"} THEN IR9to0(IR) ELSE 0

\* The case distinctions of the mapping exclude each other.
LEMMA ViewNow == ~Reset_ah => Unreset
  BY DEF Unreset, absMode, absPC, absReg, absCC, absHex, absLED, LED, LD_LED, Retired, Pauses

\* The same after the edge.
LEMMA ViewNext == ~Reset_ah' => Unreset'
  BY DEF Unreset, absMode, absPC, absReg, absCC, absHex, absLED, LED, LD_LED, Retired, Pauses

\* The states at whose end an instruction takes effect, but for S_32.
Retiring == {"S_1", "S_5", "S_9", "S_27", "S_16_1", "S_4", "S_12", "S_0"}

\* Before an instruction takes effect the abstract program counter is the
\* address it was fetched from.
LEMMA Before ==
    ASSUME CpuTypes, ~Reset_ah, State \in Retiring \cup {"S_32"}
    PROVE  /\ absMode = "running" /\ absPC = Plus(PC, 65535) /\ PC = Plus(absPC, 1)
           /\ absReg = register /\ absCC = cc /\ absHex = hex_data /\ absLED = 0
  <1>1. State \notin Retired \cup Pauses \cup {"Halted", "S_21", "S_22"}
    BY DEF Retiring, Retired, Pauses
  <1>2. Plus(Plus(PC, 65535), 1) = PC
    BY PlusBack DEF CpuTypes
  <1> QED BY <1>1, <1>2, ViewNow DEF Unreset

\* An edge that ends no instruction, and leaves neither Halted nor a pause,
\* shows nothing to the program.
LEMMA Quiet ==
    ASSUME CpuTypes, ~Reset_ah, ~Reset_ah',
           NEW run, NEW continue, NEW sw, NEW data, NEW floating,
           AddressMoves, DataMoves(sw, data), ResultMoves(floating),
           SequencerMoves(run, continue),
           NEW memory, NEW size, NEW switches, Decoded(memory, size, switches),
           State \notin Retiring \cup {"S_32", "Halted"} \cup Pauses
    PROVE  UNCHANGED view
  <1>1. Unreset /\ Unreset'
    BY ViewNow, ViewNext
  <1>2. register' = register /\ cc' = cc
    BY DEF ResultMoves, Retiring
  <1>3. hex_data' = hex_data
    BY DEF Decoded, DataMoves, Retiring
  <1>4. State' \notin {"Halted"} \cup Pauses /\ State \notin {"Halted"} \cup Pauses
    BY DEF SequencerMoves, CpuTypes, States, FetchWait, LoadWait, StoreWait, Retiring, Pauses
  <1>5. absPC' = absPC
    <2>1. CASE State = "S_18"
      <3>1. State' = "S_33_1" /\ PC' = Plus(PC, 1)
        BY <2>1 DEF SequencerMoves, AddressMoves
      <3>2. absPC = PC /\ absPC' = Plus(PC', 65535)
        BY <1>1, <2>1, <3>1 DEF Unreset, Retired, Pauses
      <3> QED BY <3>1, <3>2, PlusBack DEF CpuTypes
    <2>2. CASE State \in {"S_21", "S_22"}
      <3>1. /\ State' = "S_18"
            /\ PC' = IF State = "S_21" THEN Plus(PC, IRSEXT11(IR)) ELSE Plus(PC, IRSEXT9(IR))
        BY <2>2 DEF SequencerMoves, AddressMoves
      <3> QED BY <1>1, <2>2, <3>1 DEF Unreset, Retired, Pauses
    <2>3. CASE State \in StoreWait \ {"S_16_1"}
      <3>1. State' \in (StoreWait \ {"S_16_1"}) \cup {"S_18"} /\ PC' = PC
        BY <2>3 DEF SequencerMoves, AddressMoves, StoreWait
      <3> QED BY <1>1, <2>3, <3>1 DEF Unreset, Retired, Pauses, StoreWait
    <2>4. CASE State \in FetchWait \cup LoadWait \cup {"S_35", "S_6", "S_7", "S_23"}
      <3>1. State' \in FetchWait \cup LoadWait \cup {"S_35", "S_32", "S_27", "S_23", "S_16_1"}
        BY <2>4 DEF SequencerMoves, FetchWait, LoadWait
      <3>2. PC' = PC
        BY <2>4 DEF AddressMoves, FetchWait, LoadWait
      <3>3. /\ State' \notin Retired \cup {"S_21", "S_22"}
            /\ State \notin Retired \cup {"S_21", "S_22"}
        BY <2>4, <3>1 DEF Retired, Pauses, FetchWait, LoadWait
      <3> QED BY <1>1, <3>2, <3>3 DEF Unreset
    <2> QED BY <2>1, <2>2, <2>3, <2>4
            DEF CpuTypes, States, FetchWait, LoadWait, StoreWait, Retiring, Pauses
  <1>6. absMode' = absMode /\ absLED' = absLED
    BY <1>1, <1>4 DEF Unreset
  <1>7. absReg' = absReg /\ absCC' = absCC /\ absHex' = absHex
    BY <1>1, <1>2, <1>3 DEF Unreset
  <1> QED BY <1>5, <1>6, <1>7 DEF view

-----------------------------------------------------------------------------
(* The instruction set, in terms of the view: the actions of LC3ISA with    *)
(* memory and memory2 for the RAM before and after.  The refinement proofs  *)
(* of the two machines show that their instances of LC3ISA say the same.    *)

Source1(ir) == absReg[IR8to6(ir)]
Source2(ir) == IF IR5(ir) THEN IRSEXT5(ir) ELSE absReg[IR2to0(ir)]
Effective(ir) == Plus(absReg[IR8to6(ir)], IRSEXT6(ir))

Writes(ir, v, memory, memory2) ==
    /\ absReg' = [absReg EXCEPT ![IR11to9(ir)] = v] /\ absCC' = CCOf(v)
    /\ absPC' = Plus(absPC, 1)
    /\ absMode' = absMode /\ absHex' = absHex /\ absLED' = absLED /\ memory2 = memory

Loads(ir, memory, memory2, size, switches) ==
    \E v \in ReadAt(memory, size, switches, Effective(ir)) : Writes(ir, v, memory, memory2)

Stores(ir, memory, memory2, size) ==
    /\ memory2 = [memory EXCEPT ![Effective(ir) % size] = absReg[IR11to9(ir)]]
    /\ absHex' = IF Effective(ir) = IOAddress THEN absReg[IR11to9(ir)] ELSE absHex
    /\ absPC' = Plus(absPC, 1)
    /\ absMode' = absMode /\ absReg' = absReg /\ absCC' = absCC /\ absLED' = absLED

Calls(ir) ==
    /\ absReg' = [absReg EXCEPT ![7] = Plus(absPC, 1)]
    /\ absPC' = Plus(Plus(absPC, 1), IRSEXT11(ir))
    /\ absCC' = absCC

Jumps(ir) == absPC' = absReg[IR8to6(ir)] /\ absReg' = absReg /\ absCC' = absCC

Branches(ir, floatings) ==
    /\ absPC' = IF BranchMask(ir) \cap absCC # {}
                THEN Plus(Plus(absPC, 1), IRSEXT9(ir)) ELSE Plus(absPC, 1)
    /\ \E v \in floatings : absCC' = CCOf(v)
    /\ absReg' = absReg

\* What no instruction but a store or a pause changes.
Elsewhere(memory, memory2) ==
    absMode' = absMode /\ absHex' = absHex /\ absLED' = absLED /\ memory2 = memory

PausesAt(ir) ==
    /\ absMode' = "paused" /\ absLED' = IR9to0(ir) /\ absPC' = Plus(absPC, 1)
    /\ absReg' = absReg /\ absCC' = absCC /\ absHex' = absHex

Skips == absPC' = Plus(absPC, 1) /\ absReg' = absReg /\ absCC' = absCC

Executes(ir, memory, memory2, size, switches, floatings) ==
    \/ IRopcode(ir) = 1 /\ Writes(ir, Plus(Source1(ir), Source2(ir)), memory, memory2)
    \/ IRopcode(ir) = 5 /\ Writes(ir, And(Source1(ir), Source2(ir)), memory, memory2)
    \/ IRopcode(ir) = 9 /\ Writes(ir, Complement(Source1(ir)), memory, memory2)
    \/ IRopcode(ir) = 6 /\ Loads(ir, memory, memory2, size, switches)
    \/ IRopcode(ir) = 7 /\ Stores(ir, memory, memory2, size)
    \/ IRopcode(ir) = 4 /\ Calls(ir) /\ Elsewhere(memory, memory2)
    \/ IRopcode(ir) = 12 /\ Jumps(ir) /\ Elsewhere(memory, memory2)
    \/ IRopcode(ir) = 0 /\ Branches(ir, floatings) /\ Elsewhere(memory, memory2)
    \/ IRopcode(ir) = 13 /\ PausesAt(ir) /\ memory2 = memory
    \/ IRopcode(ir) \notin {0, 1, 4, 5, 6, 7, 9, 12, 13} /\ Skips /\ Elsewhere(memory, memory2)

\* What the program may see of an edge.
Sees(memory, memory2, size, switches, floatings) ==
    \/ UNCHANGED view /\ memory2 = memory
    \/ /\ absMode = "running"
       /\ \E ir \in ReadAt(memory, size, switches, absPC) :
             Executes(ir, memory, memory2, size, switches, floatings)
    \/ /\ absMode = "halted" /\ absMode' = "running"
       /\ UNCHANGED <<absPC, absReg, absCC, absHex, absLED>> /\ memory2 = memory
    \/ /\ absMode = "paused" /\ absMode' = "running" /\ absLED' = 0
       /\ UNCHANGED <<absPC, absReg, absCC, absHex>> /\ memory2 = memory

\* Adds, ands, complements and loads.
LEMMA WriteSeen ==
    ASSUME CpuTypes, ~Reset_ah, ~Reset_ah',
           NEW run, NEW continue, NEW sw, NEW data, NEW floating,
           AddressMoves, DataMoves(sw, data), ResultMoves(floating),
           SequencerMoves(run, continue),
           NEW size, NEW memory, NEW memory2, MemoryMoves(memory, memory2, size),
           State \in {"S_1", "S_5", "S_9", "S_27"}
    PROVE  Writes(IR, Result, memory, memory2)
  <1>1. /\ absMode = "running" /\ PC = Plus(absPC, 1) /\ absReg = register
        /\ absHex = hex_data /\ absLED = 0
    BY Before DEF Retiring
  <1>2. State' = "S_18" /\ PC' = PC /\ hex_data' = hex_data /\ memory2 = memory
    BY DEF SequencerMoves, AddressMoves, DataMoves, MemoryMoves, StoreWait
  <1>3. /\ absMode' = "running" /\ absPC' = PC' /\ absReg' = register' /\ absCC' = cc'
        /\ absHex' = hex_data' /\ absLED' = 0
    BY <1>2, ViewNext DEF Unreset, Retired, Pauses
  <1>4. register' = [register EXCEPT ![IR11to9(IR)] = Result] /\ cc' = CCOf(Result)
    BY DEF ResultMoves
  <1> QED BY <1>1, <1>2, <1>3, <1>4 DEF Writes

\* Stores.
LEMMA StoreSeen ==
    ASSUME CpuTypes, ~Reset_ah, ~Reset_ah',
           NEW run, NEW continue, NEW sw, NEW data, NEW floating,
           AddressMoves, DataMoves(sw, data), ResultMoves(floating),
           SequencerMoves(run, continue),
           NEW size, NEW switches, NEW memory, NEW memory2,
           MemoryMoves(memory, memory2, size),
           Decoded(memory, size, switches), State = "S_16_1"
    PROVE  Stores(IR, memory, memory2, size)
  <1>1. /\ absMode = "running" /\ PC = Plus(absPC, 1) /\ absReg = register /\ absCC = cc
        /\ absHex = hex_data /\ absLED = 0
    BY Before DEF Retiring
  <1>2. State' \in StoreWait \ {"S_16_1"} /\ PC' = PC /\ register' = register /\ cc' = cc
    BY DEF SequencerMoves, AddressMoves, ResultMoves, StoreWait
  <1>3. State' \in Retired /\ State' \notin Pauses \cup {"Halted"}
    BY <1>2 DEF StoreWait, Retired, Pauses
  <1>4. /\ absMode' = "running" /\ absPC' = PC' /\ absReg' = register' /\ absCC' = cc'
        /\ absHex' = hex_data' /\ absLED' = 0
    BY <1>3, ViewNext DEF Unreset
  <1>5. MAR = Effective(IR) /\ MDR = absReg[IR11to9(IR)]
    BY <1>1 DEF Decoded, Effective
  <1>6. memory2 = [memory EXCEPT ![MAR % size] = MDR]
    BY DEF MemoryMoves, StoreWait
  <1>7. hex_data' = IF MAR = IOAddress THEN MDR ELSE hex_data
    BY DEF DataMoves, StoreWait
  <1> QED BY <1>1, <1>2, <1>4, <1>5, <1>6, <1>7 DEF Stores

\* Calls, jumps and branches.
LEMMA JumpSeen ==
    ASSUME CpuTypes, ~Reset_ah, ~Reset_ah',
           NEW run, NEW continue, NEW sw, NEW data, NEW floatings, NEW floating \in floatings,
           AddressMoves, DataMoves(sw, data), ResultMoves(floating),
           SequencerMoves(run, continue),
           NEW size, NEW switches, NEW memory, NEW memory2,
           MemoryMoves(memory, memory2, size),
           Decoded(memory, size, switches), State \in {"S_4", "S_12", "S_0"}
    PROVE  /\ Elsewhere(memory, memory2)
           /\ State = "S_4" => Calls(IR)
           /\ State = "S_12" => Jumps(IR)
           /\ State = "S_0" => Branches(IR, floatings)
  <1>1. /\ absMode = "running" /\ PC = Plus(absPC, 1) /\ absReg = register /\ absCC = cc
        /\ absHex = hex_data /\ absLED = 0
    BY Before DEF Retiring
  <1>2. hex_data' = hex_data /\ memory2 = memory /\ IR' = IR
    BY DEF DataMoves, MemoryMoves, StoreWait
  <1>3. /\ State = "S_4" => State' = "S_21"
        /\ State = "S_12" => State' = "S_18"
        /\ State = "S_0" => State' = IF BEN THEN "S_22" ELSE "S_18"
    BY DEF SequencerMoves
  <1>4. State' \in {"S_18", "S_21", "S_22"}
    BY <1>3
  <1>5. /\ absMode' = "running" /\ absReg' = register' /\ absCC' = cc'
        /\ absHex' = hex_data' /\ absLED' = 0
        /\ absPC' = IF State' = "S_18" THEN PC'
                    ELSE IF State' = "S_21" THEN Plus(PC', IRSEXT11(IR'))
                    ELSE Plus(PC', IRSEXT9(IR'))
    BY <1>4, ViewNext DEF Unreset, Retired, Pauses
  <1>6. Elsewhere(memory, memory2)
    BY <1>1, <1>2, <1>5 DEF Elsewhere
  <1>7. CASE State = "S_4"
    <2>1. PC' = PC /\ register' = [register EXCEPT ![7] = PC] /\ cc' = cc
      BY <1>7 DEF AddressMoves, ResultMoves
    <2>2. absPC' = Plus(PC, IRSEXT11(IR))
      BY <1>2, <1>3, <1>5, <1>7, <2>1
    <2>3. Calls(IR)
      BY <1>1, <1>5, <2>1, <2>2 DEF Calls
    <2> QED BY <1>6, <1>7, <2>3
  <1>8. CASE State = "S_12"
    <2>1. PC' = register[IR8to6(IR)] /\ register' = register /\ cc' = cc
      BY <1>8 DEF AddressMoves, ResultMoves
    <2>2. absPC' = register[IR8to6(IR)]
      BY <1>3, <1>5, <1>8, <2>1
    <2>3. Jumps(IR)
      BY <1>1, <1>5, <2>1, <2>2 DEF Jumps
    <2> QED BY <1>6, <1>8, <2>3
  <1>9. CASE State = "S_0"
    <2>1. PC' = PC /\ register' = register /\ cc' = CCOf(floating)
      BY <1>9 DEF AddressMoves, ResultMoves
    <2>2. BEN <=> BranchMask(IR) \cap absCC # {}
      BY <1>1, <1>9 DEF Decoded
    <2>3. absPC' = IF BEN THEN Plus(PC, IRSEXT9(IR)) ELSE PC
      BY <1>2, <1>3, <1>5, <1>9, <2>1
    <2>4. Branches(IR, floatings)
      BY <1>1, <1>5, <2>1, <2>2, <2>3 DEF Branches
    <2> QED BY <1>6, <1>9, <2>4
  <1> QED BY <1>7, <1>8, <1>9

\* S_32: pauses and words that are no instruction take effect here, of the
\* others nothing is seen yet.
LEMMA DispatchSeen ==
    ASSUME CpuTypes, ~Reset_ah, ~Reset_ah',
           NEW run, NEW continue, NEW sw, NEW data, NEW floating,
           AddressMoves, DataMoves(sw, data), ResultMoves(floating),
           SequencerMoves(run, continue),
           NEW size, NEW memory, NEW memory2, MemoryMoves(memory, memory2, size),
           State = "S_32"
    PROVE  /\ memory2 = memory
           /\ \/ UNCHANGED view
              \/ IRopcode(IR) = 13 /\ PausesAt(IR)
              \/ /\ IRopcode(IR) \notin {0, 1, 4, 5, 6, 7, 9, 12, 13}
                 /\ Skips /\ Elsewhere(memory, memory2)
  <1>1. /\ absMode = "running" /\ absPC = Plus(PC, 65535) /\ PC = Plus(absPC, 1)
        /\ absReg = register /\ absCC = cc /\ absHex = hex_data /\ absLED = 0
    BY Before DEF Retiring
  <1>2. /\ PC' = PC /\ register' = register /\ cc' = cc /\ hex_data' = hex_data
        /\ IR' = IR /\ memory2 = memory
    BY DEF AddressMoves, ResultMoves, DataMoves, MemoryMoves, StoreWait
  <1>3. Unreset'
    BY ViewNext
  <1>4. absReg' = absReg /\ absCC' = absCC /\ absHex' = absHex
    BY <1>1, <1>2, <1>3 DEF Unreset
  <1>5. IRopcode(IR) \in Nat
    BY DEF CpuTypes, IRopcode, Word
  <1>6. State' = Dispatch(IRopcode(IR))
    BY DEF SequencerMoves
  <1>7. CASE State' = "PauseIR1"
    <2>1. IRopcode(IR) = 13
      BY <1>5, <1>6, <1>7, Dispatched
    <2>2. absMode' = "paused" /\ absPC' = PC' /\ absLED' = IR9to0(IR')
      BY <1>3, <1>7 DEF Unreset, Retired, Pauses
    <2>3. PausesAt(IR)
      BY <1>1, <1>2, <1>4, <2>2 DEF PausesAt
    <2> QED BY <1>2, <2>1, <2>3
  <1>8. CASE State' = "S_18"
    <2>1. IRopcode(IR) \notin {0, 1, 4, 5, 6, 7, 9, 12, 13}
      BY <1>5, <1>6, <1>8, Dispatched
    <2>2. absMode' = "running" /\ absPC' = PC' /\ absLED' = 0
      BY <1>3, <1>8 DEF Unreset, Retired, Pauses
    <2>3. Skips /\ Elsewhere(memory, memory2)
      BY <1>1, <1>2, <1>4, <2>2 DEF Skips, Elsewhere
    <2> QED BY <1>2, <2>1, <2>3
  <1>9. CASE State' \in {"S_1", "S_5", "S_9", "S_6", "S_7", "S_4", "S_12", "S_0"}
    <2>1. absMode' = "running" /\ absPC' = Plus(PC', 65535) /\ absLED' = 0
      BY <1>3, <1>9 DEF Unreset, Retired, Pauses
    <2>2. UNCHANGED view
      BY <1>1, <1>2, <1>4, <2>1 DEF view
    <2> QED BY <1>2, <2>2
  <1>10. State' \in {"S_1", "S_5", "S_9", "S_6", "S_7", "S_4", "S_12", "S_0",
                     "PauseIR1", "S_18"}
    BY <1>5, <1>6, Dispatched
  <1> QED BY <1>7, <1>8, <1>9, <1>10

\* Halted and the pauses: nothing is seen until the button is.
LEMMA WaitSeen ==
    ASSUME CpuTypes, ~Reset_ah, ~Reset_ah',
           NEW run, NEW continue, NEW sw, NEW data, NEW floating,
           AddressMoves, DataMoves(sw, data), ResultMoves(floating),
           SequencerMoves(run, continue),
           NEW size, NEW switches, NEW memory, NEW memory2,
           MemoryMoves(memory, memory2, size),
           Decoded(memory, size, switches), State \in Pauses \cup {"Halted"}
    PROVE  /\ memory2 = memory
           /\ \/ UNCHANGED view
              \/ /\ absMode = "halted" /\ absMode' = "running"
                 /\ UNCHANGED <<absPC, absReg, absCC, absHex, absLED>>
              \/ /\ absMode = "paused" /\ absMode' = "running" /\ absLED' = 0
                 /\ UNCHANGED <<absPC, absReg, absCC, absHex>>
  <1>1. Unreset /\ Unreset'
    BY ViewNow, ViewNext
  <1>2. /\ PC' = PC /\ register' = register /\ cc' = cc /\ hex_data' = hex_data
        /\ IR' = IR /\ memory2 = memory
    BY DEF AddressMoves, ResultMoves, DataMoves, MemoryMoves, StoreWait, Pauses
  <1>3. absReg' = absReg /\ absCC' = absCC /\ absHex' = absHex
    BY <1>1, <1>2 DEF Unreset
  <1>4. CASE State = "Halted"
    <2>1. absMode = "halted" /\ absPC = PC /\ absLED = IR9to0(IR)
      BY <1>1, <1>4 DEF Unreset, Retired
    <2>2. CASE State' = "Halted"
      <3>1. absMode' = "halted" /\ absPC' = PC' /\ absLED' = IR9to0(IR')
        BY <1>1, <2>2 DEF Unreset, Retired
      <3> QED BY <1>2, <1>3, <2>1, <3>1 DEF view
    <2>3. CASE State' = "S_18"
      <3>1. absMode' = "running" /\ absPC' = PC' /\ absLED' = 0
        BY <1>1, <2>3 DEF Unreset, Retired, Pauses
      <3>2. IR = 0
        BY <1>4 DEF Decoded
      <3>3. absLED = 0
        BY <2>1, <3>2 DEF IR9to0
      <3> QED BY <1>2, <1>3, <2>1, <3>1, <3>3
    <2>4. State' \in {"Halted", "S_18"}
      BY <1>4 DEF SequencerMoves
    <2> QED BY <2>2, <2>3, <2>4
  <1>5. CASE State \in Pauses
    <2>1. absMode = "paused" /\ absPC = PC /\ absLED = IR9to0(IR)
      BY <1>1, <1>5 DEF Unreset, Retired, Pauses
    <2>2. CASE State' \in Pauses
      <3>1. absMode' = "paused" /\ absPC' = PC' /\ absLED' = IR9to0(IR')
        BY <1>1, <2>2 DEF Unreset, Retired, Pauses
      <3> QED BY <1>2, <1>3, <2>1, <3>1 DEF view
    <2>3. CASE State' = "S_18"
      <3>1. absMode' = "running" /\ absPC' = PC' /\ absLED' = 0
        BY <1>1, <2>3 DEF Unreset, Retired, Pauses
      <3> QED BY <1>2, <1>3, <2>1, <3>1
    <2>4. State' \in Pauses \cup {"S_18"}
      BY <1>5 DEF SequencerMoves, AfterPause, Pauses
    <2> QED BY <2>2, <2>3, <2>4
  <1> QED BY <1>4, <1>5

\* An edge without a reset is an instruction, a button or nothing.
LEMMA EdgeSeen ==
    ASSUME CpuTypes, ~Reset_ah, ~Reset_ah',
           NEW run, NEW continue, NEW sw, NEW data, NEW floatings, NEW floating \in floatings,
           CPU_Clock(FALSE, run, continue, sw, data, floating),
           NEW size, NEW switches, NEW memory, NEW memory2,
           MemoryMoves(memory, memory2, size),
           State = "S_27" => MDR \in ReadAt(memory, size, switches, MAR),
           Decoded(memory, size, switches)
    PROVE  Sees(memory, memory2, size, switches, floatings)
  <1>1. /\ AddressMoves /\ DataMoves(sw, data) /\ ResultMoves(floating)
        /\ SequencerMoves(run, continue)
    BY Addresses, Data, Results, Successors DEF CpuTypes
  <1>2. ASSUME State \in Retiring \cup {"S_32"}
        PROVE  /\ absMode = "running" /\ absReg = register
               /\ IR \in ReadAt(memory, size, switches, absPC)
               /\ State \in Retiring => IRopcode(IR) = Opcode(State)
    <2>1. absMode = "running" /\ absPC = Plus(PC, 65535) /\ absReg = register
      BY <1>2, Before
    <2>2. IR \in ReadAt(memory, size, switches, Plus(PC, 65535))
      BY <1>2 DEF Decoded, Retiring, Executing, Loading, Storing
    <2>3. State \in Retiring => IRopcode(IR) = Opcode(State)
      BY DEF Decoded, Retiring, Executing, Loading, Storing
    <2> QED BY <2>1, <2>2, <2>3
  <1>3. ASSUME State \in Retiring \cup {"S_32"},
               Executes(IR, memory, memory2, size, switches, floatings)
        PROVE  Sees(memory, memory2, size, switches, floatings)
    BY <1>2, <1>3 DEF Sees
  <1>4. CASE State \in {"S_1", "S_5", "S_9"}
    <2>1. Writes(IR, Result, memory, memory2)
      BY <1>1, <1>4, WriteSeen
    <2>2. /\ State \in Retiring
          /\ Opcode(State) = IF State = "S_1" THEN 1 ELSE IF State = "S_5" THEN 5 ELSE 9
      BY <1>4 DEF Retiring, Opcode, Loading, Storing, LoadWait
    <2>3. Result = IF State = "S_1" THEN Plus(Source1(IR), Source2(IR))
                   ELSE IF State = "S_5" THEN And(Source1(IR), Source2(IR))
                   ELSE Complement(Source1(IR))
      BY <1>2, <1>4, <2>2 DEF Result, Operand, Source1, Source2
    <2>4. Executes(IR, memory, memory2, size, switches, floatings)
      BY <1>2, <1>4, <2>1, <2>2, <2>3 DEF Executes
    <2> QED BY <1>3, <2>2, <2>4
  <1>5. CASE State = "S_27"
    <2>1. Writes(IR, MDR, memory, memory2)
      BY <1>1, <1>5, WriteSeen DEF Result
    <2>2. State \in Retiring /\ Opcode(State) = 6
      BY <1>5 DEF Retiring, Opcode, Loading
    <2>3. MAR = Effective(IR)
      BY <1>2, <1>5, <2>2 DEF Decoded, Effective
    <2>4. Executes(IR, memory, memory2, size, switches, floatings)
      BY <1>2, <1>5, <2>1, <2>2, <2>3 DEF Executes, Loads
    <2> QED BY <1>3, <2>2, <2>4
  <1>6. CASE State = "S_16_1"
    <2>1. Stores(IR, memory, memory2, size)
      BY <1>1, <1>6, StoreSeen
    <2>2. State \in Retiring /\ Opcode(State) = 7
      BY <1>6 DEF Retiring, Opcode, Loading, Storing, LoadWait
    <2>3. Executes(IR, memory, memory2, size, switches, floatings)
      BY <1>2, <2>1, <2>2 DEF Executes
    <2> QED BY <1>3, <2>2, <2>3
  <1>7. CASE State \in {"S_4", "S_12", "S_0"}
    <2>1. /\ Elsewhere(memory, memory2)
          /\ State = "S_4" => Calls(IR)
          /\ State = "S_12" => Jumps(IR)
          /\ State = "S_0" => Branches(IR, floatings)
      BY <1>1, <1>7, JumpSeen
    <2>2. /\ State \in Retiring
          /\ Opcode(State) = IF State = "S_4" THEN 4 ELSE IF State = "S_12" THEN 12 ELSE 0
      BY <1>7 DEF Retiring, Opcode, Loading, Storing, LoadWait
    <2>3. Executes(IR, memory, memory2, size, switches, floatings)
      BY <1>2, <1>7, <2>1, <2>2 DEF Executes
    <2> QED BY <1>3, <2>2, <2>3
  <1>8. CASE State = "S_32"
    <2>1. /\ memory2 = memory
          /\ \/ UNCHANGED view
             \/ IRopcode(IR) = 13 /\ PausesAt(IR)
             \/ /\ IRopcode(IR) \notin {0, 1, 4, 5, 6, 7, 9, 12, 13}
                /\ Skips /\ Elsewhere(memory, memory2)
      BY <1>1, <1>8, DispatchSeen
    <2>2. \/ UNCHANGED view
          \/ Executes(IR, memory, memory2, size, switches, floatings)
      BY <2>1 DEF Executes
    <2> QED BY <1>3, <1>8, <2>1, <2>2 DEF Sees
  <1>9. CASE State \in Pauses \cup {"Halted"}
    BY <1>1, <1>9, WaitSeen DEF Sees
  <1>10. CASE State \notin Retiring \cup {"S_32", "Halted"} \cup Pauses
    <2>1. UNCHANGED view
      BY <1>1, <1>10, Quiet
    <2>2. memory2 = memory
      BY <1>10, StoreOnce DEF Retiring
    <2> QED BY <2>1, <2>2 DEF Sees
  <1> QED BY <1>4, <1>5, <1>6, <1>7, <1>8, <1>9, <1>10 DEF Retiring
=============================================================================
