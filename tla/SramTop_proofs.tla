--------------------------- MODULE SramTop_proofs ---------------------------
(***************************************************************************)
(* Proofs about SramTop, for every image, RAM size, set of switch values   *)
(* and set of words an undriven bus or a don't-care read may give.         *)
(***************************************************************************)
EXTENDS SramTopISA, PauseHandshake, SLC3_proofs

-----------------------------------------------------------------------------
(* Type correctness. *)

\* Addresses that fit the RAM are its cells, and every word names a cell.
LEMMA CellType ==
    ASSUME NEW addr \in Nat
    PROVE  /\ Cell(addr) \in RamAddress
           /\ addr < RamWords => Cell(addr) = addr
  BY RamWordsAssumption DEF Cell, RamAddress

\* TypeOK holds at power-up.
LEMMA TypeInit == Init => TypeOK
  <1> SUFFICES ASSUME Init PROVE TypeOK
    OBVIOUS
  <1>1. 0 \in Word
    BY DEF Word
  <1>2. /\ CPU_Init /\ Ram_Init /\ Loader_Init
        /\ RUN_S = FALSE /\ CONTINUE_S = FALSE /\ patient = TRUE
    BY DEF Init, Buttons_Init
  <1>3. /\ State \in States
        /\ PC \in Word /\ MAR \in Word /\ MDR \in Word /\ IR \in Word
        /\ register \in [Reg -> Word]
        /\ BEN \in BOOLEAN /\ cc \subseteq Flag /\ hex_data \in Word
    BY <1>1, <1>2 DEF CPU_Init, States
  <1>4. mem \in [RamAddress -> Word] /\ latch \in Word /\ q \in Word
    BY <1>1, <1>2 DEF Ram_Init
  <1>5. /\ state \in LoaderStates /\ address \in 0 .. LoaderLast + 1
        /\ wren => address <= LoaderLast
    BY <1>2, LoaderAssumption DEF Loader_Init, LoaderStates, wren
  <1> QED BY <1>2, <1>3, <1>4, <1>5 DEF TypeOK

\* Every clock edge keeps TypeOK.
LEMMA TypeStep == TypeOK /\ [Next]_vars => TypeOK'
  <1> SUFFICES ASSUME TypeOK, [Next]_vars PROVE TypeOK'
    OBVIOUS
  <1>1. CASE UNCHANGED vars
    BY <1>1 DEF TypeOK, vars, wren
  <1>2. CASE Next
    <2> PICK run \in BOOLEAN, continue \in BOOLEAN, switches \in SwitchValues,
             floating \in FloatingWords, dontcare \in DontCareWords :
             Operator(run, continue) /\ ClockEdge(switches, floating, dontcare)
      BY <1>2 DEF Next
    <2>1. floating \in Word /\ dontcare \in Word /\ switches \in SwitchWord /\ 0 \in Word
      BY SramTopAssumption DEF Word
    <2>2. CpuTypes'
      <3>1. CpuTypes /\ q \in Word
        BY DEF TypeOK, CpuTypes
      <3>2. CPU_Clock(Reset_ah, Run_ah, Continue_ah, switches, q, floating)
        BY DEF ClockEdge
      <3> QED BY <2>1, <3>1, <3>2, CpuTypeStep
    <2>3. mem' \in [RamAddress -> Word] /\ latch' \in Word /\ q' \in Word
      <3>1. ADDR \in Nat
        BY LoaderAssumption DEF ADDR, TypeOK, Word
      <3>2. Data_to_SRAM \in Word
        BY LoaderAssumption, <2>1 DEF Data_to_SRAM, init_data, TypeOK
      <3>3. Cell(ADDR) \in RamAddress
        BY <3>1, CellType
      <3>4. Ram_Clock(ADDR, Data_to_SRAM, Mem_OE, ramWE, dontcare)
        BY DEF ClockEdge
      <3> QED BY <2>1, <3>2, <3>3, <3>4 DEF Ram_Clock, TypeOK
    <2>4. /\ state' \in LoaderStates /\ address' \in 0 .. LoaderLast + 1
          /\ wren' => address' <= LoaderLast
      <3>1. Loader_Clock(Reset_ah, Reset_ah')
        BY DEF ClockEdge
      <3>2. wren => Plus(address, 1) = address + 1
        BY LoaderAssumption DEF Plus, TypeOK
      <3> QED BY <3>1, <3>2, LoaderAssumption
              DEF Loader_Clock, next_state, LoaderStates, wren, TypeOK
    <2>5. RUN_S' \in BOOLEAN /\ CONTINUE_S' \in BOOLEAN /\ patient' \in BOOLEAN
      BY DEF Operator, Sample
    <2> QED BY <2>2, <2>3, <2>4, <2>5 DEF TypeOK, CpuTypes
  <1> QED BY <1>1, <1>2

\* In every state the machine reaches, each register holds a value it has
\* bits for.
THEOREM TypeCorrect == Spec => []TypeOK
  BY TypeInit, TypeStep, PTL DEF Spec

-----------------------------------------------------------------------------
(* The image. *)

\* A word is its own RAM cell while the loader writes the image.
LEMMA LoaderCell ==
    ASSUME NEW a \in 0 .. LoaderLast
    PROVE  a \in RamAddress /\ Cell(a) = a
  <1>1. a \in Nat /\ a < RamWords
    BY LoaderAssumption, SramTopAssumption, RamWordsAssumption
  <1> QED BY <1>1, CellType DEF RamAddress

\* Every clock edge keeps ImageReady.
LEMMA ImageStep == TypeOK /\ ImageReady /\ [Next]_vars => ImageReady'
  <1> SUFFICES ASSUME TypeOK, ImageReady, [Next]_vars PROVE ImageReady'
    OBVIOUS
  <1>1. CASE UNCHANGED vars
    BY <1>1 DEF ImageReady, ImageInRam, vars
  <1>2. CASE Next
    <2> PICK run \in BOOLEAN, continue \in BOOLEAN, switches \in SwitchValues,
             floating \in FloatingWords, dontcare \in DontCareWords :
             Operator(run, continue) /\ ClockEdge(switches, floating, dontcare)
      BY <1>2 DEF Next
    <2>1. /\ Ram_Clock(ADDR, Data_to_SRAM, Mem_OE, ramWE, dontcare)
          /\ Loader_Clock(Reset_ah, Reset_ah')
          /\ ISDU_Clock(Reset_ah, Run_ah, Continue_ah, IRopcode(IR), BEN)
      BY DEF ClockEdge, CPU_Clock
    <2>2. CASE Reset_ah \/ Reset_ah'
      BY <2>1, <2>2 DEF Loader_Clock, ImageReady
    <2>3. CASE ~Reset_ah /\ ~Reset_ah' /\ state = "mem_write"
      <3>1. address \in 0 .. LoaderLast /\ Plus(address, 1) = address + 1
        BY <2>3, LoaderAssumption DEF TypeOK, wren, Plus
      <3>2. mem' = [mem EXCEPT ![address] = Image[address]]
        BY <2>1, <2>3, <3>1, LoaderCell
           DEF Ram_Clock, ramWE, we_select, wren, ADDR, Data_to_SRAM, init_data
      <3>3. \A a \in 0 .. address : mem'[a] = Image[a]
        BY <2>3, <3>1, <3>2, LoaderCell, LoaderAssumption DEF TypeOK, ImageReady
      <3>4. CASE address = LoaderLast
        BY <2>1, <2>3, <3>3, <3>4
           DEF Loader_Clock, next_state, ImageReady, ImageInRam
      <3>5. CASE address # LoaderLast
        BY <2>1, <2>3, <3>1, <3>3, <3>5 DEF Loader_Clock, next_state, wren, ImageReady
      <3> QED BY <3>4, <3>5
    <2>4. CASE ~Reset_ah /\ ~Reset_ah' /\ state # "mem_write"
      <3>1. state' = "idle"
        BY <2>1, <2>4 DEF Loader_Clock, next_state
      <3>2. CASE State' = "Halted"
        <4>1. State = "Halted"
          BY <2>1, <2>4, <3>2, NeverBackToHalted DEF ISDU_Clock
        <4>2. mem' = mem
          BY <2>1, <2>4, <4>1 DEF Ram_Clock, ramWE, we_select, wren, Mem_WE, StoreWait
        <4>3. ImageInRam
          BY <2>4, <4>1 DEF ImageReady, TypeOK, LoaderStates
        <4> QED BY <3>1, <4>2, <4>3 DEF ImageReady, ImageInRam
      <3>3. CASE State' # "Halted"
        BY <3>1, <3>3 DEF ImageReady
      <3> QED BY <3>2, <3>3
    <2> QED BY <2>2, <2>3, <2>4
  <1> QED BY <1>1, <1>2

\* A processor that waits to be started finds the whole image in the RAM,
\* whatever the operator did before.
THEOREM ImageAlwaysReady == Spec => []ImageReady
  <1>1. Init => ImageReady
    BY DEF Init, Loader_Init, CPU_Init, ImageReady
  <1> QED BY <1>1, TypeInit, TypeStep, ImageStep, PTL DEF Spec

-----------------------------------------------------------------------------
(* The RAM's latency and the wait states. *)

\* Every clock edge keeps ReadInv.
LEMMA ReadStep == ReadInv /\ [Next]_vars => ReadInv'
  <1> SUFFICES ASSUME ReadInv, [Next]_vars PROVE ReadInv'
    OBVIOUS
  <1> USE DEF ReadInv
  <1>1. CASE UNCHANGED vars
    <2>1. TypeOK'
      BY TypeStep
    <2>2. Reset_ah' = Reset_ah /\ Run_ah' = Run_ah
      BY <1>1 DEF vars, Reset_ah, Run_ah
    <2> QED BY <1>1, <2>1, <2>2 DEF ReadPipeline, OneRamMaster, ReadsSettled, vars
  <1>2. CASE Next
    <2> PICK run \in BOOLEAN, continue \in BOOLEAN, switches \in SwitchValues,
             floating \in FloatingWords, dontcare \in DontCareWords :
             Operator(run, continue) /\ ClockEdge(switches, floating, dontcare)
      BY <1>2 DEF Next
    <2>1. TypeOK'
      BY TypeStep
    <2>2. /\ CPU_Clock(Reset_ah, Run_ah, Continue_ah, switches, q, floating)
          /\ Ram_Clock(ADDR, Data_to_SRAM, Mem_OE, ramWE, dontcare)
          /\ Loader_Clock(Reset_ah, Reset_ah')
      BY DEF ClockEdge
    <2>3. Reset_ah' => state' = "mem_write"
      BY <2>2 DEF Loader_Clock
    <2> SUFFICES ASSUME patient'
                 PROVE  ReadPipeline' /\ OneRamMaster' /\ ReadsSettled'
      BY <2>1, <2>3 DEF ReadPipeline, OneRamMaster, ReadsSettled
    <2>4. Run_ah' /\ ~Reset_ah' => state' = "idle"
      <3>1. Run_ah' /\ ~Reset_ah' => state = "idle" /\ ~Reset_ah
        BY DEF Operator, Sample, Run_ah, Reset_ah, ReadPipeline
      <3> QED BY <2>2, <3>1 DEF Loader_Clock, next_state
    <2>5. CASE Reset_ah
      <3>1. State' = "Halted"
        BY <2>2, <2>5 DEF CPU_Clock, ISDU_Clock
      <3> QED BY <2>3, <2>4, <3>1
              DEF ReadPipeline, OneRamMaster, ReadsSettled, FetchWait, LoadWait
    <2>6. CASE ~Reset_ah
      <3>1. patient
        BY <2>6 DEF Operator
      <3>2. State' = NextState(Run_ah, Continue_ah, IRopcode(IR), BEN)
        BY <2>2, <2>6 DEF CPU_Clock, ISDU_Clock
      <3>3. /\ State' = "S_33_2" => State = "S_33_1"
            /\ State' = "S_33_3" => State = "S_33_2"
            /\ State' = "S_33_4" => State = "S_33_3"
            /\ State' = "S_35" => State = "S_33_4"
            /\ State' = "S_25_2" => State = "S_25_1"
            /\ State' = "S_25_3" => State = "S_25_2"
            /\ State' = "S_25_4" => State = "S_25_3"
            /\ State' = "S_27" => State = "S_25_4"
            /\ State = "Halted" => State' = "Halted" \/ (Run_ah /\ State' = "S_18")
        <4>1. Run_ah \in BOOLEAN
          BY DEF TypeOK, Run_ah
        <4> QED BY <3>2, <4>1, Predecessors DEF TypeOK
      <3>4. OneRamMaster'
        <4>1. State' # "Halted" => state = "idle"
          BY <2>6, <3>1, <3>3 DEF OneRamMaster, ReadPipeline
        <4> QED BY <2>2, <2>6, <4>1 DEF OneRamMaster, Loader_Clock, next_state
      <3>5. ASSUME State \in FetchWait \cup LoadWait
            PROVE  /\ mem' = mem /\ MAR' = MAR
                   /\ latch' = mem[Cell(MAR)] /\ q' = latch
        <4>1. state = "idle"
          BY <2>6, <3>1, <3>5 DEF OneRamMaster, FetchWait, LoadWait
        <4>2. Mem_OE /\ ~ramWE /\ ADDR = MAR
          BY <3>5, <4>1
             DEF Mem_OE, Mem_WE, ramWE, we_select, wren, ADDR, FetchWait, LoadWait, StoreWait
        <4>3. ~LD_MAR
          BY <3>5 DEF LD_MAR, FetchWait, LoadWait
        <4> QED BY <2>2, <2>6, <4>2, <4>3 DEF CPU_Clock, REGISTER, Ram_Clock
      <3>6. ReadPipeline'
        BY <2>3, <2>4, <3>1, <3>3, <3>5 DEF ReadPipeline, FetchWait, LoadWait
      <3>7. ASSUME State' \in {"S_35", "S_27"}
            PROVE  MDR' = IF MAR = IOAddress THEN switches ELSE q
        <4>1. LD_MDR /\ Mem_OE /\ ~Mem_WE
          BY <3>3, <3>7 DEF LD_MDR, Mem_OE, Mem_WE, FetchWait, LoadWait, StoreWait
        <4> QED BY <2>2, <2>6, <4>1
                DEF CPU_Clock, REGISTER, MDRREG_IN, Data_to_CPU
      <3>8. ReadsSettled'
        BY <3>1, <3>3, <3>5, <3>7 DEF ReadsSettled, ReadPipeline, FetchWait, LoadWait
      <3> QED BY <3>4, <3>6, <3>8
    <2> QED BY <2>5, <2>6
  <1> QED BY <1>1, <1>2

\* At start the sequencer waits in Halted and the loader has the RAM.
LEMMA ReadInit == Init => ReadInv
  <1> SUFFICES ASSUME Init PROVE ReadInv
    OBVIOUS
  <1>1. TypeOK
    BY TypeInit
  <1>2. /\ State = "Halted" /\ state = "mem_write"
        /\ RUN_S = FALSE /\ CONTINUE_S = FALSE
    BY DEF Init, CPU_Init, Loader_Init, Buttons_Init
  <1> QED BY <1>1, <1>2 DEF ReadInv, ReadPipeline, OneRamMaster, ReadsSettled,
                            Reset_ah, FetchWait, LoadWait

\* With a patient operator, MDR always holds the word that the RAM has at
\* MAR when the sequencer uses it: the wait states outlast the latency.
THEOREM ReadsAlwaysSettled == Spec => []ReadsSettled
  <1>1. ReadInv => ReadsSettled
    BY DEF ReadInv
  <1> QED BY <1>1, ReadInit, ReadStep, PTL DEF Spec

\* With a patient operator the loader never touches the RAM of a processor
\* that has been started.
THEOREM AlwaysOneRamMaster == Spec => []OneRamMaster
  <1>1. ReadInv => OneRamMaster
    BY DEF ReadInv
  <1> QED BY <1>1, ReadInit, ReadStep, PTL DEF Spec

-----------------------------------------------------------------------------
(* Continue and the pauses. *)

\* What makes OnePausePerPress inductive: while Continue is down, and in the
\* second pause state, which waits for its release, there is a press to use.
HandshakeInv == Continue_ah \/ State = "PauseIR2" => pressed

\* Every clock edge keeps HandshakeInv, and passes no pause without a press.
LEMMA HandshakeStep ==
    HandshakeInv /\ [HandshakeNext]_handshakeVars =>
        HandshakeInv' /\ [PassesPause => pressed]_handshakeVars
  <1> SUFFICES ASSUME HandshakeInv, [HandshakeNext]_handshakeVars
               PROVE  HandshakeInv' /\ [PassesPause => pressed]_handshakeVars
    OBVIOUS
  <1>1. CASE UNCHANGED handshakeVars
    BY <1>1 DEF HandshakeInv, handshakeVars, vars, Continue_ah
  <1>2. CASE HandshakeNext
    <2>1. /\ pressed' = (GoesDown \/ (pressed /\ ~PassesPause))
          /\ State' = IF Reset_ah THEN "Halted"
                      ELSE NextState(Run_ah, Continue_ah, IRopcode(IR), BEN)
      BY <1>2 DEF HandshakeNext, Next, ClockEdge, CPU_Clock, ISDU_Clock
    <2>2. State \in Pauses => State' \in {"Halted", AfterPause(Continue_ah)}
      <3>1. State \in Pauses => State \notin {"Halted", "S_32", "S_0"} \cup DOMAIN Successor
        BY DEF Pauses, Successor
      <3> QED BY <2>1, <3>1 DEF NextState
    <2>3. PassesPause => State = "PauseIR2" /\ ~Continue_ah
      BY <2>2 DEF PassesPause, AfterPause, Pauses
    <2>4. State' = "PauseIR2" => State \in Pauses /\ (Continue_ah \/ State = "PauseIR2")
      <3>1. \A s \in DOMAIN Successor : Successor[s] # "PauseIR2"
        BY DEF Successor
      <3>2. Dispatch(IRopcode(IR)) # "PauseIR2"
        BY DEF Dispatch
      <3>3. State' = "PauseIR2" => State \in Pauses
        BY <2>1, <3>1, <3>2 DEF NextState
      <3> QED BY <2>2, <3>3 DEF AfterPause, Pauses
    <2>5. HandshakeInv'
      <3>1. CASE GoesDown
        BY <2>1, <3>1 DEF HandshakeInv
      <3>2. CASE ~GoesDown
        <4>1. Continue_ah' => Continue_ah
          BY <3>2 DEF GoesDown
        <4>2. Continue_ah' \/ State' = "PauseIR2" => pressed /\ ~PassesPause
          BY <2>2, <2>3, <2>4, <4>1 DEF HandshakeInv, PassesPause
        <4> QED BY <2>1, <4>2 DEF HandshakeInv
      <3> QED BY <3>1, <3>2
    <2>6. PassesPause => pressed
      BY <2>3 DEF HandshakeInv
    <2> QED BY <2>5, <2>6
  <1> QED BY <1>1, <1>2

\* One press of Continue passes at most one pause, for every program and
\* every operator.
THEOREM AlwaysOnePausePerPress == HandshakeSpec => OnePausePerPress
  <1>1. HandshakeInit => HandshakeInv
    BY DEF HandshakeInit, HandshakeInv
  <1> QED BY <1>1, HandshakeStep, PTL DEF HandshakeSpec, OnePausePerPress

-----------------------------------------------------------------------------
(* The instruction set. *)

\* LC3ISA cuts words as the processor does.
LEMMA SameWords ==
    /\ \A ir : /\ ISA!IRopcode(ir) = IRopcode(ir) /\ ISA!IR11to9(ir) = IR11to9(ir)
               /\ ISA!IR8to6(ir) = IR8to6(ir) /\ ISA!IR2to0(ir) = IR2to0(ir)
               /\ ISA!IR9to0(ir) = IR9to0(ir) /\ (ISA!IR5(ir) <=> IR5(ir))
               /\ ISA!BranchMask(ir) = BranchMask(ir)
    /\ \A ir : /\ ISA!IRSEXT5(ir) = IRSEXT5(ir) /\ ISA!IRSEXT6(ir) = IRSEXT6(ir)
               /\ ISA!IRSEXT9(ir) = IRSEXT9(ir) /\ ISA!IRSEXT11(ir) = IRSEXT11(ir)
    /\ \A a, b : ISA!Plus(a, b) = Plus(a, b) /\ ISA!And(a, b) = And(a, b)
    /\ \A v : ISA!Complement(v) = Complement(v) /\ ISA!CCOf(v) = CCOf(v)
    /\ \A addr : ISA!Cell(addr) = Cell(addr)
    /\ ISA!IOAddress = IOAddress /\ ISA!Flag = Flag
  <1>1. \A a, b : ISA!And(a, b) = And(a, b)
    BY DEF ISA!And, ISA!AndByte, ISA!AndBit, ISA!Bit, And, AndByte, AndBit, Bit
  <1>2. \A ir : /\ ISA!IRSEXT5(ir) = IRSEXT5(ir) /\ ISA!IRSEXT6(ir) = IRSEXT6(ir)
                /\ ISA!IRSEXT9(ir) = IRSEXT9(ir) /\ ISA!IRSEXT11(ir) = IRSEXT11(ir)
    BY DEF ISA!IRSEXT5, ISA!IRSEXT6, ISA!IRSEXT9, ISA!IRSEXT11, ISA!Sext,
           IRSEXT5, IRSEXT6, IRSEXT9, IRSEXT11, Sext
  <1>3. \A ir : ISA!BranchMask(ir) = BranchMask(ir) /\ (ISA!IR5(ir) <=> IR5(ir))
    BY DEF ISA!BranchMask, ISA!Bit, ISA!IR5, BranchMask, Bit, IR5
  <1>4. \A ir : /\ ISA!IRopcode(ir) = IRopcode(ir) /\ ISA!IR11to9(ir) = IR11to9(ir)
                /\ ISA!IR8to6(ir) = IR8to6(ir) /\ ISA!IR2to0(ir) = IR2to0(ir)
                /\ ISA!IR9to0(ir) = IR9to0(ir)
    BY DEF ISA!IRopcode, ISA!IR11to9, ISA!IR8to6, ISA!IR2to0, ISA!IR9to0,
           IRopcode, IR11to9, IR8to6, IR2to0, IR9to0
  <1>5. \A a, b : ISA!Plus(a, b) = Plus(a, b)
    BY DEF ISA!Plus, Plus
  <1>6. \A v : ISA!Complement(v) = Complement(v) /\ ISA!CCOf(v) = CCOf(v)
    BY DEF ISA!Complement, ISA!CCOf, Complement, CCOf
  <1>7. \A addr : ISA!Cell(addr) = Cell(addr)
    BY DEF ISA!Cell, Cell
  <1>8. ISA!IOAddress = IOAddress /\ ISA!Flag = Flag
    BY DEF ISA!IOAddress, ISA!Flag, IOAddress, Flag
  <1> QED BY <1>1, <1>2, <1>3, <1>4, <1>5, <1>6, <1>7, <1>8

\* What the program may see of an edge is what LC3ISA allows.
LEMMA SeenIsAllowed ==
    ASSUME NEW memory2, memory2 = absMem',
           Sees(absMem, memory2, RamWords, SwitchValues, FloatingWords)
    PROVE  [ISA!Next]_(ISA!isaVars)
  <1>1. CASE UNCHANGED view /\ memory2 = absMem
    BY <1>1 DEF view, ISA!isaVars
  <1>2. \A a : ISA!ReadSet(a) = ReadAt(absMem, RamWords, SwitchValues, a)
    BY SameWords DEF ISA!ReadSet, ReadAt, Cell
  <1>3. ASSUME absMode = "running", NEW ir \in ReadAt(absMem, RamWords, SwitchValues, absPC),
               Executes(ir, absMem, memory2, RamWords, SwitchValues, FloatingWords)
        PROVE  \/ ISA!ADD(ir) \/ ISA!AND(ir) \/ ISA!NOT(ir) \/ ISA!LDR(ir) \/ ISA!STR(ir)
               \/ ISA!JSR(ir) \/ ISA!JMP(ir) \/ ISA!BR(ir) \/ ISA!PSE(ir) \/ ISA!Skip(ir)
    <2>1. \A v : Writes(ir, v, absMem, memory2) => ISA!WriteResult(ISA!IR11to9(ir), v)
      BY SameWords DEF Writes, ISA!WriteResult, ISA!Advance
    <2>2. ISA!Operand1(ir) = Source1(ir) /\ ISA!Operand2(ir) = Source2(ir)
      BY SameWords DEF Source1, Source2, ISA!Operand1, ISA!Operand2
    <2>3. ISA!EffectiveAddress(ir) = Effective(ir)
      BY SameWords DEF Effective, ISA!EffectiveAddress
    <2>4. CASE IRopcode(ir) = 1 /\ Writes(ir, Plus(Source1(ir), Source2(ir)), absMem, memory2)
      BY <2>1, <2>2, <2>4, SameWords DEF ISA!ADD
    <2>5. CASE IRopcode(ir) = 5 /\ Writes(ir, And(Source1(ir), Source2(ir)), absMem, memory2)
      BY <2>1, <2>2, <2>5, SameWords DEF ISA!AND
    <2>6. CASE IRopcode(ir) = 9 /\ Writes(ir, Complement(Source1(ir)), absMem, memory2)
      BY <2>1, <2>2, <2>6, SameWords DEF ISA!NOT
    <2>7. CASE IRopcode(ir) = 6 /\ Loads(ir, absMem, memory2, RamWords, SwitchValues)
      BY <1>2, <2>1, <2>3, <2>7, SameWords DEF ISA!LDR, Loads
    <2>8. CASE IRopcode(ir) = 7 /\ Stores(ir, absMem, memory2, RamWords)
      BY <2>3, <2>8, SameWords DEF ISA!STR, ISA!Stored, ISA!Advance, Stores, Cell
    <2>9. CASE IRopcode(ir) = 4 /\ Calls(ir) /\ Elsewhere(absMem, memory2)
      BY <2>9, SameWords DEF ISA!JSR, Calls, Elsewhere
    <2>10. CASE IRopcode(ir) = 12 /\ Jumps(ir) /\ Elsewhere(absMem, memory2)
      BY <2>10, SameWords DEF ISA!JMP, Jumps, Elsewhere
    <2>11. CASE IRopcode(ir) = 0 /\ Branches(ir, FloatingWords) /\ Elsewhere(absMem, memory2)
      BY <2>11, SameWords DEF ISA!BR, Branches, Elsewhere
    <2>12. CASE IRopcode(ir) = 13 /\ PausesAt(ir) /\ memory2 = absMem
      BY <2>12, SameWords DEF ISA!PSE, ISA!Advance, PausesAt
    <2>13. CASE /\ IRopcode(ir) \notin {0, 1, 4, 5, 6, 7, 9, 12, 13}
                /\ Skips /\ Elsewhere(absMem, memory2)
      BY <2>13, SameWords DEF ISA!Skip, ISA!Advance, Skips, Elsewhere
    <2> QED BY <1>3, <2>4, <2>5, <2>6, <2>7, <2>8, <2>9, <2>10, <2>11, <2>12, <2>13
            DEF Executes
  <1>4. CASE /\ absMode = "halted" /\ absMode' = "running"
             /\ UNCHANGED <<absPC, absReg, absCC, absHex, absLED>> /\ memory2 = absMem
    BY <1>4 DEF ISA!Run, ISA!Next
  <1>5. CASE /\ absMode = "paused" /\ absMode' = "running" /\ absLED' = 0
             /\ UNCHANGED <<absPC, absReg, absCC, absHex>> /\ memory2 = absMem
    BY <1>5 DEF ISA!Continue, ISA!Next
  <1>6. CASE /\ absMode = "running"
             /\ \E ir \in ReadAt(absMem, RamWords, SwitchValues, absPC) :
                   Executes(ir, absMem, memory2, RamWords, SwitchValues, FloatingWords)
    <2>1. ISA!Instruction
      BY <1>2, <1>3, <1>6 DEF ISA!Instruction
    <2> QED BY <2>1 DEF ISA!Next
  <1> QED BY <1>1, <1>4, <1>5, <1>6 DEF Sees

\* The memory the program sees after an edge.
Kept == IF State \in StoreWait THEN [absMem EXCEPT ![MAR % RamWords] = MDR] ELSE absMem

\* The loader changes nothing that is not of the image.
LEMMA LoaderUnseen ==
    ASSUME TypeOK, State = "Halted", state # "idle", NEW dontcare,
           Ram_Clock(ADDR, Data_to_SRAM, Mem_OE, ramWE, dontcare)
    PROVE  WithImage(mem') = WithImage(mem) /\ (state = "done" => mem' = mem)
  <1>1. ~Mem_WE
    BY DEF Mem_WE, StoreWait
  <1>2. CASE state = "mem_write"
    <2>1. address \in 0 .. LoaderLast
      BY <1>2, LoaderAssumption DEF TypeOK, wren
    <2>2. mem' = [mem EXCEPT ![address] = Data_to_SRAM]
      BY <1>2, <2>1, LoaderCell DEF Ram_Clock, ramWE, we_select, wren, ADDR
    <2>3. \A a \in RamAddress : a > LoaderLast => mem'[a] = mem[a]
      BY <2>1, <2>2, LoaderAssumption, RamWordsAssumption DEF TypeOK, RamAddress
    <2>4. \A a \in RamAddress : (IF a <= LoaderLast THEN Image[a] ELSE mem'[a])
                                = (IF a <= LoaderLast THEN Image[a] ELSE mem[a])
      BY <2>3, LoaderAssumption, RamWordsAssumption DEF RamAddress
    <2> QED BY <1>2, <2>4 DEF WithImage
  <1>3. CASE state = "done"
    <2>1. mem' = mem
      BY <1>1, <1>3 DEF Ram_Clock, ramWE, we_select, wren
    <2> QED BY <2>1
  <1> QED BY <1>2, <1>3 DEF TypeOK, LoaderStates

\* A memory that has the image is the same with the image laid over it.
LEMMA ImageOver ==
    ASSUME NEW m \in [RamAddress -> Word]
    PROVE  /\ WithImage(WithImage(m)) = WithImage(m)
           /\ (\A a \in 0 .. LoaderLast : m[a] = Image[a]) => WithImage(m) = m
           /\ WithImage(m) \in [RamAddress -> Word]
  <1>1. \A a \in RamAddress : a \in Nat /\ (a <= LoaderLast => a \in 0 .. LoaderLast)
    BY LoaderAssumption, RamWordsAssumption DEF RamAddress
  <1>2. WithImage(m) \in [RamAddress -> Word]
    BY <1>1, LoaderAssumption DEF WithImage
  <1>3. \A a \in RamAddress : WithImage(m)[a] = IF a <= LoaderLast THEN Image[a] ELSE m[a]
    BY DEF WithImage
  <1>4. WithImage(WithImage(m)) = WithImage(m)
    BY <1>3 DEF WithImage
  <1>5. ASSUME \A a \in 0 .. LoaderLast : m[a] = Image[a] PROVE WithImage(m) = m
    <2>1. \A a \in RamAddress : WithImage(m)[a] = m[a]
      BY <1>1, <1>3, <1>5
    <2> QED BY <1>2, <2>1
  <1> QED BY <1>2, <1>4, <1>5

\* The memory the program sees changes by its stores alone, and by a reset.
LEMMA MemorySeen ==
    ASSUME patient, ReadInv, ImageReady, ~Reset_ah, NEW dontcare,
           Ram_Clock(ADDR, Data_to_SRAM, Mem_OE, ramWE, dontcare),
           Loader_Clock(Reset_ah, Reset_ah')
    PROVE  /\ absMem' = IF Reset_ah' THEN WithImage(Kept) ELSE Kept
           /\ absMem \in [RamAddress -> Word]
  <1>1. TypeOK /\ (state # "idle" => State = "Halted")
    BY DEF ReadInv, OneRamMaster
  <1>2. mem \in [RamAddress -> Word]
    BY <1>1 DEF TypeOK
  <1>3. state' = IF Reset_ah' THEN "mem_write" ELSE next_state
    BY DEF Loader_Clock
  <1>4. CASE state = "idle"
    <2>1. mem' = IF State \in StoreWait THEN [mem EXCEPT ![MAR % RamWords] = MDR] ELSE mem
      BY <1>4 DEF Ram_Clock, ramWE, we_select, wren, ADDR, Data_to_SRAM, Mem_WE, Cell
    <2>2. absMem = mem
      BY <1>4 DEF absMem
    <2>3. mem' = Kept
      BY <2>1, <2>2 DEF Kept
    <2>4. state' = IF Reset_ah' THEN "mem_write" ELSE "idle"
      BY <1>3, <1>4 DEF next_state
    <2> QED BY <1>2, <2>2, <2>3, <2>4 DEF absMem
  <1>5. CASE state # "idle"
    <2>1. State = "Halted" /\ absMem = WithImage(mem)
      BY <1>1, <1>5 DEF absMem
    <2>2. Kept = WithImage(mem)
      BY <2>1 DEF Kept, StoreWait
    <2>3. WithImage(mem') = WithImage(mem) /\ (state = "done" => mem' = mem)
      BY <1>1, <1>5, <2>1, LoaderUnseen
    <2>4. absMem' = IF state' = "idle" THEN mem' ELSE WithImage(mem')
      BY DEF absMem, WithImage
    <2>5. CASE state' # "idle"
      BY <1>2, <2>1, <2>2, <2>3, <2>4, <2>5, ImageOver
    <2>6. CASE state' = "idle"
      <3>1. state = "done" /\ ~Reset_ah'
        BY <1>1, <1>3, <1>5, <2>6 DEF next_state, TypeOK, LoaderStates
      <3>2. WithImage(mem) = mem
        BY <1>2, <3>1, ImageOver DEF ImageReady, ImageInRam
      <3> QED BY <1>2, <2>1, <2>2, <2>3, <2>4, <2>6, <3>1, <3>2
    <2> QED BY <2>5, <2>6
  <1> QED BY <1>4, <1>5

\* What makes the refinement inductive: the sequencer remembers the
\* instruction as it is in the memory the program sees.
DecodeInv == patient /\ ~Reset_ah => Decoded(absMem, RamWords, SwitchValues)

ISAInv == ReadInv /\ ImageReady /\ DecodeInv

\* In reset the program sees nothing but the zeros.
LEMMA ResetView ==
    Reset_ah => /\ absMode = "reset" /\ absPC = 0 /\ absReg = [r \in Reg |-> 0]
                /\ absCC = {} /\ absHex = 0 /\ absLED = 0
  BY DEF absMode, absPC, absReg, absCC, absHex, absLED

\* The same after the edge.
LEMMA ResetViewNext ==
    Reset_ah' => /\ absMode' = "reset" /\ absPC' = 0 /\ absReg' = [r \in Reg |-> 0]
                 /\ absCC' = {} /\ absHex' = 0 /\ absLED' = 0
  BY DEF absMode, absPC, absReg, absCC, absHex, absLED

\* An edge without a reset is a step of the instruction set.
LEMMA RunningStep ==
    ASSUME patient, ISAInv, ~Reset_ah, ~Reset_ah',
           NEW switches \in SwitchValues, NEW floating \in FloatingWords,
           NEW dontcare \in DontCareWords,
           ClockEdge(switches, floating, dontcare)
    PROVE  DecodeInv' /\ [ISA!Next]_(ISA!isaVars)
  <1>1. PICK memory2 : memory2 = absMem'
    OBVIOUS
  <1>2. /\ CPU_Clock(FALSE, Run_ah, Continue_ah, switches, q, floating)
        /\ Ram_Clock(ADDR, Data_to_SRAM, Mem_OE, ramWE, dontcare)
        /\ Loader_Clock(Reset_ah, Reset_ah')
    BY DEF ClockEdge, CPU_Clock, ISDU_Clock, REGISTER, REGISTER_FILE_Clock,
           BEN_Clock, Mem2IO_Clock
  <1>3. CpuTypes /\ Run_ah \in BOOLEAN
    BY DEF ISAInv, ReadInv, TypeOK, CpuTypes, Run_ah
  <1>4. MemoryMoves(absMem, memory2, RamWords)
    <2>1. memory2 = Kept /\ absMem \in [RamAddress -> Word]
      BY <1>1, <1>2, MemorySeen DEF ISAInv
    <2> QED BY <2>1, RamWordsAssumption DEF MemoryMoves, Kept, RamAddress
  <1>5. State \in {"S_35", "S_27"} => MDR \in ReadAt(absMem, RamWords, SwitchValues, MAR)
    <2>1. State \in {"S_35", "S_27"} => state = "idle"
      BY DEF ISAInv, ReadInv, OneRamMaster
    <2>2. State \in {"S_35", "S_27"} => absMem = mem
      BY <2>1 DEF absMem
    <2> QED BY <2>2 DEF ISAInv, ReadInv, ReadsSettled, ReadAt, Cell
  <1>6. Decoded(absMem, RamWords, SwitchValues)
    BY DEF ISAInv, DecodeInv
  <1>7. Decoded(memory2, RamWords, SwitchValues)'
    BY <1>2, <1>3, <1>4, <1>5, <1>6, DecodedStep
  <1>8. Decoded(absMem, RamWords, SwitchValues)'
    BY <1>1, <1>7 DEF Decoded, ReadAt
  <1>9. Sees(absMem, memory2, RamWords, SwitchValues, FloatingWords)
    BY <1>2, <1>3, <1>4, <1>5, <1>6, EdgeSeen
  <1>10. [ISA!Next]_(ISA!isaVars)
    BY <1>1, <1>9, SeenIsAllowed
  <1> QED BY <1>8, <1>10 DEF DecodeInv

\* An edge in reset, or out of it, shows nothing but the release.
LEMMA ResetStep ==
    ASSUME ISAInv, Reset_ah,
           NEW switches \in SwitchValues, NEW floating \in FloatingWords,
           NEW dontcare \in DontCareWords,
           ClockEdge(switches, floating, dontcare)
    PROVE  DecodeInv' /\ [ISA!Next]_(ISA!isaVars)
  <1>1. /\ CPU_Clock(Reset_ah, Run_ah, Continue_ah, switches, q, floating)
        /\ Ram_Clock(ADDR, Data_to_SRAM, Mem_OE, ramWE, dontcare)
        /\ Loader_Clock(Reset_ah, Reset_ah')
    BY DEF ClockEdge
  <1>2. TypeOK /\ state = "mem_write" /\ state' = "mem_write"
    BY <1>1 DEF ISAInv, ReadInv, ReadPipeline, Loader_Clock
  <1>3. /\ State' = "Halted" /\ PC' = 0 /\ IR' = 0 /\ hex_data' = 0
        /\ register' = [r \in Reg |-> 0]
    BY <1>1 DEF CPU_Clock, ISDU_Clock, REGISTER, REGISTER_FILE_Clock, Mem2IO_Clock
  <1>4. cc' \subseteq Flag
    BY <1>1, <1>2, CCOfType DEF CPU_Clock, BEN_Clock, TypeOK
  <1>5. absMem' = absMem
    <2>1. address \in 0 .. LoaderLast
      BY <1>2, LoaderAssumption DEF TypeOK, wren
    <2>2. mem' = [mem EXCEPT ![address] = Data_to_SRAM]
      BY <1>1, <1>2, <2>1, LoaderCell DEF Ram_Clock, ramWE, we_select, wren, ADDR
    <2>3. \A a \in RamAddress : (IF a <= LoaderLast THEN Image[a] ELSE mem'[a])
                                = (IF a <= LoaderLast THEN Image[a] ELSE mem[a])
      BY <1>2, <2>1, <2>2, LoaderAssumption, RamWordsAssumption DEF TypeOK, RamAddress
    <2> QED BY <1>2, <2>3 DEF absMem, WithImage
  <1>6. CASE Reset_ah'
    <2>1. UNCHANGED view
      BY <1>6, ResetView, ResetViewNext DEF view
    <2> QED BY <1>5, <1>6, <2>1 DEF DecodeInv, view, ISA!isaVars
  <1>7. CASE ~Reset_ah'
    <2>1. Decoded(absMem, RamWords, SwitchValues)'
      BY <1>3 DEF Decoded, FetchWait, LoadWait, StoreWait, Executing, Loading, Storing
    <2>2. /\ absMode' = "halted" /\ absPC' = 0 /\ absReg' = [r \in Reg |-> 0]
          /\ absHex' = 0 /\ absCC' = cc'
      BY <1>3, <1>7, ViewNext DEF Unreset, Retired
    <2>3. absLED' = 0
      BY <1>3, <1>7, ViewNext DEF Unreset, IR9to0
    <2>4. ISA!Release
      BY <1>4, <1>5, <2>2, <2>3, ResetView, SameWords DEF ISA!Release
    <2> QED BY <2>1, <2>4 DEF DecodeInv, ISA!Next
  <1> QED BY <1>6, <1>7

\* An edge into reset is a reset of the instruction set, which finds a store
\* under way done or not.
LEMMA ResetEdge ==
    ASSUME patient, ISAInv, ~Reset_ah, Reset_ah',
           NEW switches \in SwitchValues, NEW floating \in FloatingWords,
           NEW dontcare \in DontCareWords,
           ClockEdge(switches, floating, dontcare)
    PROVE  DecodeInv' /\ [ISA!Next]_(ISA!isaVars)
  <1>1. /\ Ram_Clock(ADDR, Data_to_SRAM, Mem_OE, ramWE, dontcare)
        /\ Loader_Clock(Reset_ah, Reset_ah')
    BY DEF ClockEdge
  <1>2. absMem' = WithImage(Kept) /\ absMem \in [RamAddress -> Word]
    BY <1>1, MemorySeen DEF ISAInv
  <1>3. CpuTypes /\ Decoded(absMem, RamWords, SwitchValues)
    BY DEF ISAInv, DecodeInv, ReadInv, TypeOK, CpuTypes
  <1>4. \A m : ISA!Loaded(m) = WithImage(m)
    BY DEF ISA!Loaded, WithImage, RamAddress
  <1>5. MemoryMoves(absMem, Kept, RamWords)
    BY <1>2, RamWordsAssumption DEF MemoryMoves, Kept, RamAddress
  <1>6. Kept \in ISA!InFlight
    <2>1. CASE State # "S_16_1"
      <3>1. Kept = absMem
        BY <1>3, <1>5, <2>1, StoreOnce
      <3> QED BY <3>1 DEF ISA!InFlight
    <2>2. CASE State = "S_16_1"
      <3>1. Kept = [absMem EXCEPT ![Plus(register[IR8to6(IR)], IRSEXT6(IR)) % RamWords]
                                    = register[IR11to9(IR)]]
        BY <1>3, <1>5, <2>2, StoreOnce
      <3>2. absMode = "running" /\ absPC = Plus(PC, 65535) /\ absReg = register
        BY <1>3, <2>2, Before DEF Retiring
      <3>3. IR \in ReadAt(absMem, RamWords, SwitchValues, absPC) /\ IRopcode(IR) = 7
        BY <1>3, <2>2, <3>2 DEF Decoded, Executing, Loading, Storing, LoadWait, Opcode
      <3>4. IR \in ISA!ReadSet(absPC)
        BY <3>3, SameWords DEF ISA!ReadSet, ReadAt, Cell
      <3>5. Kept = ISA!Stored(IR)
        <4>1. ISA!EffectiveAddress(IR) = Plus(register[IR8to6(IR)], IRSEXT6(IR))
          BY <3>2, SameWords DEF ISA!EffectiveAddress
        <4>2. ISA!Cell(ISA!EffectiveAddress(IR))
                = Plus(register[IR8to6(IR)], IRSEXT6(IR)) % RamWords
          BY <4>1, SameWords DEF Cell
        <4>3. absReg[ISA!IR11to9(IR)] = register[IR11to9(IR)]
          BY <3>2, SameWords
        <4> QED BY <3>1, <4>2, <4>3 DEF ISA!Stored
      <3> QED BY <3>2, <3>3, <3>4, <3>5, SameWords DEF ISA!InFlight
    <2> QED BY <2>1, <2>2
  <1>7. ISA!Reset
    <2>1. absMem' = ISA!Loaded(Kept)
      BY <1>2, <1>4
    <2>2. /\ absMode' = "reset" /\ absPC' = 0 /\ absReg' = [r \in Reg |-> 0]
          /\ absCC' = {} /\ absHex' = 0 /\ absLED' = 0
      BY ResetViewNext
    <2> QED BY <1>6, <2>1, <2>2 DEF ISA!Reset, Reg
  <1> QED BY <1>7 DEF DecodeInv, ISA!Next

\* Every step of the machine is one of the instruction set, or shows nothing.
LEMMA ISAStep ==
    ISAInv /\ [Next]_vars => DecodeInv' /\ [patient' => ISA!Next]_(ISA!isaVars)
  <1> SUFFICES ASSUME ISAInv, [Next]_vars, patient'
               PROVE  DecodeInv' /\ [ISA!Next]_(ISA!isaVars)
    BY DEF DecodeInv
  <1>1. CASE UNCHANGED vars
    <2>1. UNCHANGED cpuVars /\ Reset_ah' = Reset_ah /\ patient
      BY <1>1 DEF vars, cpuVars, Reset_ah
    <2>2. absMem' = absMem
      BY <1>1 DEF vars, absMem, WithImage
    <2>3. UNCHANGED view
      BY <2>1 DEF cpuVars, view, absMode, absPC, absReg, absCC, absHex, absLED, LED, LD_LED
    <2>4. DecodeInv'
      BY <2>1, <2>2 DEF ISAInv, DecodeInv, Decoded, cpuVars
    <2> QED BY <2>2, <2>3, <2>4 DEF view, ISA!isaVars
  <1>2. CASE Next
    <2> PICK run \in BOOLEAN, continue \in BOOLEAN, switches \in SwitchValues,
             floating \in FloatingWords, dontcare \in DontCareWords :
             Operator(run, continue) /\ ClockEdge(switches, floating, dontcare)
      BY <1>2 DEF Next
    <2>1. patient \/ Reset_ah
      BY DEF Operator
    <2> QED BY <2>1, RunningStep, ResetStep, ResetEdge
  <1> QED BY <1>1, <1>2

\* At power-up the machine shows the initial state of the instruction set.
LEMMA ISAInit == Init => DecodeInv /\ ISA!Init
  <1> SUFFICES ASSUME Init PROVE DecodeInv /\ ISA!Init
    OBVIOUS
  <1>1. Reset_ah /\ state = "mem_write" /\ mem = [a \in RamAddress |-> 0]
    BY DEF Init, Buttons_Init, Loader_Init, Ram_Init, Reset_ah
  <1>2. absMem = ISA!Loaded([a \in RamAddress |-> 0])
    BY <1>1 DEF absMem, WithImage, ISA!Loaded, RamAddress
  <1> QED BY <1>1, <1>2, ResetView DEF DecodeInv, ISA!Init, RamAddress, Reg

\* The board implements the instruction set: for every program, RAM, set of
\* switch settings and set of words a floating bus may carry, what the program
\* sees changes by whole instructions, each with its meaning, by resets and by
\* buttons, from each reset until a start during the load.
THEOREM BoardImplementsISA == Spec => ImplementsISA
  <1>1. Init => ISAInv /\ ISA!Init
    <2>1. Init => ImageReady
      BY DEF Init, Loader_Init, CPU_Init, ImageReady
    <2> QED BY <2>1, ReadInit, ISAInit DEF ISAInv
  <1>2. ISAInv /\ [Next]_vars => ISAInv' /\ [patient' => ISA!Next]_(ISA!isaVars)
    <2>1. ISAInv => TypeOK
      BY DEF ISAInv, ReadInv
    <2> QED BY <2>1, ReadStep, ImageStep, ISAStep DEF ISAInv
  <1> QED BY <1>1, <1>2, PTL DEF Spec, ImplementsISA
=============================================================================
