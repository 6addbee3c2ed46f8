--------------------------- MODULE TestTop_proofs ---------------------------
(***************************************************************************)
(* Proofs about the simulation top level, for every memory contents and    *)
(* size.                                                                   *)
(***************************************************************************)
EXTENDS TestTop, SLC3_proofs

\* Every clock edge keeps TestReadInv.
LEMMA TestReadStep == TestReadInv /\ [Next]_testVars => TestReadInv'
  <1> SUFFICES ASSUME TestReadInv, [Next]_testVars PROVE TestReadInv'
    OBVIOUS
  <1>1. CASE UNCHANGED testVars
    BY <1>1 DEF TestReadInv, KnownReads, testVars, Reset_ah
  <1>2. CASE Next
    <2> PICK run \in BOOLEAN, continue \in BOOLEAN, switches \in SwitchValues,
             floating \in FloatingWords, x \in Unknown :
             Sample(run, continue) /\ ClockEdge(switches, floating, x)
      BY <1>2 DEF Next
    <2>1. /\ CPU_Clock(Reset_ah, Run_ah, Continue_ah, switches, mem_out, floating)
          /\ TestMemory_Clock(Reset_ah, Reset_ah', MAR, MDR, Mem_OE, Mem_WE, x)
          /\ RUN_S' \in BOOLEAN
      BY DEF ClockEdge, Sample
    <2>2. CASE Reset_ah
      <3>1. State' = "Halted"
        BY <2>1, <2>2 DEF CPU_Clock, ISDU_Clock
      <3> QED BY <2>1, <3>1 DEF TestReadInv, KnownReads, States, FetchWait, LoadWait
    <2>3. CASE ~Reset_ah
      <3>1. State' = NextState(Run_ah, Continue_ah, IRopcode(IR), BEN)
        BY <2>1, <2>3 DEF CPU_Clock, ISDU_Clock
      <3>2. State' \in States
        BY <3>1, NextStateType DEF TestReadInv
      <3>3. /\ State' = "S_33_2" => State = "S_33_1"
            /\ State' = "S_33_3" => State = "S_33_2"
            /\ State' = "S_33_4" => State = "S_33_3"
            /\ State' = "S_35" => State = "S_33_4"
            /\ State' = "S_25_2" => State = "S_25_1"
            /\ State' = "S_25_3" => State = "S_25_2"
            /\ State' = "S_25_4" => State = "S_25_3"
            /\ State' = "S_27" => State = "S_25_4"
        <4>1. Run_ah \in BOOLEAN
          BY DEF TestReadInv, Run_ah
        <4> QED BY <3>1, <4>1, Predecessors DEF TestReadInv
      <3>4. ASSUME State \in FetchWait \cup LoadWait, ~Reset_ah'
            PROVE  /\ mem_array' = mem_array /\ MAR' = MAR
                   /\ mem_out' = mem_array[TestCell(MAR)]
        <4>1. Mem_OE /\ ~Mem_WE /\ ~LD_MAR
          BY <3>4 DEF Mem_OE, Mem_WE, LD_MAR, FetchWait, LoadWait, StoreWait
        <4> QED BY <2>1, <2>3, <3>4, <4>1 DEF CPU_Clock, REGISTER, TestMemory_Clock
      <3>5. ASSUME State' \in {"S_35", "S_27"}
            PROVE  MDR' = IF MAR = IOAddress THEN switches ELSE mem_out
        <4>1. LD_MDR /\ Mem_OE /\ ~Mem_WE
          BY <3>3, <3>5 DEF LD_MDR, Mem_OE, Mem_WE, FetchWait, LoadWait, StoreWait
        <4> QED BY <2>1, <2>3, <4>1
                DEF CPU_Clock, REGISTER, MDRREG_IN, Data_to_CPU
      <3>6. KnownReads'
        <4> SUFFICES ASSUME State' \in {"S_35", "S_27"}, ~Reset_ah'
                     PROVE  IF MAR' = IOAddress THEN MDR' \in SwitchValues
                            ELSE MDR' = mem_array'[TestCell(MAR')]
          BY DEF KnownReads
        <4>1. State \in {"S_33_4", "S_25_4"}
          BY <3>3
        <4>2. mem_array' = mem_array /\ MAR' = MAR
          BY <3>4, <4>1 DEF FetchWait, LoadWait
        <4>3. mem_out = mem_array[TestCell(MAR)]
          BY <2>3, <4>1 DEF TestReadInv, FetchWait, LoadWait
        <4> QED BY <3>5, <4>2, <4>3
      <3>7. ASSUME State' \in (FetchWait \cup LoadWait) \ {"S_33_1", "S_25_1"}, ~Reset_ah'
            PROVE  mem_out' = mem_array'[TestCell(MAR')]
        <4>1. State \in FetchWait \cup LoadWait
          BY <3>3, <3>7 DEF FetchWait, LoadWait
        <4> QED BY <3>4, <3>7, <4>1
      <3> QED BY <2>1, <3>2, <3>6, <3>7 DEF TestReadInv
    <2> QED BY <2>2, <2>3
  <1> QED BY <1>1, <1>2

\* At the start the sequencer waits in Halted.
LEMMA TestReadInit == Init => TestReadInv
  BY DEF Init, CPU_Init, Buttons_Init, TestReadInv, KnownReads, States,
         FetchWait, LoadWait

\* In simulation every word the processor uses is the word the memory holds:
\* x never reaches IR or a register from a read.
THEOREM ReadsAlwaysKnown == Spec => []KnownReads
  <1>1. TestReadInv => KnownReads
    BY DEF TestReadInv
  <1> QED BY <1>1, TestReadInit, TestReadStep, PTL DEF Spec

-----------------------------------------------------------------------------
(* The instruction set. *)

\* LC3ISA cuts words as the processor does.
LEMMA SameWords ==
    /\ \A ir : /\ ISA!IRopcode(ir) = IRopcode(ir) /\ ISA!IR11to9(ir) = IR11to9(ir)
               /\ ISA!IR8to6(ir) = IR8to6(ir) /\ ISA!IR2to0(ir) = IR2to0(ir)
               /\ ISA!IR9to0(ir) = IR9to0(ir) /\ (ISA!IR5(ir) <=> IR5(ir))
               /\ ISA!BranchMask(ir) = BranchMask(ir)
    /\ \A ir : /\ ISA!IRSEXT5(ir) = IRSEXT5(ir) /\ ISA!IRSEXT6(ir) = IRSEXT6(ir)
               /\ ISA!IRSEXT9(ir) = IRSEXT9(ir) /\ ISA!IRSEXT11(ir) = IRSEXT11(ir)
    /\ \A a, b : ISA!Plus(a, b) = Plus(a, b) /\ ISA!And(a, b) = And(a, b)
    /\ \A v : ISA!Complement(v) = Complement(v) /\ ISA!CCOf(v) = CCOf(v)
    /\ \A addr : ISA!Cell(addr) = TestCell(addr)
    /\ ISA!IOAddress = IOAddress /\ ISA!Flag = Flag
  <1>1. \A a, b : ISA!And(a, b) = And(a, b)
    BY DEF ISA!And, ISA!AndByte, ISA!AndBit, ISA!Bit, And, AndByte, AndBit, Bit
  <1>2. \A ir : /\ ISA!IRSEXT5(ir) = IRSEXT5(ir) /\ ISA!IRSEXT6(ir) = IRSEXT6(ir)
                /\ ISA!IRSEXT9(ir) = IRSEXT9(ir) /\ ISA!IRSEXT11(ir) = IRSEXT11(ir)
    BY DEF ISA!IRSEXT5, ISA!IRSEXT6, ISA!IRSEXT9, ISA!IRSEXT11, ISA!Sext,
           IRSEXT5, IRSEXT6, IRSEXT9, IRSEXT11, Sext
  <1>3. \A ir : ISA!BranchMask(ir) = BranchMask(ir) /\ (ISA!IR5(ir) <=> IR5(ir))
    BY DEF ISA!BranchMask, ISA!Bit, ISA!IR5, BranchMask, Bit, IR5
  <1>4. \A ir : /\ ISA!IRopcode(ir) = IRopcode(ir) /\ ISA!IR11to9(ir) = IR11to9(ir)
                /\ ISA!IR8to6(ir) = IR8to6(ir) /\ ISA!IR2to0(ir) = IR2to0(ir)
                /\ ISA!IR9to0(ir) = IR9to0(ir)
    BY DEF ISA!IRopcode, ISA!IR11to9, ISA!IR8to6, ISA!IR2to0, ISA!IR9to0,
           IRopcode, IR11to9, IR8to6, IR2to0, IR9to0
  <1>5. \A a, b : ISA!Plus(a, b) = Plus(a, b)
    BY DEF ISA!Plus, Plus
  <1>6. \A v : ISA!Complement(v) = Complement(v) /\ ISA!CCOf(v) = CCOf(v)
    BY DEF ISA!Complement, ISA!CCOf, Complement, CCOf
  <1>7. \A addr : ISA!Cell(addr) = TestCell(addr)
    BY DEF ISA!Cell, TestCell
  <1>8. ISA!IOAddress = IOAddress /\ ISA!Flag = Flag
    BY DEF ISA!IOAddress, ISA!Flag, IOAddress, Flag
  <1> QED BY <1>1, <1>2, <1>3, <1>4, <1>5, <1>6, <1>7, <1>8

\* What the program may see of an edge is what LC3ISA allows.
LEMMA SeenIsAllowed ==
    ASSUME NEW memory2, memory2 = mem_array',
           Sees(mem_array, memory2, size, SwitchValues, FloatingWords)
    PROVE  [ISA!Next]_(ISA!isaVars)
  <1>1. CASE UNCHANGED view /\ memory2 = mem_array
    BY <1>1 DEF view, ISA!isaVars
  <1>2. \A a : ISA!ReadSet(a) = ReadAt(mem_array, size, SwitchValues, a)
    BY SameWords DEF ISA!ReadSet, ReadAt, TestCell
  <1>3. ASSUME absMode = "running", NEW ir \in ReadAt(mem_array, size, SwitchValues, absPC),
               Executes(ir, mem_array, memory2, size, SwitchValues, FloatingWords)
        PROVE  \/ ISA!ADD(ir) \/ ISA!AND(ir) \/ ISA!NOT(ir) \/ ISA!LDR(ir) \/ ISA!STR(ir)
               \/ ISA!JSR(ir) \/ ISA!JMP(ir) \/ ISA!BR(ir) \/ ISA!PSE(ir) \/ ISA!Skip(ir)
    <2>1. \A v : Writes(ir, v, mem_array, memory2) => ISA!WriteResult(ISA!IR11to9(ir), v)
      BY SameWords DEF Writes, ISA!WriteResult, ISA!Advance
    <2>2. ISA!Operand1(ir) = Source1(ir) /\ ISA!Operand2(ir) = Source2(ir)
      BY SameWords DEF Source1, Source2, ISA!Operand1, ISA!Operand2
    <2>3. ISA!EffectiveAddress(ir) = Effective(ir)
      BY SameWords DEF Effective, ISA!EffectiveAddress
    <2>4. CASE IRopcode(ir) = 1 /\ Writes(ir, Plus(Source1(ir), Source2(ir)), mem_array, memory2)
      BY <2>1, <2>2, <2>4, SameWords DEF ISA!ADD
    <2>5. CASE IRopcode(ir) = 5 /\ Writes(ir, And(Source1(ir), Source2(ir)), mem_array, memory2)
      BY <2>1, <2>2, <2>5, SameWords DEF ISA!AND
    <2>6. CASE IRopcode(ir) = 9 /\ Writes(ir, Complement(Source1(ir)), mem_array, memory2)
      BY <2>1, <2>2, <2>6, SameWords DEF ISA!NOT
    <2>7. CASE IRopcode(ir) = 6 /\ Loads(ir, mem_array, memory2, size, SwitchValues)
      BY <1>2, <2>1, <2>3, <2>7, SameWords DEF ISA!LDR, Loads
    <2>8. CASE IRopcode(ir) = 7 /\ Stores(ir, mem_array, memory2, size)
      BY <2>3, <2>8, SameWords DEF ISA!STR, ISA!Stored, ISA!Advance, Stores, TestCell
    <2>9. CASE IRopcode(ir) = 4 /\ Calls(ir) /\ Elsewhere(mem_array, memory2)
      BY <2>9, SameWords DEF ISA!JSR, Calls, Elsewhere
    <2>10. CASE IRopcode(ir) = 12 /\ Jumps(ir) /\ Elsewhere(mem_array, memory2)
      BY <2>10, SameWords DEF ISA!JMP, Jumps, Elsewhere
    <2>11. CASE IRopcode(ir) = 0 /\ Branches(ir, FloatingWords) /\ Elsewhere(mem_array, memory2)
      BY <2>11, SameWords DEF ISA!BR, Branches, Elsewhere
    <2>12. CASE IRopcode(ir) = 13 /\ PausesAt(ir) /\ memory2 = mem_array
      BY <2>12, SameWords DEF ISA!PSE, ISA!Advance, PausesAt
    <2>13. CASE /\ IRopcode(ir) \notin {0, 1, 4, 5, 6, 7, 9, 12, 13}
                /\ Skips /\ Elsewhere(mem_array, memory2)
      BY <2>13, SameWords DEF ISA!Skip, ISA!Advance, Skips, Elsewhere
    <2> QED BY <1>3, <2>4, <2>5, <2>6, <2>7, <2>8, <2>9, <2>10, <2>11, <2>12, <2>13
            DEF Executes
  <1>4. CASE /\ absMode = "halted" /\ absMode' = "running"
             /\ UNCHANGED <<absPC, absReg, absCC, absHex, absLED>> /\ memory2 = mem_array
    BY <1>4 DEF ISA!Run, ISA!Next
  <1>5. CASE /\ absMode = "paused" /\ absMode' = "running" /\ absLED' = 0
             /\ UNCHANGED <<absPC, absReg, absCC, absHex>> /\ memory2 = mem_array
    BY <1>5 DEF ISA!Continue, ISA!Next
  <1>6. CASE /\ absMode = "running"
             /\ \E ir \in ReadAt(mem_array, size, SwitchValues, absPC) :
                   Executes(ir, mem_array, memory2, size, SwitchValues, FloatingWords)
    <2>1. ISA!Instruction
      BY <1>2, <1>3, <1>6 DEF ISA!Instruction
    <2> QED BY <2>1 DEF ISA!Next
  <1> QED BY <1>1, <1>4, <1>5, <1>6 DEF Sees

\* In reset the program sees nothing but the zeros.
LEMMA ResetView ==
    Reset_ah => /\ absMode = "reset" /\ absPC = 0 /\ absReg = [r \in Reg |-> 0]
                /\ absCC = {} /\ absHex = 0 /\ absLED = 0
  BY DEF absMode, absPC, absReg, absCC, absHex, absLED

\* The same after the edge.
LEMMA ResetViewNext ==
    Reset_ah' => /\ absMode' = "reset" /\ absPC' = 0 /\ absReg' = [r \in Reg |-> 0]
                 /\ absCC' = {} /\ absHex' = 0 /\ absLED' = 0
  BY DEF absMode, absPC, absReg, absCC, absHex, absLED

\* What makes the refinement inductive: the types, the program in the memory
\* while reset is on, and what the sequencer remembers of an instruction.
TestISAInv ==
    /\ CpuTypes
    /\ mem_array \in [0 .. size - 1 -> Word] /\ mem_out \in Word
    /\ Reset_ah => mem_array = Contents
    /\ ~Reset_ah => Decoded(mem_array, size, SwitchValues)
    /\ TestReadInv

\* Every clock edge keeps the types.
LEMMA TestTypeStep ==
    ASSUME TestISAInv,
           NEW switches \in SwitchValues, NEW floating \in FloatingWords,
           NEW x \in Unknown,
           ClockEdge(switches, floating, x)
    PROVE  /\ CpuTypes' /\ mem_array' \in [0 .. size - 1 -> Word] /\ mem_out' \in Word
           /\ Reset_ah' => mem_array' = Contents
  <1>1. switches \in SwitchWord /\ floating \in Word /\ x \in Word
    BY TestTopAssumption
  <1>2. CpuTypes /\ mem_array \in [0 .. size - 1 -> Word] /\ mem_out \in Word
    BY DEF TestISAInv
  <1>3. /\ CPU_Clock(Reset_ah, Run_ah, Continue_ah, switches, mem_out, floating)
        /\ TestMemory_Clock(Reset_ah, Reset_ah', MAR, MDR, Mem_OE, Mem_WE, x)
    BY DEF ClockEdge
  <1>4. CpuTypes'
    BY <1>1, <1>2, <1>3, CpuTypeStep
  <1>5. TestCell(MAR) \in 0 .. size - 1
    BY <1>2, TestMemoryAssumption DEF CpuTypes, TestCell, Word
  <1>6. MDR \in Word
    BY <1>2 DEF CpuTypes
  <1> QED BY <1>1, <1>2, <1>3, <1>4, <1>5, <1>6, TestMemoryAssumption DEF TestMemory_Clock

\* An edge without a reset is a step of the instruction set.
LEMMA RunningStep ==
    ASSUME TestISAInv, ~Reset_ah, ~Reset_ah',
           NEW switches \in SwitchValues, NEW floating \in FloatingWords,
           NEW x \in Unknown,
           ClockEdge(switches, floating, x)
    PROVE  Decoded(mem_array, size, SwitchValues)' /\ [ISA!Next]_(ISA!isaVars)
  <1>1. PICK memory2 : memory2 = mem_array'
    OBVIOUS
  <1>2. /\ CPU_Clock(FALSE, Run_ah, Continue_ah, switches, mem_out, floating)
        /\ TestMemory_Clock(Reset_ah, Reset_ah', MAR, MDR, Mem_OE, Mem_WE, x)
    BY DEF ClockEdge, CPU_Clock, ISDU_Clock, REGISTER, REGISTER_FILE_Clock,
           BEN_Clock, Mem2IO_Clock
  <1>3. CpuTypes /\ Run_ah \in BOOLEAN
    BY DEF TestISAInv, TestReadInv, Run_ah
  <1>4. MemoryMoves(mem_array, memory2, size)
    <2>1. ~Mem_OE /\ Mem_WE <=> State \in StoreWait
      BY DEF Mem_OE, Mem_WE, FetchWait, LoadWait, StoreWait
    <2> QED BY <1>1, <1>2, <2>1, TestMemoryAssumption
            DEF TestISAInv, MemoryMoves, TestMemory_Clock, TestCell
  <1>5. State \in {"S_35", "S_27"} => MDR \in ReadAt(mem_array, size, SwitchValues, MAR)
    BY DEF TestISAInv, TestReadInv, KnownReads, ReadAt, TestCell
  <1>6. Decoded(mem_array, size, SwitchValues)
    BY DEF TestISAInv
  <1>7. Decoded(memory2, size, SwitchValues)'
    BY <1>2, <1>3, <1>4, <1>5, <1>6, DecodedStep
  <1>8. Decoded(mem_array, size, SwitchValues)'
    BY <1>1, <1>7 DEF Decoded, ReadAt
  <1>9. Sees(mem_array, memory2, size, SwitchValues, FloatingWords)
    BY <1>2, <1>3, <1>4, <1>5, <1>6, EdgeSeen
  <1>10. [ISA!Next]_(ISA!isaVars)
    BY <1>1, <1>9, SeenIsAllowed
  <1> QED BY <1>8, <1>10

\* Laying the contents over a memory gives the contents.
LEMMA LoadedIsContents == \A m : ISA!Loaded(m) = Contents
  <1>1. \A a \in 0 .. size - 1 : a <= size - 1
    BY TestMemoryAssumption
  <1>2. \A m : ISA!Loaded(m) = [a \in 0 .. size - 1 |-> Contents[a]]
    BY <1>1 DEF ISA!Loaded
  <1> QED BY <1>2, TestMemoryAssumption

\* An edge in reset, or out of it, shows nothing but the release.
LEMMA ResetStep ==
    ASSUME TestISAInv, Reset_ah,
           NEW switches \in SwitchValues, NEW floating \in FloatingWords,
           NEW x \in Unknown,
           ClockEdge(switches, floating, x)
    PROVE  /\ ~Reset_ah' => Decoded(mem_array, size, SwitchValues)'
           /\ [ISA!Next]_(ISA!isaVars)
  <1>1. /\ CPU_Clock(Reset_ah, Run_ah, Continue_ah, switches, mem_out, floating)
        /\ TestMemory_Clock(Reset_ah, Reset_ah', MAR, MDR, Mem_OE, Mem_WE, x)
    BY DEF ClockEdge
  <1>2. /\ State' = "Halted" /\ PC' = 0 /\ IR' = 0 /\ hex_data' = 0
        /\ register' = [r \in Reg |-> 0]
    BY <1>1 DEF CPU_Clock, ISDU_Clock, REGISTER, REGISTER_FILE_Clock, Mem2IO_Clock
  <1>3. cc' \subseteq Flag
    BY TestTypeStep DEF CpuTypes
  <1>4. mem_array' = mem_array
    BY <1>1 DEF TestISAInv, TestMemory_Clock
  <1>5. CASE Reset_ah'
    <2>1. UNCHANGED view
      BY <1>5, ResetView, ResetViewNext DEF view
    <2> QED BY <1>4, <1>5, <2>1 DEF view, ISA!isaVars
  <1>6. CASE ~Reset_ah'
    <2>1. Decoded(mem_array, size, SwitchValues)'
      BY <1>2 DEF Decoded, FetchWait, LoadWait, StoreWait, Executing, Loading, Storing
    <2>2. /\ absMode' = "halted" /\ absPC' = 0 /\ absReg' = [r \in Reg |-> 0]
          /\ absHex' = 0 /\ absCC' = cc'
      BY <1>2, <1>6, ViewNext DEF Unreset, Retired
    <2>3. absLED' = 0
      BY <1>2, <1>6, ViewNext DEF Unreset, IR9to0
    <2>4. ISA!Release
      BY <1>3, <1>4, <2>2, <2>3, ResetView, SameWords DEF ISA!Release
    <2> QED BY <2>1, <2>4 DEF ISA!Next
  <1> QED BY <1>5, <1>6

\* An edge into reset is a reset of the instruction set.
LEMMA ResetEdge ==
    ASSUME TestISAInv, ~Reset_ah, Reset_ah',
           NEW switches \in SwitchValues, NEW floating \in FloatingWords,
           NEW x \in Unknown,
           ClockEdge(switches, floating, x)
    PROVE  [ISA!Next]_(ISA!isaVars)
  <1>1. mem_array' = Contents
    BY DEF ClockEdge, TestMemory_Clock
  <1>2. mem_array \in ISA!InFlight
    BY DEF ISA!InFlight
  <1>3. ISA!Reset
    BY <1>1, <1>2, LoadedIsContents, ResetViewNext DEF ISA!Reset, Reg
  <1> QED BY <1>3 DEF ISA!Next

\* Every step of the simulation is one of the instruction set, or shows
\* nothing.
LEMMA TestISAStep ==
    TestISAInv /\ [Next]_testVars => TestISAInv' /\ [ISA!Next]_(ISA!isaVars)
  <1> SUFFICES ASSUME TestISAInv, [Next]_testVars
               PROVE  TestISAInv' /\ [ISA!Next]_(ISA!isaVars)
    OBVIOUS
  <1>1. TestReadInv'
    BY TestReadStep DEF TestISAInv
  <1>2. CASE UNCHANGED testVars
    <2>1. /\ UNCHANGED cpuVars /\ Reset_ah' = Reset_ah
          /\ mem_array' = mem_array /\ mem_out' = mem_out
      BY <1>2 DEF testVars, cpuVars, Reset_ah
    <2>2. UNCHANGED view
      BY <2>1 DEF cpuVars, view, absMode, absPC, absReg, absCC, absHex, absLED, LED, LD_LED
    <2>3. CpuTypes'
      BY <2>1 DEF TestISAInv, CpuTypes, cpuVars
    <2>4. ~Reset_ah' => Decoded(mem_array, size, SwitchValues)'
      BY <2>1 DEF TestISAInv, Decoded, ReadAt, cpuVars
    <2>5. TestISAInv'
      BY <1>1, <2>1, <2>3, <2>4 DEF TestISAInv
    <2> QED BY <2>1, <2>2, <2>5 DEF view, ISA!isaVars
  <1>3. CASE Next
    <2> PICK run \in BOOLEAN, continue \in BOOLEAN, switches \in SwitchValues,
             floating \in FloatingWords, x \in Unknown :
             Sample(run, continue) /\ ClockEdge(switches, floating, x)
      BY <1>3 DEF Next
    <2>1. /\ CpuTypes' /\ mem_array' \in [0 .. size - 1 -> Word] /\ mem_out' \in Word
          /\ Reset_ah' => mem_array' = Contents
      BY TestTypeStep
    <2>2. /\ ~Reset_ah' => Decoded(mem_array, size, SwitchValues)'
          /\ [ISA!Next]_(ISA!isaVars)
      BY RunningStep, ResetStep, ResetEdge
    <2> QED BY <1>1, <2>1, <2>2 DEF TestISAInv
  <1> QED BY <1>2, <1>3

\* At the start the simulation shows the initial state of the instruction set.
LEMMA TestISAInit == Init => TestISAInv /\ ISA!Init
  <1> SUFFICES ASSUME Init PROVE TestISAInv /\ ISA!Init
    OBVIOUS
  <1>1. Reset_ah /\ mem_array = Contents /\ mem_out \in Word
    BY TestTopAssumption DEF Init, Buttons_Init, TestMemory_Init, Reset_ah
  <1>2. CpuTypes
    <2>1. 0 \in Word /\ "Halted" \in States
      BY DEF Word, States
    <2>2. CPU_Init
      BY DEF Init
    <2> QED BY <2>1, <2>2 DEF CPU_Init, CpuTypes
  <1>3. TestReadInv
    BY TestReadInit
  <1>4. TestISAInv
    BY <1>1, <1>2, <1>3, TestMemoryAssumption DEF TestISAInv
  <1>5. ISA!Init
    BY <1>1, LoadedIsContents, ResetView DEF ISA!Init, Reg
  <1> QED BY <1>4, <1>5

\* The simulated machine implements the instruction set, for every memory
\* contents and size and every operator.
THEOREM SimulationImplementsISA == Spec => TestImplementsISA
  BY TestISAInit, TestISAStep, PTL DEF Spec, TestImplementsISA, ISA!Safety
=============================================================================
