-------------------------- MODULE Programs_proofs ---------------------------
(***************************************************************************)
(* Proofs about the programs of the image: what they show, for every       *)
(* setting of the switches, every RAM that holds the image and whatever an *)
(* undriven bus leaves in the condition codes.                             *)
(***************************************************************************)
EXTENDS Programs, SequenceTheorems, TLAPS

-----------------------------------------------------------------------------
(* The operators on words. *)

\* The wrapping adder of two words is a word.
LEMMA PlusType == ASSUME NEW a \in Nat, NEW b \in Nat PROVE Plus(a, b) \in Word
  BY DEF Plus, Word

\* The complement of a word is a word.
LEMMA ComplementType == ASSUME NEW a \in Word PROVE Complement(a) \in Word
  BY DEF Complement, Word

\* A bit of a word is 0 or 1.
LEMMA BitType == ASSUME NEW a \in Word, NEW w \in BitWeights PROVE Bit(a, w) \in 0 .. 1
  BY DEF Bit, Word, BitWeights

BitValue == 0 .. 1
Byte == 0 .. 255
ByteSum(a, b, c, d, e, f, g, h) == a + 2*b + 4*c + 8*d + 16*e + 32*f + 64*g + 128*h

\* The bits of s, from the lowest on.
HasBits(s, a, b, c, d, e, f, g, h) ==
    /\ s \in Byte
    /\ Bit(s, 1) = a /\ Bit(s, 2) = b /\ Bit(s, 4) = c /\ Bit(s, 8) = d
    /\ Bit(s, 16) = e /\ Bit(s, 32) = f /\ Bit(s, 64) = g /\ Bit(s, 128) = h

\* A byte is the sum of its bits.
LEMMA ByteOfBits ==
    ASSUME NEW a, NEW b, NEW c, NEW d, NEW e, NEW f, NEW g, NEW h,
           {a, b, c, d, e, f, g, h} \subseteq BitValue
    PROVE  HasBits(ByteSum(a, b, c, d, e, f, g, h), a, b, c, d, e, f, g, h)
  <1> DEFINE s == ByteSum(a, b, c, d, e, f, g, h)
  <1>0. /\ a \in BitValue /\ b \in BitValue /\ c \in BitValue /\ d \in BitValue
        /\ e \in BitValue /\ f \in BitValue /\ g \in BitValue /\ h \in BitValue
    OBVIOUS
  <1>1. s \in Byte
    BY <1>0 DEF ByteSum, BitValue, Byte
  <1>2. Bit(s, 1) = a
    BY <1>0 DEF Bit, ByteSum, BitValue
  <1>3. Bit(s, 2) = b
    BY <1>0 DEF Bit, ByteSum, BitValue
  <1>4. Bit(s, 4) = c
    BY <1>0 DEF Bit, ByteSum, BitValue
  <1>5. Bit(s, 8) = d
    BY <1>0 DEF Bit, ByteSum, BitValue
  <1>6. Bit(s, 16) = e
    BY <1>0 DEF Bit, ByteSum, BitValue
  <1>7. Bit(s, 32) = f
    BY <1>0 DEF Bit, ByteSum, BitValue
  <1>8. Bit(s, 64) = g
    BY <1>0 DEF Bit, ByteSum, BitValue
  <1>9. Bit(s, 128) = h
    BY <1>0 DEF Bit, ByteSum, BitValue
  <1> QED BY <1>1, <1>2, <1>3, <1>4, <1>5, <1>6, <1>7, <1>8, <1>9 DEF HasBits

\* The bits of a word s are those of its two bytes.
HasBytes(s, low, high) ==
    /\ Bit(s, 1) = Bit(low, 1)        /\ Bit(s, 2) = Bit(low, 2)
    /\ Bit(s, 4) = Bit(low, 4)        /\ Bit(s, 8) = Bit(low, 8)
    /\ Bit(s, 16) = Bit(low, 16)      /\ Bit(s, 32) = Bit(low, 32)
    /\ Bit(s, 64) = Bit(low, 64)      /\ Bit(s, 128) = Bit(low, 128)
    /\ Bit(s, 256) = Bit(high, 1)     /\ Bit(s, 512) = Bit(high, 2)
    /\ Bit(s, 1024) = Bit(high, 4)    /\ Bit(s, 2048) = Bit(high, 8)
    /\ Bit(s, 4096) = Bit(high, 16)   /\ Bit(s, 8192) = Bit(high, 32)
    /\ Bit(s, 16384) = Bit(high, 64)  /\ Bit(s, 32768) = Bit(high, 128)

\* Two bytes side by side make a word with their bits.
LEMMA BitsOfBytes ==
    ASSUME NEW low \in Byte, NEW high \in Byte, NEW s, s = low + 256 * high
    PROVE  HasBytes(s, low, high)
  <1>1. Bit(s, 1) = Bit(low, 1)
    BY DEF Bit, Byte
  <1>9. Bit(s, 256) = Bit(high, 1)
    BY DEF Bit, Byte
  <1>2. Bit(s, 2) = Bit(low, 2)
    BY DEF Bit, Byte
  <1>10. Bit(s, 512) = Bit(high, 2)
    BY DEF Bit, Byte
  <1>3. Bit(s, 4) = Bit(low, 4)
    BY DEF Bit, Byte
  <1>11. Bit(s, 1024) = Bit(high, 4)
    BY DEF Bit, Byte
  <1>4. Bit(s, 8) = Bit(low, 8)
    BY DEF Bit, Byte
  <1>12. Bit(s, 2048) = Bit(high, 8)
    BY DEF Bit, Byte
  <1>5. Bit(s, 16) = Bit(low, 16)
    BY DEF Bit, Byte
  <1>13. Bit(s, 4096) = Bit(high, 16)
    BY DEF Bit, Byte
  <1>6. Bit(s, 32) = Bit(low, 32)
    BY DEF Bit, Byte
  <1>14. Bit(s, 8192) = Bit(high, 32)
    BY DEF Bit, Byte
  <1>7. Bit(s, 64) = Bit(low, 64)
    BY DEF Bit, Byte
  <1>15. Bit(s, 16384) = Bit(high, 64)
    BY DEF Bit, Byte
  <1>8. Bit(s, 128) = Bit(low, 128)
    BY DEF Bit, Byte
  <1>16. Bit(s, 32768) = Bit(high, 128)
    BY DEF Bit, Byte
  <1> QED BY <1>1, <1>2, <1>3, <1>4, <1>5, <1>6, <1>7, <1>8, <1>9,
             <1>10, <1>11, <1>12, <1>13, <1>14, <1>15, <1>16
      DEF HasBytes

\* And is the bitwise conjunction, and its result is a word.
LEMMA AndIsBitwise ==
    ASSUME NEW a, NEW b
    PROVE  /\ And(a, b) \in Word
           /\ \A w \in BitWeights : Bit(And(a, b), w) = 1 <=> Bit(a, w) = 1 /\ Bit(b, w) = 1
  <1> DEFINE on(w) == Bit(a, w) = 1 /\ Bit(b, w) = 1
             c == [w \in BitWeights |-> IF on(w) THEN 1 ELSE 0]
             low == ByteSum(c[1], c[2], c[4], c[8], c[16], c[32], c[64], c[128])
             high == ByteSum(c[256], c[512], c[1024], c[2048], c[4096], c[8192], c[16384],
                             c[32768])
  <1>1. \A w \in BitWeights : c[w] \in BitValue /\ (c[w] = 1 <=> on(w))
    BY DEF BitValue
  <1>2. ASSUME NEW w \in BitWeights PROVE AndBit(a, b, w) = w * c[w]
    BY <1>2 DEF AndBit, BitWeights
  <1>3. AndByte(a, b, 1) = low /\ AndByte(a, b, 256) = 256 * high
    <2> HIDE DEF c
    <2> QED BY <1>1, <1>2 DEF AndByte, ByteSum, BitValue, BitWeights
  <1> HIDE DEF c
  <1>4. HasBits(low, c[1], c[2], c[4], c[8], c[16], c[32], c[64], c[128])
    <2>1. {c[1], c[2], c[4], c[8], c[16], c[32], c[64], c[128]} \subseteq BitValue
      BY <1>1 DEF BitWeights
    <2> QED BY <2>1, ByteOfBits
  <1>5. HasBits(high, c[256], c[512], c[1024], c[2048], c[4096], c[8192], c[16384], c[32768])
    <2>1. {c[256], c[512], c[1024], c[2048], c[4096], c[8192], c[16384], c[32768]}
             \subseteq BitValue
      BY <1>1 DEF BitWeights
    <2> QED BY <2>1, ByteOfBits
  <1> HIDE DEF low, high
  <1>6. And(a, b) = low + 256 * high
    BY <1>3 DEF And
  <1>7. And(a, b) \in Word
    BY <1>4, <1>5, <1>6 DEF Word, Byte, HasBits
  <1>8. \A w \in BitWeights : Bit(And(a, b), w) = c[w]
    <2> DEFINE s == And(a, b)
    <2>1. low \in Byte /\ high \in Byte /\ s = low + 256 * high
      BY <1>4, <1>5, <1>6 DEF HasBits
    <2> HIDE DEF s
    <2>2. HasBytes(s, low, high)
      BY <2>1, BitsOfBytes
    <2>3. /\ Bit(s, 1) = c[1]         /\ Bit(s, 2) = c[2]
          /\ Bit(s, 4) = c[4]         /\ Bit(s, 8) = c[8]
          /\ Bit(s, 16) = c[16]       /\ Bit(s, 32) = c[32]
          /\ Bit(s, 64) = c[64]       /\ Bit(s, 128) = c[128]
          /\ Bit(s, 256) = c[256]     /\ Bit(s, 512) = c[512]
          /\ Bit(s, 1024) = c[1024]   /\ Bit(s, 2048) = c[2048]
          /\ Bit(s, 4096) = c[4096]   /\ Bit(s, 8192) = c[8192]
          /\ Bit(s, 16384) = c[16384] /\ Bit(s, 32768) = c[32768]
      BY <1>4, <1>5, <2>2 DEF HasBytes, HasBits
    <2>4. \A w \in BitWeights : Bit(s, w) = c[w]
      BY <2>3 DEF BitWeights
    <2> QED BY <2>4 DEF s
  <1> QED BY <1>1, <1>7, <1>8

\* Complement is the bitwise negation.
LEMMA ComplementIsBitwise ==
    ASSUME NEW a \in Word, NEW w \in BitWeights
    PROVE  Bit(Complement(a), w) = 1 <=> Bit(a, w) # 1
  BY DEF Bit, Complement, Word, BitWeights

-----------------------------------------------------------------------------
(* The instructions.  Here(ir): the machine is about to execute ir, which  *)
(* it finds in the image (and not in the switches).                        *)

Here(ir) == mode = "running" /\ pc \in 0 .. 174 /\ mem[pc] = ir

\* The words of the image are cells of the RAM, apart from the one that
\* stores to xFFFF fall on.
LEMMA Cells ==
    /\ \A a \in 0 .. 174 : Cell(a) = a /\ a \in 0 .. RamWords - 1 /\ a # IOAddress
    /\ Cell(IOAddress) \in 175 .. RamWords - 1
  <1>1. RamWords \in Nat /\ RamWords > 174
    BY RoomAssumption
  <1>2. ASSUME NEW a \in 0 .. 174
        PROVE  Cell(a) = a /\ a \in 0 .. RamWords - 1 /\ a # IOAddress
    BY <1>1 DEF Cell, IOAddress
  <1>3. Cell(IOAddress) \in 0 .. RamWords - 1
    BY <1>1 DEF Cell, IOAddress
  <1> QED BY <1>2, <1>3, RoomAssumption

\* The word found is executed.
LEMMA Executed ==
    ASSUME NEW ir, Here(ir), Instruction
    PROVE  /\ IRopcode(ir) = 0 => BR(ir)
           /\ IRopcode(ir) = 1 => ADD(ir)
           /\ IRopcode(ir) = 4 => JSR(ir)
           /\ IRopcode(ir) = 5 => AND(ir)
           /\ IRopcode(ir) = 6 => LDR(ir)
           /\ IRopcode(ir) = 7 => STR(ir)
           /\ IRopcode(ir) = 9 => NOT(ir)
           /\ IRopcode(ir) = 12 => JMP(ir)
           /\ IRopcode(ir) = 13 => PSE(ir)
  <1>1. \/ ADD(ir) \/ AND(ir) \/ NOT(ir)
        \/ LDR(ir) \/ STR(ir)
        \/ JSR(ir) \/ JMP(ir) \/ BR(ir)
        \/ PSE(ir) \/ Skip(ir)
    BY Cells DEF Here, Instruction, ReadSet
  <1> QED BY <1>1 DEF ADD, AND, NOT, LDR, STR, JSR, JMP, BR, PSE, Skip

Register == 0 .. 7
Imm5 == -16 .. 15           \* the numbers the fields of an instruction hold
Offset6 == -32 .. 31
Offset9 == -256 .. 255
Offset11 == -1024 .. 1023
Conditions == 0 .. 7
LedVector == 0 .. 4095

\* NOT.
LEMMA DoesNOT ==
    ASSUME NEW d \in Register, NEW s \in Register, Here(opNOT(d, s)), Instruction
    PROVE  WriteResult(d, Complement(reg[s]))
  <1> DEFINE ir == opNOT(d, s)
  <1>1. IRopcode(ir) = 9 /\ IR11to9(ir) = d /\ IR8to6(ir) = s
    BY DEF opNOT, Instr, IRopcode, IR11to9, IR8to6, Register
  <1>2. NOT(ir)
    BY <1>1, Executed
  <1> QED BY <1>1, <1>2 DEF NOT, Operand1

\* ADD and AND of two registers.
LEMMA DoesADD ==
    ASSUME NEW d \in Register, NEW s \in Register, NEW t \in Register,
           Here(opADD(d, s, t)), Instruction
    PROVE  WriteResult(d, Plus(reg[s], reg[t]))
  <1> DEFINE ir == opADD(d, s, t)
  <1>1. /\ IRopcode(ir) = 1 /\ IR11to9(ir) = d /\ IR8to6(ir) = s /\ IR2to0(ir) = t
        /\ ~IR5(ir)
    BY DEF opADD, Instr, IRopcode, IR11to9, IR8to6, IR2to0, IR5, Bit, Register
  <1>2. ADD(ir)
    BY <1>1, Executed
  <1> QED BY <1>1, <1>2 DEF ADD, Operand1, Operand2

\* AND of two registers.
LEMMA DoesAND ==
    ASSUME NEW d \in Register, NEW s \in Register, NEW t \in Register,
           Here(opAND(d, s, t)), Instruction
    PROVE  WriteResult(d, And(reg[s], reg[t]))
  <1> DEFINE ir == opAND(d, s, t)
  <1>1. /\ IRopcode(ir) = 5 /\ IR11to9(ir) = d /\ IR8to6(ir) = s /\ IR2to0(ir) = t
        /\ ~IR5(ir)
    BY DEF opAND, Instr, IRopcode, IR11to9, IR8to6, IR2to0, IR5, Bit, Register
  <1>2. AND(ir)
    BY <1>1, Executed
  <1> QED BY <1>1, <1>2 DEF AND, Operand1, Operand2

\* Adding an immediate is adding the number, also a negative one.
LEMMA DoesADDi ==
    ASSUME NEW d \in Register, NEW s \in Register, NEW k \in Imm5, reg[s] \in Word,
           Here(opADDi(d, s, k)), Instruction
    PROVE  WriteResult(d, (reg[s] + k) % 65536)
  <1> DEFINE ir == opADDi(d, s, k)
  <1>1. IRopcode(ir) = 1 /\ IR11to9(ir) = d /\ IR8to6(ir) = s /\ IR5(ir)
    BY DEF opADDi, Instr, IRopcode, IR11to9, IR8to6, IR5, Bit, Register, Imm5
  <1>2. ir % 32 = k % 32
    BY DEF opADDi, Instr, Register, Imm5
  <1>3. IRSEXT5(ir) = k % 65536
    BY <1>2 DEF IRSEXT5, Sext, Imm5
  <1>4. Plus(reg[s], k % 65536) = (reg[s] + k) % 65536
    BY DEF Plus, Word, Imm5
  <1>5. ADD(ir)
    BY <1>1, Executed
  <1> QED BY <1>1, <1>3, <1>4, <1>5 DEF ADD, Operand1, Operand2

\* Clearing a register is a conjunction with zero.
LEMMA DoesCLR ==
    ASSUME NEW d \in Register, Here(opCLR(d)), Instruction
    PROVE  WriteResult(d, 0)
  <1> DEFINE ir == opCLR(d)
  <1>1. IRopcode(ir) = 5 /\ IR11to9(ir) = d /\ IR8to6(ir) = d /\ IR5(ir) /\ ir % 32 = 0
    BY DEF opCLR, opANDi, Instr, IRopcode, IR11to9, IR8to6, IR5, Bit, Register
  <1>2. IRSEXT5(ir) = 0
    BY <1>1 DEF IRSEXT5, Sext
  <1>3. And(reg[d], 0) = 0
    <2>1. ASSUME NEW w \in Nat \ {0} PROVE AndBit(reg[d], 0, w) = 0
      BY <2>1 DEF AndBit, Bit
    <2> QED BY <2>1 DEF And, AndByte
  <1>4. AND(ir)
    BY <1>1, Executed
  <1> QED BY <1>1, <1>2, <1>3, <1>4 DEF AND, Operand1, Operand2

\* LDR.
LEMMA DoesLDR ==
    ASSUME NEW d \in Register, NEW b \in Register, NEW k \in Offset6, reg[b] \in Word,
           Here(opLDR(d, b, k)), Instruction
    PROVE  \E v \in ReadSet((reg[b] + k) % 65536) : WriteResult(d, v)
  <1> DEFINE ir == opLDR(d, b, k)
  <1>1. /\ IRopcode(ir) = 6 /\ IR11to9(ir) = d /\ IR8to6(ir) = b
        /\ ir % 64 = k % 64
    BY DEF opLDR, Instr, IRopcode, IR11to9, IR8to6, Register, Offset6
  <1>2. LDR(ir)
    BY <1>1, Executed
  <1>3. IRSEXT6(ir) = k % 65536
    BY <1>1 DEF IRSEXT6, Sext, Offset6
  <1>4. EffectiveAddress(ir) = (reg[b] + k) % 65536
    BY <1>1, <1>3 DEF EffectiveAddress, Plus, Word, Offset6
  <1> QED BY <1>1, <1>2, <1>4 DEF LDR

\* Storing register s at an address.
StoresAt(addr, s) ==
    /\ mem' = [mem EXCEPT ![Cell(addr)] = reg[s]]
    /\ hex' = IF addr = IOAddress THEN reg[s] ELSE hex
    /\ Advance
    /\ UNCHANGED <<mode, reg, cc, led>>

\* STR.
LEMMA DoesSTR ==
    ASSUME NEW s \in Register, NEW b \in Register, NEW k \in Offset6, reg[b] \in Word,
           Here(opSTR(s, b, k)), Instruction
    PROVE  StoresAt((reg[b] + k) % 65536, s)
  <1> DEFINE ir == opSTR(s, b, k)
  <1>1. /\ IRopcode(ir) = 7 /\ IR11to9(ir) = s /\ IR8to6(ir) = b
        /\ ir % 64 = k % 64
    BY DEF opSTR, Instr, IRopcode, IR11to9, IR8to6, Register, Offset6
  <1>2. STR(ir)
    BY <1>1, Executed
  <1>3. IRSEXT6(ir) = k % 65536
    BY <1>1 DEF IRSEXT6, Sext, Offset6
  <1>4. EffectiveAddress(ir) = (reg[b] + k) % 65536
    BY <1>1, <1>3 DEF EffectiveAddress, Plus, Word, Offset6
  <1> QED BY <1>1, <1>2, <1>4 DEF STR, Stored, StoresAt

\* The condition codes a branch tests.
Condition(c) == BranchMask(c * 512)

\* The sets the names of SLC3_2 stand for.
LEMMA ConditionSets ==
    /\ Condition(n) = {"n"} /\ Condition(z) = {"z"} /\ Condition(p) = {"p"}
    /\ Condition(nz) = {"n", "z"} /\ Condition(np) = {"n", "p"}
    /\ Condition(nzp) = {"n", "z", "p"}
  BY DEF Condition, BranchMask, Bit, n, z, p, nz, np, nzp

\* BR.
LEMMA DoesBR ==
    ASSUME NEW c \in Conditions, NEW k \in Offset9, Here(opBR(c, k)), Instruction
    PROVE  /\ pc' = IF Condition(c) \cap cc # {} THEN (pc + 1 + k) % 65536 ELSE pc + 1
           /\ \E v \in FloatingWords : cc' = CCOf(v)
           /\ UNCHANGED <<mode, reg, mem, hex, led>>
  <1> DEFINE ir == opBR(c, k)
  <1>1. IRopcode(ir) = 0
    BY DEF opBR, Instr, IRopcode, Conditions, Offset9
  <1>2. BranchMask(ir) = Condition(c)
    <2>1. Bit(ir, 2048) = Bit(c * 512, 2048)
      BY DEF opBR, Instr, Bit, Conditions, Offset9
    <2>2. Bit(ir, 1024) = Bit(c * 512, 1024)
      BY DEF opBR, Instr, Bit, Conditions, Offset9
    <2>3. Bit(ir, 512) = Bit(c * 512, 512)
      BY DEF opBR, Instr, Bit, Conditions, Offset9
    <2> QED BY <2>1, <2>2, <2>3 DEF BranchMask, Condition
  <1>3. ir % 512 = k % 512
    BY DEF opBR, Instr, Conditions, Offset9
  <1>4. IRSEXT9(ir) = k % 65536
    BY <1>3 DEF IRSEXT9, Sext, Offset9
  <1>5. Plus(pc, 1) = pc + 1 /\ Plus(Plus(pc, 1), k % 65536) = (pc + 1 + k) % 65536
    BY DEF Plus, Here, Offset9
  <1>6. BR(ir)
    BY <1>1, Executed
  <1> QED BY <1>2, <1>4, <1>5, <1>6 DEF BR

\* JSR and JMP.
LEMMA DoesJSR ==
    ASSUME NEW k \in Offset11, Here(opJSR(k)), Instruction
    PROVE  /\ reg' = [reg EXCEPT ![7] = pc + 1]
           /\ pc' = (pc + 1 + k) % 65536
           /\ UNCHANGED <<mode, cc, mem, hex, led>>
  <1> DEFINE ir == opJSR(k)
  <1>1. IRopcode(ir) = 4 /\ ir % 2048 = k % 2048
    BY DEF opJSR, Instr, IRopcode, Offset11
  <1>2. IRSEXT11(ir) = k % 65536
    BY <1>1 DEF IRSEXT11, Sext, Offset11
  <1>3. Plus(pc, 1) = pc + 1 /\ Plus(Plus(pc, 1), k % 65536) = (pc + 1 + k) % 65536
    BY DEF Plus, Here, Offset11
  <1>4. JSR(ir)
    BY <1>1, Executed
  <1>5. Plus(Plus(pc, 1), IRSEXT11(ir)) = (pc + 1 + k) % 65536
    BY <1>2, <1>3
  <1>6. reg' = [reg EXCEPT ![7] = Plus(pc, 1)]
    BY <1>4 DEF JSR
  <1>7. pc' = (pc + 1 + k) % 65536
    BY <1>4, <1>5 DEF JSR
  <1>8. UNCHANGED <<mode, cc, mem, hex, led>>
    BY <1>4 DEF JSR
  <1>9. reg' = [reg EXCEPT ![7] = pc + 1]
    <2>1. pc \in 0 .. 174
      BY DEF Here
    <2>2. Plus(pc, 1) = pc + 1
      BY <2>1 DEF Plus
    <2> QED BY <1>6, <2>1, <2>2
  <1> QED BY <1>7, <1>8, <1>9

\* JMP.
LEMMA DoesJMP ==
    ASSUME NEW b \in Register, Here(opJMP(b)), Instruction
    PROVE  pc' = reg[b] /\ UNCHANGED <<mode, reg, cc, mem, hex, led>>
  <1> DEFINE ir == opJMP(b)
  <1>1. IRopcode(ir) = 12 /\ IR8to6(ir) = b
    BY DEF opJMP, Instr, IRopcode, IR8to6, Register
  <1>2. JMP(ir)
    BY <1>1, Executed
  <1> QED BY <1>1, <1>2 DEF JMP

\* PSE.
LEMMA DoesPSE ==
    ASSUME NEW l \in LedVector, Here(opPSE(l)), Instruction
    PROVE  mode' = "paused" /\ pc' = pc + 1 /\ UNCHANGED <<reg, cc, mem, hex>>
  <1> DEFINE ir == opPSE(l)
  <1>1. IRopcode(ir) = 13
    BY DEF opPSE, Instr, IRopcode, LedVector
  <1>2. PSE(ir)
    BY <1>1, Executed
  <1>3. Plus(pc, 1) = pc + 1
    BY DEF Plus, Here
  <1> QED BY <1>2, <1>3 DEF PSE, Advance

-----------------------------------------------------------------------------
(* The image. *)

\* The image has 175 words.
LEMMA ImageLength == Len(Programs) = 175
  BY DEF Programs, Boot, IOTest1, IOTest2, IOTest3, XorTest, RunOnceTest, Multiplier,
         SortData, SortMenu, SortEntry, SortFunction, SortDisplay, AutoCounter

\* Every word of the image is a word.
LEMMA WordsOfPrograms == \A a \in Nat : ProgramWord(a) \in Word
  <1>1. Len(Programs) = 175
    BY ImageLength
  <1>2. Programs \in Seq(Word)
    <2> USE DEF Word, Instr, opADD, opADDi, opINC, opDEC, opAND, opANDi, opCLR, opNOT, opBR,
            opJMP, opRET, opJSR, opLDR, opSTR, opPSE, NO_OP, outHEX, inSW,
            p, z, zp, n, np, nz, nzp
    <2>1. Boot \in Seq(Word)
      BY DEF Boot
    <2>2. IOTest1 \in Seq(Word)
      BY DEF IOTest1
    <2>3. IOTest2 \in Seq(Word)
      BY DEF IOTest2
    <2>4. IOTest3 \in Seq(Word)
      BY DEF IOTest3
    <2>5. XorTest \in Seq(Word)
      BY DEF XorTest
    <2>6. RunOnceTest \in Seq(Word)
      BY DEF RunOnceTest
    <2>7. Multiplier \in Seq(Word)
      BY DEF Multiplier
    <2>8. SortData \in Seq(Word)
      BY DEF SortData
    <2>9. SortMenu \in Seq(Word)
      BY DEF SortMenu
    <2>10. SortEntry \in Seq(Word)
      BY DEF SortEntry
    <2>11. SortFunction \in Seq(Word)
      BY DEF SortFunction
    <2>12. SortDisplay \in Seq(Word)
      BY DEF SortDisplay
    <2>13. AutoCounter \in Seq(Word)
      BY DEF AutoCounter
    <2> HIDE DEF Word
    <2> QED BY <2>1, <2>2, <2>3, <2>4, <2>5, <2>6, <2>7, <2>8, <2>9,
               <2>10, <2>11, <2>12, <2>13 DEF Programs
  <1>3. \A i \in 1 .. Len(Programs) : Programs[i] \in Word
    BY <1>2, ElementOfSeq
  <1>4. 0 \in Word
    BY DEF Word
  <1> QED BY <1>1, <1>3, <1>4 DEF ProgramWord

-----------------------------------------------------------------------------
(* What an instruction of a running program does, seen from the program. *)

Machine ==
    /\ mode \in {"running", "paused"}
    /\ reg \in [Register -> Word]
    /\ cc \in {{"n"}, {"z"}, {"p"}}
    /\ mem \in [0 .. RamWords - 1 -> Word]

\* The words of the image at the addresses A are in the RAM.
Holds(A) == \A a \in A : mem[a] = ProgramWord(a)

\* Register d becomes v.
Puts(d, v) ==
    /\ reg'[d] = v /\ \A r \in Register \ {d} : reg'[r] = reg[r]
    /\ cc' = CCOf(v) /\ pc' = pc + 1
    /\ Machine'
    /\ UNCHANGED <<mode, mem, hex>>

Reads(d) == \E v \in SwitchValues : Puts(d, v)

Pauses == /\ mode' = "paused" /\ pc' = pc + 1
          /\ Machine'
          /\ UNCHANGED <<reg, cc, mem, hex>>

\* The displays show register s.
Shows(s) == /\ hex' = reg[s] /\ pc' = pc + 1
            /\ \A a \in 0 .. 174 : mem'[a] = mem[a]
            /\ Machine'
            /\ UNCHANGED <<mode, reg, cc>>

GoesTo(a) == /\ pc' = a
             /\ Machine'
             /\ UNCHANGED <<mode, reg, mem, hex>>

\* What follows an instruction at most 174 words into the image.
LEMMA NextWord == ASSUME pc \in 0 .. 174, Advance PROVE pc' = pc + 1
  BY DEF Advance, Plus

\* One condition code is on at a time.
LEMMA CCOfOne == ASSUME NEW v PROVE CCOf(v) \in {{"n"}, {"z"}, {"p"}}
  BY DEF CCOf

\* Writing a register.
LEMMA PutsWord ==
    ASSUME Machine, pc \in 0 .. 174, NEW d \in Register, NEW v \in Word, WriteResult(d, v)
    PROVE  Puts(d, v)
  <1>1. pc' = pc + 1
    BY NextWord DEF WriteResult
  <1>2. reg' \in [Register -> Word] /\ reg'[d] = v
        /\ \A r \in Register \ {d} : reg'[r] = reg[r]
    BY DEF Machine, WriteResult
  <1>3. cc' \in {{"n"}, {"z"}, {"p"}}
    BY CCOfOne DEF WriteResult
  <1> QED BY <1>1, <1>2, <1>3 DEF Machine, WriteResult, Puts

\* The instructions that compute.
LEMMA Clears ==
    ASSUME Machine, NEW d \in Register, Here(opCLR(d)), Instruction
    PROVE  Puts(d, 0)
  <1>1. WriteResult(d, 0) /\ pc \in 0 .. 174
    BY DoesCLR DEF Here
  <1> QED BY <1>1, PutsWord DEF Word

\* NOT.
LEMMA Complements ==
    ASSUME Machine, NEW d \in Register, NEW s \in Register, Here(opNOT(d, s)), Instruction
    PROVE  Puts(d, Complement(reg[s]))
  <1>1. WriteResult(d, Complement(reg[s])) /\ pc \in 0 .. 174
    BY DoesNOT DEF Here
  <1>2. Complement(reg[s]) \in Word
    BY ComplementType DEF Machine
  <1> QED BY <1>1, <1>2, PutsWord

\* AND.
LEMMA Conjoins ==
    ASSUME Machine, NEW d \in Register, NEW s \in Register, NEW t \in Register,
           Here(opAND(d, s, t)), Instruction
    PROVE  Puts(d, And(reg[s], reg[t]))
  <1>1. WriteResult(d, And(reg[s], reg[t])) /\ pc \in 0 .. 174
    BY DoesAND DEF Here
  <1>2. And(reg[s], reg[t]) \in Word
    BY AndIsBitwise
  <1> QED BY <1>1, <1>2, PutsWord

\* ADD.
LEMMA Adds ==
    ASSUME Machine, NEW d \in Register, NEW s \in Register, NEW t \in Register,
           Here(opADD(d, s, t)), Instruction
    PROVE  Puts(d, Plus(reg[s], reg[t]))
  <1>1. WriteResult(d, Plus(reg[s], reg[t])) /\ pc \in 0 .. 174
    BY DoesADD DEF Here
  <1>2. Plus(reg[s], reg[t]) \in Word
    BY PlusType DEF Machine, Word
  <1> QED BY <1>1, <1>2, PutsWord

\* Adding a number.
LEMMA AddsNumber ==
    ASSUME Machine, NEW d \in Register, NEW s \in Register, NEW k \in Imm5,
           Here(opADDi(d, s, k)), Instruction
    PROVE  Puts(d, (reg[s] + k) % 65536)
  <1>1. reg[s] \in Word
    BY DEF Machine
  <1>2. WriteResult(d, (reg[s] + k) % 65536) /\ pc \in 0 .. 174
    BY <1>1, DoesADDi DEF Here
  <1>3. (reg[s] + k) % 65536 \in Word
    BY <1>1 DEF Word, Imm5
  <1> QED BY <1>2, <1>3, PutsWord

\* Where the programs find the switches and the displays when R0 = 0.
LEMMA IOOffsets ==
    /\ inSW \in Offset6 /\ (0 + inSW) % 65536 = IOAddress
    /\ outHEX \in Offset6 /\ (0 + outHEX) % 65536 = IOAddress
    /\ 0 \in Word /\ 0 \in Register
  <1>1. ASSUME NEW k \in Int, k + 1 = 0 PROVE (0 + k) % 65536 = 65535
    BY <1>1
  <1>2. inSW \in Int /\ inSW + 1 = 0 /\ inSW \in Offset6
    BY DEF inSW, Offset6
  <1>3. outHEX \in Int /\ outHEX + 1 = 0 /\ outHEX \in Offset6
    BY DEF outHEX, Offset6
  <1>4. (0 + inSW) % 65536 = IOAddress
    BY <1>1, <1>2 DEF IOAddress
  <1>5. (0 + outHEX) % 65536 = IOAddress
    BY <1>1, <1>3 DEF IOAddress
  <1> QED BY <1>2, <1>3, <1>4, <1>5 DEF Word, Register

\* Reading the switches, with R0 = 0.
LEMMA ReadsSwitches ==
    ASSUME Machine, NEW d \in Register, reg[0] = 0, Here(opLDR(d, 0, inSW)), Instruction
    PROVE  Reads(d)
  <1>1. pc \in 0 .. 174
    BY DEF Here
  <1>2. PICK v \in ReadSet((reg[0] + inSW) % 65536) : WriteResult(d, v)
    BY DoesLDR, IOOffsets
  <1>3. (reg[0] + inSW) % 65536 = IOAddress
    BY IOOffsets
  <1>4. v \in SwitchValues
    BY <1>2, <1>3 DEF ReadSet
  <1>5. v \in Word
    <2>1. v \in SwitchWord
      BY <1>4, SwitchesAssumption
    <2> QED BY <2>1 DEF SwitchWord, Word
  <1> QED BY <1>1, <1>2, <1>4, <1>5, PutsWord DEF Reads

\* Writing to the displays, with R0 = 0: the RAM word that is overwritten is
\* beyond the image.
LEMMA ShowsRegister ==
    ASSUME Machine, NEW s \in Register, reg[0] = 0, Here(opSTR(s, 0, outHEX)), Instruction
    PROVE  Shows(s)
  <1>1. pc \in 0 .. 174
    BY DEF Here
  <1>2. StoresAt((0 + outHEX) % 65536, s)
    BY IOOffsets, DoesSTR
  <1>3. StoresAt(IOAddress, s)
    BY <1>2, IOOffsets
  <1>4. /\ mem' = [mem EXCEPT ![Cell(IOAddress)] = reg[s]]
        /\ hex' = reg[s]
        /\ Advance
        /\ UNCHANGED <<mode, reg, cc, led>>
    BY <1>3 DEF StoresAt
  <1>5. mem' \in [0 .. RamWords - 1 -> Word] /\ \A a \in 0 .. 174 : mem'[a] = mem[a]
    <2>1. \A a \in 0 .. 174 : a # Cell(IOAddress) /\ a \in 0 .. RamWords - 1
      BY Cells
    <2>2. reg[s] \in Word
      BY DEF Machine
    <2> QED BY <1>4, <2>1, <2>2 DEF Machine
  <1>6. pc' = pc + 1
    BY <1>1, <1>4, NextWord
  <1> QED BY <1>4, <1>5, <1>6 DEF Machine, Shows

\* A pause.
LEMMA PausesAt ==
    ASSUME Machine, NEW l \in LedVector, Here(opPSE(l)), Instruction
    PROVE  Pauses
  BY DoesPSE DEF Machine, Pauses

\* A branch, taken or not.
LEMMA BranchesTo ==
    ASSUME Machine, NEW c \in Conditions, NEW k \in Offset9, Here(opBR(c, k)), Instruction
    PROVE  IF Condition(c) \cap cc # {} THEN GoesTo((pc + 1 + k) % 65536) ELSE GoesTo(pc + 1)
  <1>1. cc' \in {{"n"}, {"z"}, {"p"}}
    BY DoesBR, CCOfOne
  <1>2. UNCHANGED <<mode, reg, mem, hex>>
    BY DoesBR
  <1>3. pc' = IF Condition(c) \cap cc # {} THEN (pc + 1 + k) % 65536 ELSE pc + 1
    BY DoesBR
  <1> QED BY <1>1, <1>2, <1>3 DEF Machine, GoesTo

\* Reading a word of the image.
LEMMA Loads ==
    ASSUME Machine, NEW d \in Register, NEW b \in Register, NEW k \in Offset6,
           NEW a \in 0 .. 174, (reg[b] + k) % 65536 = a,
           Here(opLDR(d, b, k)), Instruction
    PROVE  Puts(d, mem[a])
  <1>1. pc \in 0 .. 174 /\ reg[b] \in Word
    BY DEF Here, Machine
  <1>2. PICK v \in ReadSet(a) : WriteResult(d, v)
    BY <1>1, DoesLDR
  <1>3. Cell(a) = a /\ a \in 0 .. RamWords - 1 /\ a # IOAddress
    BY Cells
  <1>4. v = mem[a]
    BY <1>2, <1>3 DEF ReadSet
  <1>5. mem[a] \in Word
    BY <1>3 DEF Machine
  <1> QED BY <1>1, <1>2, <1>4, <1>5, PutsWord

\* Storing into a word of the image.
Stores(a, s) == /\ mem' = [mem EXCEPT ![a] = reg[s]] /\ pc' = pc + 1
                /\ Machine'
                /\ UNCHANGED <<mode, reg, cc, hex>>

\* The store.
LEMMA StoresWord ==
    ASSUME Machine, NEW s \in Register, NEW b \in Register, NEW k \in Offset6,
           NEW a \in 0 .. 174, (reg[b] + k) % 65536 = a,
           Here(opSTR(s, b, k)), Instruction
    PROVE  Stores(a, s)
  <1>1. pc \in 0 .. 174 /\ reg[b] \in Word /\ reg[s] \in Word
    BY DEF Here, Machine
  <1>2. StoresAt(a, s)
    BY <1>1, DoesSTR
  <1>3. Cell(a) = a /\ a \in 0 .. RamWords - 1 /\ a # IOAddress
    BY Cells
  <1>4. mem' = [mem EXCEPT ![a] = reg[s]] /\ UNCHANGED <<mode, reg, cc, hex>>
    BY <1>2, <1>3 DEF StoresAt
  <1>5. mem' \in [0 .. RamWords - 1 -> Word]
    BY <1>1, <1>3, <1>4 DEF Machine
  <1>6. pc' = pc + 1
    BY <1>1, <1>2, NextWord DEF StoresAt
  <1> QED BY <1>4, <1>5, <1>6 DEF Machine, Stores

\* A call; one of the next word is how the programs learn where they are.
Calls(a) == /\ reg'[7] = pc + 1 /\ \A r \in Register \ {7} : reg'[r] = reg[r]
            /\ pc' = a
            /\ Machine'
            /\ UNCHANGED <<mode, cc, mem, hex>>

\* The call.
LEMMA CallsWord ==
    ASSUME Machine, NEW k \in Offset11, Here(opJSR(k)), Instruction
    PROVE  Calls((pc + 1 + k) % 65536)
  <1>1. pc \in 0 .. 174
    BY DEF Here
  <1>2. reg' = [reg EXCEPT ![7] = pc + 1]
    BY DoesJSR
  <1>3. pc' = (pc + 1 + k) % 65536
    BY DoesJSR
  <1>4. UNCHANGED <<mode, cc, mem, hex>>
    BY DoesJSR
  <1>5. pc + 1 \in Word
    BY <1>1 DEF Word
  <1>6. reg' \in [Register -> Word] /\ reg'[7] = pc + 1
        /\ \A r \in Register \ {7} : reg'[r] = reg[r]
    BY <1>2, <1>5 DEF Machine, Register
  <1> QED BY <1>3, <1>4, <1>6 DEF Machine, Calls

\* A return.
LEMMA Returns ==
    ASSUME Machine, Here(opRET), Instruction
    PROVE  GoesTo(reg[7])
  <1>1. 7 \in Register
    BY DEF Register
  <1> QED BY <1>1, DoesJMP DEF opRET, Machine, GoesTo

\* After the boot code the image is in the RAM.
LEMMA Booted ==
    ASSUME AfterBoot
    PROVE  Machine /\ Holds(0 .. 174) /\ mode = "running" /\ pc \in Starts
  <1>0. RamWords \in Nat
    BY RoomAssumption
  <1>1. LoaderLast \in 174 .. RamWords - 1 /\ RamWords \in Nat
    BY <1>0, ImageAssumption
  <1>2. \A a \in 0 .. LoaderLast : Image[a] = ProgramWord(a) /\ ProgramWord(a) \in Word
    BY <1>1, ImageAssumption, WordsOfPrograms
  <1>3. 0 \in Word /\ 20 \in Word /\ 49 \in Word /\ 90 \in Word
    BY DEF Word
  <1>4. mem \in [0 .. RamWords - 1 -> Word] /\ Holds(0 .. 174)
    BY <1>1, <1>2, <1>3 DEF AfterBoot, Loaded, Holds
  <1>5. reg \in [Register -> Word]
    BY <1>3, StartsAssumption DEF AfterBoot, Register
  <1> QED BY <1>4, <1>5 DEF AfterBoot, Machine

-----------------------------------------------------------------------------
(* The exclusive or (20..35). *)

\* What its instructions are.
LEMMA XorWords ==
    /\ ProgramWord(20) = opCLR(0)           /\ ProgramWord(21) = opPSE(2049)
    /\ ProgramWord(22) = opLDR(1, 0, inSW)  /\ ProgramWord(23) = opPSE(2050)
    /\ ProgramWord(24) = opLDR(2, 0, inSW)  /\ ProgramWord(25) = opNOT(3, 1)
    /\ ProgramWord(26) = opAND(3, 3, 2)     /\ ProgramWord(27) = opNOT(3, 3)
    /\ ProgramWord(28) = opNOT(4, 2)        /\ ProgramWord(29) = opAND(4, 4, 1)
    /\ ProgramWord(30) = opNOT(4, 4)        /\ ProgramWord(31) = opAND(3, 3, 4)
    /\ ProgramWord(32) = opNOT(3, 3)        /\ ProgramWord(33) = opSTR(3, 0, outHEX)
    /\ ProgramWord(34) = opPSE(1029)        /\ ProgramWord(35) = opBR(nzp, -15)
  BY DEF ProgramWord, Programs, Boot, IOTest1, IOTest2, IOTest3, XorTest, RunOnceTest,
         Multiplier, SortData, SortMenu, SortEntry, SortFunction, SortDisplay, AutoCounter

\* What they do.
XorStep ==
    \/ pc = 20 /\ Puts(0, 0)
    \/ pc = 21 /\ Pauses
    \/ pc = 22 /\ Reads(1)
    \/ pc = 23 /\ Pauses
    \/ pc = 24 /\ Reads(2)
    \/ pc = 25 /\ Puts(3, Complement(reg[1]))
    \/ pc = 26 /\ Puts(3, And(reg[3], reg[2]))
    \/ pc = 27 /\ Puts(3, Complement(reg[3]))
    \/ pc = 28 /\ Puts(4, Complement(reg[2]))
    \/ pc = 29 /\ Puts(4, And(reg[4], reg[1]))
    \/ pc = 30 /\ Puts(4, Complement(reg[4]))
    \/ pc = 31 /\ Puts(3, And(reg[3], reg[4]))
    \/ pc = 32 /\ Puts(3, Complement(reg[3]))
    \/ pc = 33 /\ Shows(3)
    \/ pc = 34 /\ Pauses
    \/ pc = 35 /\ GoesTo(21)

\* The first and the second input without the other, negated.
NotSecondOnly == Complement(And(Complement(reg[1]), reg[2]))
NotFirstOnly == Complement(And(Complement(reg[2]), reg[1]))

\* What is computed where.
XorRegisters ==
    /\ pc > 20 => reg[0] = 0
    /\ pc = 26 => reg[3] = Complement(reg[1])
    /\ pc = 27 => reg[3] = And(Complement(reg[1]), reg[2])
    /\ pc \in 28 .. 31 => reg[3] = NotSecondOnly
    /\ pc = 29 => reg[4] = Complement(reg[2])
    /\ pc = 30 => reg[4] = And(Complement(reg[2]), reg[1])
    /\ pc = 31 => reg[4] = NotFirstOnly
    /\ pc = 32 => reg[3] = And(NotSecondOnly, NotFirstOnly)
    /\ pc = 33 => reg[3] = Complement(And(NotSecondOnly, NotFirstOnly))
    /\ pc \in 34 .. 35 => hex = Complement(And(NotSecondOnly, NotFirstOnly))

XorInv ==
    /\ Machine
    /\ pc \in 20 .. 35
    /\ Holds(20 .. 35)
    /\ XorRegisters

\* Under the invariant the machine executes the program.
LEMMA XorExecutes ==
    ASSUME XorInv, mode = "running", Instruction
    PROVE  XorStep
  <1>1. pc \in 20 .. 35 /\ Here(ProgramWord(pc)) /\ Machine
    BY DEF XorInv, Here, Holds
  <1>2. 0 \in Register /\ 1 \in Register /\ 2 \in Register /\ 3 \in Register /\ 4 \in Register
        /\ 2049 \in LedVector /\ 2050 \in LedVector /\ 1029 \in LedVector
    BY DEF Register, LedVector
  <1>3. pc > 20 => reg[0] = 0
    BY DEF XorInv, XorRegisters
  <1>20. CASE pc = 20
    BY <1>1, <1>2, <1>20, XorWords, Clears DEF XorStep
  <1>21. CASE pc = 21
    BY <1>1, <1>2, <1>21, XorWords, PausesAt DEF XorStep
  <1>22. CASE pc = 22
    BY <1>1, <1>2, <1>3, <1>22, XorWords, ReadsSwitches DEF XorStep
  <1>23. CASE pc = 23
    BY <1>1, <1>2, <1>23, XorWords, PausesAt DEF XorStep
  <1>24. CASE pc = 24
    BY <1>1, <1>2, <1>3, <1>24, XorWords, ReadsSwitches DEF XorStep
  <1>25. CASE pc = 25
    BY <1>1, <1>2, <1>25, XorWords, Complements DEF XorStep
  <1>26. CASE pc = 26
    BY <1>1, <1>2, <1>26, XorWords, Conjoins DEF XorStep
  <1>27. CASE pc = 27
    BY <1>1, <1>2, <1>27, XorWords, Complements DEF XorStep
  <1>28. CASE pc = 28
    BY <1>1, <1>2, <1>28, XorWords, Complements DEF XorStep
  <1>29. CASE pc = 29
    BY <1>1, <1>2, <1>29, XorWords, Conjoins DEF XorStep
  <1>30. CASE pc = 30
    BY <1>1, <1>2, <1>30, XorWords, Complements DEF XorStep
  <1>31. CASE pc = 31
    BY <1>1, <1>2, <1>31, XorWords, Conjoins DEF XorStep
  <1>32. CASE pc = 32
    BY <1>1, <1>2, <1>32, XorWords, Complements DEF XorStep
  <1>33. CASE pc = 33
    BY <1>1, <1>2, <1>3, <1>33, XorWords, ShowsRegister DEF XorStep
  <1>34. CASE pc = 34
    BY <1>1, <1>2, <1>34, XorWords, PausesAt DEF XorStep
  <1>35. CASE pc = 35
    <2>1. nzp \in Conditions /\ -15 \in Offset9
      BY DEF nzp, Conditions, Offset9
    <2>2. Condition(nzp) \cap cc # {}
      BY <1>1, ConditionSets DEF Machine
    <2>3. GoesTo((pc + 1 + (-15)) % 65536)
      BY <1>1, <1>35, <2>1, <2>2, XorWords, BranchesTo
    <2>4. (pc + 1 + (-15)) % 65536 = 21
      BY <1>35
    <2> QED BY <1>35, <2>3, <2>4 DEF XorStep
  <1> QED BY <1>1, <1>20, <1>21, <1>22, <1>23, <1>24, <1>25, <1>26, <1>27, <1>28,
             <1>29, <1>30, <1>31, <1>32, <1>33, <1>34, <1>35

\* Every instruction keeps the invariant.
LEMMA XorInstruction ==
    ASSUME XorInv, XorStep
    PROVE  XorInv'
  <1> USE DEF Puts, Reads, Pauses, Shows, GoesTo
  <1>1. Machine'
    BY DEF XorStep
  <1>2. pc' \in 20 .. 35
    BY DEF XorStep
  <1>3. Holds(20 .. 35)'
    BY DEF XorStep, XorInv, Holds
  <1>4. XorRegisters'
    <2> USE DEF XorInv, XorRegisters, NotSecondOnly, NotFirstOnly, Register
    <2>1. CASE pc \in 20 .. 24
      BY <2>1 DEF XorStep
    <2>2. CASE pc \in 25 .. 28
      BY <2>2 DEF XorStep
    <2>3. CASE pc \in 29 .. 32
      BY <2>3 DEF XorStep
    <2>4. CASE pc \in 33 .. 35
      BY <2>4 DEF XorStep
    <2> QED BY <2>1, <2>2, <2>3, <2>4
  <1> QED BY <1>1, <1>2, <1>3, <1>4 DEF XorInv

\* So does Continue, and a step that changes nothing.
LEMMA XorContinue ==
    ASSUME XorInv, Continue \/ UNCHANGED isaVars
    PROVE  XorInv'
  <1>1. UNCHANGED <<pc, reg, cc, mem, hex>> /\ (mode' = mode \/ mode' = "running")
    BY DEF Continue, isaVars
  <1> QED BY <1>1 DEF XorInv, Machine, Holds, XorRegisters, NotSecondOnly, NotFirstOnly

\* What the last instruction shows is the exclusive or of the inputs.
LEMMA NandsMakeXor ==
    ASSUME NEW a \in Word, NEW b \in Word, NEW w \in BitWeights,
           NEW x, x = Complement(And(Complement(And(Complement(a), b)),
                                     Complement(And(Complement(b), a))))
    PROVE  Bit(x, w) = 1 <=> Bit(a, w) # Bit(b, w)
  <1> DEFINE first == And(Complement(a), b)
             second == And(Complement(b), a)
  <1>1. Complement(a) \in Word /\ Complement(b) \in Word
    BY ComplementType
  <1>2. first \in Word /\ second \in Word
    BY AndIsBitwise
  <1>3. /\ Bit(first, w) = 1 <=> Bit(Complement(a), w) = 1 /\ Bit(b, w) = 1
        /\ Bit(second, w) = 1 <=> Bit(Complement(b), w) = 1 /\ Bit(a, w) = 1
    BY AndIsBitwise
  <1>4. /\ Bit(Complement(a), w) = 1 <=> Bit(a, w) # 1
        /\ Bit(Complement(b), w) = 1 <=> Bit(b, w) # 1
    BY ComplementIsBitwise
  <1>5. Bit(a, w) \in 0 .. 1 /\ Bit(b, w) \in 0 .. 1
    BY BitType
  <1> HIDE DEF first, second
  <1> DEFINE both == And(Complement(first), Complement(second))
  <1>6. /\ both \in Word
        /\ Bit(both, w) = 1 <=> Bit(Complement(first), w) = 1 /\ Bit(Complement(second), w) = 1
    BY AndIsBitwise
  <1>7. /\ Bit(Complement(first), w) = 1 <=> Bit(first, w) # 1
        /\ Bit(Complement(second), w) = 1 <=> Bit(second, w) # 1
    BY <1>2, ComplementIsBitwise
  <1>8. Bit(Complement(both), w) = 1 <=> Bit(both, w) # 1
    BY <1>6, ComplementIsBitwise
  <1>9. x = Complement(both)
    BY DEF first, second
  <1> QED BY <1>3, <1>4, <1>5, <1>6, <1>7, <1>8, <1>9

\* At the checkpoint the result is on the displays.
LEMMA XorInvShows == XorInv => XorShown
  <1> SUFFICES ASSUME XorInv, PausedAfter(34), NEW w \in BitWeights
               PROVE  Bit(hex, w) = 1 <=> Bit(reg[1], w) # Bit(reg[2], w)
    BY DEF XorShown
  <1>1. hex = Complement(And(NotSecondOnly, NotFirstOnly))
    BY DEF XorInv, XorRegisters, PausedAfter
  <1>2. reg[1] \in Word /\ reg[2] \in Word
    BY DEF XorInv, Machine, Register
  <1> QED BY <1>1, <1>2, NandsMakeXor DEF NotSecondOnly, NotFirstOnly

-----------------------------------------------------------------------------
(* The multiplier (49..72). *)

Weight == <<1, 2, 4, 8, 16, 32, 64, 128, 256>>

Steps == 0 .. 7

\* The value of the last k bits that have moved into the high byte of word a, as a
\* signed number of k bits.
Signed(v, k) == IF k = 0 THEN 0 ELSE IF v < Weight[k] THEN v ELSE v - Weight[k + 1]
Top(a, k) == Signed((a \div 256) % Weight[k + 1], k)

\* What it becomes when the next bit moves in: the first one is the sign.
NextTop(a, k) == IF k = 0 THEN -Bit(a, 128) ELSE 2 * Top(a, k) + Bit(a, 128)

\* Shifting the word left by one moves the next bit in.
LEMMA TopMoves ==
    ASSUME NEW a \in Word, NEW k \in Steps
    PROVE  Top((2 * a) % 65536, k + 1) = NextTop(a, k)
  <1> DEFINE h == a \div 256
             bit == Bit(a, 128)
             m == ((2 * a) % 65536) \div 256
  <1>1. bit \in 0 .. 1 /\ h \in 0 .. 255
    BY DEF Bit, Word
  <1>2. m = (2 * h + bit) % 256
    BY DEF Bit, Word
  <1> HIDE DEF h, bit, m
  <1> SUFFICES Signed(m % Weight[k + 2], k + 1)
                 = IF k = 0 THEN -bit ELSE 2 * Signed(h % Weight[k + 1], k) + bit
    BY DEF Top, NextTop, h, bit, m, Steps
  <1>3. CASE k = 0
    BY <1>1, <1>2, <1>3 DEF Signed, Weight
  <1>4. CASE k = 1
    BY <1>1, <1>2, <1>4 DEF Signed, Weight
  <1>5. CASE k = 2
    BY <1>1, <1>2, <1>5 DEF Signed, Weight
  <1>6. CASE k = 3
    BY <1>1, <1>2, <1>6 DEF Signed, Weight
  <1>7. CASE k = 4
    BY <1>1, <1>2, <1>7 DEF Signed, Weight
  <1>8. CASE k = 5
    BY <1>1, <1>2, <1>8 DEF Signed, Weight
  <1>9. CASE k = 6
    BY <1>1, <1>2, <1>9 DEF Signed, Weight
  <1>10. CASE k = 7
    BY <1>1, <1>2, <1>10 DEF Signed, Weight
  <1> QED BY <1>3, <1>4, <1>5, <1>6, <1>7, <1>8, <1>9, <1>10 DEF Steps

\* The mask at 73 singles out the bit of weight 128.
LEMMA And128 ==
    ASSUME NEW a \in Word
    PROVE  And(128, a) = 128 * Bit(a, 128)
  <1>1. ASSUME NEW w \in BitWeights \ {128} PROVE AndBit(128, a, w) = 0
    BY DEF AndBit, Bit, BitWeights
  <1>2. AndBit(128, a, 128) = 128 * Bit(a, 128)
    BY DEF AndBit, Bit, Word
  <1>3. Bit(a, 128) \in 0 .. 1
    BY DEF Bit, Word
  <1>4. AndByte(128, a, 1) = 128 * Bit(a, 128)
    BY <1>1, <1>2, <1>3 DEF AndByte, BitWeights
  <1>5. AndByte(128, a, 256) = 0
    BY <1>1 DEF AndByte, BitWeights
  <1> QED BY <1>3, <1>4, <1>5 DEF And

Times(s, b) == (s * b) % 65536

\* The signed value is an integer.
LEMMA TopType == ASSUME NEW a \in Word, NEW k \in 0 .. 8 PROVE Top(a, k) \in Int
  <1>1. a \div 256 \in Nat
    BY DEF Word
  <1>2. Weight[k + 1] \in Nat \ {0} /\ (k # 0 => Weight[k] \in Nat)
    BY DEF Weight
  <1> QED BY <1>1, <1>2 DEF Top, Signed

\* Nothing times the second operand.
LEMMA TimesZero == ASSUME NEW b \in Word PROVE Times(0, b) = 0
  BY DEF Times, Word

\* Doubling the product doubles the first factor.
LEMMA TimesDoubles ==
    ASSUME NEW s \in Int, NEW b \in Word
    PROVE  Plus(Times(s, b), Times(s, b)) = Times(2 * s, b)
  <1> DEFINE q == s * b
  <1>1. q \in Int /\ (2 * s) * b = 2 * q
    BY DEF Word
  <1> HIDE DEF q
  <1>2. ((q % 65536) + (q % 65536)) % 65536 = (2 * q) % 65536
    BY <1>1
  <1> QED BY <1>1, <1>2 DEF q, Plus, Times

\* Adding the second operand adds one to the first factor.
LEMMA TimesAdds ==
    ASSUME NEW s \in Int, NEW b \in Word
    PROVE  Plus(Times(s, b), b) = Times(s + 1, b)
  <1> DEFINE q == s * b
  <1>1. b \in Int /\ q \in Int /\ (s + 1) * b = q + b
    BY DEF Word
  <1> HIDE DEF q
  <1>2. ((q % 65536) + b) % 65536 = (q + b) % 65536
    BY <1>1
  <1> QED BY <1>1, <1>2 DEF q, Plus, Times

\* Complementing the product and adding one negates the first factor.
LEMMA TimesNegates ==
    ASSUME NEW bit \in 0 .. 1, NEW b \in Word
    PROVE  (Complement(Times(bit, b)) + 1) % 65536 = Times(-bit, b)
  <1>1. CASE bit = 0
    BY <1>1 DEF Complement, Times, Word
  <1>2. CASE bit = 1
    BY <1>2 DEF Complement, Times, Word
  <1> QED BY <1>1, <1>2

\* What its instructions are.
LEMMA MultiplierWords ==
    /\ ProgramWord(49) = opCLR(0)          /\ ProgramWord(50) = opJSR(0)
    /\ ProgramWord(51) = opLDR(3, 7, 22)   /\ ProgramWord(52) = opCLR(4)
    /\ ProgramWord(53) = opCLR(5)          /\ ProgramWord(54) = opPSE(2049)
    /\ ProgramWord(55) = opLDR(1, 0, inSW) /\ ProgramWord(56) = opPSE(2050)
    /\ ProgramWord(57) = opLDR(2, 0, inSW) /\ ProgramWord(58) = opADD(5, 5, 5)
    /\ ProgramWord(59) = opAND(7, 3, 1)    /\ ProgramWord(60) = opBR(z, 1)
    /\ ProgramWord(61) = opADD(5, 5, 2)    /\ ProgramWord(62) = opADDi(4, 4, 0)
    /\ ProgramWord(63) = opBR(p, 2)        /\ ProgramWord(64) = opNOT(5, 5)
    /\ ProgramWord(65) = opINC(5)          /\ ProgramWord(66) = opINC(4)
    /\ ProgramWord(67) = opADD(1, 1, 1)    /\ ProgramWord(68) = opADDi(7, 4, -8)
    /\ ProgramWord(69) = opBR(n, -12)      /\ ProgramWord(70) = opSTR(5, 0, outHEX)
    /\ ProgramWord(71) = opPSE(1027)       /\ ProgramWord(72) = opBR(nzp, -21)
    /\ ProgramWord(73) = 128
  BY DEF ProgramWord, Programs, Boot, IOTest1, IOTest2, IOTest3, XorTest, RunOnceTest,
         Multiplier, SortData, SortMenu, SortEntry, SortFunction, SortDisplay, AutoCounter

\* What they do.
MultiplierStep ==
    \/ pc = 49 /\ Puts(0, 0)
    \/ pc = 50 /\ Calls(51)
    \/ pc = 51 /\ Puts(3, 128)
    \/ pc = 52 /\ Puts(4, 0)
    \/ pc = 53 /\ Puts(5, 0)
    \/ pc = 54 /\ Pauses
    \/ pc = 55 /\ Reads(1)
    \/ pc = 56 /\ Pauses
    \/ pc = 57 /\ Reads(2)
    \/ pc = 58 /\ Puts(5, Plus(reg[5], reg[5]))
    \/ pc = 59 /\ Puts(7, And(reg[3], reg[1]))
    \/ pc = 60 /\ IF "z" \in cc THEN GoesTo(62) ELSE GoesTo(61)
    \/ pc = 61 /\ Puts(5, Plus(reg[5], reg[2]))
    \/ pc = 62 /\ Puts(4, (reg[4] + 0) % 65536)
    \/ pc = 63 /\ IF "p" \in cc THEN GoesTo(66) ELSE GoesTo(64)
    \/ pc = 64 /\ Puts(5, Complement(reg[5]))
    \/ pc = 65 /\ Puts(5, (reg[5] + 1) % 65536)
    \/ pc = 66 /\ Puts(4, (reg[4] + 1) % 65536)
    \/ pc = 67 /\ Puts(1, Plus(reg[1], reg[1]))
    \/ pc = 68 /\ Puts(7, (reg[4] - 8) % 65536)
    \/ pc = 69 /\ IF "n" \in cc THEN GoesTo(58) ELSE GoesTo(70)
    \/ pc = 70 /\ Shows(5)
    \/ pc = 71 /\ Pauses
    \/ pc = 72 /\ GoesTo(52)

Product(s) == Times(s, reg[2])

\* Where the multiplier is: R4 counts the bits done, R5 is the product with
\* them, R1 has them in its high byte.
MultiplierRegisters ==
    /\ pc > 49 => reg[0] = 0
    /\ pc = 51 => reg[7] = 51
    /\ pc >= 52 => reg[3] = 128
    /\ pc \in 53 .. 57 => reg[4] = 0
    /\ pc \in 54 .. 57 => reg[5] = 0
    /\ pc \in 58 .. 66 => reg[4] \in 0 .. 7
    /\ pc \in 67 .. 69 => reg[4] \in 1 .. 8
    /\ pc \in 70 .. 72 => reg[4] = 8
    /\ pc = 58 => reg[5] = Product(Top(reg[1], reg[4]))
    /\ pc \in 59 .. 61 => reg[5] = Product(2 * Top(reg[1], reg[4]))
    /\ pc = 60 => ("z" \in cc <=> Bit(reg[1], 128) = 0)
    /\ pc = 61 => Bit(reg[1], 128) = 1
    /\ pc \in 62 .. 64 => reg[5] = Product(2 * Top(reg[1], reg[4]) + Bit(reg[1], 128))
    /\ pc = 63 => ("p" \in cc <=> reg[4] > 0)
    /\ pc \in 64 .. 65 => reg[4] = 0
    /\ pc = 65 => reg[5] = Complement(Product(Bit(reg[1], 128)))
    /\ pc = 66 => reg[5] = Product(NextTop(reg[1], reg[4]))
    /\ pc = 67 => reg[5] = Product(NextTop(reg[1], reg[4] - 1))
    /\ pc \in 68 .. 70 => reg[5] = Product(Top(reg[1], reg[4]))
    /\ pc = 69 => ("n" \in cc <=> reg[4] < 8)
    /\ pc \in 71 .. 72 => hex = Product(Top(reg[1], 8))

MultiplierInv ==
    /\ Machine
    /\ pc \in 49 .. 72
    /\ Holds(49 .. 73)
    /\ MultiplierRegisters

\* Under the invariant the machine executes the program.
LEMMA MultiplierExecutes ==
    ASSUME MultiplierInv, mode = "running", Instruction
    PROVE  MultiplierStep
  <1>1. pc \in 49 .. 72 /\ Here(ProgramWord(pc)) /\ Machine
    BY DEF MultiplierInv, Here, Holds
  <1>2. /\ 0 \in Register /\ 1 \in Register /\ 2 \in Register /\ 3 \in Register
        /\ 4 \in Register /\ 5 \in Register /\ 7 \in Register
        /\ 2049 \in LedVector /\ 2050 \in LedVector /\ 1027 \in LedVector
    BY DEF Register, LedVector
  <1>3. /\ z \in Conditions /\ p \in Conditions /\ n \in Conditions /\ nzp \in Conditions
        /\ 1 \in Offset9 /\ 2 \in Offset9 /\ -12 \in Offset9 /\ -21 \in Offset9
        /\ 0 \in Imm5 /\ 1 \in Imm5 /\ -8 \in Imm5
    BY DEF z, p, n, nzp, Conditions, Offset9, Imm5
  <1>4. pc > 49 => reg[0] = 0
    BY DEF MultiplierInv, MultiplierRegisters
  <1>49. CASE pc = 49
    BY <1>1, <1>2, <1>49, MultiplierWords, Clears DEF MultiplierStep
  <1>50. CASE pc = 50
    <2>1. 0 \in Offset11 /\ (pc + 1 + 0) % 65536 = 51
      BY <1>50 DEF Offset11
    <2> QED BY <1>1, <1>50, <2>1, MultiplierWords, CallsWord DEF MultiplierStep
  <1>51. CASE pc = 51
    <2>1. (reg[7] + 22) % 65536 = 73 /\ 73 \in 0 .. 174 /\ 22 \in Offset6
      BY <1>51 DEF MultiplierInv, MultiplierRegisters, Offset6
    <2>2. Puts(3, mem[73])
      BY <1>1, <1>2, <1>51, <2>1, MultiplierWords, Loads
    <2>3. mem[73] = 128
      BY MultiplierWords DEF MultiplierInv, Holds
    <2> QED BY <1>51, <2>2, <2>3 DEF MultiplierStep
  <1>52. CASE pc = 52
    BY <1>1, <1>2, <1>52, MultiplierWords, Clears DEF MultiplierStep
  <1>53. CASE pc = 53
    BY <1>1, <1>2, <1>53, MultiplierWords, Clears DEF MultiplierStep
  <1>54. CASE pc = 54
    BY <1>1, <1>2, <1>54, MultiplierWords, PausesAt DEF MultiplierStep
  <1>55. CASE pc = 55
    BY <1>1, <1>2, <1>55, MultiplierWords, <1>4, ReadsSwitches DEF MultiplierStep
  <1>56. CASE pc = 56
    BY <1>1, <1>2, <1>56, MultiplierWords, PausesAt DEF MultiplierStep
  <1>57. CASE pc = 57
    BY <1>1, <1>2, <1>57, MultiplierWords, <1>4, ReadsSwitches DEF MultiplierStep
  <1>58. CASE pc = 58
    BY <1>1, <1>2, <1>58, MultiplierWords, Adds DEF MultiplierStep
  <1>59. CASE pc = 59
    BY <1>1, <1>2, <1>59, MultiplierWords, Conjoins DEF MultiplierStep
  <1>60. CASE pc = 60
    <2>1. IF Condition(z) \cap cc # {} THEN GoesTo((pc + 1 + (1)) % 65536) ELSE GoesTo(pc + 1)
      BY <1>1, <1>3, <1>60, MultiplierWords, BranchesTo
    <2>2. (pc + 1 + (1)) % 65536 = 62 /\ pc + 1 = 61
      BY <1>60
    <2>3. Condition(z) \cap cc # {} <=> "z" \in cc
      BY ConditionSets
    <2> QED BY <1>60, <2>1, <2>2, <2>3 DEF MultiplierStep
  <1>61. CASE pc = 61
    BY <1>1, <1>2, <1>61, MultiplierWords, Adds DEF MultiplierStep
  <1>62. CASE pc = 62
    BY <1>1, <1>2, <1>62, MultiplierWords, <1>3, AddsNumber DEF MultiplierStep
  <1>63. CASE pc = 63
    <2>1. IF Condition(p) \cap cc # {} THEN GoesTo((pc + 1 + (2)) % 65536) ELSE GoesTo(pc + 1)
      BY <1>1, <1>3, <1>63, MultiplierWords, BranchesTo
    <2>2. (pc + 1 + (2)) % 65536 = 66 /\ pc + 1 = 64
      BY <1>63
    <2>3. Condition(p) \cap cc # {} <=> "p" \in cc
      BY ConditionSets
    <2> QED BY <1>63, <2>1, <2>2, <2>3 DEF MultiplierStep
  <1>64. CASE pc = 64
    BY <1>1, <1>2, <1>64, MultiplierWords, Complements DEF MultiplierStep
  <1>65. CASE pc = 65
    BY <1>1, <1>2, <1>65, MultiplierWords, <1>3, AddsNumber DEF MultiplierStep, opINC
  <1>66. CASE pc = 66
    BY <1>1, <1>2, <1>66, MultiplierWords, <1>3, AddsNumber DEF MultiplierStep, opINC
  <1>67. CASE pc = 67
    BY <1>1, <1>2, <1>67, MultiplierWords, Adds DEF MultiplierStep
  <1>68. CASE pc = 68
    <2>1. Puts(7, (reg[4] + (-8)) % 65536)
      BY <1>1, <1>2, <1>3, <1>68, MultiplierWords, AddsNumber
    <2>2. reg[4] + (-8) = reg[4] - 8
      BY <1>1, <1>2 DEF Machine, Word
    <2> QED BY <1>68, <2>1, <2>2 DEF MultiplierStep
  <1>69. CASE pc = 69
    <2>1. IF Condition(n) \cap cc # {} THEN GoesTo((pc + 1 + (-12)) % 65536) ELSE GoesTo(pc + 1)
      BY <1>1, <1>3, <1>69, MultiplierWords, BranchesTo
    <2>2. (pc + 1 + (-12)) % 65536 = 58 /\ pc + 1 = 70
      BY <1>69
    <2>3. Condition(n) \cap cc # {} <=> "n" \in cc
      BY ConditionSets
    <2> QED BY <1>69, <2>1, <2>2, <2>3 DEF MultiplierStep
  <1>70. CASE pc = 70
    BY <1>1, <1>2, <1>70, MultiplierWords, <1>4, ShowsRegister DEF MultiplierStep
  <1>71. CASE pc = 71
    BY <1>1, <1>2, <1>71, MultiplierWords, PausesAt DEF MultiplierStep
  <1>72. CASE pc = 72
    <2>1. Condition(nzp) \cap cc # {}
      BY <1>1, ConditionSets DEF Machine
    <2>2. GoesTo((pc + 1 + (-21)) % 65536)
      BY <1>1, <1>3, <1>72, <2>1, MultiplierWords, BranchesTo
    <2>3. (pc + 1 + (-21)) % 65536 = 52
      BY <1>72
    <2> QED BY <1>72, <2>2, <2>3 DEF MultiplierStep
  <1> QED BY <1>1, <1>49, <1>50, <1>51, <1>52, <1>53, <1>54, <1>55, <1>56, <1>57, <1>58,
             <1>59, <1>60, <1>61, <1>62, <1>63, <1>64, <1>65, <1>66, <1>67, <1>68,
             <1>69, <1>70, <1>71, <1>72

\* Every instruction keeps the invariant.
LEMMA MultiplierInstruction ==
    ASSUME MultiplierInv, MultiplierStep
    PROVE  MultiplierInv'
  <1>1. Machine'
    BY DEF MultiplierStep, Puts, Reads, Pauses, Shows, GoesTo, Calls
  <1>2. pc' \in 49 .. 72
    BY DEF MultiplierStep, Puts, Reads, Pauses, Shows, GoesTo, Calls
  <1>3. Holds(49 .. 73)'
    BY DEF MultiplierStep, MultiplierInv, Holds, Puts, Reads, Pauses, Shows, GoesTo, Calls
  <1>4. MultiplierRegisters'
    <2> USE DEF MultiplierInv, MultiplierRegisters, Register,
                Puts, Reads, Pauses, Shows, GoesTo, Calls
    <2> DEFINE a == reg[1]
               b == reg[2]
               k == reg[4]
               bit == Bit(a, 128)
    <2>1. a \in Word /\ b \in Word /\ bit \in 0 .. 1
      BY BitType DEF Machine, BitWeights
    <2>2. reg[4] \in 0 .. 8 => Top(a, k) \in Int
      BY <2>1, TopType
    <2>49. CASE pc \in 49 .. 56
      BY <2>49 DEF MultiplierStep
    <2>57. CASE pc = 57
      <3>1. reg'[4] = 0 /\ reg'[5] = 0 /\ reg'[2] \in Word
        BY <1>1, <2>57 DEF MultiplierStep, Machine
      <3>2. Times(Top(reg'[1], 0), reg'[2]) = 0
        BY <3>1, TimesZero DEF Top, Signed
      <3> QED BY <2>57, <3>1, <3>2 DEF MultiplierStep, Product
    <2>58. CASE pc = 58
      <3>1. Plus(Times(Top(a, k), b), Times(Top(a, k), b)) = Times(2 * Top(a, k), b)
        BY <2>1, <2>2, <2>58, TimesDoubles
      <3> QED BY <2>58, <3>1 DEF MultiplierStep, Product
    <2>59. CASE pc = 59
      <3>1. And(reg[3], reg[1]) = 128 * bit
        BY <2>1, <2>59, And128
      <3>2. "z" \in CCOf(128 * bit) <=> bit = 0
        BY <2>1 DEF CCOf
      <3> QED BY <2>59, <3>1, <3>2 DEF MultiplierStep, Product
    <2>60. CASE pc = 60
      <3>1. bit = 0 => 2 * Top(a, k) + bit = 2 * Top(a, k)
        BY <2>1, <2>2, <2>60
      <3> QED BY <2>1, <2>60, <3>1 DEF MultiplierStep, Product
    <2>61. CASE pc = 61
      <3>1. Plus(Times(2 * Top(a, k), b), b) = Times(2 * Top(a, k) + 1, b)
        BY <2>1, <2>2, <2>61, TimesAdds
      <3> QED BY <2>61, <3>1 DEF MultiplierStep, Product
    <2>62. CASE pc = 62
      <3>1. (k + 0) % 65536 = k
        BY <2>62
      <3>2. "p" \in CCOf(k) <=> k > 0
        BY <2>62 DEF CCOf
      <3> QED BY <2>62, <3>1, <3>2 DEF MultiplierStep, Product
    <2>63. CASE pc = 63
      BY <2>63 DEF MultiplierStep, Product, NextTop
    <2>64. CASE pc = 64
      <3>1. 2 * Top(a, 0) + bit = bit
        BY <2>1 DEF Top, Signed
      <3> QED BY <2>64, <3>1 DEF MultiplierStep, Product
    <2>65. CASE pc = 65
      <3>1. (Complement(Times(bit, b)) + 1) % 65536 = Times(-bit, b)
        BY <2>1, TimesNegates
      <3> QED BY <2>65, <3>1 DEF MultiplierStep, Product, NextTop
    <2>66. CASE pc = 66
      <3>1. (k + 1) % 65536 = k + 1 /\ k + 1 - 1 = k /\ k + 1 \in 1 .. 8
        BY <2>66
      <3> QED BY <2>66, <3>1 DEF MultiplierStep, Product
    <2>67. CASE pc = 67
      <3>1. Plus(a, a) = (2 * a) % 65536
        BY <2>1 DEF Plus, Word
      <3>2. k - 1 \in Steps /\ k - 1 + 1 = k
        BY <2>67 DEF Steps
      <3>3. Top(Plus(a, a), k) = NextTop(a, k - 1)
        BY <2>1, <3>1, <3>2, TopMoves
      <3> QED BY <2>67, <3>3 DEF MultiplierStep, Product
    <2>68. CASE pc = 68
      <3>1. "n" \in CCOf((k - 8) % 65536) <=> k < 8
        BY <2>68 DEF CCOf
      <3> QED BY <2>68, <3>1 DEF MultiplierStep, Product
    <2>69. CASE pc = 69
      BY <2>69 DEF MultiplierStep, Product
    <2>70. CASE pc \in 70 .. 72
      BY <2>70 DEF MultiplierStep, Product
    <2> QED BY <2>49, <2>57, <2>58, <2>59, <2>60, <2>61, <2>62, <2>63, <2>64, <2>65,
               <2>66, <2>67, <2>68, <2>69, <2>70
  <1> QED BY <1>1, <1>2, <1>3, <1>4 DEF MultiplierInv

\* So does Continue, and a step that changes nothing.
LEMMA MultiplierContinue ==
    ASSUME MultiplierInv, Continue \/ UNCHANGED isaVars
    PROVE  MultiplierInv'
  <1>1. UNCHANGED <<pc, reg, cc, mem, hex>> /\ (mode' = mode \/ mode' = "running")
    BY DEF Continue, isaVars
  <1>2. Machine' /\ Holds(49 .. 73)'
    BY <1>1 DEF MultiplierInv, Machine, Holds
  <1>3. MultiplierRegisters'
    BY <1>1 DEF MultiplierInv, MultiplierRegisters, Product
  <1> QED BY <1>1, <1>2, <1>3 DEF MultiplierInv

\* With eight bits done, the high byte of R1 is the operand.
LEMMA MultiplierInvShows == MultiplierInv => ProductShown
  <1> SUFFICES ASSUME MultiplierInv, PausedAfter(71)
               PROVE  hex = (SignedOperand * reg[2]) % 65536
    BY DEF ProductShown
  <1>1. hex = Times(Top(reg[1], 8), reg[2])
    BY DEF MultiplierInv, MultiplierRegisters, PausedAfter, Product
  <1>2. reg[1] \in Word
    BY DEF MultiplierInv, Machine, Register
  <1>3. (reg[1] \div 256) % 256 = reg[1] \div 256
    BY <1>2 DEF Word
  <1>4. Top(reg[1], 8) = SignedOperand
    BY <1>2, <1>3 DEF Top, Signed, Weight, SignedOperand
  <1> QED BY <1>1, <1>4 DEF Times

-----------------------------------------------------------------------------
(* The sort (90..154): its menu, the entry of numbers, the bubble sort and *)
(* their display.  The numbers are the words Numbers.                      *)

Numbers == 74 .. 89

\* The numbers from address a on are in order, and none before a is larger.
OrderedFrom(a) == \A b, c \in Numbers : b < c /\ a <= c => mem[b] <= mem[c]

\* No number before address a is larger than the last of them.
LastIsLargest(a) == \A b \in Numbers : b < a => mem[b] <= mem[a - 1]

\* What the instructions do.
MenuStep ==
    \/ pc = 90 /\ Puts(0, 0)
    \/ pc = 91 /\ Calls(92)
    \/ pc = 92 /\ Puts(6, 76)
    \/ pc = 93 /\ Puts(6, 74)
    \/ pc = 94 /\ Pauses
    \/ pc = 95 /\ Reads(1)
    \/ pc = 96 /\ IF "z" \in cc THEN GoesTo(94) ELSE GoesTo(97)
    \/ pc \in {97, 101, 105} /\ Puts(1, (reg[1] - 1) % 65536)
    \/ pc = 98 /\ IF "z" \in cc THEN GoesTo(99) ELSE GoesTo(101)
    \/ pc = 99 /\ Calls(109)
    \/ pc = 102 /\ IF "z" \in cc THEN GoesTo(103) ELSE GoesTo(105)
    \/ pc = 103 /\ Calls(119)
    \/ pc = 106 /\ IF "z" \in cc THEN GoesTo(107) ELSE GoesTo(94)
    \/ pc = 107 /\ Calls(137)
    \/ pc \in {100, 104, 108} /\ GoesTo(94)

EntryStep ==
    \/ pc = 109 /\ Puts(1, 0)
    \/ pc = 110 /\ Shows(1)
    \/ pc = 111 /\ Pauses
    \/ pc = 112 /\ Reads(2)
    \/ pc = 113 /\ Puts(5, 74 + reg[1])
    \/ pc = 114 /\ Stores(74 + reg[1], 2)
    \/ pc = 115 /\ Puts(1, reg[1] + 1)
    \/ pc = 116 /\ Puts(3, (reg[1] - 16) % 65536)
    \/ pc = 117 /\ IF "n" \in cc THEN GoesTo(110) ELSE GoesTo(118)
    \/ pc = 118 /\ GoesTo(100)

PassStep ==
    \/ pc = 119 /\ Puts(1, 65520)
    \/ pc = 120 /\ Puts(2, 1)
    \/ pc = 121 /\ Puts(3, 74 + reg[2])
    \/ pc = 122 /\ Puts(4, mem[reg[3] - 1])
    \/ pc \in {123, 128} /\ Puts(5, mem[reg[3]])
    \/ pc = 124 /\ Puts(5, Complement(reg[5]))
    \/ pc = 125 /\ Puts(5, (reg[5] + 1) % 65536)
    \/ pc = 126 /\ Puts(5, Plus(reg[4], reg[5]))
    \/ pc = 127 /\ IF "p" \in cc THEN GoesTo(128) ELSE GoesTo(131)
    \/ pc = 129 /\ Stores(reg[3] - 1, 5)
    \/ pc = 130 /\ Stores(reg[3], 4)
    \/ pc = 131 /\ Puts(2, reg[2] + 1)
    \/ pc = 132 /\ Puts(3, Plus(reg[1], reg[2]))
    \/ pc = 133 /\ IF "n" \in cc THEN GoesTo(121) ELSE GoesTo(134)
    \/ pc = 134 /\ Puts(1, (reg[1] + 1) % 65536)
    \/ pc = 135 /\ IF "n" \in cc THEN GoesTo(120) ELSE GoesTo(136)
    \/ pc = 136 /\ GoesTo(104)

DisplayStep ==
    \/ pc = 137 /\ Puts(1, 0)
    \/ pc = 138 /\ Puts(4, 108)
    \/ pc = 139 /\ Calls(140)
    \/ pc = 140 /\ Puts(5, 140)
    \/ pc = 141 /\ Puts(7, 108)
    \/ pc = 142 /\ Puts(3, 55298)
    \/ pc = 143 /\ Puts(2, 8)
    \/ pc = 144 /\ Puts(2, 16)
    \/ pc = 145 /\ Puts(4, 74 + reg[1])
    \/ pc = 146 /\ Puts(4, mem[74 + reg[1]])
    \/ pc = 147 /\ Shows(4)
    \/ pc = 148 /\ Pauses
    \/ pc = 149 /\ Puts(3, reg[3] + 16)
    \/ pc = 150 /\ Stores(148, 3)
    \/ pc = 151 /\ Puts(1, reg[1] + 1)
    \/ pc = 152 /\ Puts(4, (reg[1] - 16) % 65536)
    \/ pc = 153 /\ IF "n" \in cc THEN GoesTo(145) ELSE GoesTo(154)
    \/ pc = 154 /\ GoesTo(108)

\* R6 points at the numbers, and the functions know where to return.
MenuRegisters ==
    /\ pc > 90 => reg[0] = 0
    /\ pc = 92 => reg[7] = 92
    /\ pc = 93 => reg[6] = 76
    /\ pc >= 94 => reg[6] = 74
    /\ pc \in 96 .. 97 => reg[1] \in SwitchWord
    /\ pc = 98 => ("z" \in cc <=> reg[1] = 0)

\* R1 counts the numbers read.
EntryRegisters ==
    /\ pc \in 109 .. 118 => reg[7] = 100
    /\ pc \in 110 .. 115 => reg[1] \in 0 .. 15
    /\ pc \in 113 .. 114 => reg[2] \in SwitchWord
    /\ pc = 114 => reg[5] = 74 + reg[1]
    /\ pc \in 116 .. 117 => reg[1] \in 1 .. 16
    /\ pc = 117 => ("n" \in cc <=> reg[1] < 16)

\* Where the numbers begin that have their place already: R1 counts up to 0.
Placed == 65610 - reg[1]

\* R2 numbers the two neighbours compared, R3 is the address of the second;
\* R4 holds the first while they are exchanged.
PassRegisters ==
    /\ pc \in 119 .. 136 => reg[7] = 104
    /\ pc \in 120 .. 134 => reg[1] \in 65520 .. 65535
    /\ pc \in 120 .. 133 => OrderedFrom(Placed)
    /\ pc \in 121 .. 131 => reg[2] \in 1 .. 15 /\ (74 + reg[2] < Placed \/ reg[2] = 1)
    /\ pc \in 122 .. 131 => reg[3] = 74 + reg[2]
    /\ pc \in 121 .. 129 => LastIsLargest(74 + reg[2])
    /\ pc \in 123 .. 129 => reg[4] = mem[reg[3] - 1]
    /\ pc = 124 => reg[5] = mem[reg[3]]
    /\ pc = 125 => reg[5] = 65535 - mem[reg[3]]
    /\ pc = 126 => reg[5] = (65536 - mem[reg[3]]) % 65536
    /\ pc = 127 => ("p" \in cc <=> mem[reg[3]] < reg[4])
    /\ pc \in 128 .. 130 => mem[reg[3]] < reg[4]
    /\ pc = 129 => reg[5] = mem[reg[3]]
    /\ pc = 130 => /\ reg[3] < Placed /\ reg[4] \in SwitchWord
                   /\ mem[reg[3] - 1] = mem[reg[3]]
                   /\ \A b \in Numbers : b < reg[3] => mem[b] <= reg[4]
                   /\ \A c \in Numbers : Placed <= c => reg[4] <= mem[c]
    /\ pc = 131 => LastIsLargest(75 + reg[2])
    /\ pc \in 132 .. 133 => /\ reg[2] \in 2 .. 16 /\ (74 + reg[2] <= Placed \/ Placed = 75)
                            /\ LastIsLargest(74 + reg[2])
    /\ pc = 133 => ("n" \in cc <=> 74 + reg[2] < Placed)
    /\ pc = 134 => OrderedFrom(Placed - 1)
    /\ pc = 135 => /\ reg[1] = 0 \/ reg[1] \in 65521 .. 65535
                   /\ "n" \in cc <=> reg[1] # 0
                   /\ OrderedFrom(IF reg[1] = 0 THEN 74 ELSE Placed)
    /\ pc \in {104, 136} => OrderedFrom(74)

\* R1 numbers the number shown, R3 is the next pause instruction.
DisplayRegisters ==
    /\ pc \in 137 .. 138 => reg[7] = 108
    /\ pc \in 139 .. 141 => reg[4] = 108
    /\ pc = 140 => reg[7] = 140
    /\ pc \in 141 .. 154 => reg[5] = 140
    /\ pc \in 142 .. 154 => reg[7] = 108
    /\ pc \in 138 .. 144 => reg[1] = 0
    /\ pc \in 145 .. 151 => reg[1] \in 0 .. 15
    /\ pc \in 152 .. 153 => reg[1] \in 1 .. 16
    /\ pc = 144 => reg[2] = 8
    /\ pc \in 145 .. 154 => reg[2] = 16
    /\ pc \in 143 .. 149 => reg[3] = 55298 + 16 * reg[1]
    /\ pc \in 150 .. 151 => reg[3] = 55298 + 16 * (reg[1] + 1)
    /\ pc \in 152 .. 153 => reg[3] = 55298 + 16 * reg[1]
    /\ pc = 146 => reg[4] = 74 + reg[1]
    /\ pc = 147 => reg[4] = mem[74 + reg[1]]
    /\ pc \in 148 .. 149 => hex = mem[74 + reg[1]]
    /\ pc = 153 => ("n" \in cc <=> reg[1] < 16)

\* The sort may change the numbers and one pause instruction, nothing else of
\* the image.
SortMemory ==
    /\ Holds((90 .. 155) \ {148})
    /\ \E l \in LedVector : mem[148] = opPSE(l)
    /\ \A a \in Numbers : mem[a] \in SwitchWord

SortInv ==
    /\ Machine
    /\ pc \in 90 .. 154
    /\ SortMemory
    /\ MenuRegisters
    /\ EntryRegisters
    /\ PassRegisters
    /\ DisplayRegisters

\* What the instructions are: of the menu,
LEMMA MenuWords ==
    /\ ProgramWord(90) = opCLR(0)             /\ ProgramWord(91) = opJSR(0)
    /\ ProgramWord(92) = opADDi(6, 7, -16)    /\ ProgramWord(93) = opADDi(6, 6, -2)
    /\ ProgramWord(94) = opPSE(1023)          /\ ProgramWord(95) = opLDR(1, 0, inSW)
    /\ ProgramWord(96) = opBR(z, -3)          /\ ProgramWord(97) = opDEC(1)
    /\ ProgramWord(98) = opBR(np, 2)          /\ ProgramWord(99) = opJSR(9)
    /\ ProgramWord(100) = opBR(nzp, -7)       /\ ProgramWord(101) = opDEC(1)
    /\ ProgramWord(102) = opBR(np, 2)         /\ ProgramWord(103) = opJSR(15)
    /\ ProgramWord(104) = opBR(nzp, -11)      /\ ProgramWord(105) = opDEC(1)
    /\ ProgramWord(106) = opBR(np, -13)       /\ ProgramWord(107) = opJSR(29)
    /\ ProgramWord(108) = opBR(nzp, -15)
  BY DEF ProgramWord, Programs, Boot, IOTest1, IOTest2, IOTest3, XorTest, RunOnceTest,
         Multiplier, SortData, SortMenu, SortEntry, SortFunction, SortDisplay, AutoCounter

\* of the entry,
LEMMA EntryWords ==
    /\ ProgramWord(109) = opCLR(1)            /\ ProgramWord(110) = opSTR(1, 0, outHEX)
    /\ ProgramWord(111) = opPSE(3073)         /\ ProgramWord(112) = opLDR(2, 0, inSW)
    /\ ProgramWord(113) = opADD(5, 6, 1)      /\ ProgramWord(114) = opSTR(2, 5, 0)
    /\ ProgramWord(115) = opINC(1)            /\ ProgramWord(116) = opADDi(3, 1, -16)
    /\ ProgramWord(117) = opBR(n, -8)         /\ ProgramWord(118) = opRET
  BY DEF ProgramWord, Programs, Boot, IOTest1, IOTest2, IOTest3, XorTest, RunOnceTest,
         Multiplier, SortData, SortMenu, SortEntry, SortFunction, SortDisplay, AutoCounter

\* of the sort function,
LEMMA PassWords ==
    /\ ProgramWord(119) = opADDi(1, 0, -16)   /\ ProgramWord(120) = opADDi(2, 0, 1)
    /\ ProgramWord(121) = opADD(3, 6, 2)      /\ ProgramWord(122) = opLDR(4, 3, -1)
    /\ ProgramWord(123) = opLDR(5, 3, 0)      /\ ProgramWord(124) = opNOT(5, 5)
    /\ ProgramWord(125) = opADDi(5, 5, 1)     /\ ProgramWord(126) = opADD(5, 4, 5)
    /\ ProgramWord(127) = opBR(nz, 3)         /\ ProgramWord(128) = opLDR(5, 3, 0)
    /\ ProgramWord(129) = opSTR(5, 3, -1)     /\ ProgramWord(130) = opSTR(4, 3, 0)
    /\ ProgramWord(131) = opINC(2)            /\ ProgramWord(132) = opADD(3, 1, 2)
    /\ ProgramWord(133) = opBR(n, -13)        /\ ProgramWord(134) = opINC(1)
    /\ ProgramWord(135) = opBR(n, -16)        /\ ProgramWord(136) = opRET
  BY DEF ProgramWord, Programs, Boot, IOTest1, IOTest2, IOTest3, XorTest, RunOnceTest,
         Multiplier, SortData, SortMenu, SortEntry, SortFunction, SortDisplay, AutoCounter

\* and of the display function.
LEMMA DisplayWords ==
    /\ ProgramWord(137) = opCLR(1)            /\ ProgramWord(138) = opADD(4, 7, 0)
    /\ ProgramWord(139) = opJSR(0)            /\ ProgramWord(140) = opADD(5, 7, 0)
    /\ ProgramWord(141) = opADD(7, 4, 0)      /\ ProgramWord(142) = opLDR(3, 5, 15)
    /\ ProgramWord(143) = opADDi(2, 0, 8)     /\ ProgramWord(144) = opADD(2, 2, 2)
    /\ ProgramWord(145) = opADD(4, 6, 1)      /\ ProgramWord(146) = opLDR(4, 4, 0)
    /\ ProgramWord(147) = opSTR(4, 0, outHEX) /\ ProgramWord(148) = opPSE(2050)
    /\ ProgramWord(149) = opADD(3, 3, 2)      /\ ProgramWord(150) = opSTR(3, 5, 8)
    /\ ProgramWord(151) = opINC(1)            /\ ProgramWord(152) = opADDi(4, 1, -16)
    /\ ProgramWord(153) = opBR(n, -9)         /\ ProgramWord(154) = opRET
    /\ ProgramWord(155) = opPSE(2050)
  BY DEF ProgramWord, Programs, Boot, IOTest1, IOTest2, IOTest3, XorTest, RunOnceTest,
         Multiplier, SortData, SortMenu, SortEntry, SortFunction, SortDisplay, AutoCounter

\* Under the invariant the machine executes the menu,
LEMMA MenuExecutes ==
    ASSUME SortInv, pc \in 90 .. 108, mode = "running", Instruction
    PROVE  MenuStep
  <1>1. /\ Machine /\ SortMemory /\ (pc # 148 => Here(ProgramWord(pc)))
        /\ mode = "running" /\ pc \in 0 .. 174
    BY DEF SortInv, SortMemory, Here, Holds
  <1>2. /\ 0 \in Register /\ 1 \in Register /\ 6 \in Register
        /\ 7 \in Register /\ 1023 \in LedVector
    BY DEF Register, LedVector
  <1>3. /\ np \in Conditions /\ nzp \in Conditions /\ z \in Conditions
        /\ -16 \in Imm5 /\ -2 \in Imm5 /\ -1 \in Imm5 /\ -3 \in Offset9
        /\ 2 \in Offset9 /\ -7 \in Offset9 /\ -11 \in Offset9
        /\ -13 \in Offset9 /\ -15 \in Offset9 /\ 0 \in Offset11
        /\ 9 \in Offset11 /\ 15 \in Offset11 /\ 29 \in Offset11
    BY DEF np, nzp, z, Conditions, Imm5, Offset9, Offset11
  <1>4. /\ pc > 90 => reg[0] = 0
        /\ pc = 92 => reg[7] = 92
        /\ pc = 93 => reg[6] = 76
    BY DEF SortInv, MenuRegisters, EntryRegisters, PassRegisters, DisplayRegisters
  <1>90. CASE pc = 90
    BY <1>1, <1>2, <1>3, <1>90, MenuWords, Clears DEF MenuStep
  <1>91. CASE pc = 91
    <2>1. (pc + 1 + 0) % 65536 = 92
      BY <1>91
    <2> QED BY <1>1, <1>2, <1>3, <1>91, MenuWords, <2>1, CallsWord DEF MenuStep
  <1>92. CASE pc = 92
    <2>1. Puts(6, (reg[7] + (-16)) % 65536)
      BY <1>1, <1>2, <1>3, <1>92, MenuWords, AddsNumber
    <2>2. (reg[7] + (-16)) % 65536 = 76
      BY <1>4, <1>92
    <2> QED BY <1>92, <2>1, <2>2 DEF MenuStep
  <1>93. CASE pc = 93
    <2>1. Puts(6, (reg[6] + (-2)) % 65536)
      BY <1>1, <1>2, <1>3, <1>93, MenuWords, AddsNumber
    <2>2. (reg[6] + (-2)) % 65536 = 74
      BY <1>4, <1>93
    <2> QED BY <1>93, <2>1, <2>2 DEF MenuStep
  <1>94. CASE pc = 94
    BY <1>1, <1>2, <1>3, <1>94, MenuWords, PausesAt DEF MenuStep
  <1>95. CASE pc = 95
    BY <1>1, <1>2, <1>3, <1>95, MenuWords, <1>4, ReadsSwitches DEF MenuStep
  <1>96. CASE pc = 96
    <2>1. IF Condition(z) \cap cc # {} THEN GoesTo((pc + 1 + (-3)) % 65536) ELSE GoesTo(pc + 1)
      BY <1>1, <1>2, <1>3, <1>96, MenuWords, BranchesTo
    <2>2. (pc + 1 + (-3)) % 65536 = 94 /\ pc + 1 = 97
      BY <1>96
    <2>3. Condition(z) \cap cc # {} <=> "z" \in cc
      BY <1>1, ConditionSets DEF Machine
    <2> QED BY <1>96, <2>1, <2>2, <2>3 DEF MenuStep
  <1>97. CASE pc = 97
    <2>1. Puts(1, (reg[1] + (-1)) % 65536)
      BY <1>1, <1>2, <1>3, <1>97, MenuWords, AddsNumber DEF opDEC
    <2>2. (reg[1] + (-1)) % 65536 = (reg[1] - 1) % 65536
      BY <1>1, <1>2 DEF Machine, Word
    <2> QED BY <1>97, <2>1, <2>2 DEF MenuStep
  <1>98. CASE pc = 98
    <2>1. IF Condition(np) \cap cc # {} THEN GoesTo((pc + 1 + (2)) % 65536) ELSE GoesTo(pc + 1)
      BY <1>1, <1>2, <1>3, <1>98, MenuWords, BranchesTo
    <2>2. (pc + 1 + (2)) % 65536 = 101 /\ pc + 1 = 99
      BY <1>98
    <2>3. Condition(np) \cap cc # {} <=> "z" \notin cc
      BY <1>1, ConditionSets DEF Machine
    <2> QED BY <1>98, <2>1, <2>2, <2>3 DEF MenuStep
  <1>99. CASE pc = 99
    <2>1. (pc + 1 + 9) % 65536 = 109
      BY <1>99
    <2> QED BY <1>1, <1>2, <1>3, <1>99, MenuWords, <2>1, CallsWord DEF MenuStep
  <1>100. CASE pc = 100
    <2>1. Condition(nzp) \cap cc # {}
      BY <1>1, ConditionSets DEF Machine
    <2>2. GoesTo((pc + 1 + (-7)) % 65536)
      BY <1>1, <1>2, <1>3, <1>100, MenuWords, <2>1, BranchesTo
    <2>3. (pc + 1 + (-7)) % 65536 = 94
      BY <1>100
    <2> QED BY <1>100, <2>2, <2>3 DEF MenuStep
  <1>101. CASE pc = 101
    <2>1. Puts(1, (reg[1] + (-1)) % 65536)
      BY <1>1, <1>2, <1>3, <1>101, MenuWords, AddsNumber DEF opDEC
    <2>2. (reg[1] + (-1)) % 65536 = (reg[1] - 1) % 65536
      BY <1>1, <1>2 DEF Machine, Word
    <2> QED BY <1>101, <2>1, <2>2 DEF MenuStep
  <1>102. CASE pc = 102
    <2>1. IF Condition(np) \cap cc # {} THEN GoesTo((pc + 1 + (2)) % 65536) ELSE GoesTo(pc + 1)
      BY <1>1, <1>2, <1>3, <1>102, MenuWords, BranchesTo
    <2>2. (pc + 1 + (2)) % 65536 = 105 /\ pc + 1 = 103
      BY <1>102
    <2>3. Condition(np) \cap cc # {} <=> "z" \notin cc
      BY <1>1, ConditionSets DEF Machine
    <2> QED BY <1>102, <2>1, <2>2, <2>3 DEF MenuStep
  <1>103. CASE pc = 103
    <2>1. (pc + 1 + 15) % 65536 = 119
      BY <1>103
    <2> QED BY <1>1, <1>2, <1>3, <1>103, MenuWords, <2>1, CallsWord DEF MenuStep
  <1>104. CASE pc = 104
    <2>1. Condition(nzp) \cap cc # {}
      BY <1>1, ConditionSets DEF Machine
    <2>2. GoesTo((pc + 1 + (-11)) % 65536)
      BY <1>1, <1>2, <1>3, <1>104, MenuWords, <2>1, BranchesTo
    <2>3. (pc + 1 + (-11)) % 65536 = 94
      BY <1>104
    <2> QED BY <1>104, <2>2, <2>3 DEF MenuStep
  <1>105. CASE pc = 105
    <2>1. Puts(1, (reg[1] + (-1)) % 65536)
      BY <1>1, <1>2, <1>3, <1>105, MenuWords, AddsNumber DEF opDEC
    <2>2. (reg[1] + (-1)) % 65536 = (reg[1] - 1) % 65536
      BY <1>1, <1>2 DEF Machine, Word
    <2> QED BY <1>105, <2>1, <2>2 DEF MenuStep
  <1>106. CASE pc = 106
    <2>1. IF Condition(np) \cap cc # {} THEN GoesTo((pc + 1 + (-13)) % 65536) ELSE GoesTo(pc + 1)
      BY <1>1, <1>2, <1>3, <1>106, MenuWords, BranchesTo
    <2>2. (pc + 1 + (-13)) % 65536 = 94 /\ pc + 1 = 107
      BY <1>106
    <2>3. Condition(np) \cap cc # {} <=> "z" \notin cc
      BY <1>1, ConditionSets DEF Machine
    <2> QED BY <1>106, <2>1, <2>2, <2>3 DEF MenuStep
  <1>107. CASE pc = 107
    <2>1. (pc + 1 + 29) % 65536 = 137
      BY <1>107
    <2> QED BY <1>1, <1>2, <1>3, <1>107, MenuWords, <2>1, CallsWord DEF MenuStep
  <1>108. CASE pc = 108
    <2>1. Condition(nzp) \cap cc # {}
      BY <1>1, ConditionSets DEF Machine
    <2>2. GoesTo((pc + 1 + (-15)) % 65536)
      BY <1>1, <1>2, <1>3, <1>108, MenuWords, <2>1, BranchesTo
    <2>3. (pc + 1 + (-15)) % 65536 = 94
      BY <1>108
    <2> QED BY <1>108, <2>2, <2>3 DEF MenuStep
  <1> QED BY <1>90, <1>91, <1>92, <1>93, <1>94, <1>95, <1>96, <1>97, <1>98, <1>99, <1>100,
             <1>101, <1>102, <1>103, <1>104, <1>105, <1>106, <1>107, <1>108

\* the entry,
LEMMA EntryExecutes ==
    ASSUME SortInv, pc \in 109 .. 118, mode = "running", Instruction
    PROVE  EntryStep
  <1>1. /\ Machine /\ SortMemory /\ (pc # 148 => Here(ProgramWord(pc)))
        /\ mode = "running" /\ pc \in 0 .. 174
    BY DEF SortInv, SortMemory, Here, Holds
  <1>2. /\ 0 \in Register /\ 1 \in Register /\ 2 \in Register
        /\ 3 \in Register /\ 5 \in Register /\ 6 \in Register
        /\ 3073 \in LedVector
    BY DEF Register, LedVector
  <1>3. /\ n \in Conditions /\ 1 \in Imm5 /\ -16 \in Imm5 /\ 0 \in Offset6
        /\ -8 \in Offset9
    BY DEF n, Conditions, Imm5, Offset6, Offset9
  <1>4. /\ reg[0] = 0 /\ reg[6] = 74 /\ reg[7] = 100
        /\ pc \in 110 .. 115 => reg[1] \in 0 .. 15
        /\ pc = 114 => reg[5] = 74 + reg[1]
        /\ pc = 116 => reg[1] \in 1 .. 16
    BY DEF SortInv, MenuRegisters, EntryRegisters, PassRegisters, DisplayRegisters
  <1>109. CASE pc = 109
    BY <1>1, <1>2, <1>3, <1>109, EntryWords, Clears DEF EntryStep
  <1>110. CASE pc = 110
    BY <1>1, <1>2, <1>3, <1>110, EntryWords, <1>4, ShowsRegister DEF EntryStep
  <1>111. CASE pc = 111
    BY <1>1, <1>2, <1>3, <1>111, EntryWords, PausesAt DEF EntryStep
  <1>112. CASE pc = 112
    BY <1>1, <1>2, <1>3, <1>112, EntryWords, <1>4, ReadsSwitches DEF EntryStep
  <1>113. CASE pc = 113
    <2>1. Puts(5, Plus(reg[6], reg[1]))
      BY <1>1, <1>2, <1>3, <1>113, EntryWords, Adds
    <2>2. Plus(reg[6], reg[1]) = 74 + reg[1]
      BY <1>4, <1>113 DEF Plus
    <2> QED BY <1>113, <2>1, <2>2 DEF EntryStep
  <1>114. CASE pc = 114
    <2>1. (reg[5] + 0) % 65536 = 74 + reg[1] /\ 74 + reg[1] \in 0 .. 174
      BY <1>4, <1>114
    <2> QED BY <1>1, <1>2, <1>3, <1>114, EntryWords, <2>1, StoresWord DEF EntryStep
  <1>115. CASE pc = 115
    <2>1. Puts(1, (reg[1] + 1) % 65536)
      BY <1>1, <1>2, <1>3, <1>115, EntryWords, AddsNumber DEF opINC
    <2>2. (reg[1] + 1) % 65536 = reg[1] + 1
      BY <1>4, <1>115
    <2> QED BY <1>115, <2>1, <2>2 DEF EntryStep
  <1>116. CASE pc = 116
    <2>1. Puts(3, (reg[1] + (-16)) % 65536)
      BY <1>1, <1>2, <1>3, <1>116, EntryWords, AddsNumber
    <2>2. (reg[1] + (-16)) % 65536 = (reg[1] - 16) % 65536
      BY <1>4, <1>116
    <2> QED BY <1>116, <2>1, <2>2 DEF EntryStep
  <1>117. CASE pc = 117
    <2>1. IF Condition(n) \cap cc # {} THEN GoesTo((pc + 1 + (-8)) % 65536) ELSE GoesTo(pc + 1)
      BY <1>1, <1>2, <1>3, <1>117, EntryWords, BranchesTo
    <2>2. (pc + 1 + (-8)) % 65536 = 110 /\ pc + 1 = 118
      BY <1>117
    <2>3. Condition(n) \cap cc # {} <=> "n" \in cc
      BY <1>1, ConditionSets DEF Machine
    <2> QED BY <1>117, <2>1, <2>2, <2>3 DEF EntryStep
  <1>118. CASE pc = 118
    BY <1>1, <1>2, <1>3, <1>118, EntryWords, <1>4, Returns DEF EntryStep
  <1> QED BY <1>109, <1>110, <1>111, <1>112, <1>113, <1>114, <1>115, <1>116, <1>117, <1>118

\* the sort function
LEMMA PassExecutes ==
    ASSUME SortInv, pc \in 119 .. 136, mode = "running", Instruction
    PROVE  PassStep
  <1>1. /\ Machine /\ SortMemory /\ (pc # 148 => Here(ProgramWord(pc)))
        /\ mode = "running" /\ pc \in 0 .. 174
    BY DEF SortInv, SortMemory, Here, Holds
  <1>2. /\ 0 \in Register /\ 1 \in Register /\ 2 \in Register
        /\ 3 \in Register /\ 4 \in Register /\ 5 \in Register
        /\ 6 \in Register
    BY DEF Register, LedVector
  <1>3. /\ n \in Conditions /\ nz \in Conditions /\ -16 \in Imm5 /\ 1 \in Imm5
        /\ -1 \in Offset6 /\ 0 \in Offset6 /\ 3 \in Offset9 /\ -13 \in Offset9
        /\ -16 \in Offset9
    BY DEF n, nz, Conditions, Imm5, Offset6, Offset9
  <1>4. /\ reg[0] = 0 /\ reg[6] = 74 /\ reg[7] = 104
        /\ pc \in 121 .. 131 => reg[2] \in 1 .. 15
        /\ pc \in 122 .. 131 => reg[3] = 74 + reg[2]
    BY DEF SortInv, MenuRegisters, EntryRegisters, PassRegisters, DisplayRegisters
  <1>119. CASE pc = 119
    <2> DEFINE k == -16
    <2>1. k \in Imm5 /\ k + 16 = 0 /\ ProgramWord(pc) = opADDi(1, 0, k)
      BY <1>119, PassWords DEF Imm5
    <2> HIDE DEF k
    <2>2. Puts(1, (reg[0] + k) % 65536)
      BY <1>1, <1>2, <1>119, <2>1, AddsNumber
    <2>3. (reg[0] + k) % 65536 = 65520
      BY <1>4, <2>1 DEF Imm5
    <2> QED BY <1>119, <2>2, <2>3 DEF PassStep
  <1>120. CASE pc = 120
    <2>1. Puts(2, (reg[0] + 1) % 65536)
      BY <1>1, <1>2, <1>3, <1>120, PassWords, AddsNumber
    <2>2. (reg[0] + 1) % 65536 = 1
      BY <1>4, <1>120
    <2> QED BY <1>120, <2>1, <2>2 DEF PassStep
  <1>121. CASE pc = 121
    <2>1. Puts(3, Plus(reg[6], reg[2]))
      BY <1>1, <1>2, <1>3, <1>121, PassWords, Adds
    <2>2. Plus(reg[6], reg[2]) = 74 + reg[2]
      BY <1>4, <1>121 DEF Plus
    <2> QED BY <1>121, <2>1, <2>2 DEF PassStep
  <1>122. CASE pc = 122
    <2>1. (reg[3] + (-1)) % 65536 = reg[3] - 1 /\ reg[3] - 1 \in 0 .. 174
      BY <1>4, <1>122
    <2>2. Puts(4, mem[reg[3] - 1])
      BY <1>1, <1>2, <1>3, <1>122, PassWords, <2>1, Loads
    <2> QED BY <1>122, <2>2 DEF PassStep
  <1>123. CASE pc = 123
    <2>1. (reg[3] + 0) % 65536 = reg[3] /\ reg[3] \in 0 .. 174
      BY <1>4, <1>123
    <2>2. Puts(5, mem[reg[3]])
      BY <1>1, <1>2, <1>3, <1>123, PassWords, <2>1, Loads
    <2> QED BY <1>123, <2>2 DEF PassStep
  <1>124. CASE pc = 124
    BY <1>1, <1>2, <1>3, <1>124, PassWords, Complements DEF PassStep
  <1>125. CASE pc = 125
    <2>1. Puts(5, (reg[5] + 1) % 65536)
      BY <1>1, <1>2, <1>3, <1>125, PassWords, AddsNumber
    <2> QED BY <1>125, <2>1 DEF PassStep
  <1>126. CASE pc = 126
    BY <1>1, <1>2, <1>3, <1>126, PassWords, Adds DEF PassStep
  <1>127. CASE pc = 127
    <2>1. IF Condition(nz) \cap cc # {} THEN GoesTo((pc + 1 + (3)) % 65536) ELSE GoesTo(pc + 1)
      BY <1>1, <1>2, <1>3, <1>127, PassWords, BranchesTo
    <2>2. (pc + 1 + (3)) % 65536 = 131 /\ pc + 1 = 128
      BY <1>127
    <2>3. Condition(nz) \cap cc # {} <=> "p" \notin cc
      BY <1>1, ConditionSets DEF Machine
    <2> QED BY <1>127, <2>1, <2>2, <2>3 DEF PassStep
  <1>128. CASE pc = 128
    <2>1. (reg[3] + 0) % 65536 = reg[3] /\ reg[3] \in 0 .. 174
      BY <1>4, <1>128
    <2>2. Puts(5, mem[reg[3]])
      BY <1>1, <1>2, <1>3, <1>128, PassWords, <2>1, Loads
    <2> QED BY <1>128, <2>2 DEF PassStep
  <1>129. CASE pc = 129
    <2>1. (reg[3] + (-1)) % 65536 = reg[3] - 1 /\ reg[3] - 1 \in 0 .. 174
      BY <1>4, <1>129
    <2> QED BY <1>1, <1>2, <1>3, <1>129, PassWords, <2>1, StoresWord DEF PassStep
  <1>130. CASE pc = 130
    <2>1. (reg[3] + 0) % 65536 = reg[3] /\ reg[3] \in 0 .. 174
      BY <1>4, <1>130
    <2> QED BY <1>1, <1>2, <1>3, <1>130, PassWords, <2>1, StoresWord DEF PassStep
  <1>131. CASE pc = 131
    <2>1. Puts(2, (reg[2] + 1) % 65536)
      BY <1>1, <1>2, <1>3, <1>131, PassWords, AddsNumber DEF opINC
    <2>2. (reg[2] + 1) % 65536 = reg[2] + 1
      BY <1>4, <1>131
    <2> QED BY <1>131, <2>1, <2>2 DEF PassStep
  <1>132. CASE pc = 132
    BY <1>1, <1>2, <1>3, <1>132, PassWords, Adds DEF PassStep
  <1>133. CASE pc = 133
    <2>1. IF Condition(n) \cap cc # {} THEN GoesTo((pc + 1 + (-13)) % 65536) ELSE GoesTo(pc + 1)
      BY <1>1, <1>2, <1>3, <1>133, PassWords, BranchesTo
    <2>2. (pc + 1 + (-13)) % 65536 = 121 /\ pc + 1 = 134
      BY <1>133
    <2>3. Condition(n) \cap cc # {} <=> "n" \in cc
      BY <1>1, ConditionSets DEF Machine
    <2> QED BY <1>133, <2>1, <2>2, <2>3 DEF PassStep
  <1>134. CASE pc = 134
    <2>1. Puts(1, (reg[1] + 1) % 65536)
      BY <1>1, <1>2, <1>3, <1>134, PassWords, AddsNumber DEF opINC
    <2> QED BY <1>134, <2>1 DEF PassStep
  <1>135. CASE pc = 135
    <2>1. IF Condition(n) \cap cc # {} THEN GoesTo((pc + 1 + (-16)) % 65536) ELSE GoesTo(pc + 1)
      BY <1>1, <1>2, <1>3, <1>135, PassWords, BranchesTo
    <2>2. (pc + 1 + (-16)) % 65536 = 120 /\ pc + 1 = 136
      BY <1>135
    <2>3. Condition(n) \cap cc # {} <=> "n" \in cc
      BY <1>1, ConditionSets DEF Machine
    <2> QED BY <1>135, <2>1, <2>2, <2>3 DEF PassStep
  <1>136. CASE pc = 136
    BY <1>1, <1>2, <1>3, <1>136, PassWords, <1>4, Returns DEF PassStep
  <1> QED BY <1>119, <1>120, <1>121, <1>122, <1>123, <1>124, <1>125, <1>126, <1>127, <1>128,
             <1>129, <1>130, <1>131, <1>132, <1>133, <1>134, <1>135, <1>136

\* and the display function.
LEMMA DisplayExecutes ==
    ASSUME SortInv, pc \in 137 .. 154, mode = "running", Instruction
    PROVE  DisplayStep
  <1>1. /\ Machine /\ SortMemory /\ (pc # 148 => Here(ProgramWord(pc)))
        /\ mode = "running" /\ pc \in 0 .. 174
    BY DEF SortInv, SortMemory, Here, Holds
  <1>2. /\ 0 \in Register /\ 1 \in Register /\ 2 \in Register
        /\ 3 \in Register /\ 4 \in Register /\ 5 \in Register
        /\ 6 \in Register /\ 7 \in Register
    BY DEF Register, LedVector
  <1>3. /\ n \in Conditions /\ 8 \in Imm5 /\ 1 \in Imm5 /\ -16 \in Imm5
        /\ 15 \in Offset6 /\ 0 \in Offset6 /\ 8 \in Offset6 /\ -9 \in Offset9
        /\ 0 \in Offset11
    BY DEF n, Conditions, Imm5, Offset6, Offset9, Offset11
  <1>4. /\ reg[0] = 0 /\ reg[6] = 74
        /\ pc \in 137 .. 138 => reg[7] = 108
        /\ pc \in 139 .. 141 => reg[4] = 108
        /\ pc = 140 => reg[7] = 140
        /\ pc \in 141 .. 154 => reg[5] = 140
        /\ pc \in 142 .. 154 => reg[7] = 108
        /\ pc = 144 => reg[2] = 8
        /\ pc = 146 => reg[4] = 74 + reg[1]
        /\ pc = 149 => reg[2] = 16 /\ reg[3] = 55298 + 16 * reg[1]
        /\ pc \in 145 .. 151 => reg[1] \in 0 .. 15
        /\ pc = 152 => reg[1] \in 1 .. 16
    BY DEF SortInv, MenuRegisters, EntryRegisters, PassRegisters, DisplayRegisters
  <1>137. CASE pc = 137
    BY <1>1, <1>2, <1>3, <1>137, DisplayWords, Clears DEF DisplayStep
  <1>138. CASE pc = 138
    <2>1. Puts(4, Plus(reg[7], reg[0]))
      BY <1>1, <1>2, <1>3, <1>138, DisplayWords, Adds
    <2>2. Plus(reg[7], reg[0]) = 108
      BY <1>4, <1>138 DEF Plus
    <2> QED BY <1>138, <2>1, <2>2 DEF DisplayStep
  <1>139. CASE pc = 139
    <2>1. (pc + 1 + 0) % 65536 = 140
      BY <1>139
    <2> QED BY <1>1, <1>2, <1>3, <1>139, DisplayWords, <2>1, CallsWord DEF DisplayStep
  <1>140. CASE pc = 140
    <2>1. Puts(5, Plus(reg[7], reg[0]))
      BY <1>1, <1>2, <1>3, <1>140, DisplayWords, Adds
    <2>2. Plus(reg[7], reg[0]) = 140
      BY <1>4, <1>140 DEF Plus
    <2> QED BY <1>140, <2>1, <2>2 DEF DisplayStep
  <1>141. CASE pc = 141
    <2>1. Puts(7, Plus(reg[4], reg[0]))
      BY <1>1, <1>2, <1>3, <1>141, DisplayWords, Adds
    <2>2. Plus(reg[4], reg[0]) = 108
      BY <1>4, <1>141 DEF Plus
    <2> QED BY <1>141, <2>1, <2>2 DEF DisplayStep
  <1>142. CASE pc = 142
    <2>1. (reg[5] + 15) % 65536 = 155 /\ 155 \in 0 .. 174
      BY <1>4, <1>142
    <2>2. Puts(3, mem[155])
      BY <1>1, <1>2, <1>3, <1>142, DisplayWords, <2>1, Loads
    <2>3. mem[155] = 55298
      BY <1>1, DisplayWords DEF SortMemory, Holds, opPSE, Instr
    <2> QED BY <1>142, <2>2, <2>3 DEF DisplayStep
  <1>143. CASE pc = 143
    <2>1. Puts(2, (reg[0] + 8) % 65536)
      BY <1>1, <1>2, <1>3, <1>143, DisplayWords, AddsNumber
    <2>2. (reg[0] + 8) % 65536 = 8
      BY <1>4, <1>143
    <2> QED BY <1>143, <2>1, <2>2 DEF DisplayStep
  <1>144. CASE pc = 144
    <2>1. Puts(2, Plus(reg[2], reg[2]))
      BY <1>1, <1>2, <1>3, <1>144, DisplayWords, Adds
    <2>2. Plus(reg[2], reg[2]) = 16
      BY <1>4, <1>144 DEF Plus
    <2> QED BY <1>144, <2>1, <2>2 DEF DisplayStep
  <1>145. CASE pc = 145
    <2>1. Puts(4, Plus(reg[6], reg[1]))
      BY <1>1, <1>2, <1>3, <1>145, DisplayWords, Adds
    <2>2. Plus(reg[6], reg[1]) = 74 + reg[1]
      BY <1>4, <1>145 DEF Plus
    <2> QED BY <1>145, <2>1, <2>2 DEF DisplayStep
  <1>146. CASE pc = 146
    <2>1. (reg[4] + 0) % 65536 = 74 + reg[1] /\ 74 + reg[1] \in 0 .. 174
      BY <1>4, <1>146
    <2>2. Puts(4, mem[74 + reg[1]])
      BY <1>1, <1>2, <1>3, <1>146, DisplayWords, <2>1, Loads
    <2> QED BY <1>146, <2>2 DEF DisplayStep
  <1>147. CASE pc = 147
    BY <1>1, <1>2, <1>3, <1>147, DisplayWords, <1>4, ShowsRegister DEF DisplayStep
  <1>148. CASE pc = 148
    <2>1. PICK l \in LedVector : mem[pc] = opPSE(l)
      BY <1>1, <1>148 DEF SortMemory
    <2>2. Here(opPSE(l))
      BY <1>1, <1>148, <2>1 DEF Here
    <2> QED BY <1>1, <1>148, <2>2, PausesAt DEF DisplayStep
  <1>149. CASE pc = 149
    <2>1. Puts(3, Plus(reg[3], reg[2]))
      BY <1>1, <1>2, <1>3, <1>149, DisplayWords, Adds
    <2>2. Plus(reg[3], reg[2]) = reg[3] + 16
      BY <1>4, <1>149 DEF Plus
    <2> QED BY <1>149, <2>1, <2>2 DEF DisplayStep
  <1>150. CASE pc = 150
    <2>1. (reg[5] + 8) % 65536 = 148 /\ 148 \in 0 .. 174
      BY <1>4, <1>150
    <2> QED BY <1>1, <1>2, <1>3, <1>150, DisplayWords, <2>1, StoresWord DEF DisplayStep
  <1>151. CASE pc = 151
    <2>1. Puts(1, (reg[1] + 1) % 65536)
      BY <1>1, <1>2, <1>3, <1>151, DisplayWords, AddsNumber DEF opINC
    <2>2. (reg[1] + 1) % 65536 = reg[1] + 1
      BY <1>4, <1>151
    <2> QED BY <1>151, <2>1, <2>2 DEF DisplayStep
  <1>152. CASE pc = 152
    <2>1. Puts(4, (reg[1] + (-16)) % 65536)
      BY <1>1, <1>2, <1>3, <1>152, DisplayWords, AddsNumber
    <2>2. (reg[1] + (-16)) % 65536 = (reg[1] - 16) % 65536
      BY <1>4, <1>152
    <2> QED BY <1>152, <2>1, <2>2 DEF DisplayStep
  <1>153. CASE pc = 153
    <2>1. IF Condition(n) \cap cc # {} THEN GoesTo((pc + 1 + (-9)) % 65536) ELSE GoesTo(pc + 1)
      BY <1>1, <1>2, <1>3, <1>153, DisplayWords, BranchesTo
    <2>2. (pc + 1 + (-9)) % 65536 = 145 /\ pc + 1 = 154
      BY <1>153
    <2>3. Condition(n) \cap cc # {} <=> "n" \in cc
      BY <1>1, ConditionSets DEF Machine
    <2> QED BY <1>153, <2>1, <2>2, <2>3 DEF DisplayStep
  <1>154. CASE pc = 154
    BY <1>1, <1>2, <1>3, <1>154, DisplayWords, <1>4, Returns DEF DisplayStep
  <1> QED BY <1>137, <1>138, <1>139, <1>140, <1>141, <1>142, <1>143, <1>144, <1>145, <1>146,
             <1>147, <1>148, <1>149, <1>150, <1>151, <1>152, <1>153, <1>154

\* Every instruction keeps the invariant: those of the menu,
LEMMA MenuInstruction ==
    ASSUME SortInv, MenuStep
    PROVE  SortInv'
  <1> USE DEF Puts, Reads, Pauses, GoesTo, Calls
  <1>1. /\ pc \in 90 .. 108
        /\ pc' \in (90 .. 109) \cup {119, 137}
    BY DEF MenuStep
  <1>2. Machine' /\ mem' = mem
    BY DEF MenuStep
  <1>3. SortMemory'
    BY <1>2 DEF SortInv, SortMemory, Holds
  <1>4. MenuRegisters'
    <2> USE DEF SortInv, MenuRegisters, Register
    <2>1. CASE pc \in 90 .. 94
      BY <2>1 DEF MenuStep
    <2>2. CASE pc = 95
      <3>1. PICK v \in SwitchValues : Puts(1, v)
        BY <2>2 DEF MenuStep
      <3>2. v \in SwitchWord
        BY SwitchesAssumption
      <3> QED BY <2>2, <3>1, <3>2
    <2>3. CASE pc \in 96 .. 97
      <3>1. \A v : "z" \in CCOf(v) <=> v = 0
        BY DEF CCOf
      <3> QED BY <2>3, <3>1 DEF MenuStep
    <2>4. CASE pc \in 98 .. 108
      BY <2>4 DEF MenuStep
    <2> QED BY <1>1, <2>1, <2>2, <2>3, <2>4
  <1>5. EntryRegisters'
    BY <1>1 DEF MenuStep, EntryRegisters
  <1>6. PassRegisters'
    BY <1>1 DEF MenuStep, PassRegisters, SortInv
  <1>7. DisplayRegisters'
    BY <1>1 DEF MenuStep, DisplayRegisters
  <1> QED BY <1>1, <1>2, <1>3, <1>4, <1>5, <1>6, <1>7 DEF SortInv

\* of the entry,
LEMMA EntryInstruction ==
    ASSUME SortInv, EntryStep
    PROVE  SortInv'
  <1> USE DEF Puts, Reads, Pauses, Shows, Stores, GoesTo
  <1>1. /\ pc \in 109 .. 118
        /\ pc' \in (109 .. 118) \cup {100}
    BY DEF EntryStep, SortInv, EntryRegisters
  <1>2. Machine'
    BY DEF EntryStep
  <1>3. SortMemory'
    <2>1. CASE pc = 114
      <3> DEFINE a == 74 + reg[1]
      <3>1. /\ a \in Numbers /\ reg[2] \in SwitchWord
            /\ mem' = [mem EXCEPT ![a] = reg[2]]
        BY <2>1 DEF SortInv, EntryRegisters, EntryStep, Numbers
      <3>2. a \in DOMAIN mem
        <4>1. a \in 0 .. 174
          BY <3>1 DEF Numbers
        <4>2. a \in 0 .. RamWords - 1
          BY <4>1, Cells
        <4> QED BY <4>2 DEF SortInv, Machine
      <3> HIDE DEF a
      <3> QED BY <3>1, <3>2 DEF SortInv, SortMemory, Holds, Numbers
    <2>2. CASE pc # 114
      <3>1. \A b \in 0 .. 174 : mem'[b] = mem[b]
        BY <2>2 DEF EntryStep
      <3> QED BY <3>1 DEF SortInv, SortMemory, Holds, Numbers
    <2> QED BY <2>1, <2>2
  <1>4. MenuRegisters'
    BY <1>1 DEF SortInv, MenuRegisters, EntryStep, Register
  <1>5. EntryRegisters'
    <2> USE DEF SortInv, EntryRegisters, Register
    <2>1. CASE pc \in 109 .. 111
      BY <2>1 DEF EntryStep
    <2>2. CASE pc = 112
      <3>1. PICK v \in SwitchValues : Puts(2, v)
        BY <2>2 DEF EntryStep
      <3>2. v \in SwitchWord
        BY SwitchesAssumption
      <3> QED BY <2>2, <3>1, <3>2
    <2>3. CASE pc \in 113 .. 115
      BY <2>3 DEF EntryStep
    <2>4. CASE pc = 116
      <3>1. "n" \in CCOf((reg[1] - 16) % 65536) <=> reg[1] < 16
        BY <2>4 DEF CCOf
      <3> QED BY <2>4, <3>1 DEF EntryStep
    <2>5. CASE pc \in 117 .. 118
      BY <2>5 DEF EntryStep
    <2> QED BY <1>1, <2>1, <2>2, <2>3, <2>4, <2>5
  <1>6. PassRegisters'
    BY <1>1 DEF PassRegisters
  <1>7. DisplayRegisters'
    BY <1>1 DEF DisplayRegisters
  <1> QED BY <1>1, <1>2, <1>3, <1>4, <1>5, <1>6, <1>7 DEF SortInv

\* of the display,
LEMMA DisplayInstruction ==
    ASSUME SortInv, DisplayStep
    PROVE  SortInv'
  <1> USE DEF Puts, Pauses, Shows, Stores, GoesTo, Calls
  <1>1. /\ pc \in 137 .. 154
        /\ pc' \in (137 .. 154) \cup {108}
    BY DEF DisplayStep
  <1>2. Machine'
    BY DEF DisplayStep
  <1>3. SortMemory'
    <2>1. CASE pc = 150
      <3> DEFINE l == 2050 + 16 * (reg[1] + 1)
      <3>1. l \in LedVector /\ reg[3] = opPSE(l)
        BY <2>1 DEF SortInv, DisplayRegisters, LedVector, opPSE, Instr
      <3>2. mem' = [mem EXCEPT ![148] = reg[3]] /\ 148 \in DOMAIN mem
        BY <2>1, Cells DEF DisplayStep, SortInv, Machine
      <3> HIDE DEF l
      <3> QED BY <3>1, <3>2 DEF SortInv, SortMemory, Holds, Numbers
    <2>2. CASE pc # 150
      <3>1. \A b \in 0 .. 174 : mem'[b] = mem[b]
        BY <2>2 DEF DisplayStep
      <3> QED BY <3>1 DEF SortInv, SortMemory, Holds, Numbers
    <2> QED BY <2>1, <2>2
  <1>4. MenuRegisters'
    BY <1>1 DEF SortInv, MenuRegisters, DisplayStep, Register
  <1>5. EntryRegisters'
    BY <1>1 DEF EntryRegisters
  <1>6. PassRegisters'
    BY <1>1 DEF PassRegisters
  <1>7. DisplayRegisters'
    <2> USE DEF SortInv, DisplayRegisters, Register
    <2>1. CASE pc \in 137 .. 141
      BY <2>1 DEF DisplayStep
    <2>2. CASE pc \in 142 .. 145
      BY <2>2 DEF DisplayStep
    <2>3. CASE pc \in 146 .. 147
      <3>1. 74 + reg[1] \in 0 .. 174
        BY <2>3
      <3> QED BY <2>3, <3>1 DEF DisplayStep
    <2>4. CASE pc \in 148 .. 151
      BY <2>4 DEF DisplayStep
    <2>5. CASE pc = 152
      <3>1. "n" \in CCOf((reg[1] - 16) % 65536) <=> reg[1] < 16
        BY <2>5 DEF CCOf
      <3> QED BY <2>5, <3>1 DEF DisplayStep
    <2>6. CASE pc \in 153 .. 154
      BY <2>6 DEF DisplayStep
    <2> QED BY <1>1, <2>1, <2>2, <2>3, <2>4, <2>5, <2>6
  <1> QED BY <1>1, <1>2, <1>3, <1>4, <1>5, <1>6, <1>7 DEF SortInv

\* An exchange of neighbours that are not in order, the second of which is not
\* placed yet, in its two steps.
LEMMA FirstMoved ==
    ASSUME NEW f \in Int, NEW s \in Int, NEW h, f \in Numbers, s \in Numbers, f = s - 1, s < h,
           mem' = [mem EXCEPT ![f] = mem[s]], Numbers \subseteq DOMAIN mem,
           \A a \in Numbers : mem[a] \in SwitchWord,
           h \in Int, OrderedFrom(h), LastIsLargest(s), mem[s] < mem[f]
    PROVE  /\ \A b, c \in Numbers : b < c /\ h <= c => mem'[b] <= mem'[c]
           /\ mem'[f] = mem[s] /\ mem'[s] = mem[s]
           /\ \A b \in Numbers : b < s => mem'[b] <= mem[f]
           /\ \A c \in Numbers : h <= c => mem[f] <= mem'[c]
  <1>1. \A a \in Numbers : mem[a] \in Int
    BY DEF SwitchWord
  <1>2. \A a \in Numbers : a \in Int
    BY DEF Numbers
  <1>3. mem'[f] = mem[s] /\ \A a \in Numbers : a # f => mem'[a] = mem[a]
    OBVIOUS
  <1>4. ASSUME NEW b \in Numbers, NEW c \in Numbers, b < c, h <= c PROVE mem'[b] <= mem'[c]
    <2>1. c # f /\ mem[s] <= mem[c] /\ mem[b] <= mem[c]
      BY <1>2, <1>4 DEF OrderedFrom
    <2> QED BY <1>3, <2>1
  <1>5. ASSUME NEW b \in Numbers, b < s PROVE mem'[b] <= mem[f]
    <2>1. mem[b] <= mem[f]
      BY <1>5 DEF LastIsLargest
    <2> QED BY <1>1, <1>3, <2>1
  <1>6. ASSUME NEW c \in Numbers, h <= c PROVE mem[f] <= mem'[c]
    <2>1. f < c /\ c # f
      BY <1>2, <1>6
    <2>2. mem[f] <= mem[c]
      BY <1>6, <2>1 DEF OrderedFrom
    <2> QED BY <1>3, <2>1, <2>2
  <1> QED BY <1>2, <1>3, <1>4, <1>5, <1>6

\* The second step completes the exchange.
LEMMA SecondMoved ==
    ASSUME NEW s \in Int, NEW h \in Int, NEW v, s \in Numbers, s < h,
           mem' = [mem EXCEPT ![s] = v], Numbers \subseteq DOMAIN mem,
           OrderedFrom(h),
           \A b \in Numbers : b < s => mem[b] <= v,
           \A c \in Numbers : h <= c => v <= mem[c]
    PROVE  /\ \A b, c \in Numbers : b < c /\ h <= c => mem'[b] <= mem'[c]
           /\ \A b \in Numbers : b < s + 1 => mem'[b] <= mem'[s] \/ b = s
           /\ mem'[s] = v
  <1>1. \A a \in Numbers : a \in Int
    BY DEF Numbers
  <1>2. mem'[s] = v /\ \A a \in Numbers : a # s => mem'[a] = mem[a]
    OBVIOUS
  <1>3. ASSUME NEW b \in Numbers, NEW c \in Numbers, b < c, h <= c PROVE mem'[b] <= mem'[c]
    <2>1. c # s /\ mem[b] <= mem[c] /\ v <= mem[c]
      BY <1>1, <1>3 DEF OrderedFrom
    <2> QED BY <1>2, <2>1
  <1>4. ASSUME NEW b \in Numbers, b < s + 1 PROVE mem'[b] <= mem'[s] \/ b = s
    BY <1>1, <1>2, <1>4
  <1> QED BY <1>2, <1>3, <1>4

\* and of the sort.
LEMMA PassInstruction ==
    ASSUME SortInv, PassStep
    PROVE  SortInv'
  <1> USE DEF Puts, Stores, GoesTo
  <1>1. /\ pc \in 119 .. 136
        /\ pc' \in (119 .. 136) \cup {104}
    BY DEF PassStep
  <1>2. Machine'
    BY DEF PassStep
  <1>3. Numbers \subseteq DOMAIN mem /\ \A a \in Numbers : mem[a] \in SwitchWord
    <2>1. \A a \in Numbers : a \in 0 .. 174
      BY DEF Numbers
    <2> QED BY <2>1, Cells DEF SortInv, Machine, SortMemory
  <1>4. pc \in 121 .. 131 => /\ reg[2] \in 1 .. 15 /\ 74 + reg[2] \in Numbers
                             /\ 73 + reg[2] \in Numbers
                             /\ 74 + reg[2] < Placed \/ reg[2] = 1
    BY DEF SortInv, PassRegisters, Numbers
  <1>5. pc \in 122 .. 131 => /\ reg[3] = 74 + reg[2] /\ reg[3] - 1 = 73 + reg[2]
                             /\ reg[3] \in Numbers /\ reg[3] - 1 \in Numbers
                             /\ reg[3] \in Int
    BY <1>4 DEF SortInv, PassRegisters
  <1>6. pc # 129 /\ pc # 130 => mem' = mem
    BY DEF PassStep
  <1>7. /\ pc = 129 => mem' = [mem EXCEPT ![reg[3] - 1] = mem[reg[3]]]
        /\ pc = 130 => mem' = [mem EXCEPT ![reg[3]] = reg[4]] /\ reg[4] \in SwitchWord
    BY DEF PassStep, SortInv, PassRegisters
  <1>8. pc \in 120 .. 134 => reg[1] \in 65520 .. 65535 /\ Placed \in 75 .. 90
    BY DEF SortInv, PassRegisters, Placed
  <1>9. SortMemory'
    <2> USE DEF SortInv, SortMemory, Holds
    <2>1. CASE pc # 129 /\ pc # 130
      BY <1>6, <2>1
    <2>2. ASSUME NEW a \in Numbers, NEW v \in SwitchWord, mem' = [mem EXCEPT ![a] = v]
          PROVE  SortMemory'
      BY <1>3, <2>2 DEF Numbers
    <2>3. CASE pc = 129
      <3>1. mem[reg[3]] \in SwitchWord
        BY <1>3, <1>5, <2>3
      <3> QED BY <1>5, <1>7, <2>2, <2>3, <3>1
    <2>4. CASE pc = 130
      BY <1>5, <1>7, <2>2, <2>4
    <2> QED BY <2>1, <2>3, <2>4
  <1>10. MenuRegisters'
    BY <1>1 DEF SortInv, MenuRegisters, PassStep, Register
  <1>11. EntryRegisters'
    BY <1>1 DEF EntryRegisters
  <1>12. DisplayRegisters'
    BY <1>1 DEF DisplayRegisters
  <1>13. PassRegisters'
    <2> USE DEF SortInv, Register, Placed
    <2>1. CASE pc = 119
      BY <1>6, <2>1 DEF PassStep, PassRegisters, OrderedFrom, Numbers
    <2>2. CASE pc = 120
      <3>1. \A b \in Numbers : ~(b < 74)
        BY DEF Numbers
      <3>2. \A b \in Numbers : b < 75 => mem[b] <= mem[74]
        BY <1>3 DEF Numbers, SwitchWord
      <3> QED BY <1>6, <1>8, <2>2, <3>2 DEF PassStep, PassRegisters, OrderedFrom, LastIsLargest
    <2>3. CASE pc \in 121 .. 122
      BY <1>4, <1>5, <1>6, <1>8, <2>3 DEF PassStep, PassRegisters, OrderedFrom, LastIsLargest
    <2>4. CASE pc \in 123 .. 124
      BY <1>4, <1>5, <1>6, <1>8, <2>4 DEF PassStep, PassRegisters, OrderedFrom, LastIsLargest,
            Complement
    <2>5. CASE pc = 125
      <3>1. (65535 - mem[reg[3]] + 1) % 65536 = (65536 - mem[reg[3]]) % 65536
        BY <1>3, <1>5, <2>5 DEF SwitchWord
      <3> QED BY <1>4, <1>5, <1>6, <1>8, <2>5, <3>1
              DEF PassStep, PassRegisters, OrderedFrom, LastIsLargest
    <2>6. CASE pc = 126
      <3> DEFINE x == mem[reg[3] - 1]
                 y == mem[reg[3]]
      <3>1. x \in SwitchWord /\ y \in SwitchWord
        BY <1>3, <1>5, <2>6
      <3>2. "p" \in CCOf(Plus(x, (65536 - y) % 65536)) <=> y < x
        BY <3>1 DEF CCOf, Plus, SwitchWord
      <3>3. reg[4] = x /\ reg[5] = (65536 - y) % 65536
        BY <2>6 DEF PassRegisters
      <3>4. "p" \in cc' <=> y < x
        BY <2>6, <3>2, <3>3 DEF PassStep
      <3> QED BY <1>4, <1>5, <1>6, <1>8, <2>6, <3>4
              DEF PassStep, PassRegisters, OrderedFrom, LastIsLargest
    <2>7. CASE pc = 127
      <3>1. "p" \notin cc => mem[reg[3] - 1] <= mem[reg[3]]
        BY <1>3, <1>5, <2>7 DEF PassRegisters, SwitchWord
      <3>2. "p" \notin cc => LastIsLargest(75 + reg[2])
        <4>1. LastIsLargest(reg[3]) /\ reg[3] + 1 = 75 + reg[2]
          BY <1>4, <1>5, <2>7 DEF PassRegisters
        <4>2. ASSUME "p" \notin cc, NEW b \in Numbers, b < reg[3] + 1
              PROVE  mem[b] <= mem[reg[3]]
          <5>1. b \in Int /\ mem[b] \in Int /\ mem[reg[3]] \in Int /\ mem[reg[3] - 1] \in Int
            BY <1>3, <1>5, <2>7 DEF Numbers, SwitchWord
          <5>2. b < reg[3] => mem[b] <= mem[reg[3] - 1]
            BY <4>1 DEF LastIsLargest
          <5> QED BY <1>5, <2>7, <3>1, <4>2, <5>1, <5>2
        <4> QED BY <1>5, <2>7, <4>1, <4>2 DEF LastIsLargest
      <3> QED BY <1>4, <1>5, <1>6, <1>8, <2>7, <3>2
              DEF PassStep, PassRegisters, OrderedFrom, LastIsLargest
    <2>8. CASE pc = 128
      BY <1>4, <1>5, <1>6, <1>8, <2>8 DEF PassStep, PassRegisters, OrderedFrom, LastIsLargest
    <2>9. CASE pc = 129
      <3> DEFINE s == reg[3]
                 f == reg[3] - 1
      <3>1. /\ OrderedFrom(Placed) /\ LastIsLargest(s) /\ mem[s] < mem[f] /\ reg[4] = mem[f]
        BY <1>5, <2>9 DEF PassRegisters
      <3>2. s < Placed
        <4>1. CASE reg[2] = 1 /\ Placed = 75
          <5>1. f < s /\ Placed <= s
            BY <1>5, <2>9, <4>1
          <5>2. mem[f] <= mem[s]
            BY <1>5, <2>9, <3>1, <5>1 DEF OrderedFrom
          <5>3. mem[f] \in Int /\ mem[s] \in Int
            BY <1>3, <1>5, <2>9 DEF SwitchWord
          <5> QED BY <3>1, <5>2, <5>3
        <4>2. CASE ~(reg[2] = 1 /\ Placed = 75)
          BY <1>4, <1>5, <1>8, <2>9, <4>2
        <4> QED BY <4>1, <4>2
      <3>3. /\ \A b, c \in Numbers : b < c /\ Placed <= c => mem'[b] <= mem'[c]
            /\ mem'[f] = mem[s] /\ mem'[s] = mem[s]
            /\ \A b \in Numbers : b < s => mem'[b] <= mem[f]
            /\ \A c \in Numbers : Placed <= c => mem[f] <= mem'[c]
        <4>1. /\ Placed \in Int /\ s \in Int /\ f \in Int /\ f = s - 1
              /\ s \in Numbers /\ f \in Numbers
              /\ mem' = [mem EXCEPT ![f] = mem[s]]
          BY <1>5, <1>7, <1>8, <2>9
        <4> HIDE DEF s, f, Placed
        <4> QED BY <1>3, <3>1, <3>2, <4>1, FirstMoved
      <3>4. reg' = reg /\ pc' = 130
        BY <2>9 DEF PassStep
      <3>5. mem[f] \in SwitchWord
        BY <1>3, <1>5, <2>9
      <3> QED BY <1>4, <1>5, <1>8, <2>9, <3>1, <3>2, <3>3, <3>4, <3>5
              DEF PassRegisters, OrderedFrom
    <2>10. CASE pc = 130
      <3> DEFINE s == reg[3]
      <3>1. /\ \A b, c \in Numbers : b < c /\ Placed <= c => mem'[b] <= mem'[c]
            /\ \A b \in Numbers : b < s + 1 => mem'[b] <= mem'[s] \/ b = s
            /\ mem'[s] = reg[4]
        <4> DEFINE v == reg[4]
        <4>1. /\ Placed \in Int /\ s \in Int /\ s \in Numbers /\ s < Placed
              /\ mem' = [mem EXCEPT ![s] = v] /\ OrderedFrom(Placed)
              /\ \A b \in Numbers : b < s => mem[b] <= v
              /\ \A c \in Numbers : Placed <= c => v <= mem[c]
          BY <1>5, <1>7, <1>8, <2>10 DEF PassRegisters
        <4>2. mem'[s] = v => mem'[s] = reg[4]
          OBVIOUS
        <4> HIDE DEF s, v, Placed
        <4> QED BY <1>3, <4>1, <4>2, SecondMoved
      <3>2. reg[4] <= reg[4]
        BY <1>7, <2>10 DEF SwitchWord
      <3>3. reg' = reg /\ pc' = 131
        BY <2>10 DEF PassStep
      <3>4. s + 1 = 75 + reg[2] /\ 75 + reg[2] - 1 = s
        BY <1>4, <1>5, <2>10
      <3>5. \A b \in Numbers : b < 75 + reg'[2] => mem'[b] <= mem'[75 + reg'[2] - 1]
        <4>1. \A b \in Numbers : b < s + 1 => mem'[b] <= mem'[s]
          BY <3>1, <3>2
        <4>2. reg'[2] = reg[2]
          BY <3>3
        <4> HIDE DEF s
        <4>3. \A b \in Numbers : b < 75 + reg[2] => mem'[b] <= mem'[75 + reg[2] - 1]
          BY <3>4, <4>1
        <4> QED BY <4>2, <4>3, Zenon
      <3> QED BY <1>4, <1>5, <1>8, <2>10, <3>1, <3>3, <3>5
              DEF PassRegisters, OrderedFrom, LastIsLargest
    <2>11. CASE pc = 131
      <3>1. 74 + (reg[2] + 1) = 75 + reg[2]
        BY <1>4, <2>11
      <3> QED BY <1>4, <1>6, <1>8, <2>11, <3>1
              DEF PassStep, PassRegisters, OrderedFrom, LastIsLargest
    <2>12. CASE pc = 132
      <3>1. "n" \in CCOf(Plus(reg[1], reg[2])) <=> 74 + reg[2] < Placed
        BY <1>8, <2>12 DEF CCOf, Plus, PassRegisters
      <3> QED BY <1>6, <1>8, <2>12, <3>1
              DEF PassStep, PassRegisters, OrderedFrom, LastIsLargest
    <2>13. CASE pc = 133
      <3>1. "n" \notin cc => OrderedFrom(Placed - 1)
        <4> SUFFICES ASSUME "n" \notin cc, NEW b \in Numbers, NEW c \in Numbers,
                            b < c, Placed - 1 <= c
                     PROVE  mem[b] <= mem[c]
          BY DEF OrderedFrom
        <4>1. b \in 74 .. 89 /\ c \in 74 .. 89
          BY DEF Numbers
        <4>2. /\ OrderedFrom(Placed) /\ LastIsLargest(74 + reg[2])
              /\ reg[2] \in 2 .. 16 /\ (74 + reg[2] = Placed \/ Placed = 75)
          BY <1>8, <2>13 DEF PassRegisters
        <4>3. CASE Placed <= c
          BY <4>2, <4>3 DEF OrderedFrom
        <4>4. CASE c = Placed - 1 /\ 74 + reg[2] = Placed
          <5>1. b < 74 + reg[2] /\ 74 + reg[2] - 1 = c
            BY <4>1, <4>2, <4>4
          <5> QED BY <4>2, <5>1 DEF LastIsLargest
        <4>5. c = Placed - 1 => 74 + reg[2] = Placed
          BY <4>1, <4>2
        <4> QED BY <1>8, <2>13, <4>1, <4>3, <4>4, <4>5
      <3> QED BY <1>6, <1>8, <2>13, <3>1
              DEF PassStep, PassRegisters, OrderedFrom, LastIsLargest
    <2>14. CASE pc = 134
      <3> DEFINE r == (reg[1] + 1) % 65536
      <3>1. /\ r = 0 \/ r \in 65521 .. 65535
            /\ "n" \in CCOf(r) <=> r # 0
            /\ (IF r = 0 THEN 74 ELSE 65610 - r) = Placed - 1
        BY <1>8, <2>14 DEF CCOf
      <3>2. reg'[1] = r /\ reg'[7] = reg[7] /\ cc' = CCOf(r) /\ pc' = 135 /\ mem' = mem
        BY <2>14 DEF PassStep
      <3> HIDE DEF r
      <3> QED BY <2>14, <3>1, <3>2 DEF PassRegisters, OrderedFrom
    <2>15. CASE pc = 135
      BY <1>6, <2>15 DEF PassStep, PassRegisters, OrderedFrom
    <2>16. CASE pc = 136
      BY <1>6, <2>16 DEF PassStep, PassRegisters, OrderedFrom
    <2> QED BY <1>1, <2>1, <2>2, <2>3, <2>4, <2>5, <2>6, <2>7, <2>8, <2>9, <2>10, <2>11,
               <2>12, <2>13, <2>14, <2>15, <2>16
  <1> QED BY <1>1, <1>2, <1>9, <1>10, <1>11, <1>12, <1>13 DEF SortInv

\* So do Continue and steps that change nothing.
LEMMA SortContinue ==
    ASSUME SortInv, Continue \/ UNCHANGED isaVars
    PROVE  SortInv'
  <1>1. UNCHANGED <<pc, reg, cc, mem, hex>> /\ (mode' = mode \/ mode' = "running")
    BY DEF Continue, isaVars
  <1>2. Machine' /\ SortMemory'
    BY <1>1 DEF SortInv, Machine, SortMemory, Holds
  <1>3. MenuRegisters' /\ EntryRegisters' /\ DisplayRegisters'
    BY <1>1 DEF SortInv, MenuRegisters, EntryRegisters, DisplayRegisters
  <1>4. PassRegisters'
    BY <1>1 DEF SortInv, PassRegisters, OrderedFrom, LastIsLargest, Placed
  <1> QED BY <1>1, <1>2, <1>3, <1>4 DEF SortInv

\* An instruction of the sort is one of its four parts.
LEMMA SortExecutes ==
    ASSUME SortInv, mode = "running", Instruction
    PROVE  MenuStep \/ EntryStep \/ PassStep \/ DisplayStep
  <1>1. pc \in 90 .. 154
    BY DEF SortInv
  <1> QED BY <1>1, MenuExecutes, EntryExecutes, PassExecutes, DisplayExecutes

\* The numbers of the image.
LEMMA SortDataValues ==
    /\ SortData[1] = 239  /\ SortData[2] = 27   /\ SortData[3] = 1    /\ SortData[4] = 140
    /\ SortData[5] = 219  /\ SortData[6] = 250  /\ SortData[7] = 71   /\ SortData[8] = 70
    /\ SortData[9] = 31   /\ SortData[10] = 13  /\ SortData[11] = 184 /\ SortData[12] = 3
    /\ SortData[13] = 107 /\ SortData[14] = 78  /\ SortData[15] = 248 /\ SortData[16] = 7
  BY DEF SortData

\* They are where the sort looks for them.
LEMMA NumbersWords ==
    /\ ProgramWord(74) = 239 /\ ProgramWord(75) = 27  /\ ProgramWord(76) = 1
    /\ ProgramWord(77) = 140 /\ ProgramWord(78) = 219 /\ ProgramWord(79) = 250
    /\ ProgramWord(80) = 71  /\ ProgramWord(81) = 70  /\ ProgramWord(82) = 31
    /\ ProgramWord(83) = 13  /\ ProgramWord(84) = 184 /\ ProgramWord(85) = 3
    /\ ProgramWord(86) = 107 /\ ProgramWord(87) = 78  /\ ProgramWord(88) = 248
    /\ ProgramWord(89) = 7
  BY DEF ProgramWord, Programs, Boot, IOTest1, IOTest2, IOTest3, XorTest, RunOnceTest,
         Multiplier, SortData, SortMenu, SortEntry, SortFunction, SortDisplay, AutoCounter

\* So the image has the data of the sort, numbers of ten bits.
LEMMA SortDataLoaded ==
    \A i \in 1 .. 16 : ProgramWord(73 + i) = SortData[i] /\ SortData[i] \in SwitchWord
  <1> SUFFICES ASSUME NEW i \in 1 .. 16
               PROVE  ProgramWord(73 + i) = SortData[i] /\ SortData[i] \in SwitchWord
    OBVIOUS
  <1>1. \/ i = 1 \/ i = 2 \/ i = 3 \/ i = 4 \/ i = 5 \/ i = 6 \/ i = 7 \/ i = 8
        \/ i = 9 \/ i = 10 \/ i = 11 \/ i = 12 \/ i = 13 \/ i = 14 \/ i = 15 \/ i = 16
    OBVIOUS
  <1> QED BY <1>1, SortDataValues, NumbersWords DEF SwitchWord

\* The sort starts with its invariant,
LEMMA SortBoots ==
    ASSUME AfterBoot, pc = 90
    PROVE  SortInv /\ \A i \in 1 .. 16 : mem[73 + i] = SortData[i]
  <1>1. Machine /\ Holds(0 .. 174) /\ mode = "running"
    BY Booted
  <1>2. \A i \in 1 .. 16 : mem[73 + i] = SortData[i] /\ SortData[i] \in SwitchWord
    <2>1. \A i \in 1 .. 16 : 73 + i \in 0 .. 174
      OBVIOUS
    <2> QED BY <1>1, <2>1, SortDataLoaded DEF Holds
  <1>3. \A a \in Numbers : mem[a] \in SwitchWord
    <2> SUFFICES ASSUME NEW a \in Numbers PROVE mem[a] \in SwitchWord
      OBVIOUS
    <2>1. a - 73 \in 1 .. 16 /\ 73 + (a - 73) = a
      BY DEF Numbers
    <2> QED BY <1>2, <2>1
  <1>4. mem[148] = opPSE(2050) /\ 2050 \in LedVector
    BY <1>1, DisplayWords DEF Holds, LedVector
  <1>5. SortMemory
    <2>1. Holds((90 .. 155) \ {148})
      BY <1>1 DEF Holds
    <2> QED BY <1>3, <1>4, <2>1 DEF SortMemory
  <1>6. MenuRegisters /\ EntryRegisters /\ PassRegisters /\ DisplayRegisters
    BY DEF MenuRegisters, EntryRegisters, PassRegisters, DisplayRegisters
  <1> QED BY <1>1, <1>2, <1>5, <1>6 DEF SortInv

\* and every step of the program keeps it.
LEMMA SortOperates ==
    ASSUME SortInv, [Operate]_isaVars
    PROVE  SortInv'
  <1>1. CASE Instruction
    BY <1>1, SortExecutes, MenuInstruction, EntryInstruction, PassInstruction,
       DisplayInstruction DEF Instruction
  <1>2. CASE Continue \/ UNCHANGED isaVars
    BY <1>2, SortContinue
  <1> QED BY <1>1, <1>2 DEF Operate

-----------------------------------------------------------------------------
(* Which numbers there are: while none are entered, those of the image.    *)

Given == {SortData[i] : i \in 1 .. 16}

\* In the middle of an exchange (at 130) R4 has the one the RAM lacks.
SameNumbers ==
    /\ \A a \in Numbers : mem[a] \in Given
    /\ pc # 130 => \A v \in Given : \E a \in Numbers : mem[a] = v
    /\ pc = 130 => /\ reg[4] \in Given
                   /\ \A v \in Given \ {reg[4]} : \E a \in Numbers \ {reg[3]} : mem[a] = v

\* Entry is what the menu calls when the switches show 1.
NotEntered ==
    /\ pc \notin (99 .. 100) \cup (109 .. 118)
    /\ pc \in 96 .. 97 => reg[1] # 1
    /\ pc = 98 => reg[1] # 0

\* Without entry the menu does not get there,
LEMMA NeverEntered ==
    ASSUME 1 \notin SwitchValues, SortInv, NotEntered,
           MenuStep \/ EntryStep \/ PassStep \/ DisplayStep
    PROVE  NotEntered'
  <1> USE DEF Puts, Reads, Pauses, Shows, Stores, GoesTo, Calls, NotEntered
  <1>1. CASE MenuStep /\ pc # 97
    BY <1>1 DEF MenuStep, SortInv, MenuRegisters, Register
  <1>2. CASE MenuStep /\ pc = 97
    <2>1. reg[1] \in SwitchWord /\ reg[1] # 1
      BY <1>2 DEF SortInv, MenuRegisters
    <2>2. (reg[1] - 1) % 65536 # 0
      BY <2>1 DEF SwitchWord
    <2> QED BY <1>2, <2>2 DEF MenuStep
  <1>3. CASE EntryStep
    BY <1>3 DEF EntryStep
  <1>4. CASE PassStep
    BY <1>4 DEF PassStep
  <1>5. CASE DisplayStep
    BY <1>5 DEF DisplayStep
  <1> QED BY <1>1, <1>2, <1>3, <1>4, <1>5

\* and the numbers stay those of the image.
LEMMA NumbersKept ==
    ASSUME SortInv, NotEntered, SameNumbers,
           MenuStep \/ EntryStep \/ PassStep \/ DisplayStep
    PROVE  SameNumbers'
  <1> USE DEF Puts, Reads, Pauses, Shows, Stores, GoesTo, Calls
  <1>1. CASE MenuStep
    <2>1. mem' = mem /\ pc # 130 /\ pc' # 130
      BY <1>1 DEF MenuStep
    <2> QED BY <2>1 DEF SameNumbers
  <1>2. CASE EntryStep
    BY <1>2 DEF EntryStep, NotEntered
  <1>3. CASE DisplayStep
    <2>1. pc # 130 /\ pc' # 130
      BY <1>3 DEF DisplayStep
    <2>2. \A a \in Numbers : a \in 0 .. 174 /\ a # 148
      BY DEF Numbers
    <2>3. \A a \in Numbers : mem'[a] = mem[a]
      <3>1. CASE pc = 150
        <4>1. mem' = [mem EXCEPT ![148] = reg[3]]
          BY <1>3, <3>1 DEF DisplayStep
        <4> QED BY <2>2, <4>1
      <3>2. CASE pc # 150
        <4>1. \A a \in 0 .. 174 : mem'[a] = mem[a]
          BY <1>3, <3>2 DEF DisplayStep
        <4> QED BY <2>2, <4>1
      <3> QED BY <3>1, <3>2
    <2> QED BY <2>1, <2>3 DEF SameNumbers
  <1>4. CASE PassStep /\ pc # 129 /\ pc # 130
    <2>1. mem' = mem /\ pc' # 130
      BY <1>4 DEF PassStep
    <2> QED BY <1>4, <2>1 DEF SameNumbers
  <1>5. pc \in 129 .. 130 =>
            /\ reg[3] \in Numbers /\ reg[3] - 1 \in Numbers /\ reg[3] - 1 # reg[3]
            /\ Numbers \subseteq DOMAIN mem
    <2>1. \A a \in Numbers : a \in 0 .. 174
      BY DEF Numbers
    <2>2. Numbers \subseteq DOMAIN mem
      BY <2>1, Cells DEF SortInv, Machine
    <2> QED BY <2>2 DEF SortInv, PassRegisters, Numbers
  <1>6. CASE PassStep /\ pc = 129
    <2> DEFINE f == reg[3] - 1
               s == reg[3]
    <2>1. /\ mem' = [mem EXCEPT ![f] = mem[s]] /\ pc' = 130 /\ reg' = reg
          /\ reg[4] = mem[f]
      BY <1>6 DEF PassStep, SortInv, PassRegisters
    <2>2. f \in Numbers /\ s \in Numbers /\ f # s /\ Numbers \subseteq DOMAIN mem
      BY <1>5, <1>6
    <2>3. /\ \A a \in Numbers : mem[a] \in Given
          /\ \A v \in Given : \E a \in Numbers : mem[a] = v
      BY <1>6 DEF SameNumbers
    <2> HIDE DEF f
    <2>4. \A a \in Numbers : mem'[a] = IF a = f THEN mem[s] ELSE mem[a]
      BY <2>1, <2>2
    <2>5. ASSUME NEW v \in Given \ {reg[4]}
          PROVE  \E a \in Numbers \ {s} : mem'[a] = v
      <3>1. PICK a \in Numbers : mem[a] = v
        BY <2>3
      <3>2. CASE a = s
        BY <2>2, <2>4, <3>1, <3>2
      <3>3. CASE a # s
        BY <2>1, <2>2, <2>4, <3>1, <3>3
      <3> QED BY <3>2, <3>3
    <2> QED BY <2>1, <2>2, <2>3, <2>4, <2>5 DEF SameNumbers
  <1>7. CASE PassStep /\ pc = 130
    <2> DEFINE s == reg[3]
    <2>1. mem' = [mem EXCEPT ![s] = reg[4]] /\ pc' = 131
      BY <1>7 DEF PassStep
    <2>2. s \in Numbers /\ Numbers \subseteq DOMAIN mem
      BY <1>5, <1>7
    <2>3. /\ \A a \in Numbers : mem[a] \in Given
          /\ reg[4] \in Given
          /\ \A v \in Given \ {reg[4]} : \E a \in Numbers \ {s} : mem[a] = v
      BY <1>7 DEF SameNumbers
    <2> HIDE DEF s
    <2>4. \A a \in Numbers : mem'[a] = IF a = s THEN reg[4] ELSE mem[a]
      BY <2>1, <2>2
    <2>5. ASSUME NEW v \in Given
          PROVE  \E a \in Numbers : mem'[a] = v
      BY <2>2, <2>3, <2>4
    <2> QED BY <2>1, <2>3, <2>4, <2>5 DEF SameNumbers
  <1> QED BY <1>1, <1>2, <1>3, <1>4, <1>6, <1>7

-----------------------------------------------------------------------------
(* What the sort shows and returns. *)

\* At the pause of the display function.
LEMMA SortInvShows == SortInv => DisplayShows
  <1> SUFFICES ASSUME SortInv, PausedAfter(148)
               PROVE  reg[1] \in 0 .. 15 /\ hex = SortArray[reg[1]]
    BY DEF DisplayShows
  <1>1. reg[1] \in 0 .. 15 /\ hex = mem[74 + reg[1]]
    BY DEF SortInv, DisplayRegisters, PausedAfter
  <1> QED BY <1>1 DEF SortArray

\* The sixteen numbers are in order.
InOrder == \A i \in 0 .. 14 : SortArray[i] <= SortArray[i + 1]

SortOrders == mode = "running" /\ pc = 104 => InOrder

\* The sort function returns with the numbers in order,
LEMMA SortInvOrders == SortInv => SortOrders
  <1> SUFFICES ASSUME SortInv, pc = 104, NEW i \in 0 .. 14
               PROVE  SortArray[i] <= SortArray[i + 1]
    BY DEF SortOrders, InOrder
  <1>1. OrderedFrom(74)
    BY DEF SortInv, PassRegisters
  <1>2. 74 + i \in Numbers /\ 74 + (i + 1) \in Numbers /\ 74 + i < 74 + (i + 1)
        /\ 74 <= 74 + (i + 1) /\ i \in 0 .. 15 /\ i + 1 \in 0 .. 15
    BY DEF Numbers
  <1>3. mem[74 + i] <= mem[74 + (i + 1)]
    BY <1>1, <1>2 DEF OrderedFrom
  <1> QED BY <1>2, <1>3 DEF SortArray

\* and all of them there.
LEMMA SameNumbersSort == SortInv /\ SameNumbers => SortSorts
  <1> SUFFICES ASSUME SortInv, SameNumbers, mode = "running", pc = 104
               PROVE  /\ InOrder
                      /\ {SortArray[i] : i \in 0 .. 15} = Given
    BY DEF SortSorts, InOrder, Given
  <1>1. InOrder
    BY SortInvOrders DEF SortOrders
  <1>2. /\ \A i \in 0 .. 15 : 74 + i \in Numbers /\ SortArray[i] = mem[74 + i]
        /\ \A a \in Numbers : a - 74 \in 0 .. 15 /\ 74 + (a - 74) = a
    BY DEF SortArray, Numbers
  <1>3. \A i \in 0 .. 15 : SortArray[i] \in Given
    BY <1>2 DEF SameNumbers
  <1>4. ASSUME NEW v \in Given PROVE \E i \in 0 .. 15 : SortArray[i] = v
    <2>1. PICK a \in Numbers : mem[a] = v
      BY DEF SameNumbers
    <2> QED BY <1>2, <2>1
  <1> QED BY <1>1, <1>3, <1>4

-----------------------------------------------------------------------------
(* The three programs together. *)

ImageInv == XorInv \/ MultiplierInv \/ SortInv

\* It holds after the boot code whichever program is chosen, and each program
\* stays in its part of the image.
LEMMA ImageInvStarts == AfterBoot => ImageInv
  <1> SUFFICES ASSUME AfterBoot PROVE ImageInv
    OBVIOUS
  <1>1. CASE pc = 20
    BY <1>1, Booted DEF XorInv, Holds, XorRegisters, ImageInv
  <1>2. CASE pc = 49
    BY <1>2, Booted DEF MultiplierInv, Holds, MultiplierRegisters, ImageInv
  <1>3. CASE pc = 90
    BY <1>3, SortBoots DEF ImageInv
  <1> QED BY <1>1, <1>2, <1>3, StartsAssumption DEF AfterBoot

\* Every step keeps it.
LEMMA ImageInvKept == ImageInv /\ [Operate]_isaVars => ImageInv'
  <1> SUFFICES ASSUME ImageInv, [Operate]_isaVars PROVE ImageInv'
    OBVIOUS
  <1>1. CASE XorInv
    <2>1. CASE Instruction
      BY <1>1, <2>1, XorExecutes, XorInstruction DEF Instruction, ImageInv
    <2>2. CASE Continue \/ UNCHANGED isaVars
      BY <1>1, <2>2, XorContinue DEF ImageInv
    <2> QED BY <2>1, <2>2 DEF Operate
  <1>2. CASE MultiplierInv
    <2>1. CASE Instruction
      BY <1>2, <2>1, MultiplierExecutes, MultiplierInstruction DEF Instruction, ImageInv
    <2>2. CASE Continue \/ UNCHANGED isaVars
      BY <1>2, <2>2, MultiplierContinue DEF ImageInv
    <2> QED BY <2>1, <2>2 DEF Operate
  <1>3. CASE SortInv
    BY <1>3, SortOperates DEF ImageInv
  <1> QED BY <1>1, <1>2, <1>3 DEF ImageInv

\* It implies what each program must show.
LEMMA ImageInvShows == ImageInv => XorShown /\ ProductShown /\ DisplayShows /\ SortOrders
  <1>1. XorInv => pc \in 20 .. 35
    BY DEF XorInv
  <1>2. MultiplierInv => pc \in 49 .. 72
    BY DEF MultiplierInv
  <1>3. SortInv => pc \in 90 .. 154
    BY DEF SortInv
  <1>4. /\ pc \notin 20 .. 35 => XorShown
        /\ pc \notin 49 .. 72 => ProductShown
        /\ pc \notin 90 .. 154 => DisplayShows /\ SortOrders
    BY DEF XorShown, ProductShown, DisplayShows, SortOrders, PausedAfter
  <1>5. pc \in 20 .. 35 => pc \notin 49 .. 72 /\ pc \notin 90 .. 154
    OBVIOUS
  <1>6. pc \in 49 .. 72 => pc \notin 20 .. 35 /\ pc \notin 90 .. 154
    OBVIOUS
  <1>7. pc \in 90 .. 154 => pc \notin 20 .. 35 /\ pc \notin 49 .. 72
    OBVIOUS
  <1> QED BY <1>1, <1>2, <1>3, <1>4, <1>5, <1>6, <1>7, XorInvShows, MultiplierInvShows,
             SortInvShows, SortInvOrders DEF ImageInv

\* The inputs of the XOR test may be any two settings of the switches: at
\* every checkpoint 34 each bit of the displays is on exactly when one of the
\* inputs has it.
THEOREM XorAlwaysShown == ProgramSpec => []XorShown
  <1>1. ImageInv => XorShown
    BY ImageInvShows
  <1> QED BY <1>1, ImageInvStarts, ImageInvKept, PTL DEF ProgramSpec

\* Whatever the switches show and the branches leave in the condition codes,
\* the displays show the product at every checkpoint 71.
THEOREM ProductAlwaysShown == ProgramSpec => []ProductShown
  <1>1. ImageInv => ProductShown
    BY ImageInvShows
  <1> QED BY <1>1, ImageInvStarts, ImageInvKept, PTL DEF ProgramSpec

\* Whatever numbers were entered and sorted, each pause of the display
\* function shows the number it is at.
THEOREM NumbersAlwaysShown == ProgramSpec => []DisplayShows
  <1>1. ImageInv => DisplayShows
    BY ImageInvShows
  <1> QED BY <1>1, ImageInvStarts, ImageInvKept, PTL DEF ProgramSpec

\* Whatever numbers were entered, the sort function returns with them in order.
THEOREM AlwaysOrdered == ProgramSpec => []SortOrders
  <1>1. ImageInv => SortOrders
    BY ImageInvShows
  <1> QED BY <1>1, ImageInvStarts, ImageInvKept, PTL DEF ProgramSpec

\* With the numbers of the image (the switches never choose the entry of
\* others) the sort function returns with them in order and all of them there.
THEOREM AlwaysSorted ==
    ASSUME 1 \notin SwitchValues
    PROVE  ProgramSpec => []SortSorts
  <1> DEFINE Sorting == SortInv /\ NotEntered /\ SameNumbers
             Inv == XorInv \/ MultiplierInv \/ Sorting
  <1>1. AfterBoot => Inv
    <2> SUFFICES ASSUME AfterBoot PROVE Inv
      OBVIOUS
    <2>1. CASE pc # 90
      BY <2>1, ImageInvStarts, StartsAssumption
         DEF ImageInv, SortInv, AfterBoot, XorInv, MultiplierInv
    <2>2. CASE pc = 90
      <3>1. SortInv /\ \A i \in 1 .. 16 : mem[73 + i] = SortData[i]
        BY <2>2, SortBoots
      <3>2. \A a \in Numbers : a - 73 \in 1 .. 16 /\ 73 + (a - 73) = a
        BY DEF Numbers
      <3>3. \A i \in 1 .. 16 : 73 + i \in Numbers
        BY DEF Numbers
      <3>4. \A a \in Numbers : mem[a] \in Given
        BY <3>1, <3>2 DEF Given
      <3>5. \A v \in Given : \E a \in Numbers : mem[a] = v
        BY <3>1, <3>3 DEF Given
      <3> QED BY <2>2, <3>1, <3>4, <3>5 DEF SameNumbers, NotEntered
    <2> QED BY <2>1, <2>2
  <1>2. Inv /\ [Operate]_isaVars => Inv'
    <2>1. ASSUME Sorting, Instruction PROVE Sorting'
      <3>1. MenuStep \/ EntryStep \/ PassStep \/ DisplayStep
        BY <2>1, SortExecutes DEF Instruction
      <3> QED BY <2>1, <3>1, SortOperates, NeverEntered, NumbersKept DEF Operate
    <2>2. ASSUME Sorting, Continue \/ UNCHANGED isaVars PROVE Sorting'
      <3>1. UNCHANGED <<pc, reg, mem>>
        BY <2>2 DEF Continue, isaVars
      <3> QED BY <2>2, <3>1, SortContinue DEF NotEntered, SameNumbers
    <2>3. ASSUME XorInv, [Operate]_isaVars PROVE XorInv'
      BY <2>3, XorExecutes, XorInstruction, XorContinue DEF Operate, Instruction
    <2>4. ASSUME MultiplierInv, [Operate]_isaVars PROVE MultiplierInv'
      BY <2>4, MultiplierExecutes, MultiplierInstruction, MultiplierContinue
         DEF Operate, Instruction
    <2> QED BY <2>1, <2>2, <2>3, <2>4 DEF Operate
  <1>3. Inv => SortSorts
    <2>1. XorInv \/ MultiplierInv => SortSorts
      BY DEF XorInv, MultiplierInv, SortSorts
    <2> QED BY <2>1, SameNumbersSort
  <1> QED BY <1>1, <1>2, <1>3, PTL DEF ProgramSpec
=============================================================================
