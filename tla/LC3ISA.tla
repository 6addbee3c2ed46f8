------------------------------- MODULE LC3ISA -------------------------------
(***************************************************************************)
(* What the SLC-3 promises to the programs it runs: one atomic step per    *)
(* instruction, with the meaning the comments of SLC3_2.sv give to each    *)
(* opcode.  SramTopISA shows that the clocked machine implements it.       *)
(***************************************************************************)
EXTENDS Word16

CONSTANTS RamWords, LoaderLast, Image, SwitchValues, FloatingWords

VARIABLES
    mode,       \* "reset", "halted", "running" or "paused"
    pc,         \* the address of the next instruction
    reg,        \* R0..R7
    cc,         \* the condition codes that are on
    mem,        \* the RAM
    hex,        \* the hex displays
    led         \* the LEDs

isaVars == <<mode, pc, reg, cc, mem, hex, led>>

IOAddress == 65535
Cell(addr) == addr % RamWords

\* The program image laid over a memory.
Loaded(m) == [a \in 0 .. RamWords - 1 |-> IF a <= LoaderLast THEN Image[a] ELSE m[a]]

\* What a read of addr may return.
ReadSet(addr) == IF addr = IOAddress THEN SwitchValues ELSE {mem[Cell(addr)]}

TypeOK ==
    /\ mode \in {"reset", "halted", "running", "paused"}
    /\ pc \in Word
    /\ reg \in [0 .. 7 -> Word]
    /\ cc \subseteq Flag
    /\ mem \in [0 .. RamWords - 1 -> Word]
    /\ hex \in Word
    /\ led \in 0 .. 1023

-----------------------------------------------------------------------------
(* One action per kind of instruction; ir is the instruction word. *)

Advance == pc' = Plus(pc, 1)

WriteResult(d, v) ==
    /\ reg' = [reg EXCEPT ![d] = v]
    /\ cc' = CCOf(v)
    /\ Advance
    /\ UNCHANGED <<mode, mem, hex, led>>

Operand1(ir) == reg[IR8to6(ir)]
Operand2(ir) == IF IR5(ir) THEN IRSEXT5(ir) ELSE reg[IR2to0(ir)]

ADD(ir) == /\ IRopcode(ir) = 1
           /\ WriteResult(IR11to9(ir), Plus(Operand1(ir), Operand2(ir)))
AND(ir) == /\ IRopcode(ir) = 5
           /\ WriteResult(IR11to9(ir), And(Operand1(ir), Operand2(ir)))
NOT(ir) == /\ IRopcode(ir) = 9
           /\ WriteResult(IR11to9(ir), Complement(Operand1(ir)))

EffectiveAddress(ir) == Plus(reg[IR8to6(ir)], IRSEXT6(ir))

LDR(ir) == /\ IRopcode(ir) = 6
           /\ \E v \in ReadSet(EffectiveAddress(ir)) : WriteResult(IR11to9(ir), v)

\* A store to xFFFF shows on the displays, and also lands in the RAM word
\* whose address is what is left of xFFFF there.
Stored(ir) == [mem EXCEPT ![Cell(EffectiveAddress(ir))] = reg[IR11to9(ir)]]

STR(ir) == /\ IRopcode(ir) = 7
           /\ mem' = Stored(ir)
           /\ hex' = IF EffectiveAddress(ir) = IOAddress THEN reg[IR11to9(ir)] ELSE hex
           /\ Advance
           /\ UNCHANGED <<mode, reg, cc, led>>

\* Faulty variant: the link register points at the call itself.
JSR_LinkSelf(ir) == /\ IRopcode(ir) = 4
                    /\ reg' = [reg EXCEPT ![7] = pc]
                    /\ pc' = Plus(Plus(pc, 1), IRSEXT11(ir))
                    /\ UNCHANGED <<mode, cc, mem, hex, led>>

JSR(ir) == /\ IRopcode(ir) = 4
           /\ reg' = [reg EXCEPT ![7] = Plus(pc, 1)]
           /\ pc' = Plus(Plus(pc, 1), IRSEXT11(ir))
           /\ UNCHANGED <<mode, cc, mem, hex, led>>

JMP(ir) == /\ IRopcode(ir) = 12
           /\ pc' = reg[IR8to6(ir)]
           /\ UNCHANGED <<mode, reg, cc, mem, hex, led>>

\* Faulty variant: the offset of a taken branch counts from one word too far.
BR_TooFar(ir) == /\ IRopcode(ir) = 0
                 /\ pc' = IF BranchMask(ir) \cap cc # {}
                          THEN Plus(Plus(pc, 2), IRSEXT9(ir)) ELSE Plus(pc, 1)
                 /\ \E v \in FloatingWords : cc' = CCOf(v)
                 /\ UNCHANGED <<mode, reg, mem, hex, led>>

\* The condition codes a branch leaves behind are those of whatever the
\* undriven bus carries.
BR(ir) == /\ IRopcode(ir) = 0
          /\ pc' = IF BranchMask(ir) \cap cc # {}
                   THEN Plus(Plus(pc, 1), IRSEXT9(ir)) ELSE Plus(pc, 1)
          /\ \E v \in FloatingWords : cc' = CCOf(v)
          /\ UNCHANGED <<mode, reg, mem, hex, led>>

PSE(ir) == /\ IRopcode(ir) = 13
           /\ mode' = "paused"
           /\ led' = IR9to0(ir)
           /\ Advance
           /\ UNCHANGED <<reg, cc, mem, hex>>

\* An opcode the SLC-3 does not have is skipped.
Skip(ir) == /\ IRopcode(ir) \notin {0, 1, 4, 5, 6, 7, 9, 12, 13}
            /\ Advance
            /\ UNCHANGED <<mode, reg, cc, mem, hex, led>>

Instruction ==
    /\ mode = "running"
    /\ \E ir \in ReadSet(pc) :
          \/ ADD(ir) \/ AND(ir) \/ NOT(ir)
          \/ LDR(ir) \/ STR(ir)
          \/ JSR(ir) \/ JMP(ir) \/ BR(ir)
          \/ PSE(ir) \/ Skip(ir)

-----------------------------------------------------------------------------
(* The buttons. *)

\* The memories a reset may find: a store in flight has happened or not.
InFlight == {mem} \cup {Stored(ir) : ir \in {i \in ReadSet(pc) :
                                     mode = "running" /\ IRopcode(i) = 7}}

Reset == /\ mode' = "reset"
         /\ pc' = 0
         /\ reg' = [r \in 0 .. 7 |-> 0]
         /\ cc' = {}
         /\ \E m \in InFlight : mem' = Loaded(m)
         /\ hex' = 0
         /\ led' = 0

\* The condition codes have no reset: what they hold afterwards is not
\* promised.
Release == /\ mode = "reset"
           /\ mode' = "halted"
           /\ cc' \in SUBSET Flag
           /\ UNCHANGED <<pc, reg, mem, hex, led>>

Run == /\ mode = "halted"
       /\ mode' = "running"
       /\ UNCHANGED <<pc, reg, cc, mem, hex, led>>

Continue == /\ mode = "paused"
            /\ mode' = "running"
            /\ led' = 0
            /\ UNCHANGED <<pc, reg, cc, mem, hex>>

-----------------------------------------------------------------------------

Init == /\ mode = "reset"
        /\ pc = 0
        /\ reg = [r \in 0 .. 7 |-> 0]
        /\ cc = {}
        /\ mem = Loaded([a \in 0 .. RamWords - 1 |-> 0])
        /\ hex = 0
        /\ led = 0

Next == Instruction \/ Reset \/ Release \/ Run \/ Continue

Safety == Init /\ [][Next]_isaVars
Progress == WF_isaVars(Instruction)     \* a running program goes on

Spec == Safety /\ Progress
=============================================================================
