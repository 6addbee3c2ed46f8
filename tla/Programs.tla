------------------------------ MODULE Programs ------------------------------
(***************************************************************************)
(* The programs of the image, run by the instruction set: what the ones    *)
(* that compute something must show.  The machine starts where the boot    *)
(* code jumps with the switches in Starts; the operator only presses       *)
(* Continue and sets the switches (the buttons and resets are LC3ISA's and *)
(* SramTop's subject).                                                     *)
(***************************************************************************)
EXTENDS LC3ISA, ProgramImage

CONSTANT Starts     \* the programs to run, by the address they start at

ASSUME ImageAssumption ==
    /\ LoaderLast \in 174 .. RamWords - 1
    /\ \A a \in 0 .. LoaderLast : Image[a] = ProgramWord(a)

\* The RAM has room for the word that stores to xFFFF fall on.
ASSUME RoomAssumption ==
    /\ RamWords \in Nat /\ RamWords > 174 /\ RamWords <= 65536
    /\ Cell(IOAddress) > 174

ASSUME SwitchesAssumption == SwitchValues \subseteq SwitchWord

ASSUME StartsAssumption == Starts \subseteq {20, 49, 90}

AfterBoot ==
    /\ mode = "running"
    /\ pc \in Starts
    /\ reg = [[r \in 0 .. 7 |-> 0] EXCEPT ![1] = pc]
    /\ cc = {"p"}
    /\ mem = Loaded([a \in 0 .. RamWords - 1 |-> 0])
    /\ hex = 0
    /\ led = 0

Operate == Instruction \/ Continue

ProgramSpec == AfterBoot /\ [][Operate]_isaVars /\ WF_isaVars(Operate)

PausedAfter(a) == mode = "paused" /\ pc = a + 1

\* The low byte of the first operand, as a signed number; the multiplier has
\* shifted it left eight times by then.
SignedOperand == LET low == reg[1] \div 256 IN IF low < 128 THEN low ELSE low - 256

\* Multiplier (at 49): at its last checkpoint (71) the displays show the 16-bit
\* product of the first operand, taken as a signed byte, and the second,
\* whatever condition codes its branches leave behind.
ProductShown == PausedAfter(71) => hex = (SignedOperand * reg[2]) % 65536

\* The multiplier reads, computes and shows again and again: no operand makes
\* its loop run on.
MultiplierReturns == pc = 49 => []<>PausedAfter(71)

BitWeights == {1, 2, 4, 8, 16, 32, 64, 128, 256, 512, 1024, 2048, 4096, 8192,
               16384, 32768}

\* XOR test: at checkpoint 34 the displays show the exclusive or of the two
\* inputs, computed from ANDs and NOTs only.
XorShown ==
    PausedAfter(34) =>
        \A w \in BitWeights : Bit(hex, w) = 1 <=> Bit(reg[1], w) # Bit(reg[2], w)

SortArray == [i \in 0 .. 15 |-> mem[74 + i]]

\* Bubble sort: when the sort function has returned (to 104) the sixteen
\* numbers are in order and are the numbers there were before.
SortSorts ==
    mode = "running" /\ pc = 104 =>
        /\ \A i \in 0 .. 14 : SortArray[i] <= SortArray[i + 1]
        /\ {SortArray[i] : i \in 0 .. 15} = {SortData[i] : i \in 1 .. 16}

\* The display function pauses sixteen times, once per number, with that
\* number on the displays, although it rewrites its own pause instruction.
DisplayShows ==
    PausedAfter(148) => reg[1] \in 0 .. 15 /\ hex = SortArray[reg[1]]

\* The menu is always reached again: the calls return to it, R6 still points
\* at the numbers, and no stray word is executed on the way.
MenuReturns == pc = 90 => []<>PausedAfter(94)
=============================================================================
