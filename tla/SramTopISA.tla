----------------------------- MODULE SramTopISA -----------------------------
(***************************************************************************)
(* The machine on the board implements the instruction set.                *)
(***************************************************************************)
EXTENDS SramTop, ISAView

\* While the loader is at work the memory is already as it will leave it.
WithImage(m) == [a \in RamAddress |-> IF a <= LoaderLast THEN Image[a] ELSE m[a]]
absMem == IF state = "idle" THEN mem ELSE WithImage(mem)

ISA == INSTANCE LC3ISA WITH
          mode <- absMode, pc <- absPC, reg <- absReg, cc <- absCC,
          mem <- absMem, hex <- absHex, led <- absLED

\* From power-up and from every reset on, for as long as the operator is
\* patient, a step of the machine is a step of the instruction set or shows
\* nothing: no instruction reads a stale word, loses a store or takes effect
\* twice, wherever resets and buttons fall.
ImplementsISA == ISA!Init /\ [][patient' => ISA!Next]_(ISA!isaVars)

\* ... and no instruction is left unfinished for ever but by a reset.
InstructionsTakeEffect == <>[]patient => ISA!Progress
=============================================================================
