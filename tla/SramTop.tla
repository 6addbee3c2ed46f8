------------------------------ MODULE SramTop -------------------------------
(***************************************************************************)
(* slc3_sramtop.sv: the machine that runs on the board.  The processor     *)
(* (SLC3), the loader (Instantiateram), the RAM (Ram) and the flip-flops   *)
(* of the push buttons (Buttons) share one clock.                          *)
(*                                                                         *)
(* A step of Next is a rising clock edge.  What comes from outside is      *)
(* chosen anew at every edge: the button levels, the switches, the word a  *)
(* floating bus carries and the word a read during a write returns.        *)
(***************************************************************************)
EXTENDS SLC3, Ram, Instantiateram, Buttons

CONSTANTS
    SwitchValues,   \* what the ten switches may be set to
    FloatingWords,  \* what an undriven bus may carry
    DontCareWords   \* what a read during a write may return

ASSUME SramTopAssumption ==
    /\ SwitchValues \subseteq SwitchWord
    /\ FloatingWords \subseteq Word
    /\ DontCareWords \subseteq Word
    /\ LoaderLast < RamWords
    /\ RamWords <= 65536

\* History: the operator has not started the processor while the loader was
\* at work, or has reset the machine since.
VARIABLE patient

vars == <<State, PC, MAR, MDR, IR, register, BEN, cc, hex_data,
          mem, latch, q, state, address, RUN_S, CONTINUE_S, patient>>

we_select == wren
ramWE == we_select \/ Mem_WE
Data_to_SRAM == IF we_select THEN init_data ELSE MDR

\* Faulty variant: the processor has the address bus when it uses the RAM.
ADDR_CPUFirst == IF Mem_OE \/ Mem_WE THEN MAR ELSE address

ADDR == IF we_select THEN address ELSE MAR

-----------------------------------------------------------------------------

Init ==
    /\ CPU_Init
    /\ Ram_Init
    /\ Loader_Init
    /\ Buttons_Init         \* so the machine powers up in reset
    /\ patient = TRUE

\* The operator presses what he likes.  He is patient as long as Run is not
\* down alone while the loader is at work: after a reset Run is to be released
\* first, or together with Continue.
Operator(run, continue) ==
    /\ Sample(run, continue)
    /\ patient' = ((patient \/ Reset_ah) /\ (~run /\ continue => state = "idle"))

ClockEdge(switches, floating, dontcare) ==
    /\ CPU_Clock(Reset_ah, Run_ah, Continue_ah, switches, q, floating)
    /\ Ram_Clock(ADDR, Data_to_SRAM, Mem_OE, ramWE, dontcare)
    /\ Loader_Clock(Reset_ah, Reset_ah')

Next ==
    \E run, continue \in BOOLEAN, switches \in SwitchValues,
       floating \in FloatingWords, dontcare \in DontCareWords :
        Operator(run, continue) /\ ClockEdge(switches, floating, dontcare)

\* The oscillator never stops.
Spec == Init /\ [][Next]_vars /\ WF_vars(Next)

-----------------------------------------------------------------------------
(* Properties *)

\* Every register holds a value it has bits for.
TypeOK ==
    /\ State \in States
    /\ PC \in Word /\ MAR \in Word /\ MDR \in Word /\ IR \in Word
    /\ register \in [Reg -> Word]
    /\ BEN \in BOOLEAN
    /\ cc \subseteq Flag
    /\ hex_data \in Word
    /\ mem \in [RamAddress -> Word]
    /\ latch \in Word /\ q \in Word
    /\ state \in LoaderStates
    /\ address \in 0 .. LoaderLast + 1
    /\ wren => address <= LoaderLast
    /\ RUN_S \in BOOLEAN /\ CONTINUE_S \in BOOLEAN
    /\ patient \in BOOLEAN

ImageInRam == \A a \in 0 .. LoaderLast : mem[a] = Image[a]

\* A processor that waits to be started finds the whole image in the RAM,
\* whatever resets, stores of an earlier run and restarts of the loader came
\* before: each reset starts the copy again and no store of the processor
\* gets between the words the loader has written.
ImageReady ==
    /\ state = "mem_write" => \A a \in 0 .. address - 1 : mem[a] = Image[a]
    /\ state = "done" => ImageInRam
    /\ State = "Halted" /\ state = "idle" => ImageInRam

\* The four wait states outlast the RAM's two cycles: when the ISDU gates MDR
\* onto the bus as an instruction (S_35) or as data (S_27), MDR is the word
\* that the RAM now holds at MAR, or the switches.
ReadsSettled ==
    patient /\ State \in {"S_35", "S_27"} =>
        IF MAR = IOAddress THEN MDR \in SwitchValues ELSE MDR = mem[Cell(MAR)]

\* A patient operator's processor and the loader never use the RAM at the
\* same time: once the processor has left Halted only a reset wakes the
\* loader, and the same reset is halting the processor.
OneRamMaster == patient /\ State # "Halted" /\ ~Reset_ah => state = "idle"

\* What makes ReadsSettled inductive: how far the read has come in each wait
\* state, and what the buttons say about the loader.
ReadPipeline ==
    /\ Reset_ah => state = "mem_write"
    /\ patient =>
        /\ Run_ah /\ ~Reset_ah => state = "idle"
        /\ State \in (FetchWait \cup LoadWait) \ {"S_33_1", "S_25_1"} =>
               latch = mem[Cell(MAR)]
        /\ State \in {"S_33_3", "S_33_4", "S_25_3", "S_25_4"} => q = mem[Cell(MAR)]

ReadInv == TypeOK /\ ReadPipeline /\ OneRamMaster /\ ReadsSettled

\* The image's NO_OP, a branch that is never taken, changes nothing but PC.
NoOpChangesNothing ==
    [][ State = "S_0" /\ IR = 0 /\ ~Reset_ah =>
          UNCHANGED <<register, cc, hex_data, mem>> ]_vars

\* The sequencer never gets stuck inside an instruction.
InstructionsEnd == []<>(State \in {"S_18", "Halted"} \cup Pauses)

\* Unless reset again, the loader finishes.
LoadingEnds == <>[]~Reset_ah => <>[](state = "idle")

\* An operator who keeps pressing and releasing Continue gets past a pause.
PausesEnd == []<>Continue_ah /\ []<>~Continue_ah => []<>(State \notin Pauses)
=============================================================================
