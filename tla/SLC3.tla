-------------------------------- MODULE SLC3 --------------------------------
(***************************************************************************)
(* slc3.sv: the SLC-3 processor, i.e. the ISDU, the bus, the registers,    *)
(* the multiplexers and ALU between them, the branch logic (BEN.sv) and    *)
(* the memory-mapped I/O controller (Mem2IO.sv).  One step is one rising   *)
(* clock edge, and every always_ff block has its own operator: the new     *)
(* value of its register from the values before the edge.                  *)
(***************************************************************************)
EXTENDS Word16, ISDU

VARIABLES
    PC, MAR, MDR, IR,   \* REGISTER instances
    register,           \* the register file, R0..R7
    BEN,                \* BEN.sv: Dout, the branch decision
    cc,                 \* BEN.sv: {n_output, z_output, p_output}
    hex_data            \* Mem2IO.sv: what the hex displays show

cpuVars == <<State, PC, MAR, MDR, IR, register, BEN, cc, hex_data>>

Reg == 0 .. 7
IOAddress == 65535

-----------------------------------------------------------------------------
(* The combinational datapath. *)

SR1MUX_Output == IF SR1MUX THEN IR8to6(IR) ELSE IR11to9(IR)
DRMUX_Output  == IF DRMUX THEN 7 ELSE IR11to9(IR)

SR1 == register[SR1MUX_Output]
SR2 == register[IR2to0(IR)]
SR2MUX_Output == IF IR5(IR) THEN IRSEXT5(IR) ELSE SR2

address1 == IF ADDR1MUX THEN SR1 ELSE PC
address2 == CASE ADDR2MUX = 0 -> 0
              [] ADDR2MUX = 1 -> IRSEXT6(IR)
              [] ADDR2MUX = 2 -> IRSEXT9(IR)
              [] OTHER        -> IRSEXT11(IR)

ALU(ALUcontrolpins, A, B) ==
    CASE ALUcontrolpins = 0 -> Plus(A, B)
      [] ALUcontrolpins = 1 -> And(A, B)
      [] ALUcontrolpins = 2 -> Complement(A)
      [] OTHER              -> A

\* The bus.  When no gate is open it carries floating: slc3.sv assigns x,
\* which the build may turn into any word.
BusDriven == GatePC \/ GateMARMUX \/ GateMDR \/ GateALU
BUS(floating) == IF GatePC THEN PC
                 ELSE IF GateMARMUX THEN Plus(address1, address2)
                 ELSE IF GateMDR THEN MDR
                 ELSE IF GateALU THEN ALU(ALUK, SR1, SR2MUX_Output)
                 ELSE floating

PCREG_IN(floating) == CASE PCMUX = 0 -> Plus(PC, 1)
                        [] PCMUX = 1 -> BUS(floating)
                        [] OTHER     -> Plus(address1, address2)

\* Mem2IO: a read of xFFFF gives the switches, any other read the RAM.
Data_to_CPU(Switches, Data_from_SRAM) ==
    IF ~Mem_WE /\ Mem_OE
    THEN IF MAR = IOAddress THEN Switches ELSE Data_from_SRAM
    ELSE 0

MDRREG_IN(floating, Switches, Data_from_SRAM) ==
    IF Mem_OE THEN Data_to_CPU(Switches, Data_from_SRAM) ELSE BUS(floating)

\* The LEDs show IR[9:0] while the processor is halted or paused.
LED == IF LD_LED THEN IR9to0(IR) ELSE 0

-----------------------------------------------------------------------------
(* The registers. *)

REGISTER(Reset, Load, D, Data_Out) ==
    IF Reset THEN 0 ELSE IF Load THEN D ELSE Data_Out

REGISTER_FILE_Clock(Reset, input_fromBUS) ==
    register' = IF Reset THEN [i \in Reg |-> 0]
                ELSE IF LD_REG THEN [register EXCEPT ![DRMUX_Output] = input_fromBUS]
                ELSE register

\* Reset clears Dout only; LD_CC takes the condition of whatever is on the
\* bus, also while Reset is on.
BEN_Clock(Reset, bus_in) ==
    /\ BEN' = IF Reset THEN FALSE
              ELSE IF LD_BEN THEN BranchMask(IR) \cap cc # {}
              ELSE BEN
    /\ cc' = IF LD_CC THEN CCOf(bus_in) ELSE cc

Mem2IO_Clock(Reset) ==
    hex_data' = IF Reset THEN 0
                ELSE IF Mem_WE /\ MAR = IOAddress THEN MDR
                ELSE hex_data

-----------------------------------------------------------------------------
(* Power-up (every flip-flop of the device starts at 0) and a clock edge.  *)

CPU_Init ==
    /\ State = "Halted"
    /\ PC = 0 /\ MAR = 0 /\ MDR = 0 /\ IR = 0
    /\ register = [i \in Reg |-> 0]
    /\ BEN = FALSE
    /\ cc = {}
    /\ hex_data = 0

CPU_Clock(Reset, Run, Continue, Switches, Data_from_SRAM, floating) ==
    /\ ISDU_Clock(Reset, Run, Continue, IRopcode(IR), BEN)
    /\ PC'  = REGISTER(Reset, LD_PC, PCREG_IN(floating), PC)
    /\ MAR' = REGISTER(Reset, LD_MAR, BUS(floating), MAR)
    /\ MDR' = REGISTER(Reset, LD_MDR,
                       MDRREG_IN(floating, Switches, Data_from_SRAM), MDR)
    /\ IR'  = REGISTER(Reset, LD_IR, BUS(floating), IR)
    /\ REGISTER_FILE_Clock(Reset, BUS(floating))
    /\ BEN_Clock(Reset, BUS(floating))
    /\ Mem2IO_Clock(Reset)
=============================================================================
