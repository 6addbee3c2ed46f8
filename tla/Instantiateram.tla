--------------------------- MODULE Instantiateram ---------------------------
(***************************************************************************)
(* Instantiateram.sv: the loader that copies the program image into the    *)
(* RAM after a reset, one word per clock.                                  *)
(***************************************************************************)
EXTENDS Word16

CONSTANTS
    LoaderLast,     \* the last address it writes, 255 in the code
    Image           \* the words it writes

ASSUME LoaderAssumption ==
    /\ LoaderLast \in Nat /\ LoaderLast < 65535
    /\ Image \in [0 .. LoaderLast -> Word]

VARIABLES state, address

loaderVars == <<state, address>>

LoaderStates == {"idle", "mem_write", "done"}

wren == state = "mem_write"
init_data == IF address \in 0 .. LoaderLast THEN Image[address] ELSE 0

\* The reset is asynchronous: its level after the edge, resetNext, already
\* holds the two registers.
Loader_Init ==
    /\ state = "mem_write"
    /\ address = 0

\* Faulty variant: done has no successor.
next_state_Stuck ==
    IF state = "mem_write"
    THEN IF address = LoaderLast THEN "done" ELSE "mem_write"
    ELSE state

next_state ==
    IF state = "mem_write"
    THEN IF address = LoaderLast THEN "done" ELSE "mem_write"
    ELSE "idle"

Loader_Clock(Reset, resetNext) ==
    /\ state' = IF Reset \/ resetNext THEN "mem_write" ELSE next_state
    /\ address' = IF Reset \/ resetNext THEN 0
                  ELSE IF wren THEN Plus(address, 1)
                  ELSE address
=============================================================================
