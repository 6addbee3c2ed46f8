------------------------------ MODULE Buttons -------------------------------
(***************************************************************************)
(* synchronizers.sv and the button logic that slc3_sramtop.sv and          *)
(* slc3_testtop.sv share: two active-low push buttons, one flip-flop each. *)
(***************************************************************************)

VARIABLES RUN_S, CONTINUE_S     \* the button flip-flops, low when pressed

Run_ah == ~RUN_S
Continue_ah == ~CONTINUE_S
Reset_ah == ~RUN_S /\ ~CONTINUE_S

Buttons_Init == RUN_S = FALSE /\ CONTINUE_S = FALSE     \* both pressed: in reset

\* A clock edge: the flip-flops take the levels the buttons have.
Sample(run, continue) == RUN_S' = run /\ CONTINUE_S' = continue
=============================================================================
