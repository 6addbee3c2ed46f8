--------------------------- MODULE PauseHandshake ---------------------------
(***************************************************************************)
(* The Continue button and the pauses: SramTop with a history variable     *)
(* that remembers whether Continue has been pressed anew since the last    *)
(* pause was passed.                                                       *)
(***************************************************************************)
EXTENDS SramTop

VARIABLE pressed    \* Continue has gone down since a pause was last passed

handshakeVars == <<vars, pressed>>

PassesPause == State \in Pauses /\ State' = "S_18"
GoesDown == ~Continue_ah /\ Continue_ah'

HandshakeInit == Init /\ pressed = TRUE     \* it powers up pressed
HandshakeNext ==
    /\ Next
    /\ pressed' = (GoesDown \/ (pressed /\ ~PassesPause))

HandshakeSpec ==
    HandshakeInit /\ [][HandshakeNext]_handshakeVars /\ WF_handshakeVars(HandshakeNext)

\* However long Continue is held, one press passes one pause: a program that
\* pauses again before the button is released stays paused until the button
\* has gone up and down again.
OnePausePerPress == [][PassesPause => pressed]_handshakeVars
=============================================================================
