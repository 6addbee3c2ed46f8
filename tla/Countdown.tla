------------------------------ MODULE Countdown -----------------------------
(***************************************************************************)
(* What the alarms of the HAL promise: each running alarm counts the ticks *)
(* of the system clock down and is called at its last one, neither a tick  *)
(* early nor a tick late, until it is stopped or its callback returns 0.   *)
(***************************************************************************)
EXTENDS Integers, Functions

CONSTANTS Alarms, Delays    \* Delays: what an alarm is started or renewed with

\* The ticks each running alarm has left; 0: it is due in the current tick.
VARIABLE left

Init == left = <<>>

Start(a, n) ==
    /\ a \notin DOMAIN left
    /\ left' = [x \in DOMAIN left \cup {a} |-> IF x = a THEN n + 1 ELSE left[x]]

Stop(a) == a \in DOMAIN left /\ left' = Restrict(left, DOMAIN left \ {a})

\* The next tick comes when no alarm of this one is still due.
Tick ==
    /\ \A a \in DOMAIN left : left[a] > 0
    /\ left' = [a \in DOMAIN left |-> left[a] - 1]

\* The callback of a due alarm returns the ticks until the next one, or 0.
Called(a, n) ==
    /\ a \in DOMAIN left /\ left[a] = 0
    /\ IF n = 0 THEN Stop(a) ELSE left' = [left EXCEPT ![a] = n]

SomeTick   == Tick
SomeCalled == \E a \in Alarms : \/ \E n \in Delays \cup {0} : Called(a, n)
                                \/ Stop(a) /\ left[a] = 0

Next ==
    \/ SomeTick
    \/ SomeCalled
    \/ \E a \in Alarms : Stop(a) \/ \E n \in Delays : Start(a, n)

\* Nothing but ticks, calls, starts and stops happens to an alarm.
Counts == Init /\ [][Next]_left

\* The clock keeps ticking, and a due alarm is called or stopped.
Spec == Counts /\ WF_left(SomeTick) /\ WF_left(SomeCalled)
=============================================================================
