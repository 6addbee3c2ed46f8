------------------------------ MODULE AltAlarm ------------------------------
(***************************************************************************)
(* The system clock of the HAL: the timer interrupt, the tick counter and  *)
(* the doubly linked list of alarms (alt_tick.c, alt_alarm_start.c,        *)
(* alt_llist.h, altera_avalon_timer_sc.c).  The interrupt handler walks    *)
(* the list in several steps, since a callback may itself start and stop   *)
(* alarms; the rest of the program does so between two interrupts.         *)
(***************************************************************************)
EXTENDS Integers

CONSTANTS
    Alarms,         \* the alarm structures of the program
    alt_alarm_list, \* the head of the list
    Null,           \* the links of a structure that was never inserted
    M,              \* the tick counter counts modulo M: 2^32
    Delays          \* what alarms are started and renewed with

\* A delay of M - 1 would fall on the present tick: the one after it calls
\* the alarm at once.  Delays that long are left out (M - 2 ticks: 49 days).
ASSUME DelaysAssumption == M \in Nat /\ M > 2 /\ Delays \subseteq 0 .. M - 2

ASSUME AlarmsAssumption == alt_alarm_list \notin Alarms /\ Null \notin Alarms \cup {alt_alarm_list}

VARIABLES
    TO,         \* the timer's timeout bit, which is its interrupt request
    _alt_tick_rate,     \* whether the clock rate has been set
    _alt_nticks,
    next, previous,     \* the links of the alarms and of the head
    time, rollover,     \* per alarm: when to call it; not before the wrap
    alarm,      \* where alt_tick is in the list; the head outside of it
    succ,       \* alt_tick's local "next", read before the callback
    calling     \* the callback of alarm is running

deviceVars == <<TO, _alt_tick_rate>>
listVars == <<next, previous>>
walkVars == <<alarm, succ, calling>>
vars == <<deviceVars, _alt_nticks, listVars, time, rollover, walkVars>>

Nodes == Alarms \cup {alt_alarm_list}

\* The alarms that are in the list: removing one links it to itself.
Listed == {a \in Alarms : next[a] \notin {a, Null}}

Init ==
    /\ TO = FALSE /\ _alt_tick_rate = FALSE /\ _alt_nticks = 0
    /\ next = [x \in Nodes |-> IF x = alt_alarm_list THEN x ELSE Null]
    /\ previous = next
    /\ time = [a \in Alarms |-> 0] /\ rollover = [a \in Alarms |-> FALSE]
    /\ alarm = alt_alarm_list /\ succ = alt_alarm_list /\ calling = FALSE

-----------------------------------------------------------------------------
(* The list. *)

\* Faulty variant: the old first entry keeps pointing back at the head.
alt_llist_insert_OneWay(entry) ==
    /\ next' = [next EXCEPT ![entry] = next[alt_alarm_list], ![alt_alarm_list] = entry]
    /\ previous' = [previous EXCEPT ![entry] = alt_alarm_list]

alt_llist_insert(entry) ==
    /\ next' = [next EXCEPT ![entry] = next[alt_alarm_list], ![alt_alarm_list] = entry]
    /\ previous' = [previous EXCEPT ![entry] = alt_alarm_list,
                                    ![next[alt_alarm_list]] = entry]

\* Twice is harmless: the entry then points at itself.
alt_llist_remove(entry) ==
    /\ next' = [next EXCEPT ![previous[entry]] = next[entry], ![entry] = entry]
    /\ previous' = [previous EXCEPT ![next[entry]] = previous[entry], ![entry] = entry]

-----------------------------------------------------------------------------
(* Calls of the program and of the callbacks. *)

\* Outside of the interrupt, or in a callback.
Running == alarm = alt_alarm_list \/ calling

alt_avalon_timer_sc_init ==
    /\ Running /\ ~_alt_tick_rate /\ _alt_tick_rate' = TRUE
    /\ UNCHANGED <<TO, _alt_nticks, listVars, time, rollover, walkVars>>

\* Faulty variant: no rollover flag.
alt_alarm_start_NoRollover(a, nticks) ==
    /\ Running /\ _alt_tick_rate
    /\ a \notin Listed /\ a # alarm
    /\ time' = [time EXCEPT ![a] = (nticks + _alt_nticks + 1) % M]
    /\ rollover' = [rollover EXCEPT ![a] = FALSE]
    /\ alt_llist_insert(a)
    /\ UNCHANGED <<deviceVars, _alt_nticks, walkVars>>

\* The caller passes an alarm that is not in the list, and that is not the
\* one being called.  Without a clock rate the call fails (-ENOTSUP).
alt_alarm_start(a, nticks) ==
    /\ Running /\ _alt_tick_rate
    /\ a \notin Listed /\ a # alarm
    /\ time' = [time EXCEPT ![a] = (nticks + _alt_nticks + 1) % M]
    /\ rollover' = [rollover EXCEPT ![a] = time'[a] < _alt_nticks]
    /\ alt_llist_insert(a)
    /\ UNCHANGED <<deviceVars, _alt_nticks, walkVars>>

\* A callback may stop any alarm but the one alt_tick goes on with: succ
\* would point at itself and the walk would never end.
alt_alarm_stop(a) ==
    /\ Running /\ next[a] # Null
    /\ calling => a # succ
    /\ alt_llist_remove(a)
    /\ UNCHANGED <<deviceVars, _alt_nticks, time, rollover, walkVars>>

-----------------------------------------------------------------------------
(* The interrupt. *)

\* The timer's period ends.
Expire ==
    /\ _alt_tick_rate /\ TO' = TRUE
    /\ UNCHANGED <<_alt_tick_rate, _alt_nticks, listVars, time, rollover, walkVars>>

Walk(a) == alarm' = a /\ succ' = (IF a = alt_alarm_list THEN a ELSE next[a])

\* The handler takes the request away and enters alt_tick.
alt_avalon_timer_sc_irq ==
    /\ TO /\ alarm = alt_alarm_list
    /\ TO' = FALSE
    /\ _alt_nticks' = (_alt_nticks + 1) % M
    /\ Walk(next[alt_alarm_list]) /\ calling' = FALSE
    /\ UNCHANGED <<_alt_tick_rate, listVars, time, rollover>>

\* A set rollover flag is cleared when the counter wraps.
Due(a) == time[a] <= _alt_nticks /\ (rollover[a] => _alt_nticks = 0)

\* Faulty variant: the handler clears the timer again when the list is done.
Pass_ClearsLate ==
    /\ alarm # alt_alarm_list /\ ~calling /\ ~Due(alarm)
    /\ rollover' = [rollover EXCEPT ![alarm] = @ /\ _alt_nticks # 0]
    /\ Walk(succ)
    /\ TO' = (TO /\ succ # alt_alarm_list)
    /\ UNCHANGED <<_alt_tick_rate, _alt_nticks, listVars, time, calling>>

\* An alarm that is not due: on to the next one.
Pass ==
    /\ alarm # alt_alarm_list /\ ~calling /\ ~Due(alarm)
    /\ rollover' = [rollover EXCEPT ![alarm] = @ /\ _alt_nticks # 0]
    /\ Walk(succ)
    /\ UNCHANGED <<deviceVars, _alt_nticks, listVars, time, calling>>

\* An alarm that is due: its callback is called.
Call ==
    /\ alarm # alt_alarm_list /\ ~calling /\ Due(alarm)
    /\ calling' = TRUE
    /\ rollover' = [rollover EXCEPT ![alarm] = FALSE]
    /\ UNCHANGED <<deviceVars, _alt_nticks, listVars, time, alarm, succ>>

\* The callback returns 0: the alarm is stopped.
ReturnZero ==
    /\ calling /\ calling' = FALSE
    /\ alt_llist_remove(alarm)
    /\ alarm' = succ
    /\ succ' = (IF succ = alt_alarm_list THEN succ ELSE next'[succ])
    /\ UNCHANGED <<deviceVars, _alt_nticks, time, rollover>>

\* The callback returns the ticks until it is called again.
ReturnTicks(next_callback) ==
    /\ calling /\ calling' = FALSE
    /\ time' = [time EXCEPT ![alarm] = (@ + next_callback) % M]
    /\ rollover' = [rollover EXCEPT ![alarm] = time'[alarm] < _alt_nticks]
    /\ Walk(succ)
    /\ UNCHANGED <<deviceVars, _alt_nticks, listVars>>

Return == ReturnZero \/ \E n \in Delays \ {0} : ReturnTicks(n)
alt_tick == Pass \/ Call \/ Return

Next ==
    \/ alt_avalon_timer_sc_init
    \/ \E a \in Alarms : alt_alarm_stop(a) \/ \E n \in Delays : alt_alarm_start(a, n)
    \/ Expire \/ alt_avalon_timer_sc_irq \/ alt_tick

\* The timer runs, interrupts are served and callbacks return.
Spec ==
    /\ Init /\ [][Next]_vars
    /\ WF_vars(Expire) /\ WF_vars(alt_avalon_timer_sc_irq) /\ WF_vars(alt_tick)

-----------------------------------------------------------------------------
(* Properties *)

\* Whatever is started and stopped, in and between the callbacks, the links
\* of the head and of the listed alarms are inverse to each other and form
\* one cycle: no set of alarms is closed without the head.
ListIntact ==
    /\ \A x \in Listed \cup {alt_alarm_list} :
          /\ next[x] \in Listed \cup {alt_alarm_list}
          /\ previous[next[x]] = x
    /\ \A S \in SUBSET Listed : S # {} => \E a \in S : next[a] \notin S

\* The ticks a listed alarm has left, across the wrap of the counter.
TicksLeft == [a \in Listed |-> (time[a] - _alt_nticks) % M]

Countdown == INSTANCE Countdown WITH left <- TicksLeft

\* Every alarm is called at the tick it asked for, never a tick early, late
\* or not at all, and again as its callback asks, however the counter wraps
\* and whatever callbacks start and stop in the middle of the walk, but for
\* the two things the guards leave out: stopping the alarm the walk goes on
\* with, and starting the alarm being called again instead of returning when.
ImplementsCountdown == Countdown!Spec

\* A timer request is taken away for one tick of the counter and of every
\* running alarm, and only when none is due any more: a request that comes up
\* during the walk waits for the end of the walk.  Nothing else moves a running
\* alarm's time but the return of its own callback.  (The timer has one
\* timeout bit: periods that end while it is set share its tick.)
PeriodsCounted ==
    [][ /\ TO /\ ~TO' => _alt_nticks' = (_alt_nticks + 1) % M /\ Countdown!Tick
        /\ \A a \in Listed \cap Listed' :
              \/ TicksLeft'[a] = TicksLeft[a]
              \/ TO /\ ~TO'
              \/ a = alarm /\ calling /\ ~calling' ]_vars
=============================================================================
