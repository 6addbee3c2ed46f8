----------------------------- MODULE TimeOfDay ------------------------------
(***************************************************************************)
(* The wall clock of the HAL: settimeofday and gettimeofday count from the *)
(* tick counter of AltAlarm (alt_settod.c, alt_gettod.c).  The time zone,  *)
(* which is only stored and returned, is left out.                         *)
(***************************************************************************)
EXTENDS Integers

CONSTANTS
    M,              \* unsigned words count modulo M: 2^32
    ALT_US,         \* microseconds in a second
    tick_rate,      \* ticks in a second
    Seconds         \* what the seconds are set to

VARIABLES _alt_tick_rate, _alt_nticks, alt_resettime,
    set         \* the time just set, until the next tick; else NotSet

vars == <<_alt_tick_rate, _alt_nticks, alt_resettime, set>>

Times  == [tv_sec : Seconds, tv_usec : 0 .. ALT_US - 1]
NotSet == [tv_sec |-> 0, tv_usec |-> ALT_US]

Init ==
    /\ _alt_tick_rate = 0 /\ _alt_nticks = 0
    /\ alt_resettime = [tv_sec |-> 0, tv_usec |-> 0]
    /\ set = NotSet

alt_sysclk_init ==
    /\ _alt_tick_rate = 0 /\ _alt_tick_rate' = tick_rate
    /\ UNCHANGED <<_alt_nticks, alt_resettime, set>>

alt_tick ==
    /\ _alt_tick_rate # 0
    /\ _alt_nticks' = (_alt_nticks + 1) % M
    /\ set' = NotSet
    /\ UNCHANGED <<_alt_tick_rate, alt_resettime>>

\* The product is 32 bits wide.  Without a clock the call fails (ENOSYS).
ALT_SETTIMEOFDAY(t) ==
    /\ _alt_tick_rate # 0
    /\ alt_resettime' =
          [tv_sec  |-> t.tv_sec - (_alt_nticks \div _alt_tick_rate),
           tv_usec |-> t.tv_usec - (((_alt_nticks * (ALT_US \div _alt_tick_rate)) % M) % ALT_US)]
    /\ set' = t
    /\ UNCHANGED <<_alt_tick_rate, _alt_nticks>>

\* The two loops of gettimeofday, which run at most once since both terms of
\* tv_usec are less than a second: a time before the epoch becomes the epoch.
Normalised(t) ==
    CASE t.tv_usec < 0 /\ t.tv_sec <= 0 -> [tv_sec |-> 0, tv_usec |-> 0]
      [] t.tv_usec < 0 /\ t.tv_sec > 0  -> [tv_sec |-> t.tv_sec - 1, tv_usec |-> t.tv_usec + ALT_US]
      [] t.tv_usec >= ALT_US            -> [tv_sec |-> t.tv_sec + 1, tv_usec |-> t.tv_usec - ALT_US]
      [] OTHER                          -> t

\* Here the product is 64 bits wide.
ALT_GETTIMEOFDAY ==
    Normalised([tv_sec  |-> alt_resettime.tv_sec + (_alt_nticks \div _alt_tick_rate),
                tv_usec |-> alt_resettime.tv_usec
                            + ((_alt_nticks * (ALT_US \div _alt_tick_rate)) % ALT_US)])

Next == alt_sysclk_init \/ alt_tick \/ \E t \in Times : ALT_SETTIMEOFDAY(t)

Spec == Init /\ [][Next]_vars

-----------------------------------------------------------------------------
(* Properties *)

\* "An immediate call to gettimeofday() would return the value specified by
\* t" (alt_settod.c:58).
SetThenGet == set # NotSet => ALT_GETTIMEOFDAY = set
=============================================================================
