-------------------------- MODULE AltAlarm_proofs ---------------------------
(***************************************************************************)
(* The list of alarms survives whatever is started and stopped while the   *)
(* tick handler walks along it, and every alarm in it counts its ticks down,*)
(* also across the wrap of the counter, for every number of alarms, every  *)
(* width of the tick counter and every set of delays.                      *)
(***************************************************************************)
EXTENDS AltAlarm, TLAPS

\* The links: previous leads back into the list as next leads on (which the
\* finiteness of the list implies, but which is inductive), and an alarm that
\* is linked to itself is so in both directions.
Links ==
    /\ next \in [Nodes -> Nodes \cup {Null}] /\ previous \in [Nodes -> Nodes \cup {Null}]
    /\ ListIntact
    /\ \A x \in Listed \cup {alt_alarm_list} :
          previous[x] \in Listed \cup {alt_alarm_list} /\ next[previous[x]] = x
    /\ \A a \in Alarms : next[a] = a => previous[a] = a

\* Where the handler goes on is in the list; the alarm it is at has been in
\* the list and is another one.
WalkSafe ==
    /\ alarm \in Nodes /\ succ \in Listed \cup {alt_alarm_list}
    /\ alarm # alt_alarm_list => next[alarm] # Null /\ succ # alarm
    /\ alarm = alt_alarm_list => succ = alt_alarm_list /\ ~calling

ListInv == Links /\ WalkSafe

LEMMA HeadIsApart == alt_alarm_list \notin Alarms /\ Null \notin Nodes
  BY AlarmsAssumption DEF Nodes

\* An insertion puts the alarm behind the head.
LEMMA InsertKeepsLinks ==
    ASSUME Links, NEW a \in Alarms, a \notin Listed, alt_llist_insert(a)
    PROVE  /\ Links' /\ Listed' = Listed \cup {a}
           /\ \A x \in Nodes : next[x] # Null => next'[x] # Null
  <1> DEFINE h == alt_alarm_list
             f == next[h]
  <1> USE HeadIsApart
  <1>1. f \in Listed \cup {h} /\ f # a /\ a # h /\ previous[f] = h /\ a \in Nodes /\ h \in Nodes /\ f \in Nodes
    BY DEF Links, ListIntact, Nodes, Listed
  <1>2. /\ next' \in [Nodes -> Nodes \cup {Null}]
        /\ \A x \in Nodes : next'[x] = IF x = h THEN a ELSE IF x = a THEN f ELSE next[x]
    BY <1>1 DEF alt_llist_insert, Links
  <1>3. /\ previous' \in [Nodes -> Nodes \cup {Null}]
        /\ \A x \in Nodes : previous'[x] = IF x = f THEN a ELSE IF x = a THEN h ELSE previous[x]
    BY <1>1 DEF alt_llist_insert, Links
  <1>4. Listed' = Listed \cup {a}
    BY <1>1, <1>2 DEF Listed, Nodes
  <1> HIDE DEF h, f
  <1>5. \A x \in Listed : next[x] \in Listed \cup {h} /\ previous[next[x]] = x /\ next[x] # a /\ x # a /\ x # h
    BY DEF Links, ListIntact, Listed, h
  <1>6. ASSUME NEW x \in Listed' \cup {h}
        PROVE  next'[x] \in Listed' \cup {h} /\ previous'[next'[x]] = x
    <2>1. CASE x = h
      BY <1>1, <1>2, <1>3, <1>4, <2>1 DEF h
    <2>2. CASE x = a
      BY <1>1, <1>2, <1>3, <1>4, <2>2 DEF h
    <2>3. CASE x \in Listed
      <3>1. next[x] # f
        BY <1>1, <1>5, <2>3
      <3>2. next'[x] = next[x] /\ next[x] \in Nodes
        BY <1>2, <1>5, <2>3 DEF Listed, Nodes, h
      <3> QED BY <1>3, <1>4, <1>5, <2>3, <3>1, <3>2
    <2> QED BY <1>4, <1>6, <2>1, <2>2, <2>3
  <1>7. ASSUME NEW S \in SUBSET Listed', S # {}
        PROVE  \E b \in S : next'[b] \notin S
    <2>1. CASE S = {a}
      BY <1>1, <1>2, <2>1 DEF h
    <2>2. CASE S # {a}
      <3>1. S \ {a} \in SUBSET Listed /\ S \ {a} # {}
        BY <1>4, <1>7, <2>2
      <3>2. PICK b \in S \ {a} : next[b] \notin S \ {a}
        BY <3>1 DEF Links, ListIntact
      <3>3. next[b] # a /\ next'[b] = next[b]
        BY <1>2, <1>5, <3>1, <3>2 DEF Listed, Nodes
      <3> QED BY <3>2, <3>3
    <2> QED BY <2>1, <2>2
  <1>8. ListIntact'
    BY <1>6, <1>7 DEF ListIntact, h
  <1>9. \A b \in Alarms : next'[b] = b => previous'[b] = b
    <2> SUFFICES ASSUME NEW b \in Alarms, next'[b] = b PROVE previous'[b] = b
      OBVIOUS
    <2>1. b # a /\ b # h /\ next[b] = b
      BY <1>1, <1>2 DEF Nodes, h
    <2>2. b # f
      BY <1>1, <2>1 DEF Listed, h
    <2> QED BY <1>3, <2>1, <2>2 DEF Links, Nodes
  <1>10. \A x \in Nodes : next[x] # Null => next'[x] # Null
    BY <1>1, <1>2
  <1>11. ASSUME NEW x \in Listed' \cup {h}
         PROVE  previous'[x] \in Listed' \cup {h} /\ next'[previous'[x]] = x
    <2>1. CASE x = f
      BY <1>1, <1>2, <1>3, <1>4, <2>1
    <2>2. CASE x = a
      BY <1>1, <1>2, <1>3, <1>4, <2>2
    <2>3. CASE x # f /\ x # a
      <3>1. x \in Listed \cup {h} /\ x \in Nodes
        BY <1>1, <1>4, <1>11, <2>3 DEF Listed, Nodes
      <3>2. previous[x] \in Listed \cup {h} /\ next[previous[x]] = x
        BY <3>1 DEF Links, h
      <3>3. previous[x] # h /\ previous[x] # a /\ previous[x] \in Nodes
        BY <1>1, <1>5, <2>3, <3>2 DEF Listed, Nodes, f
      <3> QED BY <1>2, <1>3, <1>4, <2>3, <3>1, <3>2, <3>3
    <2> QED BY <2>1, <2>2, <2>3
  <1> QED BY <1>2, <1>3, <1>4, <1>8, <1>9, <1>10, <1>11 DEF Links, h

\* A removal takes the alarm out, if it is in.
LEMMA RemoveKeepsLinks ==
    ASSUME Links, NEW a \in Alarms, next[a] # Null, alt_llist_remove(a)
    PROVE  /\ Links' /\ Listed' = Listed \ {a}
           /\ \A x \in Nodes : next[x] # Null => next'[x] # Null
  <1> DEFINE h == alt_alarm_list
             p == previous[a]
             s == next[a]
  <1> USE HeadIsApart
  <1>a. a \in Nodes /\ h \in Nodes /\ a # h
    BY DEF Nodes
  <1>1. CASE a \notin Listed
    <2>1. next[a] = a /\ previous[a] = a
      BY <1>1 DEF Listed, Links
    <2>2. next' = next /\ previous' = previous
      BY <1>a, <2>1 DEF alt_llist_remove, Links
    <2> QED BY <1>1, <2>2 DEF Links, Listed, ListIntact
  <1>2. CASE a \in Listed
    <2>1. s \in Listed \cup {h} /\ s # a /\ previous[s] = a /\ s \in Nodes
      BY <1>2, <1>a DEF Links, ListIntact, Listed, Nodes
    <2>2. p \in Listed \cup {h} /\ p # a /\ next[p] = a /\ p \in Nodes
      BY <1>2, <1>a DEF Links, Listed, Nodes
    <2>3. /\ next' \in [Nodes -> Nodes \cup {Null}]
          /\ \A x \in Nodes : next'[x] = IF x = a THEN a ELSE IF x = p THEN s ELSE next[x]
      BY <1>a, <2>1, <2>2 DEF alt_llist_remove, Links
    <2>4. /\ previous' \in [Nodes -> Nodes \cup {Null}]
          /\ \A x \in Nodes : previous'[x] = IF x = a THEN a ELSE IF x = s THEN p ELSE previous[x]
      BY <1>a, <2>1, <2>2 DEF alt_llist_remove, Links
    <2>5. \A x \in Listed \cup {h} :
             /\ x \in Nodes
             /\ next[x] \in Listed \cup {h} /\ previous[next[x]] = x
             /\ previous[x] \in Listed \cup {h} /\ next[previous[x]] = x
      BY <1>a DEF Links, ListIntact, Listed, Nodes
    <2> HIDE DEF h, p, s
    \* The only alarm before the one removed gets its successor: with s = p it
    \* is the head, and the list is empty.
    <2>6. p # h => p # s
      <3> SUFFICES ASSUME p # h, p = s PROVE FALSE
        OBVIOUS
      <3>1. {a, p} \in SUBSET Listed /\ next[a] = p
        BY <1>2, <2>2 DEF h, s
      <3>2. \E b \in {a, p} : next[b] \notin {a, p}
        BY <3>1 DEF Links, ListIntact
      <3> QED BY <2>2, <3>1, <3>2
    <2>7. Listed' = Listed \ {a}
      BY <1>2, <2>1, <2>2, <2>3, <2>6 DEF Listed, Nodes, h
    <2>8. ASSUME NEW x \in Listed' \cup {h}
          PROVE  /\ next'[x] \in Listed' \cup {h} /\ previous'[next'[x]] = x
                 /\ previous'[x] \in Listed' \cup {h} /\ next'[previous'[x]] = x
      <3>1. x \in Listed \cup {h} /\ x # a /\ x \in Nodes
        BY <1>a, <2>5, <2>7, <2>8
      <3>2. /\ next[x] \in Listed \cup {h} /\ previous[next[x]] = x /\ next[x] \in Nodes
            /\ previous[x] \in Listed \cup {h} /\ next[previous[x]] = x /\ previous[x] \in Nodes
        BY <2>5, <3>1
      <3>3. x # p => next[x] # a /\ next[x] # s
        BY <2>1, <3>1, <3>2 DEF p
      <3>4. x # s => previous[x] # a /\ previous[x] # p
        BY <2>2, <3>1, <3>2 DEF s
      <3>5. next'[x] \in Listed' \cup {h} /\ previous'[next'[x]] = x
        BY <2>1, <2>2, <2>3, <2>4, <2>7, <3>1, <3>2, <3>3
      <3>6. previous'[x] \in Listed' \cup {h} /\ next'[previous'[x]] = x
        BY <2>1, <2>2, <2>3, <2>4, <2>7, <3>1, <3>2, <3>4
      <3> QED BY <3>5, <3>6
    <2>9. ASSUME NEW S \in SUBSET Listed', S # {}
          PROVE  \E b \in S : next'[b] \notin S
      <3>1. S \in SUBSET Listed /\ S \cup {a} \in SUBSET Listed /\ a \notin S
        BY <1>2, <2>7, <2>9
      <3>2. CASE p \in S
        <4>1. PICK b \in S \cup {a} : next[b] \notin S \cup {a}
          BY <3>1 DEF Links, ListIntact
        <4>2. CASE b = a
          BY <2>2, <2>3, <3>2, <4>1, <4>2 DEF s
        <4>3. CASE b # a
          BY <2>2, <2>3, <2>5, <3>1, <4>1, <4>3
        <4> QED BY <4>2, <4>3
      <3>3. CASE p \notin S
        <4>1. PICK b \in S : next[b] \notin S
          BY <2>9, <3>1 DEF Links, ListIntact
        <4> QED BY <2>3, <2>5, <3>1, <3>3, <4>1
      <3> QED BY <3>2, <3>3
    <2>10. \A b \in Alarms : next'[b] = b => previous'[b] = b
      <3> SUFFICES ASSUME NEW b \in Alarms, b # a, next'[b] = b PROVE previous'[b] = b
        BY <1>a, <2>4
      <3>1. b \notin Listed /\ b # h /\ b \in Nodes
        BY <2>3, <2>7 DEF Listed, Nodes, h
      <3>2. b # p /\ b # s
        BY <2>1, <2>2, <3>1
      <3> QED BY <2>3, <2>4, <3>1, <3>2 DEF Links
    <2>11. \A x \in Nodes : next[x] # Null => next'[x] # Null
      BY <1>a, <2>1, <2>3
    <2>12. ListIntact'
      BY <2>8, <2>9 DEF ListIntact, h
    <2> QED BY <2>3, <2>4, <2>7, <2>8, <2>10, <2>11, <2>12 DEF Links, h
  <1> QED BY <1>1, <1>2

\* At start the list is its head alone.
LEMMA ListInit == Init => ListInv
  <1> SUFFICES ASSUME Init PROVE ListInv
    OBVIOUS
  <1>1. /\ next \in [Nodes -> Nodes \cup {Null}] /\ previous \in [Nodes -> Nodes \cup {Null}]
        /\ next[alt_alarm_list] = alt_alarm_list /\ previous[alt_alarm_list] = alt_alarm_list
        /\ \A a \in Alarms : next[a] = Null
    BY HeadIsApart DEF Init, Nodes
  <1>2. Listed = {}
    BY <1>1 DEF Listed
  <1> QED BY <1>1, <1>2, HeadIsApart DEF Init, ListInv, Links, ListIntact, WalkSafe, Nodes

\* Starting an alarm disturbs no walk: the one the handler is at is not
\* started, and the others stay where they are.
LEMMA StartKeepsList ==
    ASSUME ListInv, NEW a \in Alarms, NEW k \in Delays, alt_alarm_start(a, k)
    PROVE  ListInv'
  <1>1. a \notin Listed /\ a # alarm /\ alt_llist_insert(a) /\ UNCHANGED walkVars
    BY DEF alt_alarm_start
  <1>2. /\ Links' /\ Listed' = Listed \cup {a}
        /\ \A x \in Nodes : next[x] # Null => next'[x] # Null
    BY <1>1, InsertKeepsLinks DEF ListInv
  <1> QED BY <1>1, <1>2 DEF ListInv, WalkSafe, walkVars

\* Stopping one neither: it is not the one the handler goes on with.
LEMMA StopKeepsList ==
    ASSUME ListInv, NEW a \in Alarms, alt_alarm_stop(a)
    PROVE  ListInv'
  <1>1. next[a] # Null /\ alt_llist_remove(a) /\ UNCHANGED walkVars /\ a # succ
    <2>1. CASE calling
      BY <2>1 DEF alt_alarm_stop
    <2>2. CASE ~calling
      BY <2>2, HeadIsApart DEF alt_alarm_stop, Running, ListInv, WalkSafe
    <2> QED BY <2>1, <2>2
  <1>2. /\ Links' /\ Listed' = Listed \ {a}
        /\ \A x \in Nodes : next[x] # Null => next'[x] # Null
    BY <1>1, RemoveKeepsLinks DEF ListInv
  <1> QED BY <1>1, <1>2 DEF ListInv, WalkSafe, walkVars

\* The handler goes to the head or to an alarm in the list.
LEMMA WalkKeepsList ==
    ASSUME ListInv, UNCHANGED listVars, NEW a \in Listed \cup {alt_alarm_list}, Walk(a), ~calling'
    PROVE  ListInv'
  <1>1. Links' /\ Listed' = Listed /\ next' = next
    BY DEF ListInv, Links, ListIntact, Listed, listVars
  <1>2. CASE a = alt_alarm_list
    BY <1>1, <1>2 DEF ListInv, WalkSafe, Walk, Nodes
  <1>3. CASE a # alt_alarm_list
    <2>1. a \in Listed /\ next[a] # Null /\ next[a] # a /\ next[a] \in Listed \cup {alt_alarm_list}
      BY <1>3 DEF ListInv, Links, ListIntact, Listed
    <2> QED BY <1>1, <1>3, <2>1 DEF ListInv, WalkSafe, Walk, Nodes, Listed
  <1> QED BY <1>2, <1>3

\* A callback returns 0: its alarm is taken out, if it has not been already,
\* and the handler goes on to the next.
LEMMA ReturnZeroKeepsList == ASSUME ListInv, ReturnZero PROVE ListInv'
  <1>1. alarm \in Alarms /\ next[alarm] # Null /\ succ # alarm
    BY DEF ListInv, WalkSafe, Nodes, ReturnZero
  <1>2. Links' /\ Listed' = Listed \ {alarm}
    BY <1>1, RemoveKeepsLinks DEF ListInv, ReturnZero
  <1>3. succ \in Listed' \cup {alt_alarm_list}
    BY <1>1, <1>2 DEF ListInv, WalkSafe
  <1>4. CASE succ = alt_alarm_list
    BY <1>2, <1>4 DEF ListInv, WalkSafe, ReturnZero, Nodes
  <1>5. CASE succ # alt_alarm_list
    <2>1. /\ next'[succ] \in Listed' \cup {alt_alarm_list}
          /\ next'[succ] # Null /\ next'[succ] # succ /\ succ \in Nodes
      BY <1>2, <1>3, <1>5 DEF Links, ListIntact, Listed, Nodes
    <2> QED BY <1>2, <1>5, <2>1 DEF ListInv, WalkSafe, ReturnZero
  <1> QED BY <1>4, <1>5

\* Every step keeps the list.
LEMMA ListStep == ListInv /\ [Next]_vars => ListInv'
  <1> SUFFICES ASSUME ListInv, [Next]_vars PROVE ListInv'
    OBVIOUS
  <1>0. ASSUME UNCHANGED <<listVars, walkVars>> PROVE ListInv'
    BY <1>0 DEF ListInv, Links, ListIntact, Listed, WalkSafe, listVars, walkVars
  <1>1. CASE alt_avalon_timer_sc_init \/ Expire \/ UNCHANGED vars
    BY <1>0, <1>1 DEF alt_avalon_timer_sc_init, Expire, vars, walkVars
  <1>2. CASE \E a \in Alarms : alt_alarm_stop(a) \/ \E k \in Delays : alt_alarm_start(a, k)
    BY <1>2, StopKeepsList, StartKeepsList
  <1>3. CASE alt_avalon_timer_sc_irq
    <2>1. next[alt_alarm_list] \in Listed \cup {alt_alarm_list}
      BY DEF ListInv, Links, ListIntact
    <2> QED BY <1>3, <2>1, WalkKeepsList DEF alt_avalon_timer_sc_irq
  <1>4. CASE Pass
    BY <1>4, WalkKeepsList DEF Pass, ListInv, WalkSafe
  <1>5. CASE Call
    BY <1>0, <1>5 DEF Call, ListInv, Links, ListIntact, Listed, WalkSafe, listVars
  <1>6. CASE ReturnZero
    BY <1>6, ReturnZeroKeepsList
  <1>7. CASE \E k \in Delays \ {0} : ReturnTicks(k)
    BY <1>7, WalkKeepsList DEF ReturnTicks, ListInv, WalkSafe
  <1> QED BY <1>1, <1>2, <1>3, <1>4, <1>5, <1>6, <1>7 DEF Next, alt_tick, Return

\* The links stay a single closed chain, whatever callbacks start and stop in
\* the middle of the walk: ListIntact, for all alarms and delays.
THEOREM AlwaysListIntact == Spec => []ListIntact
  <1>1. Init => ListInv
    BY ListInit
  <1>2. ListInv /\ [Next]_vars => ListInv'
    BY ListStep
  <1>3. ListInv => ListIntact
    BY DEF ListInv, Links
  <1> QED BY <1>1, <1>2, <1>3, PTL DEF Spec

-----------------------------------------------------------------------------
(* The ticks. *)

\* An alarm that this tick has dealt with: it is not due, and waits for the
\* wrap of the counter no more if that was this tick.
Settled(a) == time[a] # _alt_nticks /\ (_alt_nticks = 0 => ~rollover[a])

\* The alarms the handler has still to look at, from succ on.
Pending(P) ==
    /\ alarm \notin P /\ succ \in P \cup {alt_alarm_list}
    /\ succ = alt_alarm_list => P = {}
    /\ \A a \in P : next[a] \in (P \ {succ}) \cup {alt_alarm_list}
    /\ \A a \in Listed \ P : a # alarm => Settled(a)

\* A set rollover flag means that the alarm's time is behind the counter, but
\* for the alarms not yet looked at in the tick of the wrap.
TimesInv ==
    /\ _alt_nticks \in 0 .. M - 1
    /\ time \in [Alarms -> 0 .. M - 1] /\ rollover \in [Alarms -> BOOLEAN]
    /\ \A a \in Listed : _alt_nticks # 0 => (rollover[a] <=> time[a] < _alt_nticks)

CallingInv ==
    /\ calling \in BOOLEAN
    /\ alarm # alt_alarm_list /\ ~calling => alarm \in Listed
    /\ calling => ~rollover[alarm] /\ (alarm \in Listed => time[alarm] = _alt_nticks)

TickInv == ListInv /\ TimesInv /\ CallingInv /\ \E P \in SUBSET Listed : Pending(P)

\* What the delays say about the width of the counter.
LEMMA Counter ==
    /\ M \in Nat \ {0} /\ M > 2 /\ Delays \subseteq Nat
    /\ \A k \in Delays : k + 1 \in 1 .. M - 1 /\ k \in 0 .. M - 2
  BY DelaysAssumption

\* Modulo M there is nothing to divide by.
LEMMA Remainder ==
    ASSUME NEW q \in Int, NEW r \in 0 .. M - 1
    PROVE  (M * q + r) % M = r
  BY Counter

\* Differences and sums of times, written without the wrap.
LEMMA Wraps ==
    ASSUME NEW t \in 0 .. M - 1, NEW c \in 0 .. M - 1
    PROVE  /\ (t - c) % M = IF t >= c THEN t - c ELSE t - c + M
           /\ (t + c) % M = IF t + c < M THEN t + c ELSE t + c - M
           /\ (t - c) % M \in 0 .. M - 1 /\ (t + c) % M \in 0 .. M - 1
           /\ ((t - c) % M = 0 <=> t = c)
  <1>1. M \in Nat /\ M > 2 /\ t \in Int /\ c \in Int
    BY Counter
  <1>2. (t - c) % M = IF t >= c THEN t - c ELSE t - c + M
    <2>1. CASE t >= c
      <3>1. (M * 0 + (t - c)) % M = t - c
        BY <1>1, <2>1, Remainder
      <3> QED BY <1>1, <2>1, <3>1
    <2>2. CASE t < c
      <3>1. (M * (-1) + (t - c + M)) % M = t - c + M
        BY <1>1, <2>2, Remainder
      <3>2. M * (-1) + (t - c + M) = t - c
        BY <1>1
      <3> QED BY <1>1, <2>2, <3>1, <3>2
    <2> QED BY <1>1, <2>1, <2>2
  <1>3. (t + c) % M = IF t + c < M THEN t + c ELSE t + c - M
    <2>1. CASE t + c < M
      <3>1. (M * 0 + (t + c)) % M = t + c
        BY <1>1, <2>1, Remainder
      <3> QED BY <1>1, <2>1, <3>1
    <2>2. CASE t + c >= M
      <3>1. (M * 1 + (t + c - M)) % M = t + c - M
        BY <1>1, <2>2, Remainder
      <3> QED BY <1>1, <2>2, <3>1
    <2> QED BY <1>1, <2>1, <2>2
  <1> QED BY <1>1, <1>2, <1>3

\* The time of an alarm that is to be called k ticks from now, and the flag.
LEMMA Ahead ==
    ASSUME NEW c \in 0 .. M - 1, NEW k \in 1 .. M - 1
    PROVE  /\ (c + k) % M \in 0 .. M - 1 /\ (c + k) % M # c
           /\ (((c + k) % M) - c) % M = k
           /\ c = 0 => ~((c + k) % M < c)
  <1>1. M \in Nat /\ M > 2 /\ k \in 0 .. M - 1
    BY Counter
  <1> DEFINE t == (c + k) % M
  <1>2. t = (IF c + k < M THEN c + k ELSE c + k - M) /\ t \in 0 .. M - 1
    BY <1>1, Wraps
  <1>3. (t - c) % M = IF t >= c THEN t - c ELSE t - c + M
    BY <1>2, Wraps
  <1> HIDE DEF t
  <1>4. t \in 0 .. M - 1 /\ t # c /\ (t - c) % M = k /\ (c = 0 => ~(t < c))
    BY <1>1, <1>2, <1>3
  <1> QED BY <1>4 DEF t

\* A set of listed alarms that leads nowhere else is empty.
LEMMA NoLoop ==
    ASSUME Links, NEW S \in SUBSET Listed, \A a \in S : next[a] \in S
    PROVE  S = {}
  BY DEF Links, ListIntact

\* No two places of the list are followed by the same one.
LEMMA OnePredecessor ==
    ASSUME Links, NEW x \in Listed \cup {alt_alarm_list}, NEW y \in Listed \cup {alt_alarm_list},
           next[x] = next[y]
    PROVE  x = y
  BY DEF Links, ListIntact

\* At start no alarm is counted.
LEMMA TickInit == Init => TickInv
  <1> SUFFICES ASSUME Init PROVE TickInv
    OBVIOUS
  <1>1. \A a \in Alarms : next[a] = Null
    BY HeadIsApart DEF Init, Nodes
  <1>2. Listed = {}
    BY <1>1 DEF Listed
  <1>3. Pending({})
    BY <1>2 DEF Init, Pending
  <1>4. TimesInv
    BY <1>2, Counter DEF Init, TimesInv
  <1>5. CallingInv
    BY DEF Init, CallingInv
  <1> QED BY <1>2, <1>3, <1>4, <1>5, ListInit DEF TickInv

\* The handler goes on to succ: what was pending behind it still is.
LEMMA WalkOn ==
    ASSUME ListInv, NEW P \in SUBSET Listed, Pending(P), alarm # alt_alarm_list,
           UNCHANGED <<next, previous, _alt_nticks>>, Walk(succ),
           \A a \in Alarms : a # alarm => UNCHANGED <<time[a], rollover[a]>>,
           \A a \in Listed : a = alarm => Settled(a)'
    PROVE  \E Q \in SUBSET Listed' : Pending(Q)'
  <1>1. Listed' = Listed /\ Links
    BY DEF Listed, ListInv
  <1>2. alarm' = succ /\ succ' = IF succ = alt_alarm_list THEN succ ELSE next[succ]
    BY DEF Walk
  <1>3. \A a \in Listed \ P : Settled(a)'
    BY DEF Pending, Settled, Listed
  <1>4. CASE succ = alt_alarm_list
    <2>1. P = {}
      BY <1>4 DEF Pending
    <2>2. Pending({})'
      BY <1>1, <1>2, <1>3, <1>4, <2>1 DEF Pending
    <2> QED BY <2>2
  <1>5. CASE succ # alt_alarm_list
    <2>0. PICK Q : Q = P \ {succ}
      OBVIOUS
    <2>1. succ \in P /\ succ \in Listed
      BY <1>5 DEF Pending
    <2>2. next[succ] \in Q \cup {alt_alarm_list}
      BY <2>0, <2>1 DEF Pending
    <2>3. \A a \in Q : next[a] \in Q \cup {alt_alarm_list} /\ next[a] # next[succ]
      BY <1>1, <2>0, <2>1, OnePredecessor DEF Pending
    <2>4. next[succ] = alt_alarm_list => Q = {}
      BY <1>1, <2>0, <2>3, NoLoop
    <2>5. succ \notin Q /\ \A a \in Listed \ Q : a # succ => Settled(a)'
      BY <1>3, <2>0
    <2>6. Pending(Q)'
      BY <1>1, <1>2, <1>5, <2>2, <2>3, <2>4, <2>5 DEF Pending
    <2>7. Q \in SUBSET Listed'
      BY <1>1, <2>0
    <2> QED BY <2>6, <2>7
  <1> QED BY <1>4, <1>5

\* The ticks left are those from now to the alarm's time, modulo the counter.
LEMMA LeftOf ==
    /\ DOMAIN TicksLeft = Listed
    /\ \A a \in Listed : TicksLeft[a] = (time[a] - _alt_nticks) % M
    /\ Listed \subseteq Alarms
  BY DEF TicksLeft, Listed

\* Starting an alarm starts its countdown.
LEMMA StartCounts ==
    ASSUME TickInv, NEW a \in Alarms, NEW k \in Delays, alt_alarm_start(a, k)
    PROVE  TickInv' /\ Countdown!Start(a, k)
  <1>1. ListInv'
    BY StartKeepsList DEF TickInv
  <1>2. a \notin Listed /\ a # alarm /\ alt_llist_insert(a) /\ UNCHANGED <<_alt_nticks, alarm, succ, calling>>
    BY DEF alt_alarm_start, walkVars
  <1>3. Listed' = Listed \cup {a} /\ \A x \in Listed : x \in Nodes /\ next'[x] = next[x]
    <2>1. Listed' = Listed \cup {a}
      BY <1>2, InsertKeepsLinks DEF TickInv, ListInv
    <2>2. ASSUME NEW x \in Listed PROVE x \in Nodes /\ next'[x] = next[x]
      BY <1>2, HeadIsApart DEF alt_llist_insert, TickInv, ListInv, Links, Listed, Nodes
    <2> QED BY <2>1, <2>2
  <1>4. k + 1 \in 1 .. M - 1 /\ k \in Int /\ _alt_nticks \in 0 .. M - 1 /\ _alt_nticks \in Int
    BY Counter DEF TickInv, TimesInv
  <1>5. k + _alt_nticks + 1 = _alt_nticks + (k + 1)
    BY <1>4
  <1> DEFINE t == (_alt_nticks + (k + 1)) % M
  <1>6. /\ time' = [time EXCEPT ![a] = t] /\ rollover' = [rollover EXCEPT ![a] = time'[a] < _alt_nticks]
    BY <1>5 DEF alt_alarm_start
  <1>7. /\ t \in 0 .. M - 1 /\ t # _alt_nticks /\ (t - _alt_nticks) % M = k + 1
        /\ _alt_nticks = 0 => ~(t < _alt_nticks)
    BY <1>4, Ahead
  <1> HIDE DEF t
  <1>8. /\ time' \in [Alarms -> 0 .. M - 1] /\ rollover' \in [Alarms -> BOOLEAN]
        /\ time'[a] = t /\ rollover'[a] = (t < _alt_nticks)
        /\ \A x \in Alarms : x # a => time'[x] = time[x] /\ rollover'[x] = rollover[x]
    <2>1. time' \in [Alarms -> 0 .. M - 1] /\ time'[a] = t
      BY <1>6, <1>7 DEF TickInv, TimesInv
    <2> DEFINE r == t < _alt_nticks
    <2>2. r \in BOOLEAN /\ rollover' = [rollover EXCEPT ![a] = r]
      BY <1>6, <2>1
    <2> HIDE DEF r
    <2>3. /\ rollover' \in [Alarms -> BOOLEAN] /\ rollover'[a] = r
          /\ \A x \in Alarms : x # a => time'[x] = time[x] /\ rollover'[x] = rollover[x]
      BY <1>6, <2>2 DEF TickInv, TimesInv
    <2> QED BY <2>1, <2>3 DEF r
  <1>9. TimesInv'
    <2>1. ASSUME NEW x \in Listed', _alt_nticks # 0 PROVE rollover'[x] <=> time'[x] < _alt_nticks
      <3>1. CASE x = a
        BY <1>8, <3>1
      <3>2. CASE x # a
        <4>1. x \in Listed /\ x \in Alarms
          BY <1>3, <3>2 DEF Listed
        <4> QED BY <1>8, <2>1, <3>2, <4>1 DEF TickInv, TimesInv
      <3> QED BY <3>1, <3>2
    <2> QED BY <1>2, <1>4, <1>8, <2>1 DEF TimesInv
  <1>10. CallingInv'
    <2>1. CASE calling
      <3>1. alarm \in Alarms
        BY <2>1 DEF TickInv, ListInv, WalkSafe, Nodes
      <3> QED BY <1>2, <1>3, <1>8, <2>1, <3>1 DEF TickInv, CallingInv
    <2>2. CASE ~calling
      BY <1>2, <1>3, <2>2 DEF TickInv, CallingInv
    <2> QED BY <2>1, <2>2
  <1>11. \E P \in SUBSET Listed' : Pending(P)'
    <2>1. PICK P \in SUBSET Listed : Pending(P)
      BY DEF TickInv
    <2>2. ASSUME NEW x \in Listed' \ P, x # alarm PROVE Settled(x)'
      <3>1. CASE x = a
        BY <1>2, <1>7, <1>8, <3>1 DEF Settled
      <3>2. CASE x # a
        <4>1. x \in Listed /\ x \in Alarms
          BY <1>3, <3>2 DEF Listed
        <4> QED BY <1>2, <1>8, <2>1, <2>2, <3>2, <4>1 DEF Pending, Settled
      <3> QED BY <3>1, <3>2
    <2>3. Pending(P)'
      BY <1>2, <1>3, <2>1, <2>2 DEF Pending
    <2> QED BY <1>3, <2>1, <2>3
  <1>12. Countdown!Start(a, k)
    <2>1. TicksLeft' = [x \in Listed' |-> (time'[x] - _alt_nticks) % M]
      BY <1>2 DEF TicksLeft
    <2>2. \A x \in Listed \cup {a} :
             (time'[x] - _alt_nticks) % M = IF x = a THEN k + 1 ELSE TicksLeft[x]
      BY <1>2, <1>7, <1>8, LeftOf
    <2>3. TicksLeft' = [x \in Listed \cup {a} |-> IF x = a THEN k + 1 ELSE TicksLeft[x]]
      BY <1>3, <2>1, <2>2
    <2> QED BY <1>2, <2>3, LeftOf DEF Countdown!Start
  <1> QED BY <1>1, <1>9, <1>10, <1>11 , <1>12 DEF TickInv

\* Taking an alarm out of the list stops its countdown, or it had none.
LEMMA RemoveStops ==
    ASSUME NEW a \in Alarms, Listed' = Listed \ {a}, UNCHANGED <<time, _alt_nticks>>
    PROVE  Countdown!Stop(a) \/ UNCHANGED TicksLeft
  <1>1. TicksLeft' = [x \in Listed \ {a} |-> (time[x] - _alt_nticks) % M]
    BY DEF TicksLeft
  <1>2. CASE a \in Listed
    <2>1. TicksLeft' = [x \in Listed \ {a} |-> TicksLeft[x]]
      BY <1>1, LeftOf
    <2> QED BY <1>2, <2>1, LeftOf DEF Countdown!Stop, Countdown!Restrict
  <1>3. CASE a \notin Listed
    <2>1. Listed \ {a} = Listed
      BY <1>3
    <2> QED BY <1>1, <2>1 DEF TicksLeft
  <1> QED BY <1>2, <1>3

\* What is pending stays so when another alarm is taken out.
LEMMA RemovePends ==
    ASSUME Links, Links', NEW a \in Alarms, next[a] # Null, alt_llist_remove(a), Listed' = Listed \ {a},
           NEW P \in SUBSET Listed, NEW s \in P \cup {alt_alarm_list}, a # s,
           \A x \in P : next[x] \in (P \ {s}) \cup {alt_alarm_list}
    PROVE  \A x \in P \ {a} : next'[x] \in (P \ {a, s}) \cup {alt_alarm_list}
  <1> SUFFICES ASSUME NEW x \in P \ {a}
               PROVE  next'[x] \in (P \ {a, s}) \cup {alt_alarm_list}
    OBVIOUS
  <1>1. x \in Listed /\ x \in Nodes /\ a \in Nodes /\ next[x] \in (P \ {s}) \cup {alt_alarm_list}
    BY DEF Listed, Nodes
  <1>2. next'[x] = next[x] \/ (next[x] = a /\ next'[x] = next[a])
    <2>1. x = previous[a] => next[x] = a
      <3>1. CASE a \in Listed
        BY <3>1 DEF Links
      <3>2. CASE a \notin Listed
        <4>1. previous[a] = a
          BY <3>2 DEF Links, Listed
        <4> QED BY <4>1
      <3> QED BY <3>1, <3>2
    <2> QED BY <1>1, <2>1 DEF alt_llist_remove, Links
  <1>3. next'[x] # a
    <2>1. x \in Listed'
      BY <1>1
    <2>2. next'[x] \in Listed' \cup {alt_alarm_list}
      BY <2>1 DEF Links, ListIntact
    <2> QED BY <2>2, HeadIsApart
  <1>4. CASE next'[x] = next[x]
    BY <1>1, <1>3, <1>4
  <1>5. CASE next[x] = a /\ next'[x] = next[a]
    <2>1. a \in P
      BY <1>1, <1>5, HeadIsApart
    <2>2. next[a] \in (P \ {s}) \cup {alt_alarm_list}
      BY <2>1
    <2> QED BY <1>3, <1>5, <2>2
  <1> QED BY <1>2, <1>4, <1>5

\* Stopping an alarm ends its countdown; it may be the handler that stops the
\* alarm whose callback it has called.
LEMMA StopCounts ==
    ASSUME TickInv, NEW a \in Alarms, alt_alarm_stop(a)
    PROVE  TickInv' /\ (Countdown!Stop(a) \/ UNCHANGED TicksLeft)
  <1>1. ListInv' /\ Links /\ Links'
    BY StopKeepsList DEF TickInv, ListInv
  <1>2. /\ next[a] # Null /\ alt_llist_remove(a) /\ a # succ
        /\ UNCHANGED <<_alt_nticks, time, rollover, alarm, succ, calling>>
    <2>1. CASE calling
      BY <2>1 DEF alt_alarm_stop, walkVars
    <2>2. CASE ~calling
      BY <2>2, HeadIsApart DEF alt_alarm_stop, Running, TickInv, ListInv, WalkSafe, walkVars
    <2> QED BY <2>1, <2>2
  <1>3. Listed' = Listed \ {a}
    BY <1>1, <1>2, RemoveKeepsLinks
  <1>4. TimesInv'
    BY <1>2, <1>3 DEF TickInv, TimesInv
  <1>5. CallingInv'
    <2>1. alarm # alt_alarm_list => calling
      BY DEF alt_alarm_stop, Running
    <2> QED BY <1>2, <1>3, <2>1 DEF TickInv, CallingInv
  <1>6. \E Q \in SUBSET Listed' : Pending(Q)'
    <2>1. PICK P \in SUBSET Listed : Pending(P)
      BY DEF TickInv
    <2>2. \A x \in P \ {a} : next'[x] \in (P \ {a, succ}) \cup {alt_alarm_list}
      BY <1>1, <1>2, <1>3, <2>1, RemovePends DEF Pending
    <2>3. PICK Q : Q = P \ {a}
      OBVIOUS
    <2>4. Pending(Q)'
      BY <1>2, <1>3, <2>1, <2>2, <2>3 DEF Pending, Settled
    <2> QED BY <1>3, <2>3, <2>4
  <1>7. Countdown!Stop(a) \/ UNCHANGED TicksLeft
    BY <1>2, <1>3, RemoveStops
  <1> QED BY <1>1, <1>4, <1>5, <1>6, <1>7 DEF TickInv

\* The interrupt comes when no alarm is due any more, and counts the tick.
LEMMA IrqCounts ==
    ASSUME TickInv, alt_avalon_timer_sc_irq, ListInv'
    PROVE  TickInv' /\ Countdown!Tick
  <1> DEFINE c == _alt_nticks
             f == next[alt_alarm_list]
  <1>1. /\ alarm = alt_alarm_list /\ c' = (c + 1) % M /\ Walk(f) /\ ~calling' /\ calling' = FALSE
        /\ UNCHANGED <<next, previous, time, rollover>> /\ succ = alt_alarm_list
    BY DEF alt_avalon_timer_sc_irq, listVars, TickInv, ListInv, WalkSafe
  <1>2. Listed' = Listed /\ Links /\ f \in Listed \cup {alt_alarm_list} /\ alt_alarm_list \notin Listed
    BY <1>1, HeadIsApart DEF Listed, TickInv, ListInv, Links, ListIntact
  <1>3. \A a \in Listed : Settled(a)
    BY <1>1, <1>2 DEF TickInv, Pending
  <1>4. /\ c \in 0 .. M - 1 /\ c' = (IF c + 1 < M THEN c + 1 ELSE c + 1 - M) /\ c' \in 0 .. M - 1
        /\ M \in Nat /\ M > 2
    <2>1. c \in 0 .. M - 1 /\ 1 \in 0 .. M - 1 /\ M \in Nat /\ M > 2
      BY Counter DEF TickInv, TimesInv
    <2>2. (c + 1) % M = (IF c + 1 < M THEN c + 1 ELSE c + 1 - M) /\ (c + 1) % M \in 0 .. M - 1
      BY <2>1, Wraps
    <2> QED BY <1>1, <2>1, <2>2
  <1>5. ASSUME NEW a \in Listed
        PROVE  /\ (time[a] - c) % M > 0 /\ (time[a] - c') % M = ((time[a] - c) % M) - 1
               /\ (c' # 0 => (rollover[a] <=> time[a] < c'))
    <2>1. time[a] \in 0 .. M - 1 /\ time[a] # c /\ rollover[a] \in BOOLEAN
          /\ (c = 0 => ~rollover[a]) /\ (c # 0 => (rollover[a] <=> time[a] < c))
      BY <1>3, LeftOf DEF TickInv, TimesInv, Settled
    <2>2. /\ (time[a] - c) % M = IF time[a] >= c THEN time[a] - c ELSE time[a] - c + M
          /\ (time[a] - c') % M = IF time[a] >= c' THEN time[a] - c' ELSE time[a] - c' + M
      <3> HIDE DEF c
      <3>1. (time[a] - c) % M = IF time[a] >= c THEN time[a] - c ELSE time[a] - c + M
        BY <1>4, <2>1, Wraps
      <3>2. PICK d : d = c'
        OBVIOUS
      <3>3. d \in 0 .. M - 1 /\ time[a] \in 0 .. M - 1
        BY <1>4, <2>1, <3>2
      <3>4. (time[a] - d) % M = IF time[a] >= d THEN time[a] - d ELSE time[a] - d + M
        BY <3>3, Wraps
      <3> QED BY <3>1, <3>2, <3>4
    <2>3. (time[a] - c) % M > 0 /\ (time[a] - c') % M = ((time[a] - c) % M) - 1
      <3> HIDE DEF c
      <3>1. PICK t, d : t = time[a] /\ d = c'
        OBVIOUS
      <3>2. /\ t \in 0 .. M - 1 /\ t # c /\ c \in 0 .. M - 1 /\ M \in Nat
            /\ d = (IF c + 1 < M THEN c + 1 ELSE c + 1 - M)
        BY <1>4, <2>1, <3>1
      <3>3. (IF t >= c THEN t - c ELSE t - c + M) > 0
        BY <3>2
      <3>4. (IF t >= d THEN t - d ELSE t - d + M) = (IF t >= c THEN t - c ELSE t - c + M) - 1
        BY <3>2
      <3> QED BY <2>2, <3>1, <3>3, <3>4
    <2>4. c' # 0 => (time[a] < c' <=> time[a] < c)
      BY <1>4, <2>1
    <2>5. c = 0 => ~(time[a] < c)
      BY <1>4, <2>1
    <2> QED BY <2>1, <2>3, <2>4, <2>5
  <1>6. TimesInv'
    BY <1>1, <1>2, <1>4, <1>5 DEF TickInv, TimesInv
  <1>7. CallingInv'
    BY <1>1, <1>2 DEF CallingInv, Walk
  <1>8. \E Q \in SUBSET Listed' : Pending(Q)'
    <2>1. PICK Q : Q = Listed \ {f}
      OBVIOUS
    <2>2. alarm' = f /\ succ' = (IF f = alt_alarm_list THEN f ELSE next[f])
      BY <1>1 DEF Walk
    <2>3. \A a \in Q : next[a] \in Listed \cup {alt_alarm_list} /\ next[a] # f
      BY <1>2, <2>1, OnePredecessor DEF Links, ListIntact
    <2>4. CASE f = alt_alarm_list
      <3>1. Listed = {}
        BY <1>2, <2>1, <2>3, <2>4, NoLoop
      <3> QED BY <1>1, <1>2, <2>1, <2>2, <2>4, <3>1 DEF Pending
    <2>5. CASE f # alt_alarm_list
      <3>1. f \in Listed /\ next[f] \in Listed \cup {alt_alarm_list} /\ next[f] # f
        BY <1>2, <2>5 DEF Links, ListIntact, Listed
      <3>2. \A a \in Q : next[a] # next[f]
        BY <1>2, <2>1, <3>1, OnePredecessor
      <3>3. next[f] = alt_alarm_list => Q = {}
        BY <1>2, <2>1, <2>3, <3>2, NoLoop
      <3>4. Pending(Q)'
        BY <1>1, <1>2, <2>1, <2>2, <2>3, <2>5, <3>1, <3>2, <3>3 DEF Pending
      <3> QED BY <1>2, <2>1, <3>4
    <2> QED BY <2>4, <2>5
  <1>9. Countdown!Tick
    <2>1. \A a \in DOMAIN TicksLeft : TicksLeft[a] > 0
      BY <1>5, LeftOf
    <2>2. TicksLeft' = [a \in Listed |-> (time[a] - c') % M]
      BY <1>1, <1>2 DEF TicksLeft
    <2>3. TicksLeft' = [a \in DOMAIN TicksLeft |-> TicksLeft[a] - 1]
      BY <1>5, <2>2, LeftOf
    <2> QED BY <2>1, <2>3 DEF Countdown!Tick
  <1> QED BY <1>6, <1>7, <1>8, <1>9 DEF TickInv

\* An alarm that is passed over is not due.
LEMMA PassCounts == ASSUME TickInv, Pass, ListInv' PROVE TickInv' /\ UNCHANGED TicksLeft
  <1>1. /\ alarm # alt_alarm_list /\ ~calling /\ ~Due(alarm) /\ Walk(succ)
        /\ rollover' = [rollover EXCEPT ![alarm] = @ /\ _alt_nticks # 0]
        /\ UNCHANGED <<next, previous, time, _alt_nticks, calling>>
    BY DEF Pass, listVars
  <1>2. /\ alarm \in Listed /\ alarm \in Alarms /\ Listed' = Listed
        /\ _alt_nticks \in Int /\ _alt_nticks >= 0 /\ time[alarm] \in Int /\ time[alarm] >= 0
    BY <1>1, Counter DEF TickInv, CallingInv, TimesInv, Listed
  <1> DEFINE r == rollover[alarm] /\ _alt_nticks # 0
  <1>3. rollover' = [rollover EXCEPT ![alarm] = r] /\ r \in BOOLEAN
    BY <1>1
  <1> HIDE DEF r
  <1>4. /\ rollover' \in [Alarms -> BOOLEAN] /\ rollover'[alarm] = r
        /\ \A a \in Alarms : a # alarm => rollover'[a] = rollover[a]
    BY <1>2, <1>3 DEF TickInv, TimesInv
  <1>5. _alt_nticks # 0 => (r <=> rollover[alarm])
    BY DEF r
  <1>6. TimesInv'
    <2>1. ASSUME NEW a \in Listed, _alt_nticks # 0 PROVE rollover'[a] <=> time[a] < _alt_nticks
      <3>1. rollover'[a] <=> rollover[a]
        BY <1>4, <1>5, <2>1 DEF Listed
      <3> QED BY <2>1, <3>1 DEF TickInv, TimesInv
    <2> QED BY <1>1, <1>2, <1>4, <2>1 DEF TickInv, TimesInv
  <1>7. time[alarm] # _alt_nticks
    <2>1. ~(time[alarm] <= _alt_nticks) \/ (rollover[alarm] /\ _alt_nticks # 0)
      BY <1>1 DEF Due
    <2>2. rollover[alarm] /\ _alt_nticks # 0 => time[alarm] < _alt_nticks
      BY <1>2 DEF TickInv, TimesInv
    <2> QED BY <1>2, <2>1, <2>2
  <1>8. _alt_nticks = 0 => ~rollover'[alarm]
    BY <1>4 DEF r
  <1>9. \E Q \in SUBSET Listed' : Pending(Q)'
    <2>1. PICK P \in SUBSET Listed : Pending(P)
      BY DEF TickInv
    <2>2. \A a \in Listed : a = alarm => Settled(a)'
      BY <1>1, <1>7, <1>8 DEF Settled
    <2> QED BY <1>1, <1>4, <2>1, <2>2, WalkOn DEF TickInv
  <1>10. CallingInv'
    <2>1. succ \in Listed \cup {alt_alarm_list}
      BY DEF TickInv, ListInv, WalkSafe
    <2> QED BY <1>1, <1>2, <2>1 DEF CallingInv, Walk, TickInv
  <1>11. UNCHANGED TicksLeft
    BY <1>1, <1>2 DEF TicksLeft
  <1> QED BY <1>6, <1>9, <1>10, <1>11 DEF TickInv

\* A callback is called at the tick its alarm asked for.
LEMMA CallCounts == ASSUME TickInv, Call, ListInv' PROVE TickInv' /\ UNCHANGED TicksLeft
  <1>1. /\ alarm # alt_alarm_list /\ ~calling /\ Due(alarm) /\ calling' = TRUE
        /\ rollover' = [rollover EXCEPT ![alarm] = FALSE]
        /\ UNCHANGED <<next, previous, time, _alt_nticks, alarm, succ>>
    BY DEF Call, listVars
  <1>2. /\ alarm \in Listed /\ alarm \in Alarms /\ Listed' = Listed
        /\ _alt_nticks \in 0 .. M - 1 /\ time[alarm] \in 0 .. M - 1
    BY <1>1, Counter DEF TickInv, CallingInv, TimesInv, Listed
  <1>3. /\ rollover' \in [Alarms -> BOOLEAN] /\ rollover'[alarm] = FALSE
        /\ \A a \in Alarms : a # alarm => rollover'[a] = rollover[a]
    BY <1>1, <1>2 DEF TickInv, TimesInv
  <1>4. time[alarm] = _alt_nticks
    <2>1. time[alarm] <= _alt_nticks /\ (_alt_nticks # 0 => ~rollover[alarm])
      BY <1>1 DEF Due
    <2>2. _alt_nticks # 0 => ~(time[alarm] < _alt_nticks)
      BY <1>2, <2>1 DEF TickInv, TimesInv
    <2> QED BY <1>2, <2>1, <2>2, Counter
  <1>5. TimesInv'
    <2>1. ASSUME NEW a \in Listed, _alt_nticks # 0 PROVE rollover'[a] <=> time[a] < _alt_nticks
      <3>1. CASE a = alarm
        BY <1>2, <1>3, <1>4, <3>1, Counter
      <3>2. CASE a # alarm
        BY <1>3, <2>1, <3>2 DEF TickInv, TimesInv, Listed
      <3> QED BY <3>1, <3>2
    <2> QED BY <1>1, <1>2, <1>3, <2>1 DEF TickInv, TimesInv
  <1>6. CallingInv'
    BY <1>1, <1>3, <1>4 DEF CallingInv
  <1>7. \E Q \in SUBSET Listed' : Pending(Q)'
    <2>1. PICK P \in SUBSET Listed : Pending(P)
      BY DEF TickInv
    <2>2. \A a \in Listed : a # alarm => (Settled(a) => Settled(a)')
      BY <1>1, <1>3 DEF Settled, Listed
    <2>3. Pending(P)'
      BY <1>1, <1>2, <2>1, <2>2 DEF Pending
    <2> QED BY <1>2, <2>1, <2>3
  <1>8. UNCHANGED TicksLeft
    BY <1>1, <1>2 DEF TicksLeft
  <1> QED BY <1>5, <1>6, <1>7, <1>8 DEF TickInv

\* A callback returns 0, and its alarm is out of the list, if it was in it.
LEMMA ReturnZeroCounts ==
    ASSUME TickInv, ReturnZero, ListInv'
    PROVE  TickInv' /\ (Countdown!Stop(alarm) \/ UNCHANGED TicksLeft) /\ alarm \in Alarms
  <1>1. /\ calling /\ calling' = FALSE /\ alt_llist_remove(alarm) /\ alarm' = succ
        /\ succ' = (IF succ = alt_alarm_list THEN succ ELSE next'[succ])
        /\ UNCHANGED <<time, rollover, _alt_nticks>>
    BY DEF ReturnZero
  <1>2. alarm \in Alarms /\ next[alarm] # Null /\ succ # alarm /\ Links /\ Links'
    BY <1>1 DEF TickInv, ListInv, WalkSafe, Nodes
  <1>3. Listed' = Listed \ {alarm}
    BY <1>1, <1>2, RemoveKeepsLinks
  <1>4. TimesInv'
    BY <1>1, <1>3 DEF TickInv, TimesInv
  <1>5. CallingInv'
    BY <1>1, <1>2, <1>3 DEF TickInv, ListInv, WalkSafe, CallingInv
  <1>6. \E Q \in SUBSET Listed' : Pending(Q)'
    <2>1. PICK P \in SUBSET Listed : Pending(P)
      BY DEF TickInv
    <2>2. alarm \notin P /\ P \ {alarm} = P /\ succ \in P \cup {alt_alarm_list}
      BY <2>1 DEF Pending
    <2>3. \A x \in P \ {alarm} : next'[x] \in (P \ {alarm, succ}) \cup {alt_alarm_list}
      BY <1>1, <1>2, <1>3, <2>1, <2>2, RemovePends DEF Pending
    <2>4. PICK Q : Q = P \ {succ}
      OBVIOUS
    <2>5. \A a \in Listed' \ P : Settled(a)'
      BY <1>1, <1>3, <2>1 DEF Pending, Settled
    <2>6. Q \in SUBSET Listed'
      BY <1>3, <2>1, <2>2, <2>4
    <2>7. CASE succ = alt_alarm_list
      <3>1. P = {} /\ Q = {}
        BY <2>1, <2>4, <2>7 DEF Pending
      <3>2. Pending(Q)'
        BY <1>1, <2>5, <2>7, <3>1 DEF Pending
      <3> QED BY <2>6, <3>2
    <2>8. CASE succ # alt_alarm_list
      <3>1. succ \in P /\ succ \in Listed' /\ P \subseteq Listed'
        BY <1>2, <1>3, <2>1, <2>2, <2>8
      <3>2. next'[succ] \in Q \cup {alt_alarm_list}
        BY <2>2, <2>3, <2>4, <3>1
      <3>3. \A a \in Q : next'[a] \in Q \cup {alt_alarm_list} /\ next'[a] # next'[succ]
        <4> SUFFICES ASSUME NEW a \in Q PROVE next'[a] \in Q \cup {alt_alarm_list} /\ next'[a] # next'[succ]
          OBVIOUS
        <4>1. next'[a] \in Q \cup {alt_alarm_list}
          BY <2>2, <2>3, <2>4
        <4>2. a \in Listed' /\ a # succ /\ previous'[next'[a]] = a /\ previous'[next'[succ]] = succ
          BY <1>2, <2>4, <3>1 DEF Links, ListIntact
        <4> QED BY <4>1, <4>2
      <3>4. next'[succ] = alt_alarm_list => Q = {}
        <4>1. (\A a \in Q : next'[a] \in Q) => Q = {}
          BY <1>2, <2>6 DEF Links, ListIntact
        <4> QED BY <3>3, <4>1
      <3>5. Pending(Q)'
        BY <1>1, <2>4, <2>5, <2>8, <3>2, <3>3, <3>4 DEF Pending
      <3> QED BY <2>6, <3>5
    <2> QED BY <2>7, <2>8
  <1>7. Countdown!Stop(alarm) \/ UNCHANGED TicksLeft
    BY <1>1, <1>2, <1>3, RemoveStops
  <1> QED BY <1>2, <1>4, <1>5, <1>6, <1>7 DEF TickInv

\* A callback returns the ticks until its next call, which count from now; if
\* it has stopped its own alarm they count for nothing.
LEMMA ReturnTicksCounts ==
    ASSUME TickInv, NEW k \in Delays \ {0}, ReturnTicks(k), ListInv'
    PROVE  TickInv' /\ (Countdown!Called(alarm, k) \/ UNCHANGED TicksLeft) /\ alarm \in Alarms
  <1> DEFINE t == (time[alarm] + k) % M
  <1>1. /\ calling /\ calling' = FALSE /\ Walk(succ)
        /\ time' = [time EXCEPT ![alarm] = t]
        /\ rollover' = [rollover EXCEPT ![alarm] = time'[alarm] < _alt_nticks]
        /\ UNCHANGED <<next, previous, _alt_nticks>>
    BY DEF ReturnTicks, listVars
  <1>2. /\ alarm \in Alarms /\ alarm # alt_alarm_list /\ Listed' = Listed
        /\ _alt_nticks \in 0 .. M - 1 /\ time[alarm] \in 0 .. M - 1 /\ k \in 1 .. M - 1 /\ k \in 0 .. M - 1
    BY <1>1, Counter, HeadIsApart DEF TickInv, ListInv, WalkSafe, TimesInv, Nodes, Listed
  <1>3. t \in 0 .. M - 1
    BY <1>2, Wraps
  <1>4. ASSUME alarm \in Listed
        PROVE  /\ time[alarm] = _alt_nticks /\ t # _alt_nticks /\ (t - _alt_nticks) % M = k
               /\ _alt_nticks = 0 => ~(t < _alt_nticks)
    <2>1. time[alarm] = _alt_nticks
      BY <1>1, <1>4 DEF TickInv, CallingInv
    <2> QED BY <1>2, <2>1, Ahead
  <1> HIDE DEF t
  <1>5. /\ time' \in [Alarms -> 0 .. M - 1] /\ rollover' \in [Alarms -> BOOLEAN]
        /\ time'[alarm] = t /\ rollover'[alarm] = (t < _alt_nticks)
        /\ \A x \in Alarms : x # alarm => time'[x] = time[x] /\ rollover'[x] = rollover[x]
    <2>1. time' \in [Alarms -> 0 .. M - 1] /\ time'[alarm] = t
      BY <1>1, <1>2, <1>3 DEF TickInv, TimesInv
    <2> DEFINE r == t < _alt_nticks
    <2>2. r \in BOOLEAN /\ rollover' = [rollover EXCEPT ![alarm] = r]
      BY <1>1, <2>1
    <2> HIDE DEF r
    <2>3. /\ rollover' \in [Alarms -> BOOLEAN] /\ rollover'[alarm] = r
          /\ \A x \in Alarms : x # alarm => time'[x] = time[x] /\ rollover'[x] = rollover[x]
      BY <1>1, <1>2, <2>2 DEF TickInv, TimesInv
    <2> QED BY <2>1, <2>3 DEF r
  <1>6. TimesInv'
    <2>1. ASSUME NEW x \in Listed, _alt_nticks # 0 PROVE rollover'[x] <=> time'[x] < _alt_nticks
      <3>1. CASE x = alarm
        BY <1>5, <3>1
      <3>2. CASE x # alarm
        BY <1>5, <2>1, <3>2 DEF TickInv, TimesInv, Listed
      <3> QED BY <3>1, <3>2
    <2> QED BY <1>1, <1>2, <1>5, <2>1 DEF TimesInv
  <1>7. CallingInv'
    <2>1. succ \in Listed \cup {alt_alarm_list}
      BY DEF TickInv, ListInv, WalkSafe
    <2> QED BY <1>1, <1>2, <2>1 DEF CallingInv, Walk
  <1>8. \E Q \in SUBSET Listed' : Pending(Q)'
    <2>1. PICK P \in SUBSET Listed : Pending(P)
      BY DEF TickInv
    <2>2. \A a \in Listed : a = alarm => Settled(a)'
      BY <1>1, <1>4, <1>5 DEF Settled
    <2> QED BY <1>1, <1>2, <1>5, <2>1, <2>2, WalkOn DEF TickInv
  <1>9. Countdown!Called(alarm, k) \/ UNCHANGED TicksLeft
    <2>1. TicksLeft' = [x \in Listed |-> (time'[x] - _alt_nticks) % M]
      BY <1>1, <1>2 DEF TicksLeft
    <2>2. CASE alarm \in Listed
      <3>1. TicksLeft[alarm] = 0
        <4>1. TicksLeft[alarm] = (time[alarm] - _alt_nticks) % M /\ time[alarm] = _alt_nticks
          BY <1>4, <2>2, LeftOf
        <4>2. (time[alarm] - _alt_nticks) % M = 0 <=> time[alarm] = _alt_nticks
          BY <1>2, Wraps
        <4> QED BY <4>1, <4>2
      <3>2. \A x \in Listed : (time'[x] - _alt_nticks) % M = IF x = alarm THEN k ELSE TicksLeft[x]
        BY <1>4, <1>5, <2>2, LeftOf
      <3>3. TicksLeft' = [TicksLeft EXCEPT ![alarm] = k]
        BY <2>1, <3>2, LeftOf DEF TicksLeft
      <3> QED BY <2>2, <3>1, <3>3, LeftOf DEF Countdown!Called
    <2>3. CASE alarm \notin Listed
      <3>1. \A x \in Listed : time'[x] = time[x]
        BY <1>5, <2>3 DEF Listed
      <3> QED BY <2>1, <3>1 DEF TicksLeft
    <2> QED BY <2>2, <2>3
  <1> QED BY <1>2, <1>6, <1>7, <1>8, <1>9 DEF TickInv

\* Every step keeps TickInv and is a step of the countdowns, or none.
LEMMA TickStep == TickInv /\ [Next]_vars => TickInv' /\ [Countdown!Next]_TicksLeft
  <1> SUFFICES ASSUME TickInv, [Next]_vars PROVE TickInv' /\ [Countdown!Next]_TicksLeft
    OBVIOUS
  <1>l. ListInv'
    BY ListStep DEF TickInv
  <1>1. CASE alt_avalon_timer_sc_init \/ Expire \/ UNCHANGED vars
    <2>1. UNCHANGED <<next, previous, time, rollover, _alt_nticks, alarm, succ, calling>>
      BY <1>1 DEF alt_avalon_timer_sc_init, Expire, vars, listVars, walkVars
    <2>2. UNCHANGED TicksLeft /\ Listed' = Listed
      BY <2>1 DEF TicksLeft, Listed
    <2>3. \E P \in SUBSET Listed' : Pending(P)'
      BY <2>1, <2>2 DEF TickInv, Pending, Settled
    <2>4. TimesInv' /\ CallingInv'
      BY <2>1, <2>2 DEF TickInv, TimesInv, CallingInv
    <2> QED BY <1>l, <2>2, <2>3, <2>4 DEF TickInv
  <1>2. ASSUME NEW a \in Alarms, alt_alarm_stop(a) PROVE TickInv' /\ [Countdown!Next]_TicksLeft
    BY <1>2, StopCounts DEF Countdown!Next
  <1>3. ASSUME NEW a \in Alarms, NEW k \in Delays, alt_alarm_start(a, k)
        PROVE  TickInv' /\ [Countdown!Next]_TicksLeft
    BY <1>3, StartCounts DEF Countdown!Next
  <1>4. CASE alt_avalon_timer_sc_irq
    BY <1>l, <1>4, IrqCounts DEF Countdown!Next, Countdown!SomeTick
  <1>5. CASE Pass
    BY <1>l, <1>5, PassCounts
  <1>6. CASE Call
    BY <1>l, <1>6, CallCounts
  <1>7. CASE ReturnZero
    BY <1>l, <1>7, ReturnZeroCounts DEF Countdown!Next
  <1>8. ASSUME NEW k \in Delays \ {0}, ReturnTicks(k) PROVE TickInv' /\ [Countdown!Next]_TicksLeft
    BY <1>l, <1>8, ReturnTicksCounts DEF Countdown!Next, Countdown!SomeCalled
  <1> QED BY <1>1, <1>2, <1>3, <1>4, <1>5, <1>6, <1>7, <1>8 DEF Next, alt_tick, Return

\* The alarms count down as promised, across every wrap of the counter: every
\* step of the list and of the handler is one of the countdowns or none.  The
\* safety part of ImplementsCountdown, for all alarms, widths and delays.
THEOREM AlwaysCountsDown == Spec => Countdown!Counts
  <1>1. Init => TickInv
    BY TickInit
  <1>2. Init => Countdown!Init
    <2> SUFFICES ASSUME Init PROVE TicksLeft = <<>>
      BY DEF Countdown!Init
    <2>1. Listed = {}
      BY HeadIsApart DEF Init, Listed, Nodes
    <2> QED BY <2>1 DEF TicksLeft
  <1> QED BY <1>1, <1>2, TickStep, PTL DEF Spec, Countdown!Counts

\* What PeriodsCounted says of one step.
Period ==
    /\ TO /\ ~TO' => _alt_nticks' = (_alt_nticks + 1) % M /\ Countdown!Tick
    /\ \A a \in Listed \cap Listed' :
          \/ TicksLeft'[a] = TicksLeft[a]
          \/ TO /\ ~TO'
          \/ a = alarm /\ calling /\ ~calling'

\* The countdowns that a start, a stop or a callback's return leaves alone.
LEMMA OthersStay ==
    /\ \A a, k : Countdown!Start(a, k) =>
          \A x \in Listed : TicksLeft'[x] = TicksLeft[x]
    /\ \A a : Countdown!Stop(a) =>
          \A x \in Listed \cap Listed' : TicksLeft'[x] = TicksLeft[x]
    /\ \A a, k : Countdown!Called(a, k) /\ k # 0 =>
          \A x \in Listed : x # a => TicksLeft'[x] = TicksLeft[x]
  <1>1. ASSUME NEW a, NEW k, Countdown!Start(a, k), NEW x \in Listed
        PROVE  TicksLeft'[x] = TicksLeft[x]
    BY <1>1, LeftOf DEF Countdown!Start
  <1>2. ASSUME NEW a, Countdown!Stop(a), NEW x \in Listed, x \in Listed'
        PROVE  TicksLeft'[x] = TicksLeft[x]
    <2>1. TicksLeft' = [y \in Listed \ {a} |-> TicksLeft[y]]
      BY <1>2, LeftOf DEF Countdown!Stop, Countdown!Restrict
    <2>2. Listed' = Listed \ {a}
      BY <2>1 DEF TicksLeft
    <2> QED BY <1>2, <2>1, <2>2
  <1>3. ASSUME NEW a, NEW k, Countdown!Called(a, k), k # 0, NEW x \in Listed, x # a
        PROVE  TicksLeft'[x] = TicksLeft[x]
    BY <1>3, LeftOf DEF Countdown!Called
  <1> QED BY <1>1, <1>2, <1>3

\* Every step takes a request away for a tick, or leaves it alone.
LEMMA PeriodStep == TickInv /\ [Next]_vars => [Period]_vars
  <1> SUFFICES ASSUME TickInv, Next PROVE Period
    OBVIOUS
  <1>1. ListInv'
    BY ListStep DEF TickInv
  <1>2. CASE alt_avalon_timer_sc_irq
    <2>1. TO /\ ~TO' /\ _alt_nticks' = (_alt_nticks + 1) % M
      BY <1>2 DEF alt_avalon_timer_sc_irq
    <2> QED BY <1>1, <1>2, <2>1, IrqCounts DEF Period
  <1>3. CASE alt_avalon_timer_sc_init \/ Expire
    <2>1. TO => TO'
      BY <1>3 DEF alt_avalon_timer_sc_init, Expire
    <2>2. UNCHANGED TicksLeft
      BY <1>3 DEF alt_avalon_timer_sc_init, Expire, listVars, TicksLeft, Listed
    <2> QED BY <2>1, <2>2 DEF Period
  <1>4. ASSUME NEW a \in Alarms, alt_alarm_stop(a) PROVE Period
    <2>1. TO' = TO
      BY <1>4 DEF alt_alarm_stop, deviceVars
    <2> QED BY <1>4, <2>1, StopCounts, OthersStay DEF Period
  <1>5. ASSUME NEW a \in Alarms, NEW k \in Delays, alt_alarm_start(a, k) PROVE Period
    <2>1. TO' = TO
      BY <1>5 DEF alt_alarm_start, deviceVars
    <2> QED BY <1>5, <2>1, StartCounts, OthersStay DEF Period
  <1>6. CASE Pass \/ Call
    <2>1. TO' = TO
      BY <1>6 DEF Pass, Call, deviceVars
    <2>2. UNCHANGED TicksLeft
      BY <1>1, <1>6, PassCounts, CallCounts
    <2> QED BY <2>1, <2>2 DEF Period
  <1>7. CASE ReturnZero
    <2>1. TO' = TO
      BY <1>7 DEF ReturnZero, deviceVars
    <2> QED BY <1>1, <1>7, <2>1, ReturnZeroCounts, OthersStay DEF Period
  <1>8. ASSUME NEW k \in Delays \ {0}, ReturnTicks(k) PROVE Period
    <2>1. TO' = TO /\ calling /\ ~calling'
      BY <1>8 DEF ReturnTicks, deviceVars
    <2> QED BY <1>1, <1>8, <2>1, ReturnTicksCounts, OthersStay DEF Period
  <1> QED BY <1>2, <1>3, <1>4, <1>5, <1>6, <1>7, <1>8 DEF Next, alt_tick, Return

\* A timer request is only ever given for a tick that reaches the counter and
\* every running alarm, with no alarm still due; otherwise a running alarm's time
\* moves by the return of its callback alone.
THEOREM AlwaysCounted == Spec => PeriodsCounted
  <1>1. Init => TickInv
    BY TickInit
  <1>2. TickInv /\ [Next]_vars => TickInv'
    BY TickStep
  <1>3. PeriodsCounted <=> [][Period]_vars
    BY DEF PeriodsCounted, Period
  <1> QED BY <1>1, <1>2, <1>3, PeriodStep, PTL DEF Spec
=============================================================================
