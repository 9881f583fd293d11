--------------------------- MODULE RequeueProofs ---------------------------
(***************************************************************************)
(* The promises of Requeue for any number of objects, any intervals and    *)
(* any delays not below the floor, by the inductive invariant RInv.        *)
(***************************************************************************)
EXTENDS Requeue, TLAPS

USE ItemAssumption, RawAssumption, TimeAssumption, StimuliAssumption

\* RefreshIntervalOrDefault never goes below the floor (types.go 97-108).
LEMMA IntervalAboveFloor ==
  ASSUME NEW r \in Nat
  PROVE  Interval(r) \in Nat /\ Interval(r) >= Floor
BY DEF Interval

\* A quarter of an interval, but not less than the floor, is no longer than the
\* interval (reconcile.go shortBackoff).
LEMMA ShortIsShorter ==
  ASSUME NEW i \in Nat, i >= Floor
  PROVE  ShortBackoff(i) \in Nat /\ Floor <= ShortBackoff(i) /\ ShortBackoff(i) <= i
<1>1. i \div 4 \in Nat /\ i \div 4 <= i
  OBVIOUS
<1> QED BY <1>1 DEF ShortBackoff

\* What a pass asks for is nothing, or at least the floor.
LEMMA DelayAboveFloor ==
  ASSUME NEW o \in Outcome, NEW r \in Nat
  PROVE  LET d == Delay(o, Interval(r)) IN d \in Nat /\ (d > 0 => d >= Floor)
<1>1. Interval(r) \in Nat /\ Interval(r) >= Floor
  BY IntervalAboveFloor
<1>2. ShortBackoff(Interval(r)) \in Nat /\ ShortBackoff(Interval(r)) >= Floor
  BY <1>1, ShortIsShorter
<1>3. ShortBackoff(Default) \in Nat /\ ShortBackoff(Default) >= Floor
  BY ShortIsShorter
<1>4. LongBackoff(Interval(r)) \in Nat /\ LongBackoff(Interval(r)) >= Floor
  BY <1>1 DEF LongBackoff
<1> QED BY <1>1, <1>2, <1>3, <1>4 DEF Delay, Outcome

\* The earlier deadline: no later than either, and one of the two.
LEMMA EarlierDeadline ==
  ASSUME NEW c \in CR, NEW d \in Nat, timer[c] \in Nat
  PROVE  /\ Deadline(c, d) \in Nat
         /\ Deadline(c, d) <= d
         /\ c \notin armed => Deadline(c, d) = d
         /\ c \in armed => Deadline(c, d) <= timer[c]
         /\ Deadline(c, d) = d \/ (c \in armed /\ Deadline(c, d) = timer[c])
BY DEF Deadline

\* The invariant holds initially.
LEMMA InitHolds == ASSUME Init PROVE RInv
BY DEF Init, RInv, TypeOK, Freshness, FloorBetweenFirings, TwoEarlyFirings,
       DeadlineIsEarliest, HoldIsBounded, AfterOne, AfterTwo

\* The pass that begins keeps the invariant: its item is no longer queued.
LEMMA BeginKeeps == ASSUME RInv, NEW c \in CR, Begin(c) PROVE RInv'
<1>1. TypeOK'
  BY DEF RInv, TypeOK, Begin, timers, ghosts
<1>2. Freshness'
  BY DEF RInv, TypeOK, Freshness, Begin, timers, ghosts
<1>3. FloorBetweenFirings' /\ TwoEarlyFirings' /\ DeadlineIsEarliest' /\ HoldIsBounded'
  BY DEF RInv, FloorBetweenFirings, TwoEarlyFirings, DeadlineIsEarliest, HoldIsBounded,
         Begin, timers, ghosts
<1>4. AfterOne' /\ AfterTwo'
  BY DEF RInv, AfterOne, AfterTwo, Pending, Begin, timers, ghosts
<1> QED BY <1>1, <1>2, <1>3, <1>4 DEF RInv

\* The end of a pass keeps it: of two deadlines the earlier one stays.
LEMMA FinishKeeps == ASSUME RInv, NEW o \in Outcome, Finish(o) PROVE RInv'
<1> DEFINE d == Delay(o, Interval(read))
<1>1. d \in Nat /\ (d > 0 => d >= Floor)
  BY DelayAboveFloor DEF RInv, TypeOK
<1>2. busy \in CR /\ busy' = NoItem
  BY DEF RInv, TypeOK, Finish
<1>3. UNCHANGED <<raw, ready, read, hold, eager, budget>>
  BY DEF Finish
<1> HIDE DEF d
<1>4. CASE d > 0
  <2>1. /\ armed' = armed \cup {busy}
        /\ timer' = [timer EXCEPT ![busy] = Deadline(busy, d)]
        /\ due' = [due EXCEPT ![busy] = d]
        /\ promised' = promised \cup {busy}
    BY <1>4 DEF Finish, d
  <2>2. /\ Deadline(busy, d) \in Nat
        /\ Deadline(busy, d) <= d
        /\ busy \notin armed => Deadline(busy, d) = d
        /\ Deadline(busy, d) = d \/ (busy \in armed /\ Deadline(busy, d) = timer[busy])
    BY <1>1, <1>2, EarlierDeadline DEF RInv, TypeOK
  <2>3. TypeOK'
    BY <1>1, <1>2, <1>3, <2>1, <2>2 DEF RInv, TypeOK
  <2>4. \A c \in CR : IF c = busy THEN timer'[c] = Deadline(busy, d) /\ due'[c] = d
                      ELSE timer'[c] = timer[c] /\ due'[c] = due[c]
    BY <1>2, <2>1 DEF RInv, TypeOK
  <2>5. DeadlineIsEarliest'
    BY <1>2, <2>1, <2>2, <2>4 DEF RInv, TypeOK, DeadlineIsEarliest
  <2>6. Freshness'
    BY <1>2, <1>3, <2>1, <2>2, <2>4 DEF RInv, TypeOK, Freshness
  <2>7. FloorBetweenFirings'
    <3>1. Deadline(busy, d) >= hold[busy]
      BY <1>1, <1>2, <1>4, <2>2 DEF RInv, TypeOK, FloorBetweenFirings, HoldIsBounded
    <3> QED BY <1>2, <1>3, <2>1, <2>4, <3>1 DEF RInv, TypeOK, FloorBetweenFirings
  <2>8. AfterOne' /\ AfterTwo'
    <3> SUFFICES ASSUME NEW c \in CR
                 PROVE  /\ eager[c] = 1 =>
                             /\ ~(c \in ready /\ busy' = c)
                             /\ c \in armed' /\ timer'[c] < due'[c]
                                  => c \notin ready /\ busy' # c
                        /\ eager[c] = 2 =>
                             /\ ~(c \in ready /\ busy' = c)
                             /\ c \in armed' => /\ c \notin ready /\ busy' # c
                                                /\ timer'[c] = due'[c]
      BY <1>3 DEF AfterOne, AfterTwo, Pending
    <3>1. busy' # c
      BY <1>2
    <3>2. CASE c # busy
      BY <1>2, <2>1, <2>4, <3>1, <3>2 DEF RInv, AfterOne, AfterTwo, Pending
    <3>3. CASE c = busy
      <4>1. c \in ready /\ eager[c] = 1 => Deadline(busy, d) = d
        BY <1>2, <2>2, <3>3 DEF RInv, AfterOne
      <4>2. eager[c] = 2 => c \notin ready /\ Deadline(busy, d) = d
        BY <1>2, <2>2, <3>3 DEF RInv, AfterTwo, Pending
      <4> QED BY <1>1, <2>4, <3>1, <3>3, <4>1, <4>2
    <3> QED BY <3>2, <3>3
  <2> QED BY <1>3, <2>3, <2>5, <2>6, <2>7, <2>8
          DEF RInv, TwoEarlyFirings, HoldIsBounded
<1>5. CASE ~(d > 0)
  <2>1. UNCHANGED <<armed, timer, due>> /\ promised' = promised \ {busy}
    BY <1>5 DEF Finish, d, timers
  <2> QED BY <1>2, <1>3, <2>1
          DEF RInv, TypeOK, Freshness, FloorBetweenFirings, TwoEarlyFirings,
              DeadlineIsEarliest, HoldIsBounded, AfterOne, AfterTwo, Pending
<1> QED BY <1>4, <1>5

\* A deadline that is met keeps it: an early firing leaves less behind than the last.
LEMMA FireKeeps == ASSUME RInv, NEW c \in CR, Fire(c) PROVE RInv'
<1>1. /\ c \in armed /\ timer[c] = 0
      /\ ready' = ready \cup {c} /\ armed' = armed \ {c}
      /\ UNCHANGED <<raw, busy, read, timer, due, promised, budget>>
  BY DEF Fire
<1>2. \A x \in CR : IF x = c THEN hold'[x] = Floor ELSE hold'[x] = hold[x]
  BY DEF Fire, RInv, TypeOK
<1>3. \A x \in CR : eager'[x] = IF x = c /\ due[c] > 0 THEN eager[x] + 1 ELSE eager[x]
  BY DEF Fire, RInv, TypeOK
<1>4. TypeOK'
  <2>1. hold' \in [CR -> Nat] /\ eager' \in [CR -> Nat]
    BY DEF Fire, RInv, TypeOK
  <2> QED BY <1>1, <2>1 DEF RInv, TypeOK
<1>5. Freshness' /\ DeadlineIsEarliest' /\ HoldIsBounded' /\ FloorBetweenFirings'
  BY <1>1, <1>2 DEF RInv, TypeOK, Freshness, DeadlineIsEarliest, HoldIsBounded, FloorBetweenFirings
<1>6. CASE due[c] > 0
  <2>1. eager[c] # 2
    BY <1>1, <1>6 DEF RInv, AfterTwo
  <2>2. eager[c] = 1 => c \notin ready /\ busy # c
    BY <1>1, <1>6 DEF RInv, AfterOne, Pending
  <2>3. TwoEarlyFirings'
    BY <1>3, <2>1 DEF RInv, TypeOK, TwoEarlyFirings
  <2>4. AfterOne' /\ AfterTwo'
    BY <1>1, <1>3, <2>1, <2>2 DEF RInv, TypeOK, AfterOne, AfterTwo, Pending
  <2> QED BY <1>4, <1>5, <2>3, <2>4 DEF RInv
<1>7. CASE ~(due[c] > 0)
  <2>1. \A x \in CR : eager'[x] = eager[x]
    BY <1>3, <1>7
  <2>2. TwoEarlyFirings'
    BY <2>1 DEF RInv, TwoEarlyFirings
  <2>3. AfterOne'
    BY <1>1, <2>1 DEF RInv, AfterOne, Pending
  <2>4. AfterTwo'
    BY <1>1, <2>1 DEF RInv, AfterTwo, Pending
  <2> QED BY <1>4, <1>5, <2>2, <2>3, <2>4 DEF RInv
<1> QED BY <1>6, <1>7

\* Time keeps it: it does not pass over a deadline.
LEMMA TickKeeps == ASSUME RInv, Tick PROVE RInv'
<1>1. /\ UNCHANGED <<raw, ready, busy, read, armed, promised, eager, budget>>
      /\ \A c \in armed : timer[c] > 0
  BY DEF Tick, queue
<1>2. TypeOK'
  BY DEF Tick, Less, queue, RInv, TypeOK
<1>3. \A c \in CR : /\ timer'[c] = IF timer[c] > 0 THEN timer[c] - 1 ELSE 0
                    /\ due'[c] = IF due[c] > 0 THEN due[c] - 1 ELSE 0
                    /\ hold'[c] = IF hold[c] > 0 THEN hold[c] - 1 ELSE 0
  BY DEF Tick, Less
<1>4. \A c \in CR : timer[c] \in Nat /\ due[c] \in Nat /\ hold[c] \in Nat
  BY DEF RInv, TypeOK
<1>5. Freshness' /\ DeadlineIsEarliest' /\ HoldIsBounded' /\ FloorBetweenFirings' /\ TwoEarlyFirings'
  BY <1>1, <1>3, <1>4
     DEF RInv, TypeOK, Freshness, DeadlineIsEarliest, HoldIsBounded, FloorBetweenFirings, TwoEarlyFirings
<1>6. AfterOne' /\ AfterTwo'
  BY <1>1, <1>3, <1>4 DEF RInv, TypeOK, AfterOne, AfterTwo, Pending, DeadlineIsEarliest
<1> QED BY <1>2, <1>5, <1>6 DEF RInv

\* Events, edits and restarts.
LEMMA StimulusKeeps ==
  ASSUME RInv, (\E c \in CR : Event(c) \/ Edit(c)) \/ Restart
  PROVE  RInv'
<1>1. ASSUME NEW c \in CR, Event(c) PROVE RInv'
  BY <1>1 DEF Event, Spend, timers, RInv, TypeOK, Freshness, FloorBetweenFirings,
     TwoEarlyFirings, DeadlineIsEarliest, HoldIsBounded, AfterOne, AfterTwo, Pending
<1>2. ASSUME NEW c \in CR, Edit(c) PROVE RInv'
  BY <1>2 DEF Edit, Spend, queue, timers, ghosts, RInv, TypeOK, Freshness,
     FloorBetweenFirings, TwoEarlyFirings, DeadlineIsEarliest, HoldIsBounded,
     AfterOne, AfterTwo, Pending
<1>3. CASE Restart
  BY <1>3 DEF Restart, Spend, RInv, TypeOK, Freshness, FloorBetweenFirings,
     TwoEarlyFirings, DeadlineIsEarliest, HoldIsBounded, AfterOne, AfterTwo
<1> QED BY <1>1, <1>2, <1>3

\* RInv is inductive: every object keeps its deadlines in order, whatever the
\* outcomes, events, edits and restarts (manager.go 57-74, reconcile.go 50-100).
THEOREM RequeueInductive == Spec => []RInv
<1>1. ASSUME RInv, [Next]_vars PROVE RInv'
  <2>1. CASE UNCHANGED vars
    BY <1>1, <2>1 DEF vars, queue, timers, ghosts, RInv, TypeOK, Freshness,
       FloorBetweenFirings, TwoEarlyFirings, DeadlineIsEarliest, HoldIsBounded,
       AfterOne, AfterTwo, Pending
  <2> QED BY <1>1, <2>1, BeginKeeps, FinishKeeps, FireKeeps, TickKeeps, StimulusKeeps
          DEF Next
<1> QED BY <1>1, InitHolds, PTL DEF Spec

\* An object whose last pass asked to come back comes back no later than asked
\* (manager.go 63-68).
THEOREM RefreshIsNeverLate == Spec => []Freshness
<1>1. RInv => Freshness
  BY DEF RInv
<1> QED BY <1>1, RequeueInductive, PTL

\* No interval in a spec makes a timer fire twice within the floor (types.go
\* RefreshIntervalOrDefault, reconcile.go shortBackoff).
THEOREM NoRequestFlood == Spec => []FloorBetweenFirings
<1>1. RInv => FloorBetweenFirings
  BY DEF RInv
<1> QED BY <1>1, RequeueInductive, PTL

\* After the last event a backoff is cut short at most twice (manager.go 67).
THEOREM BackoffsSettle == Spec => []TwoEarlyFirings
<1>1. RInv => TwoEarlyFirings
  BY DEF RInv
<1> QED BY <1>1, RequeueInductive, PTL

\* Every variable keeps its type: what counts down a delay stops at zero, for any
\* interval a spec gives (types.go RefreshIntervalOrDefault).
THEOREM RequeueTypes == Spec => []TypeOK
<1>1. RInv => TypeOK
  BY DEF RInv
<1> QED BY <1>1, RequeueInductive, PTL
=============================================================================
