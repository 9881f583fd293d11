------------------------------ MODULE Requeue ------------------------------
(***************************************************************************)
(* When a KrypticSecret is looked at again: the delay each outcome of a    *)
(* pass asks for (internal/controller/manager.go reconcileOne and          *)
(* reconcile.go Reconcile), the delaying queue that keeps one deadline per *)
(* item, and events, edits of the interval and restarts in between.        *)
(*                                                                         *)
(* Manager lets a timer fire at any time; this module gives it its time,   *)
(* and leaves out everything else a pass does.  Time is an integer, and    *)
(* every variable that holds one counts down to zero.                      *)
(***************************************************************************)
EXTENDS Integers

CONSTANTS CR,         \* the KrypticSecrets
          NoItem,     \* the worker's item while it has none
          Raw,        \* what spec.refreshInterval can say; 0: empty, not a duration
          Floor,      \* MinRefreshInterval
          Default,    \* DefaultRefreshInterval
          Minute,     \* the delay after an object that cannot be decoded
          Hard,       \* the ten minutes of longBackoff
          MaxStimuli  \* bound: events, edits and restarts

ASSUME ItemAssumption == NoItem \notin CR
ASSUME RawAssumption == Raw \subseteq Nat
ASSUME TimeAssumption ==
  /\ Floor \in Nat \ {0} /\ Default \in Nat /\ Minute \in Nat /\ Hard \in Nat
  /\ Floor <= Default /\ Floor <= Minute /\ Floor <= Hard
ASSUME StimuliAssumption == MaxStimuli \in Nat

VARIABLES raw,       \* spec.refreshInterval of each object
          ready,     \* the items to be handed out (being processed or not)
          busy,      \* the item the worker has
          read,      \* spec.refreshInterval as its pass read it
          armed,     \* the items the delaying queue has a deadline for
          timer,     \* the time to that deadline
          due,       \* history: what is left of the delay the last pass asked for
          promised,  \* history: objects whose last pass asked to come back
          hold,      \* history: what is left of Floor since the timer last fired
          eager,     \* history: firings before their time since the last event
          budget     \* stimuli left

queue == <<ready, busy, read>>
timers == <<armed, timer>>
ghosts == <<due, promised, hold, eager>>
vars == <<raw, queue, timers, ghosts, budget>>

Init ==
  /\ raw \in [CR -> Raw]
  /\ ready = CR
  /\ busy = NoItem
  /\ read = 0
  /\ armed = {}
  /\ timer = [c \in CR |-> 0]
  /\ due = [c \in CR |-> 0]
  /\ promised = {}
  /\ hold = [c \in CR |-> 0]
  /\ eager = [c \in CR |-> 0]
  /\ budget = MaxStimuli

-----------------------------------------------------------------------------
(* Delays.                                                                 *)

\* Seeded fault: a value below the floor is honoured.
IntervalAsGiven(r) == IF r = 0 THEN Default ELSE r

\* RefreshIntervalOrDefault.
Interval(r) == IF r < Floor THEN Default ELSE r

\* Seeded fault: a quarter of the interval, whatever that is.
ShortUnbounded(i) == i \div 4

ShortBackoff(i) == IF i \div 4 < Floor THEN Floor ELSE i \div 4

LongBackoff(i) == IF i < Hard THEN Hard ELSE i

\* gone: the object could not be read, or its finalizer was removed.
Outcome == {"synced", "credentials", "transient", "permanent", "undecodable",
            "finalizer", "gone"}

\* What reconcileOne returns; 0 asks for nothing.
Delay(outcome, i) ==
  CASE outcome \in {"synced", "credentials"} -> i
    [] outcome = "transient"   -> ShortBackoff(i)
    [] outcome = "permanent"   -> LongBackoff(i)
    [] outcome = "undecodable" -> Minute
    [] outcome = "finalizer"   -> ShortBackoff(Default)
    [] outcome = "gone"        -> 0

-----------------------------------------------------------------------------
(* The worker and the delaying queue.                                      *)

Begin(c) ==
  /\ busy = NoItem
  /\ c \in ready
  /\ ready' = ready \ {c}
  /\ busy' = c
  /\ read' = raw[c]
  /\ UNCHANGED <<raw, timers, ghosts, budget>>

\* Seeded fault: a deadline that is there already is left alone.
DeadlineFirst(c, d) == IF c \in armed THEN timer[c] ELSE d

\* AddAfter: of two deadlines of one item the earlier one stays.
Deadline(c, d) == IF c \in armed /\ timer[c] < d THEN timer[c] ELSE d

\* Run's loop after a pass: Done, and AddAfter of what the pass returned.
Finish(outcome) ==
  /\ busy # NoItem
  /\ busy' = NoItem
  /\ LET d == Delay(outcome, Interval(read))
     IN IF d > 0
        THEN /\ armed' = armed \cup {busy}
             /\ timer' = [timer EXCEPT ![busy] = Deadline(busy, d)]
             /\ due' = [due EXCEPT ![busy] = d]
             /\ promised' = promised \cup {busy}
        ELSE promised' = promised \ {busy} /\ UNCHANGED <<timers, due>>
  /\ UNCHANGED <<raw, ready, read, hold, eager, budget>>

\* Seeded fault: the deadline stays behind and is met once more.
FireKept(c) ==
  /\ c \in armed /\ timer[c] = 0
  /\ ready' = ready \cup {c}
  /\ armed' = armed
  /\ timer' = [timer EXCEPT ![c] = 1]
  /\ hold' = [hold EXCEPT ![c] = Floor]
  /\ eager' = [eager EXCEPT ![c] = IF due[c] > 0 THEN @ + 1 ELSE @]
  /\ UNCHANGED <<raw, busy, read, due, promised, budget>>

\* The deadline is met: the item is added, early if the last pass asked for more.
Fire(c) ==
  /\ c \in armed /\ timer[c] = 0
  /\ ready' = ready \cup {c}
  /\ armed' = armed \ {c}
  /\ hold' = [hold EXCEPT ![c] = Floor]
  /\ eager' = [eager EXCEPT ![c] = IF due[c] > 0 THEN @ + 1 ELSE @]
  /\ UNCHANGED <<raw, busy, read, timer, due, promised, budget>>

\* Seeded fault: a countdown goes on below zero.
LessForEver(f) == [c \in CR |-> f[c] - 1]

Less(f) == [c \in CR |-> IF f[c] > 0 THEN f[c] - 1 ELSE 0]

\* Time passes, but not over a deadline.
Tick ==
  /\ \A c \in armed : timer[c] > 0
  /\ timer' = Less(timer)
  /\ due' = Less(due)
  /\ hold' = Less(hold)
  /\ UNCHANGED <<raw, queue, armed, promised, eager, budget>>

-----------------------------------------------------------------------------
(* The rest of the world.                                                  *)

Spend == budget > 0 /\ budget' = budget - 1

\* The watch delivers a change; it adds the item whatever timer it has.
Event(c) ==
  /\ Spend
  /\ ready' = ready \cup {c}
  /\ eager' = [eager EXCEPT ![c] = 0]
  /\ UNCHANGED <<raw, busy, read, timers, due, promised, hold>>

\* An edit of the interval.  Its event is one of its own, and may be dropped.
Edit(c) ==
  /\ Spend
  /\ \E r \in Raw \ {raw[c]} : raw' = [raw EXCEPT ![c] = r]
  /\ UNCHANGED <<queue, timers, ghosts>>

\* The process is replaced; its first watch announces every object.
Restart ==
  /\ Spend
  /\ ready' = CR
  /\ busy' = NoItem
  /\ armed' = {}
  /\ promised' = {}
  /\ hold' = [c \in CR |-> 0]
  /\ eager' = [c \in CR |-> 0]
  /\ UNCHANGED <<raw, read, timer, due>>

Next ==
  \/ \E c \in CR : Begin(c) \/ Fire(c) \/ Event(c) \/ Edit(c)
  \/ \E o \in Outcome : Finish(o)
  \/ Tick \/ Restart

Spec == Init /\ [][Next]_vars

-----------------------------------------------------------------------------
(* Properties.                                                             *)

\* Every variable has the type its comment gives it.
TypeOK ==
  /\ raw \in [CR -> Raw]
  /\ ready \in SUBSET CR
  /\ busy \in CR \cup {NoItem}
  /\ read \in Nat
  /\ armed \in SUBSET CR
  /\ timer \in [CR -> Nat]
  /\ due \in [CR -> Nat]
  /\ promised \in SUBSET CR
  /\ hold \in [CR -> Nat]
  /\ eager \in [CR -> Nat]
  /\ budget \in 0 .. MaxStimuli

\* An object whose last pass asked to come back is queued, being processed, or
\* has a deadline no later than the one that pass asked for: no event, edit or
\* deadline left by an earlier pass puts a refresh off (manager.go 63-68).
Freshness ==
  \A c \in promised :
    c \in ready \/ busy = c \/ (c \in armed /\ timer[c] <= due[c])

\* The timer of an object never fires twice within MinRefreshInterval, whatever
\* the interval in its spec, the outcomes and the events: "so a typo cannot turn
\* the operator into a request flood" (types.go 97-98), and a transient error is
\* retried "never faster than the floor" (reconcile.go 319-320).
FloorBetweenFirings == \A c \in armed : timer[c] >= hold[c]

\* A deadline left by an earlier pass cuts a later, longer delay short (the ten
\* minutes of a configuration error among them) at most twice, once while the
\* pass an event began is under way and once after it; only another event can
\* make it happen again (manager.go 67).
TwoEarlyFirings == \A c \in CR : eager[c] <= 2

-----------------------------------------------------------------------------
(* Why they hold.                                                          *)

\* Where there is a deadline, it is no later than the last pass asked.
DeadlineIsEarliest == \A c \in armed : timer[c] <= due[c]

HoldIsBounded == \A c \in CR : hold[c] <= Floor

Pending(c) == c \in ready \/ busy = c

\* What a first early firing leaves: a deadline earlier than asked can only come
\* from the one pass that was under way, and be there when nothing else is.
AfterOne ==
  \A c \in CR :
    eager[c] = 1 =>
      /\ c \in ready /\ busy = c => c \notin armed
      /\ c \in armed /\ timer[c] < due[c] => ~Pending(c)

\* After the second the object has no deadline while a pass over it is due or
\* under way, and then exactly the one that pass asked for.
AfterTwo ==
  \A c \in CR :
    eager[c] = 2 =>
      /\ ~(c \in ready /\ busy = c)
      /\ c \in armed => ~Pending(c) /\ timer[c] = due[c]

RInv ==
  /\ TypeOK
  /\ Freshness /\ FloorBetweenFirings /\ TwoEarlyFirings
  /\ DeadlineIsEarliest /\ HoldIsBounded /\ AfterOne /\ AfterTwo
=============================================================================
