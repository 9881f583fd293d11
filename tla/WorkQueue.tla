----------------------------- MODULE WorkQueue -----------------------------
(***************************************************************************)
(* The client-go rate limiting queue, as internal/controller/manager.go    *)
(* uses it: Add, Get, Done, AddAfter and ShutDown.  The library is not in  *)
(* the repository; this is the contract the manager relies on.             *)
(*                                                                         *)
(* A queue is a record:                                                    *)
(*   order    the items ready to be handed out, first in first out         *)
(*   dirty    the items that must be (re)processed                         *)
(*   busy     the items handed out and not yet Done                        *)
(*   waiting  the items an AddAfter timer will add; one timer per item     *)
(*   down     ShutDown was called                                          *)
(***************************************************************************)
EXTENDS Sequences

EmptyQueue ==
  [order |-> <<>>, dirty |-> {}, busy |-> {}, waiting |-> {}, down |-> FALSE]

QueueOf(Item) ==
  [order : Seq(Item), dirty : SUBSET Item, busy : SUBSET Item,
   waiting : SUBSET Item, down : BOOLEAN]

\* An item that is already dirty is not added twice; one that is being
\* processed is only marked, and Done hands it out again.
QAdd(q, x) ==
  IF q.down \/ x \in q.dirty
  THEN q
  ELSE [q EXCEPT !.dirty = @ \cup {x},
                 !.order = IF x \in q.busy THEN @ ELSE Append(@, x)]

QTake(q) ==
  [q EXCEPT !.order = Tail(@),
            !.dirty = @ \ {Head(q.order)},
            !.busy  = @ \cup {Head(q.order)}]

QDone(q, x) ==
  [q EXCEPT !.busy  = @ \ {x},
            !.order = IF x \in q.dirty THEN Append(@, x) ELSE @]

QAddAfter(q, x) ==
  IF q.down THEN q ELSE [q EXCEPT !.waiting = @ \cup {x}]

QFire(q, x) == [QAdd(q, x) EXCEPT !.waiting = @ \ {x}]

QShutDown(q) == [q EXCEPT !.down = TRUE]

\* The items the queue will hand out again without any further Add.
Scheduled(q) == q.dirty \cup q.waiting
=============================================================================
