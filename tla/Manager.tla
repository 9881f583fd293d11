------------------------------ MODULE Manager ------------------------------
(***************************************************************************)
(* internal/controller/manager.go: the list-watch, the work queue and the  *)
(* one goroutine that takes an item, reads the KrypticSecret, holds or     *)
(* drops its finalizer, reconciles it and writes its status.  The steps of *)
(* a pass interleave with the watch goroutine, the queue's timers, the     *)
(* clients of the API server, cancellation and crashes.                    *)
(*                                                                         *)
(* What a reconcile does to Secrets and leases is not in this module: a    *)
(* pass gets its outcome from world[c].  CR is the set of objects that     *)
(* `accepts` lets through; one the manager does not accept is in no queue. *)
(***************************************************************************)
EXTENDS KubeApi, WorkQueue

CONSTANTS NoItem,       \* the worker's item while it has none
          MaxStimuli,   \* bound: what clients, the world and faults may do
          MayUpdateCR   \* RBAC grants `update` on krypticsecrets

ASSUME ItemAssumption == NoItem \notin CR
ASSUME StimuliAssumption == MaxStimuli \in Nat
ASSUME RbacAssumption == MayUpdateCR \in BOOLEAN

VARIABLES q,           \* the work queue
          lastWrite,   \* lastStatusWrite, 0 where the map has no entry
          inFlight,    \* statusWriteInFlight
          run,         \* the process: up, its context cancelled, or down
          w,           \* the worker goroutine: where reconcileOne is
          world,       \* what a reconcile of each object would report now
          budget,      \* stimuli left
          unread,      \* history: objects whose last pass could not read them
          late         \* history: passes begun after the cancellation

memory == <<q, lastWrite, inFlight, run, w>>
ghosts == <<unread, late>>
vars == <<apiVars, memory, world, budget, ghosts>>

PC == {"idle", "read", "revoke", "unfinalize", "finalize", "reconcile",
       "write", "refetch", "rewrite", "remember", "done"}

\* raw: the object the pass read; base: the resourceVersion the next status
\* write is made against; again: a positive requeueAfter is to be returned.
Worker == [pc : PC, item : CR \cup {NoItem}, raw : Object, base : Nat,
           res : Result \cup {NoResult}, again : BOOLEAN]

IdleWorker == [pc |-> "idle", item |-> NoItem, raw |-> Absent, base |-> 0,
               res |-> NoResult, again |-> FALSE]

Init ==
  /\ ApiInit
  /\ q = EmptyQueue
  /\ lastWrite = [c \in CR |-> 0]
  /\ inFlight = {}
  /\ run = "up"
  /\ w = IdleWorker
  /\ world \in [CR -> Result]
  /\ budget = MaxStimuli
  /\ unread = {}
  /\ late = 0

\* The process ends: its watch closes and nothing in its memory survives.
Exit ==
  /\ run' = "down"
  /\ q' = EmptyQueue
  /\ lastWrite' = [c \in CR |-> 0]
  /\ inFlight' = {}
  /\ w' = IdleWorker
  /\ watching' = FALSE
  /\ events' = <<>>
  /\ unread' = {}
  /\ UNCHANGED cr

Spend == budget > 0 /\ budget' = budget - 1

\* A call fails for no reason of its own, or because its context is cancelled.
Unlucky == IF run = "up" THEN Spend ELSE UNCHANGED budget

-----------------------------------------------------------------------------
(* The watch goroutine.                                                    *)

\* Seeded fault: one flag for the whole manager, not one per object.
IsOwnStatusWriteAnyItem(c, rv) == inFlight # {} \/ rv = lastWrite[c]

\* The statements of `watch` that look at the maps take mu once.
IsOwnStatusWrite(c, rv) == c \in inFlight \/ rv = lastWrite[c]

Listening == run # "down" /\ events # <<>>

NextEvent == Head(events)

Consume ==
  /\ events' = Tail(events)
  /\ UNCHANGED <<cr, watching, run, w, world, budget, ghosts>>

HandleDeleted ==
  /\ Listening
  /\ NextEvent.type = "DELETED"
  /\ lastWrite' = [lastWrite EXCEPT ![NextEvent.item] = 0]
  /\ inFlight' = inFlight \ {NextEvent.item}
  /\ Consume
  /\ UNCHANGED q

DropOwn ==
  /\ Listening
  /\ NextEvent.type = "MODIFIED"
  /\ IsOwnStatusWrite(NextEvent.item, NextEvent.rv)
  /\ Consume
  /\ UNCHANGED <<q, lastWrite, inFlight>>

Enqueue ==
  /\ Listening
  /\ \/ NextEvent.type = "ADDED"
     \/ NextEvent.type = "MODIFIED" /\ ~IsOwnStatusWrite(NextEvent.item, NextEvent.rv)
  /\ q' = QAdd(q, NextEvent.item)
  /\ Consume
  /\ UNCHANGED <<lastWrite, inFlight>>

HandleEvent == HandleDeleted \/ DropOwn \/ Enqueue

\* `watch` opens a watch, or opens a new one after the last was closed.
OpenWatch ==
  /\ run = "up"
  /\ Connect
  /\ UNCHANGED <<memory, world, budget, ghosts>>

\* An AddAfter timer of the delaying queue fires; ShutDown stops them.
Fire(c) ==
  /\ run # "down"
  /\ ~q.down
  /\ c \in q.waiting
  /\ q' = QFire(q, c)
  /\ UNCHANGED <<apiVars, lastWrite, inFlight, run, w, world, budget, ghosts>>

-----------------------------------------------------------------------------
(* The worker goroutine: Run's loop and reconcileOne.                      *)

At(pc) == run # "down" /\ w.pc = pc

Goto(pc) == w' = [w EXCEPT !.pc = pc]

\* reconcileOne returns: zero, or a delay after which to look again.
Return(again) ==
  w' = [IdleWorker EXCEPT !.pc = "done", !.item = w.item, !.again = again]

TakeItem ==
  /\ At("idle")
  /\ q.order # <<>>
  /\ q' = QTake(q)
  /\ w' = [w EXCEPT !.pc = "read", !.item = Head(q.order)]
  /\ unread' = unread \ {Head(q.order)}
  /\ late' = IF run = "cancelled" THEN late + 1 ELSE late
  /\ UNCHANGED <<apiVars, lastWrite, inFlight, run, world, budget>>

Get ==
  /\ At("read")
  /\ run = "up"
  /\ cr[w.item].alive
  /\ w' = [w EXCEPT !.raw = cr[w.item],
                    !.pc = IF cr[w.item].deleting THEN "revoke"
                           ELSE IF cr[w.item].fin THEN "reconcile"
                           ELSE "finalize"]
  /\ UNCHANGED <<apiVars, q, lastWrite, inFlight, run, world, budget, ghosts>>

\* Every error of this Get, not only NotFound, ends the pass for good.
GetFails ==
  /\ At("read")
  /\ \/ /\ ~cr[w.item].alive
        /\ UNCHANGED <<budget, unread>>
     \/ /\ cr[w.item].alive
        /\ Unlucky
        /\ unread' = unread \cup {w.item}
  /\ Return(FALSE)
  /\ UNCHANGED <<apiVars, q, lastWrite, inFlight, run, world, late>>

\* fromUnstructured refuses what the object holds at the moment.
DecodeFails ==
  /\ At("read")
  /\ run = "up"
  /\ cr[w.item].alive
  /\ Spend
  /\ Return(TRUE)
  /\ UNCHANGED <<apiVars, q, lastWrite, inFlight, run, world, ghosts>>

RevokeLeases ==
  /\ At("revoke")
  /\ \/ Goto("unfinalize") /\ UNCHANGED budget
     \/ Unlucky /\ Return(TRUE)
  /\ UNCHANGED <<apiVars, q, lastWrite, inFlight, run, world, ghosts>>

\* Seeded fault: a patch that carries no version.
StoreFinalizerPatch(held) ==
  /\ MayUpdateCR
  /\ cr[w.item].alive
  /\ PutOrRemove(w.item, [cr[w.item] EXCEPT !.fin = held], "finalizer")

\* setFinalizer's Update: a copy of the object as read, at the version read.
StoreFinalizer(held) ==
  /\ MayUpdateCR
  /\ cr[w.item].rv = w.raw.rv
  /\ PutOrRemove(w.item, [w.raw EXCEPT !.fin = held], "finalizer")

RemoveFinalizer ==
  /\ At("unfinalize")
  /\ \/ ~w.raw.fin /\ UNCHANGED apiVars
     \/ w.raw.fin /\ run = "up" /\ StoreFinalizer(FALSE)
  /\ Return(FALSE)
  /\ UNCHANGED <<q, lastWrite, inFlight, run, world, budget, ghosts>>

\* Seeded fault: the pass does not wait for its finalizer to be stored.
AddFinalizerLater ==
  /\ At("finalize")
  /\ Goto("reconcile")
  /\ UNCHANGED <<apiVars, q, lastWrite, inFlight, run, world, budget, ghosts>>

\* The pass goes on with the object as read before this update.
AddFinalizer ==
  /\ At("finalize")
  /\ run = "up"
  /\ StoreFinalizer(TRUE)
  /\ Goto("reconcile")
  /\ UNCHANGED <<q, lastWrite, inFlight, run, world, budget, ghosts>>

\* A conflict, a removed object, a refusal, a failure, or a lost answer.
FinalizerFails ==
  /\ At("finalize") \/ (At("unfinalize") /\ w.raw.fin)
  /\ \/ /\ cr[w.item].rv # w.raw.rv \/ ~MayUpdateCR
        /\ UNCHANGED <<apiVars, budget>>
     \/ Unlucky /\ UNCHANGED apiVars
     \/ Unlucky /\ StoreFinalizer(w.pc = "finalize")
  /\ Return(TRUE)
  /\ UNCHANGED <<q, lastWrite, inFlight, run, world, ghosts>>

\* Seeded faults: every pass writes; or only the outcome is compared.
StatusUnchangedNever(raw, r) == FALSE
StatusUnchangedOutcome(raw, r) == raw.status.res = r

StatusUnchanged(raw, r) ==
  raw.status.obs = raw.gen /\ raw.status.res = r

\* Reconcile, statusUnchanged and markStatusWriteInFlight.  After the
\* cancellation the calls it makes fail wherever they are.
Reconcile ==
  /\ At("reconcile")
  /\ \E r \in IF run = "up" THEN {world[w.item]} ELSE Result :
       IF StatusUnchanged(w.raw, r)
       THEN Return(TRUE) /\ UNCHANGED inFlight
       ELSE /\ w' = [w EXCEPT !.pc = "write", !.base = w.raw.rv, !.res = r]
            /\ inFlight' = inFlight \cup {w.item}
  /\ UNCHANGED <<apiVars, q, lastWrite, run, world, budget, ghosts>>

\* Seeded fault: the retry takes the generation from the fresh object.
NewStatusFresh ==
  [uid |-> w.raw.uid, gen |-> w.raw.gen, obs |-> cr[w.item].gen, res |-> w.res]

\* What updateStatus writes: the outcome, for the generation that was read.
NewStatus ==
  [uid |-> w.raw.uid, gen |-> w.raw.gen, obs |-> w.raw.gen, res |-> w.res]

StoreStatus ==
  /\ cr[w.item].alive
  /\ cr[w.item].rv = w.base
  /\ Put(w.item, [cr[w.item] EXCEPT !.status = NewStatus], "MODIFIED", "status")

WriteStatus ==
  /\ At("write") \/ At("rewrite")
  /\ run = "up"
  /\ StoreStatus
  /\ w' = [w EXCEPT !.pc = "remember", !.base = w.base + 1]
  /\ UNCHANGED <<q, lastWrite, inFlight, run, world, budget, ghosts>>

Conflict ==
  /\ At("write")
  /\ cr[w.item].alive
  /\ cr[w.item].rv # w.base
  /\ Goto("refetch")
  /\ UNCHANGED <<apiVars, q, lastWrite, inFlight, run, world, budget, ghosts>>

\* Seeded fault: a conflict is retried as often as it occurs.
RefetchEachTime ==
  /\ At("refetch")
  /\ run = "up"
  /\ cr[w.item].alive
  /\ w' = [w EXCEPT !.pc = "write", !.base = cr[w.item].rv]
  /\ UNCHANGED <<apiVars, q, lastWrite, inFlight, run, world, budget, ghosts>>

Refetch ==
  /\ At("refetch")
  /\ run = "up"
  /\ cr[w.item].alive
  /\ w' = [w EXCEPT !.pc = "rewrite", !.base = cr[w.item].rv]
  /\ UNCHANGED <<apiVars, q, lastWrite, inFlight, run, world, budget, ghosts>>

\* The write or the second Get fails, the second write conflicts, or the
\* answer to a write that was made is lost.
StatusFails ==
  /\ At("write") \/ At("refetch") \/ At("rewrite")
  /\ \/ /\ ~cr[w.item].alive \/ (w.pc = "rewrite" /\ cr[w.item].rv # w.base)
        /\ UNCHANGED <<apiVars, budget>>
     \/ Unlucky /\ UNCHANGED apiVars
     \/ Unlucky /\ w.pc # "refetch" /\ StoreStatus
  /\ inFlight' = inFlight \ {w.item}
  /\ Return(TRUE)
  /\ UNCHANGED <<q, lastWrite, run, world, ghosts>>

\* Seeded fault: the version to remember is guessed, not taken from the answer.
RememberGuess ==
  /\ At("remember")
  /\ lastWrite' = [lastWrite EXCEPT ![w.item] = w.base + 1]
  /\ inFlight' = inFlight \ {w.item}
  /\ Return(TRUE)
  /\ UNCHANGED <<apiVars, q, run, world, budget, ghosts>>

\* rememberStatusWrite and the deferred clearStatusWriteInFlight.
Remember ==
  /\ At("remember")
  /\ lastWrite' = [lastWrite EXCEPT ![w.item] = w.base]
  /\ inFlight' = inFlight \ {w.item}
  /\ Return(TRUE)
  /\ UNCHANGED <<apiVars, q, run, world, budget, ghosts>>

\* Seeded faults: the delay is ignored; it is ignored while others wait; the
\* item is taken from a worker that was reset.
RequeueNever(queue, c, again) == QDone(queue, c)
RequeueWhenEmpty(queue, c, again) ==
  IF again /\ queue.order = <<>> THEN QAddAfter(QDone(queue, c), c) ELSE QDone(queue, c)
RequeueNoItem(queue, c, again) ==
  IF again THEN QAddAfter(QDone(queue, c), NoItem) ELSE QDone(queue, c)

Requeue(queue, c, again) ==
  IF again THEN QAddAfter(QDone(queue, c), c) ELSE QDone(queue, c)

\* Seeded fault: Run does not look at the context.
FinishPassBlindly ==
  /\ At("done")
  /\ q' = Requeue(q, w.item, w.again)
  /\ w' = IdleWorker
  /\ UNCHANGED <<apiVars, lastWrite, inFlight, run, unread, world, budget, late>>

\* Run's loop after a pass: Done, AddAfter, and the look at the context.
FinishPass ==
  /\ At("done")
  /\ IF run = "cancelled"
     THEN Exit
     ELSE /\ q' = Requeue(q, w.item, w.again)
          /\ w' = IdleWorker
          /\ UNCHANGED <<apiVars, lastWrite, inFlight, run, unread>>
  /\ UNCHANGED <<world, budget, late>>

\* Get tells that the queue was shut down and has nothing left to hand out.
Stop ==
  /\ At("idle")
  /\ q.down
  /\ q.order = <<>>
  /\ Exit
  /\ UNCHANGED <<world, budget, late>>

WorkerStep ==
  \/ TakeItem \/ Get \/ GetFails \/ DecodeFails
  \/ RevokeLeases \/ RemoveFinalizer \/ AddFinalizer \/ FinalizerFails
  \/ Reconcile \/ WriteStatus \/ Conflict \/ Refetch \/ StatusFails \/ Remember
  \/ FinishPass \/ Stop

-----------------------------------------------------------------------------
(* The life of the process.                                                *)

Cancel ==
  /\ run = "up"
  /\ Spend
  /\ run' = "cancelled"
  /\ UNCHANGED <<apiVars, q, lastWrite, inFlight, w, world, ghosts>>

\* Seeded fault: nothing shuts the queue down.
ShutDownNever == FALSE /\ UNCHANGED vars

\* The goroutine that waits for ctx.Done.
ShutDown ==
  /\ run = "cancelled"
  /\ ~q.down
  /\ q' = QShutDown(q)
  /\ UNCHANGED <<apiVars, lastWrite, inFlight, run, w, world, budget, ghosts>>

Crash ==
  /\ run # "down"
  /\ Spend
  /\ Exit
  /\ UNCHANGED <<world, late>>

\* The Deployment starts a new pod.
Restart ==
  /\ run = "down"
  /\ run' = "up"
  /\ late' = 0
  /\ UNCHANGED <<apiVars, q, lastWrite, inFlight, w, world, budget, unread>>

-----------------------------------------------------------------------------
(* The clients of the API server and the rest of the world.                *)

Client(c) ==
  /\ Spend
  /\ \/ \E g \in BOOLEAN : Create(c, g)
     \/ EditSpec(c) \/ Touch(c) \/ Delete(c) \/ Release(c)
  /\ UNCHANGED <<memory, world, ghosts>>

\* The platform or the target Secret changes: a pass would now end otherwise.
Flip(c) ==
  /\ Spend
  /\ \E r \in Result \ {world[c]} : world' = [world EXCEPT ![c] = r]
  /\ UNCHANGED <<apiVars, memory, ghosts>>

CloseWatch ==
  /\ run # "down"
  /\ Spend
  /\ Disconnect
  /\ UNCHANGED <<memory, world, ghosts>>

Next ==
  \/ HandleEvent \/ OpenWatch \/ WorkerStep
  \/ Cancel \/ ShutDown \/ Crash \/ Restart \/ CloseWatch
  \/ \E c \in CR : Fire(c) \/ Client(c) \/ Flip(c)

Spec == Init /\ [][Next]_vars

\* The goroutines run, the watch delivers, timers fire and the pod restarts.
\* Nothing is asked of clients, of the world, or of faults.
Fairness ==
  /\ WF_vars(HandleEvent)
  /\ WF_vars(OpenWatch)
  /\ WF_vars(WorkerStep)
  /\ WF_vars(ShutDown)
  /\ WF_vars(Restart)
  /\ \A c \in CR : WF_vars(Fire(c))

LiveSpec == Spec /\ Fairness

-----------------------------------------------------------------------------
(* What the manager promises.                                              *)

\* Every variable has the type its comment gives it (the Manager struct, the
\* queue and the API objects).
TypeOK ==
  /\ ApiTypeOK
  /\ q \in QueueOf(CR)
  /\ lastWrite \in [CR -> Nat]
  /\ inFlight \in SUBSET CR
  /\ run \in {"up", "cancelled", "down"}
  /\ w \in Worker
  /\ (w.pc = "idle") <=> (w.item = NoItem)
  /\ world \in [CR -> Result]
  /\ budget \in 0 .. MaxStimuli
  /\ unread \in SUBSET CR
  /\ late \in Nat

\* An ADDED event is never dropped by the watch.
Announced(c) == \E i \in DOMAIN events : events[i].item = c /\ events[i].type = "ADDED"

\* The queue, its timers or the watch will bring the item to the worker.
Coming(c) == c \in Scheduled(q) \/ Announced(c) \/ ~watching

\* The pass over c that is under way will come back to it or finish with it.
InHand(c) == w.item = c /\ w.pc # "idle" /\ (w.pc = "done" => w.again)

\* Being deleted and free of our finalizer: others decide when it goes.
LetGo(c) == cr[c].deleting /\ ~cr[c].fin

\* No object is forgotten: while the process runs, every existing object is
\* queued, has a timer, is about to be announced, or is in the worker's hands,
\* so that "periodic refresh comes from requeueAfter" reaches all of them.
\* The one exception is an object whose last read failed (GetFails).
RefreshArmed ==
  run = "up" =>
    \A c \in CR : cr[c].alive => Coming(c) \/ InHand(c) \/ LetGo(c) \/ c \in unread

\* From Reconcile until the end of the pass.
Holding == {"reconcile", "write", "refetch", "rewrite", "remember"}

\* Leases are minted only under the finalizer: from the moment a pass may
\* reconcile until it is over, the object it read exists and holds LeaseFinalizer,
\* whatever clients did since it was read.
MintsUnderFinalizer ==
  w.pc \in Holding =>
    /\ cr[w.item].alive
    /\ cr[w.item].fin
    /\ cr[w.item].uid = w.raw.uid

\* A status speaks about the object that carries it and claims the generation
\* its outcome was computed from, one the object has had: the retry of
\* updateStatus on a fresh version neither passes an old outcome off as one for
\* the edited spec nor gives it to an object created under the same name.
HonestStatus ==
  \A c \in CR :
    LET s == cr[c].status
    IN s # NoStatus => s.uid = cr[c].uid /\ s.obs = s.gen /\ s.obs <= cr[c].gen

\* After a SIGTERM the worker begins at most one more pass (CHANGELOG 1.1.0: the
\* operator "cannot keep reconciling after shutdown").
AtMostOneLatePass == late <= 1

\* A client's change to an object that has no status write in flight makes the
\* object due: what `watch` drops for one object hides nothing of another, and
\* the remembered version is never that of somebody else's write.
QuietChangesReconcile ==
  [][/\ HandleEvent
     /\ NextEvent.by = "client" /\ NextEvent.type = "MODIFIED" /\ ~q.down
     /\ NextEvent.item \notin inFlight
     => NextEvent.item \in q'.dirty]_vars

\* A step of the worker that stored a status, whether it learns of it or not.
StatusWrite == w.pc \in {"write", "rewrite"} /\ w' # w /\ cr' # cr

\* A status write says something new and never goes back to an older
\* generation: statusUnchanged keeps a pass whose outcome is the stored one from
\* writing, the write that would feed the next pass.
StatusMovesForward ==
  [][StatusWrite => /\ cr'[w.item].status # cr[w.item].status
                    /\ cr'[w.item].status.obs >= cr[w.item].status.obs]_vars

\* What the operator owes an object: its leases released and its finalizer gone,
\* or the status of its current generation, with the outcome it has now.
Settled(c) ==
  cr[c].alive =>
    IF cr[c].deleting THEN ~cr[c].fin
    ELSE cr[c].status.obs = cr[c].gen /\ cr[c].status.res = world[c]

\* Once clients, the world and the faults leave the operator alone, every
\* object settles and stays settled, or its last read failed.
Convergence == <>[](\A c \in CR : Settled(c) \/ c \in unread)

\* The steps the worker has before it, at most, until it is idle again; and
\* until it takes the item at position i of the queue.
StepsLeft ==
  CASE w.pc = "read" -> 8
    [] w.pc = "finalize" -> 7
    [] w.pc = "reconcile" -> 6
    [] w.pc = "write" -> 5
    [] w.pc = "refetch" -> 4
    [] w.pc \in {"rewrite", "revoke"} -> 3
    [] w.pc \in {"remember", "unfinalize"} -> 2
    [] w.pc = "done" -> 1
    [] w.pc = "idle" -> 0
Turn(i) == 9 * i + StepsLeft

\* An object that waits is not kept waiting by others: every step of the worker,
\* whatever fails in it, brings each queued item nearer to its turn, and neither
\* the watch nor a timer nor a requeue takes it back.  No pass repeats a call
\* without end, a conflict is retried once (Run, reconcileOne, updateStatus).
TurnsComeNearer ==
  [][run' # "down" =>
       \A i \in DOMAIN q.order :
         \/ i = 1 /\ TakeItem
         \/ \E j \in DOMAIN q'.order :
              /\ q'.order[j] = q.order[i]
              /\ IF w' = w THEN Turn(j)' <= Turn(i) ELSE Turn(j)' < Turn(i)]_vars

\* What the manager does for an object, seen as PassLoop: the pass is over it
\* from the moment the finalizer is known to hold the object, or, when it is
\* being deleted, from the moment that is read.
StateOf(obj) == IF ~obj.alive THEN "none" ELSE IF obj.deleting THEN "deleting" ELSE "live"

Doing(pc) ==
  IF pc \in Holding THEN "syncing"
  ELSE IF pc = "revoke" THEN "revoking"
  ELSE IF pc = "unfinalize" THEN "revoked" ELSE "nothing"

Loop == INSTANCE PassLoop WITH
  state <- [c \in CR |-> StateOf(cr[c])],
  fin   <- [c \in CR |-> cr[c].alive /\ cr[c].fin],
  item  <- IF Doing(w.pc) = "nothing" THEN NoItem ELSE w.item,
  doing <- Doing(w.pc)

\* One pass at a time, syncs only under the finalizer, and a finalizer that goes
\* only after the leases were revoked: the lost answers, conflicts, retries,
\* replaced objects and crashes of reconcileOne are all steps of PassLoop.
ImplementsPassLoop == Loop!Spec

\* "Periodic refresh comes from requeueAfter" (`watch`): if an object stays
\* declared, the process stays up and the object can be read, it is reconciled
\* again and again, whatever else is in the queue (Run, reconcileOne).
ServedAgain ==
  \A c \in CR :
    <>[](cr[c].alive /\ ~cr[c].deleting /\ run = "up" /\ c \notin unread)
      => []<>(w.item = c /\ w.pc = "reconcile")

\* A cancelled operator ends: the queue that ignores the context is shut down.
CancelledStops == (run = "cancelled") ~> (run = "down")

-----------------------------------------------------------------------------
(* What the repository says of the manager and the code does not keep.     *)

\* "anything else (spec edits, annotation nudges, other writers) still
\* reconciles" (the comment in `watch`): delivering a change that a client made
\* after the running pass read the object leaves the object due.  The code drops
\* every event that comes while a status write of the object is in flight.
ForeignChangesReconcile ==
  [][/\ HandleEvent
     /\ NextEvent.by = "client" /\ NextEvent.type = "MODIFIED" /\ ~q.down
     /\ w.item = NextEvent.item => w.raw.rv < NextEvent.rv
     => NextEvent.item \in q'.dirty]_vars

\* "Deleted between enqueue and processing: nothing to do" (reconcileOne, on any
\* error of its Get) and "Periodic refresh comes from requeueAfter" (`watch`):
\* RefreshArmed without its exception.
EveryObjectArmed ==
  run = "up" =>
    \A c \in CR : cr[c].alive => Coming(c) \/ InHand(c) \/ LetGo(c)

\* "Declare a KrypticSecret, and the operator ... writes the values into a
\* Secret" (README): an object that stays declared gets a status at last.  With
\* the ClusterRole of deploy/operator.yaml it never gets its finalizer.
DeclaredObjectSyncs ==
  \A c \in CR : [](cr[c].alive /\ ~cr[c].deleting)
                 => <>(cr[c].status # NoStatus \/ c \in unread)

-----------------------------------------------------------------------------
(* Why the safety properties hold: the parts of an inductive invariant.    *)

\* Before the finalizer is settled: what was read is current or has been
\* overtaken, and resourceVersion tells which.
ReadIsCurrentOrStale ==
  w.pc \in {"revoke", "unfinalize", "finalize"} =>
    /\ w.raw.rv <= cr[w.item].rv
    /\ w.raw.rv = cr[w.item].rv => cr[w.item] = w.raw

\* Each branch of reconcileOne works on an object it is meant for.
BranchIsRight ==
  /\ w.pc \in {"revoke", "unfinalize", "finalize"} => w.raw.alive
  /\ w.pc = "finalize" => ~w.raw.deleting /\ ~w.raw.fin
  /\ w.pc \in {"revoke", "unfinalize"} => w.raw.deleting

\* While the finalizer holds the object, it is the one that was read, no older
\* than it was, and nobody but this worker writes its status.
HeldIsSame ==
  w.pc \in Holding =>
    /\ w.raw.gen <= cr[w.item].gen
    /\ w.pc # "remember" => /\ cr[w.item].status = w.raw.status
                            /\ w.raw.status.obs <= w.raw.gen
    /\ w.pc \notin {"reconcile", "remember"} => ~StatusUnchanged(w.raw, w.res)

\* A pass over a deleted object ends for good: what is there afterwards was let
\* go of, or is a successor that the watch announces.
DeletedIsOver ==
  run = "up" /\ w.pc \in {"revoke", "unfinalize"} /\ cr[w.item].alive =>
    \/ Coming(w.item)
    \/ cr[w.item].deleting /\ (w.raw.fin \/ ~cr[w.item].fin)

\* Versions only grow, and the one the manager remembers, or is about to, is
\* that of no change of a client.
VersionsGrow ==
  /\ \A i \in DOMAIN events :
       /\ events[i].rv <= cr[events[i].item].rv
       /\ events[i].type # "ADDED" => events[i].rv > 0
  /\ \A c \in CR : lastWrite[c] <= cr[c].rv
  /\ w.pc = "remember" => w.base <= cr[w.item].rv

ForeignVersions ==
  \A i \in DOMAIN events :
    events[i].by = "client" /\ events[i].type = "MODIFIED" =>
      /\ events[i].rv # lastWrite[events[i].item]
      /\ w.pc = "remember" /\ w.item = events[i].item => events[i].rv # w.base

ProcessMemory ==
  /\ q.down => run = "cancelled"
  /\ run = "down" => ~watching

LatePass ==
  /\ late <= 1
  /\ late = 1 => run # "up" /\ (run = "cancelled" => w.pc # "idle")

IInv ==
  /\ TypeOK
  /\ ReadIsCurrentOrStale /\ BranchIsRight /\ HeldIsSame
  /\ MintsUnderFinalizer /\ HonestStatus
  /\ VersionsGrow /\ ForeignVersions
  /\ ProcessMemory /\ DeletedIsOver /\ RefreshArmed
  /\ LatePass
=============================================================================
