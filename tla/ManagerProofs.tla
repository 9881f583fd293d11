--------------------------- MODULE ManagerProofs ---------------------------
(***************************************************************************)
(* Proofs about Manager, for every set of objects and results, every       *)
(* number of stimuli and both settings of the permissions.                 *)
(***************************************************************************)
EXTENDS Manager, FiniteSetTheorems, TLAPS

-----------------------------------------------------------------------------
(* The operators of the work queue and of the API server keep their types. *)

\* The queue operations keep a queue a queue.
LEMMA QueueTypes ==
  ASSUME NEW queue \in QueueOf(CR), NEW x \in CR, NEW again \in BOOLEAN
  PROVE  /\ EmptyQueue \in QueueOf(CR)
         /\ QAdd(queue, x) \in QueueOf(CR)
         /\ QFire(queue, x) \in QueueOf(CR)
         /\ QDone(queue, x) \in QueueOf(CR)
         /\ QAddAfter(queue, x) \in QueueOf(CR)
         /\ QShutDown(queue) \in QueueOf(CR)
         /\ Requeue(queue, x, again) \in QueueOf(CR)
<1>1. EmptyQueue \in QueueOf(CR)
  BY DEF EmptyQueue, QueueOf
<1>2. QAdd(queue, x) \in QueueOf(CR)
  <2>1. Append(queue.order, x) \in Seq(CR) /\ queue.order \in Seq(CR)
    BY DEF QueueOf
  <2>2. queue.dirty \cup {x} \in SUBSET CR
    BY DEF QueueOf
  <2> QED BY <2>1, <2>2 DEF QAdd, QueueOf
<1>3. QFire(queue, x) \in QueueOf(CR)
  BY <1>2 DEF QFire, QueueOf
<1>4. \A r \in QueueOf(CR) : QDone(r, x) \in QueueOf(CR)
  <2> TAKE r \in QueueOf(CR)
  <2>1. Append(r.order, x) \in Seq(CR) /\ r.order \in Seq(CR)
    BY DEF QueueOf
  <2>2. r.busy \ {x} \in SUBSET CR
    BY DEF QueueOf
  <2> QED BY <2>1, <2>2 DEF QDone, QueueOf
<1>5. \A r \in QueueOf(CR) : QAddAfter(r, x) \in QueueOf(CR)
  BY DEF QAddAfter, QueueOf
<1>6. QShutDown(queue) \in QueueOf(CR)
  BY DEF QShutDown, QueueOf
<1>7. Requeue(queue, x, again) \in QueueOf(CR)
  BY <1>4, <1>5 DEF Requeue
<1> QED BY <1>1, <1>2, <1>3, <1>4, <1>5, <1>6, <1>7

\* Taking the head of a queue that is not empty keeps it a queue.
LEMMA TakeTypes ==
  ASSUME NEW queue \in QueueOf(CR), queue.order # <<>>
  PROVE  Head(queue.order) \in CR /\ QTake(queue) \in QueueOf(CR)
<1>1. queue.order \in Seq(CR)
  BY DEF QueueOf
<1>2. Head(queue.order) \in CR /\ Tail(queue.order) \in Seq(CR)
  BY <1>1
<1> QED BY <1>2 DEF QTake, QueueOf

\* The objects the API server starts from have their type.
LEMMA ObjectTypes ==
  /\ NoStatus \in Status
  /\ Absent \in Object
  /\ \A u, r \in Nat, g \in BOOLEAN : Declared(u, r, g) \in Object
  /\ IdleWorker \in Worker
BY DEF NoStatus, Status, Absent, Object, Declared, IdleWorker, Worker, PC

\* Storing a typed object keeps the API state typed.
LEMMA PutType ==
  ASSUME ApiTypeOK, NEW c \in CR, NEW obj \in Object,
         NEW type \in {"ADDED", "MODIFIED", "DELETED"},
         NEW by \in {"client", "finalizer", "status"},
         Put(c, obj, type, by)
  PROVE  ApiTypeOK'
<1>1. cr[c].rv + 1 \in Nat
  BY DEF ApiTypeOK, Object
<1>2. [obj EXCEPT !.rv = cr[c].rv + 1] \in Object
  BY <1>1 DEF Object
<1>3. cr' \in [CR -> Object]
  BY <1>2 DEF ApiTypeOK, Put
<1>4. [type |-> type, item |-> c, rv |-> cr[c].rv + 1, by |-> by] \in Event
  BY <1>1 DEF Event
<1>5. events' \in Seq(Event)
  BY <1>4 DEF ApiTypeOK, Put
<1> QED BY <1>3, <1>5 DEF ApiTypeOK, Put

\* So does storing one that may have to go.
LEMMA PutOrRemoveType ==
  ASSUME ApiTypeOK, NEW c \in CR, NEW obj \in Object,
         NEW by \in {"client", "finalizer", "status"},
         PutOrRemove(c, obj, by)
  PROVE  ApiTypeOK'
<1>1. [Absent EXCEPT !.uid = obj.uid] \in Object
  BY ObjectTypes DEF Object
<1> QED BY <1>1, PutType DEF PutOrRemove

\* Every request of a client keeps the API state typed.
LEMMA ClientType ==
  ASSUME TypeOK, NEW c \in CR, Client(c)
  PROVE  ApiTypeOK'
<1> USE DEF TypeOK
<1>0. cr[c] \in Object
  BY DEF ApiTypeOK
<1>1. ASSUME NEW g \in BOOLEAN, Create(c, g) PROVE ApiTypeOK'
  <2>1. cr[c].uid + 1 \in Nat /\ cr[c].rv + 1 \in Nat
    BY <1>0 DEF Object
  <2>2. Declared(cr[c].uid + 1, cr[c].rv + 1, g) \in Object
    BY <2>1, ObjectTypes
  <2> QED BY <1>1, <2>2, PutType DEF Create
<1>2. CASE EditSpec(c)
  <2>1. [cr[c] EXCEPT !.gen = @ + 1] \in Object
    BY <1>0 DEF Object
  <2> QED BY <1>2, <2>1, PutType DEF EditSpec
<1>3. CASE Touch(c)
  BY <1>0, <1>3, PutType DEF Touch
<1>4. CASE Delete(c)
  <2>1. cr[c].gen + 1 \in Nat
    BY <1>0 DEF Object
  <2>2. [cr[c] EXCEPT !.deleting = TRUE, !.gen = cr[c].gen + 1] \in Object
    BY <1>0, <2>1 DEF Object
  <2> QED BY <1>4, <2>2, PutOrRemoveType DEF Delete
<1>5. CASE Release(c)
  <2>1. [cr[c] EXCEPT !.guard = FALSE] \in Object
    BY <1>0 DEF Object
  <2> QED BY <1>5, <2>1, PutOrRemoveType DEF Release
<1> QED BY <1>1, <1>2, <1>3, <1>4, <1>5 DEF Client

-----------------------------------------------------------------------------
(* Type correctness.                                                       *)

\* The initial states are typed.
LEMMA InitType == Init => TypeOK
<1> SUFFICES ASSUME Init PROVE TypeOK
  OBVIOUS
<1>1. cr \in [CR -> Object]
  BY ObjectTypes DEF Init, ApiInit
<1>2. ApiTypeOK
  <2>1. events = <<>> /\ watching = FALSE
    BY DEF Init, ApiInit
  <2>2. <<>> \in Seq(Event)
    OBVIOUS
  <2> QED BY <1>1, <2>1, <2>2 DEF ApiTypeOK
<1>3. q \in QueueOf(CR)
  BY DEF Init, EmptyQueue, QueueOf
<1>4. w \in Worker
  BY ObjectTypes DEF Init
<1>5. (w.pc = "idle") <=> (w.item = NoItem)
  BY DEF Init, IdleWorker
<1> QED BY <1>2, <1>3, <1>4, <1>5, StimuliAssumption DEF Init, TypeOK

\* The end of the process keeps the variables typed.
LEMMA ExitType ==
  ASSUME TypeOK, Exit
  PROVE  /\ ApiTypeOK' /\ q' \in QueueOf(CR) /\ lastWrite' \in [CR -> Nat]
         /\ inFlight' \in SUBSET CR /\ run' = "down" /\ w' \in Worker
         /\ (w.pc = "idle" <=> w.item = NoItem)'
         /\ unread' \in SUBSET CR
<1>1. q' \in QueueOf(CR)
  BY DEF Exit, EmptyQueue, QueueOf
<1>2. w' \in Worker /\ (w.pc = "idle" <=> w.item = NoItem)'
  BY ObjectTypes DEF Exit, IdleWorker
<1>3. ApiTypeOK'
  <2>1. events' = <<>> /\ watching' = FALSE /\ cr' = cr
    BY DEF Exit
  <2>2. <<>> \in Seq(Event)
    OBVIOUS
  <2> QED BY <2>1, <2>2 DEF ApiTypeOK, TypeOK
<1> QED BY <1>1, <1>2, <1>3 DEF Exit

\* The moves of the program counter that a pass makes.
LEMMA GotoType ==
  ASSUME TypeOK, w.pc # "idle", NEW pc \in PC \ {"idle"}, Goto(pc)
  PROVE  w' \in Worker /\ (w.pc = "idle" <=> w.item = NoItem)'
BY DEF TypeOK, Goto, Worker

\* A pass that returns leaves a typed worker.
LEMMA ReturnType ==
  ASSUME TypeOK, w.pc # "idle", NEW again \in BOOLEAN, Return(again)
  PROVE  w' \in Worker /\ (w.pc = "idle" <=> w.item = NoItem)'
<1>1. w.item \in CR
  BY DEF TypeOK, Worker
<1> QED BY <1>1, ObjectTypes, ItemAssumption DEF Return, Worker, IdleWorker, PC

\* A fault keeps the budget typed.
LEMMA UnluckyType ==
  ASSUME TypeOK, Unlucky \/ Spend
  PROVE  budget' \in 0 .. MaxStimuli
BY StimuliAssumption DEF TypeOK, Unlucky, Spend

\* setFinalizer's update keeps the API state typed.
LEMMA StoreFinalizerType ==
  ASSUME TypeOK, w.item \in CR, NEW held \in BOOLEAN, StoreFinalizer(held)
  PROVE  ApiTypeOK'
<1>1. [w.raw EXCEPT !.fin = held] \in Object
  BY DEF TypeOK, Worker, Object
<1> QED BY <1>1, PutOrRemoveType DEF StoreFinalizer, TypeOK

\* UpdateStatus keeps the API state typed.
LEMMA StoreStatusType ==
  ASSUME TypeOK, w.item \in CR, StoreStatus
  PROVE  ApiTypeOK'
<1>1. NewStatus \in Status
  BY DEF NewStatus, TypeOK, Worker, Object, Status
<1>2. cr[w.item] \in Object
  BY DEF TypeOK, ApiTypeOK
<1>3. [cr[w.item] EXCEPT !.status = NewStatus] \in Object
  BY <1>1, <1>2 DEF Object
<1> QED BY <1>3, PutType DEF StoreStatus, TypeOK

\* Every step keeps the variables typed.
LEMMA StepType ==
  ASSUME TypeOK, [Next]_vars
  PROVE  TypeOK'
<1> USE DEF memory, ghosts, apiVars
<1>a. w.pc # "idle" => w.item \in CR
  BY DEF TypeOK, Worker
<1>b. ASSUME NEW c \in CR PROVE cr[c] \in Object
  BY <1>b DEF TypeOK, ApiTypeOK
<1>1. CASE HandleEvent
  <2>1. NextEvent \in Event /\ Tail(events) \in Seq(Event)
    BY <1>1 DEF HandleEvent, HandleDeleted, DropOwn, Enqueue, Listening, NextEvent,
                TypeOK, ApiTypeOK
  <2>2. NextEvent.item \in CR
    BY <2>1 DEF Event
  <2>3. ApiTypeOK'
    BY <1>1, <2>1 DEF HandleEvent, HandleDeleted, DropOwn, Enqueue, Consume, TypeOK, ApiTypeOK
  <2>4. q' \in QueueOf(CR)
    BY <1>1, <2>2, QueueTypes DEF HandleEvent, HandleDeleted, DropOwn, Enqueue, TypeOK
  <2>5. lastWrite' \in [CR -> Nat] /\ inFlight' \in SUBSET CR
    BY <1>1, <2>2 DEF HandleEvent, HandleDeleted, DropOwn, Enqueue, TypeOK
  <2> QED BY <1>1, <2>3, <2>4, <2>5
          DEF HandleEvent, HandleDeleted, DropOwn, Enqueue, Consume, TypeOK
<1>2. CASE OpenWatch
  <2>1. ApiTypeOK'
    <3> DEFINE Alive == {c \in CR : cr[c].alive}
    <3>1. PICK s \in [1 .. Cardinality(Alive) -> Alive] :
            events' = [i \in 1 .. Cardinality(Alive) |->
                         [type |-> "ADDED", item |-> s[i],
                          rv |-> cr[s[i]].rv, by |-> "client"]]
      BY <1>2 DEF OpenWatch, Connect
    <3>2. Cardinality(Alive) \in Nat
      BY FiniteAssumption, FS_Subset, FS_CardinalityType
    <3>3. \A i \in 1 .. Cardinality(Alive) :
            [type |-> "ADDED", item |-> s[i], rv |-> cr[s[i]].rv, by |-> "client"] \in Event
      BY <1>b DEF Event, Object
    <3>4. events' \in Seq(Event)
      BY <3>1, <3>2, <3>3
    <3> QED BY <1>2, <3>4 DEF OpenWatch, Connect, TypeOK, ApiTypeOK
  <2> QED BY <1>2, <2>1 DEF OpenWatch, TypeOK
<1>3. CASE TakeItem
  <2>1. Head(q.order) \in CR /\ QTake(q) \in QueueOf(CR)
    BY <1>3, TakeTypes DEF TakeItem, TypeOK
  <2>2. w' \in Worker /\ (w.pc = "idle" <=> w.item = NoItem)'
    BY <1>3, <2>1, ItemAssumption DEF TakeItem, TypeOK, Worker, PC
  <2>3. late' \in Nat
    BY <1>3 DEF TakeItem, TypeOK
  <2> QED BY <1>3, <2>1, <2>2, <2>3 DEF TakeItem, TypeOK, ApiTypeOK
<1>4. CASE Get
  <2>1. w.item \in CR /\ w.pc # "idle"
    BY <1>a, <1>4 DEF Get, At
  <2>2. w' \in Worker /\ (w.pc = "idle" <=> w.item = NoItem)'
    BY <1>4, <1>b, <2>1 DEF Get, TypeOK, Worker, PC
  <2> QED BY <1>4, <2>2 DEF Get, TypeOK, ApiTypeOK
<1>5. CASE GetFails
  <2>1. w.item \in CR /\ w.pc # "idle"
    BY <1>a, <1>5 DEF GetFails, At
  <2>2. w' \in Worker /\ (w.pc = "idle" <=> w.item = NoItem)'
    BY <1>5, <2>1, ReturnType DEF GetFails
  <2>3. budget' \in 0 .. MaxStimuli
    BY <1>5, UnluckyType DEF GetFails, TypeOK
  <2>4. unread' \in SUBSET CR
    BY <1>5, <2>1 DEF GetFails, TypeOK
  <2> QED BY <1>5, <2>2, <2>3, <2>4 DEF GetFails, TypeOK, ApiTypeOK
<1>6. CASE DecodeFails
  <2>1. w' \in Worker /\ (w.pc = "idle" <=> w.item = NoItem)'
    BY <1>6, ReturnType DEF DecodeFails, At
  <2>2. budget' \in 0 .. MaxStimuli
    BY <1>6, UnluckyType DEF DecodeFails
  <2> QED BY <1>6, <2>1, <2>2 DEF DecodeFails, TypeOK, ApiTypeOK
<1>7. CASE RevokeLeases
  <2>1. w' \in Worker /\ (w.pc = "idle" <=> w.item = NoItem)'
    BY <1>7, GotoType, ReturnType DEF RevokeLeases, At, PC
  <2>2. budget' \in 0 .. MaxStimuli
    BY <1>7, UnluckyType DEF RevokeLeases, TypeOK
  <2> QED BY <1>7, <2>1, <2>2 DEF RevokeLeases, TypeOK, ApiTypeOK
<1>8. CASE RemoveFinalizer
  <2>1. w' \in Worker /\ (w.pc = "idle" <=> w.item = NoItem)'
    BY <1>8, ReturnType DEF RemoveFinalizer, At
  <2>2. ApiTypeOK'
    BY <1>8, <1>a, StoreFinalizerType DEF RemoveFinalizer, At, TypeOK, ApiTypeOK
  <2> QED BY <1>8, <2>1, <2>2 DEF RemoveFinalizer, TypeOK
<1>9. CASE AddFinalizer
  <2>1. w' \in Worker /\ (w.pc = "idle" <=> w.item = NoItem)'
    BY <1>9, GotoType DEF AddFinalizer, At, PC
  <2>2. ApiTypeOK'
    BY <1>9, <1>a, StoreFinalizerType DEF AddFinalizer, At
  <2> QED BY <1>9, <2>1, <2>2 DEF AddFinalizer, TypeOK
<1>10. CASE FinalizerFails
  <2>1. w.item \in CR /\ w.pc # "idle"
    BY <1>a, <1>10 DEF FinalizerFails, At
  <2>2. w' \in Worker /\ (w.pc = "idle" <=> w.item = NoItem)'
    BY <1>10, <2>1, ReturnType DEF FinalizerFails
  <2>3. ApiTypeOK'
    BY <1>10, <2>1, StoreFinalizerType DEF FinalizerFails, TypeOK, ApiTypeOK
  <2>4. budget' \in 0 .. MaxStimuli
    BY <1>10, UnluckyType DEF FinalizerFails, TypeOK
  <2> QED BY <1>10, <2>2, <2>3, <2>4 DEF FinalizerFails, TypeOK
<1>11. CASE Reconcile
  <2>1. w.item \in CR /\ w.pc # "idle" /\ w.item # NoItem
    BY <1>a, <1>11 DEF Reconcile, At, TypeOK
  <2>2. PICK r \in Result : 
          \/ Return(TRUE) /\ UNCHANGED inFlight
          \/ /\ w' = [w EXCEPT !.pc = "write", !.base = w.raw.rv, !.res = r]
             /\ inFlight' = inFlight \cup {w.item}
    BY <1>11, <2>1 DEF Reconcile, TypeOK
  <2>3. w.raw.rv \in Nat
    BY DEF TypeOK, Worker, Object
  <2>4. w' \in Worker /\ (w.pc = "idle" <=> w.item = NoItem)'
    BY <2>1, <2>2, <2>3, ReturnType DEF TypeOK, Worker, PC
  <2>5. inFlight' \in SUBSET CR
    BY <2>1, <2>2 DEF TypeOK
  <2> QED BY <1>11, <2>4, <2>5 DEF Reconcile, TypeOK, ApiTypeOK
<1>12. CASE WriteStatus
  <2>1. w.item \in CR /\ w.pc # "idle" /\ w.item # NoItem
    BY <1>a, <1>12 DEF WriteStatus, At, TypeOK
  <2>2. ApiTypeOK'
    BY <1>12, <2>1, StoreStatusType DEF WriteStatus
  <2>3. w.base + 1 \in Nat
    BY DEF TypeOK, Worker
  <2>4. w' \in Worker /\ (w.pc = "idle" <=> w.item = NoItem)'
    BY <1>12, <2>1, <2>3 DEF WriteStatus, TypeOK, Worker, PC
  <2> QED BY <1>12, <2>2, <2>4 DEF WriteStatus, TypeOK
<1>13. CASE Conflict
  <2>1. w' \in Worker /\ (w.pc = "idle" <=> w.item = NoItem)'
    BY <1>13, GotoType DEF Conflict, At, PC
  <2> QED BY <1>13, <2>1 DEF Conflict, TypeOK, ApiTypeOK
<1>14. CASE Refetch
  <2>1. w.item \in CR /\ w.item # NoItem
    BY <1>a, <1>14 DEF Refetch, At, TypeOK
  <2>2. cr[w.item].rv \in Nat
    BY <1>b, <2>1 DEF Object
  <2>3. w' \in Worker /\ (w.pc = "idle" <=> w.item = NoItem)'
    BY <1>14, <2>1, <2>2 DEF Refetch, TypeOK, Worker, PC
  <2> QED BY <1>14, <2>3 DEF Refetch, TypeOK, ApiTypeOK
<1>15. CASE StatusFails
  <2>1. w.item \in CR /\ w.pc # "idle"
    BY <1>a, <1>15 DEF StatusFails, At
  <2>2. w' \in Worker /\ (w.pc = "idle" <=> w.item = NoItem)'
    BY <1>15, <2>1, ReturnType DEF StatusFails
  <2>3. ApiTypeOK'
    BY <1>15, <2>1, StoreStatusType DEF StatusFails, TypeOK, ApiTypeOK
  <2>4. budget' \in 0 .. MaxStimuli
    BY <1>15, UnluckyType DEF StatusFails, TypeOK
  <2> QED BY <1>15, <2>2, <2>3, <2>4 DEF StatusFails, TypeOK
<1>16. CASE Remember
  <2>1. w' \in Worker /\ (w.pc = "idle" <=> w.item = NoItem)'
    BY <1>16, ReturnType DEF Remember, At
  <2>2. lastWrite' \in [CR -> Nat]
    BY <1>16 DEF Remember, TypeOK, Worker
  <2> QED BY <1>16, <2>1, <2>2 DEF Remember, TypeOK, ApiTypeOK
<1>17. CASE FinishPass
  <2>1. CASE run = "cancelled"
    BY <1>17, <2>1, ExitType DEF FinishPass, TypeOK
  <2>2. CASE run # "cancelled"
    <3>1. w.item \in CR /\ w.again \in BOOLEAN
      BY <1>a, <1>17 DEF FinishPass, At, TypeOK, Worker
    <3>2. q' \in QueueOf(CR)
      BY <1>17, <2>2, <3>1, QueueTypes DEF FinishPass, TypeOK
    <3>3. w' \in Worker /\ (w.pc = "idle" <=> w.item = NoItem)'
      <4>1. w' = IdleWorker
        BY <1>17, <2>2 DEF FinishPass
      <4> QED BY <4>1, ObjectTypes DEF IdleWorker
    <3> QED BY <1>17, <2>2, <3>2, <3>3 DEF FinishPass, TypeOK, ApiTypeOK
  <2> QED BY <2>1, <2>2
<1>18. CASE Stop
  BY <1>18, ExitType DEF Stop, TypeOK
<1>19. CASE Cancel
  <2>1. budget' \in 0 .. MaxStimuli
    BY <1>19, UnluckyType DEF Cancel
  <2> QED BY <1>19, <2>1 DEF Cancel, TypeOK, ApiTypeOK
<1>20. CASE ShutDown
  <2>1. q' \in QueueOf(CR)
    BY <1>20 DEF ShutDown, QShutDown, QueueOf, TypeOK
  <2> QED BY <1>20, <2>1 DEF ShutDown, TypeOK, ApiTypeOK
<1>21. CASE Crash
  <2>1. budget' \in 0 .. MaxStimuli
    BY <1>21, UnluckyType DEF Crash
  <2> QED BY <1>21, <2>1, ExitType DEF Crash, TypeOK
<1>22. CASE Restart
  BY <1>22 DEF Restart, TypeOK, ApiTypeOK
<1>23. CASE CloseWatch
  <2>1. budget' \in 0 .. MaxStimuli
    BY <1>23, UnluckyType DEF CloseWatch
  <2>2. events' \in Seq(Event)
    BY <1>23 DEF CloseWatch, Disconnect
  <2> QED BY <1>23, <2>1, <2>2 DEF CloseWatch, Disconnect, TypeOK, ApiTypeOK
<1>24. ASSUME NEW c \in CR, Fire(c) PROVE TypeOK'
  <2>1. q' \in QueueOf(CR)
    BY <1>24, QueueTypes DEF Fire, TypeOK
  <2> QED BY <1>24, <2>1 DEF Fire, TypeOK, ApiTypeOK
<1>25. ASSUME NEW c \in CR, Client(c) PROVE TypeOK'
  <2>1. budget' \in 0 .. MaxStimuli
    BY <1>25, UnluckyType DEF Client
  <2> QED BY <1>25, <2>1, ClientType DEF Client, TypeOK
<1>26. ASSUME NEW c \in CR, Flip(c) PROVE TypeOK'
  <2>1. budget' \in 0 .. MaxStimuli
    BY <1>26, UnluckyType DEF Flip
  <2> QED BY <1>26, <2>1 DEF Flip, TypeOK, ApiTypeOK
<1>27. CASE UNCHANGED vars
  BY <1>27 DEF vars, TypeOK, ApiTypeOK
<1> QED
  BY <1>1, <1>2, <1>3, <1>4, <1>5, <1>6, <1>7, <1>8, <1>9, <1>10, <1>11, <1>12,
     <1>13, <1>14, <1>15, <1>16, <1>17, <1>18, <1>19, <1>20, <1>21, <1>22,
     <1>23, <1>24, <1>25, <1>26, <1>27
  DEF Next, WorkerStep

-----------------------------------------------------------------------------
(* What the writers do to the stored objects.                              *)

\* What Put does to the object it stores and to all others.
LEMMA PutEffect ==
  ASSUME TypeOK, NEW c \in CR, NEW obj \in Object, NEW type, NEW by,
         Put(c, obj, type, by)
  PROVE  /\ \A d \in CR \ {c} : cr'[d] = cr[d]
         /\ cr'[c] = [obj EXCEPT !.rv = cr[c].rv + 1]
         /\ cr'[c] \in Object
         /\ cr'[c].rv = cr[c].rv + 1 /\ cr[c].rv \in Nat
         /\ cr'[c].alive = obj.alive /\ cr'[c].uid = obj.uid /\ cr'[c].gen = obj.gen
         /\ cr'[c].fin = obj.fin /\ cr'[c].deleting = obj.deleting
         /\ cr'[c].status = obj.status
<1>1. cr \in [CR -> Object] /\ cr[c].rv \in Nat
  BY DEF TypeOK, ApiTypeOK, Object
<1>2. cr'[c] = [obj EXCEPT !.rv = cr[c].rv + 1] /\ \A d \in CR \ {c} : cr'[d] = cr[d]
  BY <1>1 DEF Put
<1> QED BY <1>1, <1>2 DEF Object

\* An object is created, or changed, or goes because nothing holds it.
LEMMA ClientEffect ==
  ASSUME TypeOK, NEW c \in CR, Client(c)
  PROVE  /\ \A d \in CR \ {c} : cr'[d] = cr[d]
         /\ cr'[c].rv = cr[c].rv + 1
         /\ \/ /\ ~cr[c].alive /\ cr'[c].alive /\ cr'[c].status = NoStatus
               /\ ~cr'[c].fin /\ ~cr'[c].deleting
               /\ \E obj \in Object : Put(c, obj, "ADDED", "client")
            \/ /\ cr[c].alive /\ cr'[c].alive /\ cr'[c].uid = cr[c].uid
               /\ cr'[c].gen \in {cr[c].gen, cr[c].gen + 1}
               /\ cr'[c].fin = cr[c].fin /\ cr'[c].status = cr[c].status
               /\ cr[c].deleting => cr'[c].deleting
               /\ \E obj \in Object : Put(c, obj, "MODIFIED", "client")
            \/ /\ cr[c].alive /\ ~cr[c].fin /\ ~cr'[c].alive
               /\ cr'[c].status = NoStatus
               /\ \E obj \in Object : Put(c, obj, "DELETED", "client")
<1>0. cr[c] \in Object
  BY DEF TypeOK, ApiTypeOK
<1> DEFINE Created  == /\ ~cr[c].alive /\ cr'[c].alive /\ cr'[c].status = NoStatus
                       /\ ~cr'[c].fin /\ ~cr'[c].deleting
                       /\ \E obj \in Object : Put(c, obj, "ADDED", "client")
           Changed  == /\ cr[c].alive /\ cr'[c].alive /\ cr'[c].uid = cr[c].uid
                       /\ cr'[c].gen \in {cr[c].gen, cr[c].gen + 1}
                       /\ cr'[c].fin = cr[c].fin /\ cr'[c].status = cr[c].status
                       /\ cr[c].deleting => cr'[c].deleting
                       /\ \E obj \in Object : Put(c, obj, "MODIFIED", "client")
           Removed  == /\ cr[c].alive /\ ~cr[c].fin /\ ~cr'[c].alive
                       /\ cr'[c].status = NoStatus
                       /\ \E obj \in Object : Put(c, obj, "DELETED", "client")
           Bumped   == /\ \A d \in CR \ {c} : cr'[d] = cr[d]
                       /\ cr'[c].rv = cr[c].rv + 1
<1>1. ASSUME NEW g \in BOOLEAN, Create(c, g) PROVE Bumped /\ Created
  <2> DEFINE obj == Declared(cr[c].uid + 1, cr[c].rv + 1, g)
  <2>1. obj \in Object
    BY <1>0, ObjectTypes DEF Object
  <2>2. obj.alive /\ obj.status = NoStatus /\ ~obj.fin /\ ~obj.deleting
    BY DEF Declared, Absent
  <2> HIDE DEF obj
  <2>3. Put(c, obj, "ADDED", "client") /\ ~cr[c].alive
    BY <1>1 DEF Create, obj
  <2> QED BY <2>1, <2>2, <2>3, PutEffect
<1>2. ASSUME NEW obj \in Object, cr[c].alive, obj.alive, obj.uid = cr[c].uid,
             obj.gen \in {cr[c].gen, cr[c].gen + 1}, obj.fin = cr[c].fin,
             obj.status = cr[c].status, cr[c].deleting => obj.deleting,
             Put(c, obj, "MODIFIED", "client")
      PROVE  Bumped /\ Changed
  BY <1>2, PutEffect
<1>3. ASSUME NEW obj \in Object, cr[c].alive, obj.alive, obj.uid = cr[c].uid,
             obj.gen \in {cr[c].gen, cr[c].gen + 1}, obj.fin = cr[c].fin,
             obj.status = cr[c].status, cr[c].deleting => obj.deleting,
             PutOrRemove(c, obj, "client")
      PROVE  Bumped /\ (Changed \/ Removed)
  <2>1. CASE obj.deleting /\ ~obj.fin /\ ~obj.guard
    <3> DEFINE gone == [Absent EXCEPT !.uid = obj.uid]
    <3>1. gone \in Object /\ ~gone.alive /\ gone.status = NoStatus
      BY ObjectTypes DEF Object, Absent
    <3> HIDE DEF gone
    <3>2. Put(c, gone, "DELETED", "client")
      BY <1>3, <2>1 DEF PutOrRemove, gone
    <3> QED BY <1>3, <2>1, <3>1, <3>2, PutEffect
  <2>2. CASE ~(obj.deleting /\ ~obj.fin /\ ~obj.guard)
    BY <1>3, <2>2, <1>2 DEF PutOrRemove
  <2> QED BY <2>1, <2>2
<1>4. CASE EditSpec(c)
  <2> DEFINE obj == [cr[c] EXCEPT !.gen = @ + 1]
  <2>1. /\ obj \in Object /\ obj.alive = cr[c].alive /\ obj.uid = cr[c].uid
        /\ obj.gen = cr[c].gen + 1 /\ obj.fin = cr[c].fin
        /\ obj.status = cr[c].status /\ obj.deleting = cr[c].deleting
    BY <1>0 DEF Object
  <2> HIDE DEF obj
  <2>2. cr[c].alive /\ Put(c, obj, "MODIFIED", "client")
    BY <1>4 DEF EditSpec, obj
  <2> QED BY <2>1, <2>2, <1>2
<1>5. CASE Touch(c)
  BY <1>0, <1>2, <1>5 DEF Touch
<1>6. CASE Delete(c)
  <2> DEFINE obj == [cr[c] EXCEPT !.deleting = TRUE, !.gen = @ + 1]
  <2>1. cr[c].gen + 1 \in Nat
    BY <1>0 DEF Object
  <2>2. /\ obj \in Object /\ obj.alive = cr[c].alive /\ obj.uid = cr[c].uid
        /\ obj.gen = cr[c].gen + 1 /\ obj.fin = cr[c].fin
        /\ obj.status = cr[c].status /\ obj.deleting
    BY <1>0, <2>1 DEF Object
  <2> HIDE DEF obj
  <2>3. cr[c].alive /\ PutOrRemove(c, obj, "client")
    BY <1>6 DEF Delete, obj
  <2> QED BY <2>2, <2>3, <1>3
<1>7. CASE Release(c)
  <2> DEFINE obj == [cr[c] EXCEPT !.guard = FALSE]
  <2>1. /\ obj \in Object /\ obj.alive = cr[c].alive /\ obj.uid = cr[c].uid
        /\ obj.gen = cr[c].gen /\ obj.fin = cr[c].fin
        /\ obj.status = cr[c].status /\ obj.deleting = cr[c].deleting
    BY <1>0 DEF Object
  <2> HIDE DEF obj
  <2>2. cr[c].alive /\ PutOrRemove(c, obj, "client")
    BY <1>7 DEF Release, obj
  <2> QED BY <2>1, <2>2, <1>3
<1>8. Bumped /\ (Created \/ Changed \/ Removed)
  BY <1>1, <1>4, <1>5, <1>6, <1>7 DEF Client
<1> QED BY <1>8

\* setFinalizer's Update succeeds only on the object as it was read.
LEMMA StoreFinalizerEffect ==
  ASSUME TypeOK, w.item \in CR, NEW held \in BOOLEAN, StoreFinalizer(held),
         ReadIsCurrentOrStale, BranchIsRight, w.pc \in {"unfinalize", "finalize"}
  PROVE  /\ cr[w.item] = w.raw
         /\ \A d \in CR \ {w.item} : cr'[d] = cr[d]
         /\ cr'[w.item].rv = cr[w.item].rv + 1
         /\ held => /\ cr'[w.item].alive = w.raw.alive /\ cr'[w.item].fin
                    /\ cr'[w.item].deleting = w.raw.deleting
         /\ cr'[w.item].alive =>
              /\ cr'[w.item].uid = w.raw.uid /\ cr'[w.item].gen = w.raw.gen
              /\ cr'[w.item].fin = held /\ cr'[w.item].deleting = w.raw.deleting
              /\ cr'[w.item].status = w.raw.status
         /\ ~cr'[w.item].alive => cr'[w.item].status = NoStatus
         /\ \E obj \in Object, type \in {"MODIFIED", "DELETED"} :
              Put(w.item, obj, type, "finalizer")
<1> DEFINE obj  == [w.raw EXCEPT !.fin = held]
           gone == [Absent EXCEPT !.uid = obj.uid]
<1>1. cr[w.item] = w.raw /\ w.raw.alive
  BY DEF StoreFinalizer, ReadIsCurrentOrStale, BranchIsRight
<1>2. /\ obj \in Object /\ obj.alive = w.raw.alive /\ obj.uid = w.raw.uid
      /\ obj.gen = w.raw.gen /\ obj.fin = held /\ obj.deleting = w.raw.deleting
      /\ obj.status = w.raw.status /\ w.raw \in Object
  BY DEF TypeOK, Worker, Object
<1>3. gone \in Object /\ ~gone.alive /\ gone.status = NoStatus
  BY <1>2, ObjectTypes DEF Object, Absent
<1>4. \/ Put(w.item, obj, "MODIFIED", "finalizer")
      \/ ~obj.fin /\ Put(w.item, gone, "DELETED", "finalizer")
  BY DEF StoreFinalizer, PutOrRemove
<1> HIDE DEF obj, gone
<1>5. CASE Put(w.item, obj, "MODIFIED", "finalizer")
  BY <1>1, <1>2, <1>5, PutEffect
<1>6. CASE ~obj.fin /\ Put(w.item, gone, "DELETED", "finalizer")
  BY <1>1, <1>2, <1>3, <1>6, PutEffect
<1> QED BY <1>4, <1>5, <1>6

\* A status write succeeds only on the version it was based on.
LEMMA StoreStatusEffect ==
  ASSUME TypeOK, w.item \in CR, StoreStatus
  PROVE  /\ \A d \in CR \ {w.item} : cr'[d] = cr[d]
         /\ cr[w.item].rv = w.base /\ cr'[w.item].rv = cr[w.item].rv + 1
         /\ cr'[w.item].alive
         /\ cr'[w.item].uid = cr[w.item].uid /\ cr'[w.item].gen = cr[w.item].gen
         /\ cr'[w.item].fin = cr[w.item].fin
         /\ cr'[w.item].deleting = cr[w.item].deleting
         /\ cr'[w.item].status = NewStatus
         /\ \E obj \in Object : Put(w.item, obj, "MODIFIED", "status")
<1> DEFINE obj == [cr[w.item] EXCEPT !.status = NewStatus]
<1>1. NewStatus \in Status
  BY DEF NewStatus, TypeOK, Worker, Object, Status
<1>2. cr[w.item] \in Object
  BY DEF TypeOK, ApiTypeOK
<1>3. /\ obj \in Object /\ obj.alive = cr[w.item].alive /\ obj.uid = cr[w.item].uid
      /\ obj.gen = cr[w.item].gen /\ obj.fin = cr[w.item].fin
      /\ obj.deleting = cr[w.item].deleting /\ obj.status = NewStatus
  BY <1>1, <1>2 DEF Object
<1> HIDE DEF obj
<1>4. Put(w.item, obj, "MODIFIED", "status")
  BY DEF StoreStatus, obj
<1> QED BY <1>3, <1>4, PutEffect DEF StoreStatus

-----------------------------------------------------------------------------
(* Finalizer and status.                                                   *)

StatusInv ==
  /\ ReadIsCurrentOrStale /\ BranchIsRight /\ HeldIsSame
  /\ MintsUnderFinalizer /\ HonestStatus

\* The steps that end or begin a pass and write no object.
LEMMA IdleStatusInv ==
  ASSUME StatusInv, cr' = cr, w'.pc \in {"idle", "read", "done"}
  PROVE  StatusInv'
BY DEF StatusInv, ReadIsCurrentOrStale, BranchIsRight, HeldIsSame,
       MintsUnderFinalizer, HonestStatus, Holding

\* A step that changes neither the objects nor the worker keeps the facts about the pass.
LEMMA SameStatusInv ==
  ASSUME StatusInv, cr' = cr, w' = w
  PROVE  StatusInv'
BY DEF StatusInv, ReadIsCurrentOrStale, BranchIsRight, HeldIsSame,
       MintsUnderFinalizer, HonestStatus, Holding, StatusUnchanged

\* A pass that returns is done.
LEMMA ReturnPc ==
  ASSUME NEW again, Return(again)
  PROVE  w'.pc = "done" /\ w'.item = w.item /\ w'.again = again
BY DEF Return, IdleWorker

\* A client keeps the facts about the pass and about the statuses.
LEMMA ClientStatusInv ==
  ASSUME TypeOK, StatusInv, NEW c \in CR, Client(c)
  PROVE  StatusInv'
<1>1. w' = w
  BY DEF Client, memory
<1>2. w.pc \notin {"idle"} => w.item \in CR
  BY DEF TypeOK, Worker
<1>3. cr[c] \in Object
  BY DEF TypeOK, ApiTypeOK
<1>4. ReadIsCurrentOrStale' /\ BranchIsRight'
  BY <1>1, <1>2, <1>3, ClientEffect
  DEF StatusInv, ReadIsCurrentOrStale, BranchIsRight, TypeOK, Worker, Object
<1>5. MintsUnderFinalizer'
  BY <1>1, <1>2, ClientEffect DEF StatusInv, MintsUnderFinalizer, Holding
<1>6. HeldIsSame'
  BY <1>1, <1>2, <1>3, ClientEffect
  DEF StatusInv, MintsUnderFinalizer, HeldIsSame, Holding, StatusUnchanged,
      TypeOK, Worker, Object
<1>7. HonestStatus'
  <2> SUFFICES ASSUME NEW d \in CR, cr'[d].status # NoStatus
               PROVE  /\ cr'[d].status.uid = cr'[d].uid
                      /\ cr'[d].status.obs = cr'[d].status.gen
                      /\ cr'[d].status.obs <= cr'[d].gen
    BY DEF HonestStatus
  <2>1. CASE d # c
    BY <2>1, ClientEffect DEF StatusInv, HonestStatus
  <2>2. CASE d = c
    <3>1. /\ cr'[c].uid = cr[c].uid /\ cr'[c].status = cr[c].status
          /\ cr'[c].gen \in {cr[c].gen, cr[c].gen + 1}
      BY <2>2, ClientEffect
    <3>2. cr[c].gen \in Nat /\ cr[c].status.obs \in Nat
      BY <1>3 DEF Object, Status
    <3> QED BY <2>2, <3>1, <3>2 DEF StatusInv, HonestStatus
  <2> QED BY <2>1, <2>2
<1> QED BY <1>4, <1>5, <1>6, <1>7 DEF StatusInv

\* Every step keeps the facts about the pass and about the statuses.
LEMMA StepStatusInv ==
  ASSUME TypeOK, StatusInv, [Next]_vars
  PROVE  StatusInv'
<1> USE DEF memory, ghosts, apiVars
<1>a. w.pc # "idle" => w.item \in CR
  BY DEF TypeOK, Worker
<1>b. w.raw \in Object
  BY DEF TypeOK, Worker
<1>1. CASE HandleEvent \/ OpenWatch \/ Cancel \/ ShutDown \/ Restart \/ CloseWatch
  BY <1>1, SameStatusInv
  DEF HandleEvent, HandleDeleted, DropOwn, Enqueue, Consume, OpenWatch, Connect,
      Cancel, ShutDown, Restart, CloseWatch, Disconnect
<1>2. ASSUME NEW c \in CR, Fire(c) \/ Flip(c) PROVE StatusInv'
  BY <1>2, SameStatusInv DEF Fire, Flip
<1>3. ASSUME NEW c \in CR, Client(c) PROVE StatusInv'
  BY <1>3, ClientStatusInv
<1>4. CASE TakeItem
  BY <1>4, IdleStatusInv DEF TakeItem, TypeOK, Worker
<1>5. CASE Get
  <2>1. /\ w.item \in CR /\ cr' = cr /\ w'.item = w.item /\ w'.raw = cr[w.item]
        /\ cr[w.item].alive
        /\ w'.pc = IF cr[w.item].deleting THEN "revoke"
                   ELSE IF cr[w.item].fin THEN "reconcile" ELSE "finalize"
    BY <1>5, <1>a DEF Get, At, TypeOK, Worker
  <2>2. cr[w.item] \in Object
    BY <2>1 DEF TypeOK, ApiTypeOK
  <2>3. ReadIsCurrentOrStale' /\ BranchIsRight' /\ MintsUnderFinalizer' /\ HonestStatus'
    BY <2>1, <2>2
    DEF StatusInv, ReadIsCurrentOrStale, BranchIsRight, MintsUnderFinalizer,
        HonestStatus, Holding, Object
  <2>4. cr[w.item].status.obs <= cr[w.item].gen
    BY <2>1, <2>2 DEF StatusInv, HonestStatus, NoStatus, Object
  <2>5. HeldIsSame'
    BY <2>1, <2>2, <2>4 DEF HeldIsSame, Holding, Object
  <2> QED BY <2>3, <2>5 DEF StatusInv
<1>6. CASE GetFails \/ DecodeFails
  BY <1>6, IdleStatusInv, ReturnPc DEF GetFails, DecodeFails
<1>7. CASE RevokeLeases
  <2>1. CASE Goto("unfinalize")
    <3>1. cr' = cr /\ w'.pc = "unfinalize" /\ w'.raw = w.raw /\ w'.item = w.item
      BY <1>7, <2>1 DEF RevokeLeases, Goto, TypeOK, Worker
    <3>2. w.pc = "revoke"
      BY <1>7 DEF RevokeLeases, At
    <3> QED BY <3>1, <3>2
            DEF StatusInv, ReadIsCurrentOrStale, BranchIsRight, MintsUnderFinalizer,
                HonestStatus, HeldIsSame, Holding
  <2>2. CASE Return(TRUE)
    BY <1>7, <2>2, IdleStatusInv, ReturnPc DEF RevokeLeases
  <2> QED BY <1>7, <2>1, <2>2 DEF RevokeLeases
<1>8. ASSUME w.pc \in {"unfinalize", "finalize"}, NEW held \in BOOLEAN, StoreFinalizer(held)
      PROVE  HonestStatus'
  <2>1. w.item \in CR
    BY <1>8, <1>a
  <2> SUFFICES ASSUME NEW d \in CR, cr'[d].status # NoStatus
               PROVE  /\ cr'[d].status.uid = cr'[d].uid
                      /\ cr'[d].status.obs = cr'[d].status.gen
                      /\ cr'[d].status.obs <= cr'[d].gen
    BY DEF HonestStatus
  <2>2. CASE d # w.item
    BY <1>8, <2>1, <2>2, StoreFinalizerEffect DEF StatusInv, HonestStatus
  <2>3. CASE d = w.item /\ cr'[d].alive
    BY <1>8, <2>1, <2>3, StoreFinalizerEffect DEF StatusInv, HonestStatus
  <2>4. CASE d = w.item /\ ~cr'[d].alive
    BY <1>8, <2>1, <2>4, StoreFinalizerEffect DEF StatusInv
  <2> QED BY <2>2, <2>3, <2>4
<1>9. CASE RemoveFinalizer
  <2>1. w'.pc = "done" /\ w.pc = "unfinalize"
    BY <1>9, ReturnPc DEF RemoveFinalizer, At
  <2>2. CASE cr' = cr
    BY <2>1, <2>2, IdleStatusInv
  <2>3. CASE StoreFinalizer(FALSE)
    BY <1>8, <2>1, <2>3
    DEF StatusInv, ReadIsCurrentOrStale, BranchIsRight, HeldIsSame,
        MintsUnderFinalizer, Holding
  <2> QED BY <1>9, <2>2, <2>3 DEF RemoveFinalizer
<1>10. CASE AddFinalizer
  <2>1. /\ w.pc = "finalize" /\ w'.pc = "reconcile" /\ w'.raw = w.raw /\ w'.item = w.item
        /\ StoreFinalizer(TRUE) /\ w.item \in CR
    BY <1>10, <1>a DEF AddFinalizer, At, Goto, TypeOK, Worker
  <2>2. HonestStatus'
    BY <1>8, <2>1
  <2>3. /\ cr[w.item] = w.raw /\ w.raw.alive /\ cr'[w.item].alive /\ cr'[w.item].fin
        /\ cr'[w.item].uid = w.raw.uid /\ cr'[w.item].gen = w.raw.gen
        /\ cr'[w.item].status = w.raw.status
    BY <2>1, StoreFinalizerEffect DEF StatusInv, BranchIsRight
  <2>4. w.raw.gen \in Nat /\ w.raw.status.obs <= w.raw.gen
    BY <1>b, <2>1, <2>3 DEF StatusInv, HonestStatus, NoStatus, Object
  <2> QED BY <2>1, <2>2, <2>3, <2>4
          DEF StatusInv, ReadIsCurrentOrStale, BranchIsRight, HeldIsSame,
              MintsUnderFinalizer, Holding
<1>11. CASE FinalizerFails
  <2>1. w'.pc = "done" /\ w.pc \in {"finalize", "unfinalize"}
    BY <1>11, ReturnPc DEF FinalizerFails, At
  <2>2. CASE cr' = cr
    BY <2>1, <2>2, IdleStatusInv
  <2>3. CASE StoreFinalizer(w.pc = "finalize")
    BY <1>8, <2>1, <2>3
    DEF StatusInv, ReadIsCurrentOrStale, BranchIsRight, HeldIsSame,
        MintsUnderFinalizer, Holding
  <2> QED BY <1>11, <2>2, <2>3 DEF FinalizerFails
<1>12. CASE Reconcile
  <2>1. /\ w.pc = "reconcile" /\ cr' = cr /\ w.item # NoItem
    BY <1>12 DEF Reconcile, At, TypeOK
  <2>2. CASE Return(TRUE)
    BY <2>1, <2>2, IdleStatusInv, ReturnPc
  <2>3. CASE ~Return(TRUE)
    <3>1. PICK r : /\ ~StatusUnchanged(w.raw, r)
                   /\ w' = [w EXCEPT !.pc = "write", !.base = w.raw.rv, !.res = r]
      BY <1>12, <2>3 DEF Reconcile
    <3>2. w'.pc = "write" /\ w'.raw = w.raw /\ w'.item = w.item /\ w'.res = r
      BY <3>1 DEF TypeOK, Worker
    <3> QED BY <2>1, <3>1, <3>2
            DEF StatusInv, ReadIsCurrentOrStale, BranchIsRight, HeldIsSame,
                MintsUnderFinalizer, HonestStatus, Holding, StatusUnchanged
  <2> QED BY <2>2, <2>3
<1>13. ASSUME w.pc \in {"write", "rewrite"}, StoreStatus,
              w'.pc \in {"remember", "done"}, w'.raw = w.raw \/ w'.pc = "done",
              w'.item = w.item
       PROVE  StatusInv'
  <2>1. w.item \in CR
    BY <1>13, <1>a
  <2>2. w.raw.gen <= cr[w.item].gen /\ cr[w.item].uid = w.raw.uid /\ cr[w.item].fin
    BY <1>13 DEF StatusInv, HeldIsSame, MintsUnderFinalizer, Holding
  <2>3. HonestStatus'
    <3> SUFFICES ASSUME NEW d \in CR, cr'[d].status # NoStatus
                 PROVE  /\ cr'[d].status.uid = cr'[d].uid
                        /\ cr'[d].status.obs = cr'[d].status.gen
                        /\ cr'[d].status.obs <= cr'[d].gen
      BY DEF HonestStatus
    <3>1. CASE d # w.item
      BY <1>13, <2>1, <3>1, StoreStatusEffect DEF StatusInv, HonestStatus
    <3>2. CASE d = w.item
      <4>1. /\ cr'[d].uid = cr[w.item].uid /\ cr'[d].gen = cr[w.item].gen
            /\ cr'[d].status = NewStatus
        BY <1>13, <2>1, <3>2, StoreStatusEffect
      <4> QED BY <2>2, <3>2, <4>1 DEF NewStatus
    <3> QED BY <3>1, <3>2
  <2>4. MintsUnderFinalizer' /\ HeldIsSame'
    BY <1>13, <2>1, <2>2, StoreStatusEffect DEF MintsUnderFinalizer, HeldIsSame, Holding
  <2> QED BY <1>13, <2>3, <2>4 DEF StatusInv, ReadIsCurrentOrStale, BranchIsRight
<1>14. CASE WriteStatus
  <2>1. w'.pc = "remember" /\ w'.raw = w.raw /\ w'.item = w.item
    BY <1>14 DEF WriteStatus, TypeOK, Worker
  <2> QED BY <1>13, <1>14, <2>1 DEF WriteStatus, At
<1>15. CASE Conflict \/ Refetch
  <2>1. /\ w.pc \in {"write", "refetch"} /\ w'.pc \in {"refetch", "rewrite"}
        /\ w'.raw = w.raw /\ w'.item = w.item /\ w'.res = w.res /\ cr' = cr
    BY <1>15 DEF Conflict, Refetch, At, Goto, TypeOK, Worker
  <2> QED BY <2>1
          DEF StatusInv, ReadIsCurrentOrStale, BranchIsRight, HeldIsSame,
              MintsUnderFinalizer, HonestStatus, Holding, StatusUnchanged
<1>16. CASE StatusFails
  <2>1. w'.pc = "done" /\ w'.item = w.item
    BY <1>16, ReturnPc DEF StatusFails
  <2>2. CASE cr' = cr
    BY <2>1, <2>2, IdleStatusInv
  <2>3. CASE w.pc # "refetch" /\ StoreStatus
    BY <1>13, <1>16, <2>1, <2>3 DEF StatusFails, At
  <2> QED BY <1>16, <2>2, <2>3 DEF StatusFails
<1>17. CASE Remember
  BY <1>17, IdleStatusInv, ReturnPc DEF Remember
<1>18. CASE FinishPass \/ Stop \/ Crash
  <2>1. cr' = cr /\ w' = IdleWorker
    BY <1>18 DEF FinishPass, Stop, Crash, Exit
  <2> QED BY <2>1, IdleStatusInv DEF IdleWorker
<1>19. CASE UNCHANGED vars
  BY <1>19, SameStatusInv DEF vars
<1> QED
  BY <1>1, <1>2, <1>3, <1>4, <1>5, <1>6, <1>7, <1>9, <1>10, <1>11, <1>12,
     <1>14, <1>15, <1>16, <1>17, <1>18, <1>19
  DEF Next, WorkerStep

-----------------------------------------------------------------------------
(* No object is forgotten.                                                 *)

ArmedInv == ProcessMemory /\ DeletedIsOver /\ RefreshArmed

\* Add makes an item due, and a timer that fires keeps it due.
LEMMA AddEffect ==
  ASSUME NEW queue \in QueueOf(CR), NEW x \in CR, ~queue.down
  PROVE  /\ Scheduled(QAdd(queue, x)) = Scheduled(queue) \cup {x}
         /\ Scheduled(queue) \subseteq Scheduled(QFire(queue, x))
         /\ ~QAdd(queue, x).down /\ ~QFire(queue, x).down
<1>1. /\ QAdd(queue, x).dirty = queue.dirty \cup {x}
      /\ QAdd(queue, x).waiting = queue.waiting
      /\ ~QAdd(queue, x).down
      /\ QAdd(queue, x) \in QueueOf(CR)
  BY QueueTypes DEF QAdd, QueueOf
<1>2. /\ QFire(queue, x).dirty = queue.dirty \cup {x}
      /\ QFire(queue, x).waiting = queue.waiting \ {x}
      /\ ~QFire(queue, x).down
  BY <1>1 DEF QFire, QueueOf
<1> QED BY <1>1, <1>2 DEF Scheduled

\* The end of a pass keeps what is due, and its own item if it is to come back.
LEMMA RequeueEffect ==
  ASSUME NEW queue \in QueueOf(CR), NEW x \in CR, NEW again \in BOOLEAN, ~queue.down
  PROVE  /\ Scheduled(queue) \subseteq Scheduled(Requeue(queue, x, again))
         /\ again => x \in Scheduled(Requeue(queue, x, again))
         /\ ~Requeue(queue, x, again).down
<1>1. /\ QDone(queue, x).dirty = queue.dirty
      /\ QDone(queue, x).waiting = queue.waiting
      /\ ~QDone(queue, x).down
      /\ QDone(queue, x) \in QueueOf(CR)
  BY QueueTypes DEF QDone, QueueOf
<1>2. /\ Requeue(queue, x, again).dirty = queue.dirty
      /\ Requeue(queue, x, again).waiting = queue.waiting \cup (IF again THEN {x} ELSE {})
      /\ ~Requeue(queue, x, again).down
  BY <1>1 DEF Requeue, QAddAfter, QueueOf
<1> QED BY <1>2 DEF Scheduled

\* What is taken is in hand; what was scheduled besides still is.
LEMMA TakeEffect ==
  ASSUME NEW queue \in QueueOf(CR), queue.order # <<>>
  PROVE  /\ Scheduled(queue) \subseteq Scheduled(QTake(queue)) \cup {Head(queue.order)}
         /\ QTake(queue).down = queue.down
<1>1. /\ QTake(queue).dirty = queue.dirty \ {Head(queue.order)}
      /\ QTake(queue).waiting = queue.waiting
      /\ QTake(queue).down = queue.down
  BY DEF QTake, QueueOf
<1> QED BY <1>1 DEF Scheduled

\* A new event takes the place of none.
LEMMA PutAnnounces ==
  ASSUME TypeOK, NEW c \in CR, NEW obj, NEW type, NEW by, Put(c, obj, type, by)
  PROVE  /\ \A d \in CR : Announced(d) => Announced(d)'
         /\ type = "ADDED" => Announced(c)' \/ ~watching
         /\ watching' = watching
<1>1. CASE ~watching
  BY <1>1 DEF Put, Announced
<1>2. CASE watching
  <2> DEFINE e == [type |-> type, item |-> c, rv |-> cr[c].rv + 1, by |-> by]
  <2>1. events \in Seq(Event) /\ events' = Append(events, e)
    BY <1>2 DEF Put, TypeOK, ApiTypeOK
  <2>2. e.type = type /\ e.item = c
    OBVIOUS
  <2> HIDE DEF e
  <2>3. /\ \A i \in DOMAIN events : i \in DOMAIN events' /\ events'[i] = events[i]
        /\ Len(events) + 1 \in DOMAIN events' /\ events'[Len(events) + 1] = e
    BY <2>1
  <2> QED BY <2>2, <2>3 DEF Put, Announced
<1> QED BY <1>1, <1>2 DEF TypeOK, ApiTypeOK

\* Taking the first event off the watch loses only that one.
LEMMA ConsumeAnnounces ==
  ASSUME TypeOK, events # <<>>, events' = Tail(events), NEW d \in CR, Announced(d)
  PROVE  Announced(d)' \/ (NextEvent.item = d /\ NextEvent.type = "ADDED")
<1>1. PICK i \in DOMAIN events : events[i].item = d /\ events[i].type = "ADDED"
  BY DEF Announced
<1>2. events \in Seq(Event)
  BY DEF TypeOK, ApiTypeOK
<1>3. CASE i = 1
  BY <1>1, <1>2, <1>3 DEF NextEvent
<1>4. CASE i # 1
  <2>1. i - 1 \in DOMAIN events' /\ events'[i - 1] = events[i]
    BY <1>1, <1>2, <1>4
  <2> QED BY <1>1, <2>1 DEF Announced
<1> QED BY <1>3, <1>4

\* A step that leaves the objects and the worker alone and loses nothing that
\* was coming forgets no object.
LEMMA ComingKept ==
  ASSUME ArmedInv, run' = run, ProcessMemory', cr' = cr, w' = w, unread' = unread,
         \A c \in CR : cr[c].alive /\ Coming(c) => Coming(c)',
         w.pc # "idle" => w.item \in CR
  PROVE  ArmedInv'
BY DEF ArmedInv, DeletedIsOver, RefreshArmed, InHand, LetGo

\* A process that is not up owes nobody a visit.
LEMMA DownIsArmed ==
  ASSUME run' = "down", ~watching', ~q'.down
  PROVE  ArmedInv'
BY DEF ArmedInv, ProcessMemory, DeletedIsOver, RefreshArmed

\* A write tells the watch; what was coming still is.
LEMMA PutComing ==
  ASSUME TypeOK, NEW c \in CR, NEW obj, NEW type, NEW by, Put(c, obj, type, by), q' = q
  PROVE  /\ \A d \in CR : Coming(d) => Coming(d)'
         /\ type = "ADDED" => Coming(c)'
         /\ watching' = watching
BY PutAnnounces DEF Coming

\* A client leaves every object scheduled, announced, in hand or let go.
LEMMA ClientArmedInv ==
  ASSUME TypeOK, ArmedInv, NEW c \in CR, Client(c)
  PROVE  ArmedInv'
<1> USE DEF memory, ghosts
<1>1. w' = w /\ run' = run /\ unread' = unread /\ q' = q
  BY DEF Client
<1>2. PICK type, obj : Put(c, obj, type, "client") /\ (~cr[c].alive => type = "ADDED")
  BY ClientEffect
<1>3. /\ \A d \in CR : Coming(d) => Coming(d)'
      /\ ~cr[c].alive => Coming(c)'
      /\ watching' = watching
  BY <1>1, <1>2, PutComing
<1>4. \A d \in CR : cr[d].alive /\ cr'[d].alive =>
        (cr'[d].fin <=> cr[d].fin) /\ (cr[d].deleting => cr'[d].deleting)
  BY ClientEffect
<1>4a. \A d \in CR : ~cr[d].alive /\ cr'[d].alive => Coming(d)'
  BY <1>3, ClientEffect
<1>5. ProcessMemory'
  BY <1>1, <1>3 DEF ArmedInv, ProcessMemory
<1>6. DeletedIsOver'
  <2> SUFFICES ASSUME run = "up", w.pc \in {"revoke", "unfinalize"}, cr'[w.item].alive
               PROVE  \/ Coming(w.item)'
                      \/ cr'[w.item].deleting /\ (w.raw.fin \/ ~cr'[w.item].fin)
    BY <1>1 DEF DeletedIsOver
  <2>1. w.item \in CR
    BY DEF TypeOK, Worker
  <2>2. CASE cr[w.item].alive
    <3>1. Coming(w.item) \/ (cr[w.item].deleting /\ (w.raw.fin \/ ~cr[w.item].fin))
      BY <2>2 DEF ArmedInv, DeletedIsOver
    <3> QED BY <1>1, <1>3, <1>4, <2>1, <2>2, <3>1
  <2>3. CASE ~cr[w.item].alive
    BY <1>1, <1>4a, <2>1, <2>3
  <2> QED BY <2>2, <2>3
<1>7. RefreshArmed'
  <2> SUFFICES ASSUME run = "up", NEW d \in CR, cr'[d].alive
               PROVE  Coming(d)' \/ InHand(d)' \/ LetGo(d)' \/ d \in unread'
    BY <1>1 DEF RefreshArmed
  <2>1. CASE cr[d].alive
    <3>1. Coming(d) \/ InHand(d) \/ LetGo(d) \/ d \in unread
      BY <2>1 DEF ArmedInv, RefreshArmed
    <3>2. LetGo(d) => LetGo(d)'
      BY <1>4, <2>1 DEF LetGo
    <3> QED BY <1>1, <1>3, <3>1, <3>2 DEF InHand
  <2>2. CASE ~cr[d].alive
    BY <1>4a, <2>2
  <2> QED BY <2>1, <2>2
<1> QED BY <1>5, <1>6, <1>7 DEF ArmedInv

\* A step of the pass under way that writes no object and goes on.
LEMMA PassGoesOn ==
  ASSUME ArmedInv, run' = run, q' = q, cr' = cr, watching' = watching, events' = events,
         unread' = unread, w.item \in CR, w'.item = w.item, w'.pc # "idle",
         w'.pc = "done" => w'.again,
         w'.pc \in {"revoke", "unfinalize"} =>
           \/ w.pc = "revoke" /\ w'.raw = w.raw
           \/ cr[w.item].deleting /\ (w'.raw.fin \/ ~cr[w.item].fin)
  PROVE  ArmedInv'
<1>1. \A c \in CR : Coming(c)' <=> Coming(c)
  BY DEF Coming, Announced
<1>2. \A c \in CR : InHand(c) => InHand(c)'
  BY DEF InHand
<1>3. \A c \in CR : LetGo(c)' <=> LetGo(c)
  BY DEF LetGo
<1>4. ProcessMemory'
  BY DEF ArmedInv, ProcessMemory
<1>5. RefreshArmed'
  BY <1>1, <1>2, <1>3 DEF ArmedInv, RefreshArmed
<1>6. DeletedIsOver'
  BY <1>1 DEF ArmedInv, DeletedIsOver
<1> QED BY <1>4, <1>5, <1>6 DEF ArmedInv

\* A step of the pass that writes its object and will come back to it, or leaves
\* it gone or let go of.
LEMMA PassWrites ==
  ASSUME TypeOK, ArmedInv, run' = run, q' = q, unread' = unread, w.item \in CR,
         NEW obj, NEW type, NEW by, Put(w.item, obj, type, by),
         \A d \in CR \ {w.item} : cr'[d] = cr[d],
         w'.item = w.item, w'.pc \notin {"idle", "revoke", "unfinalize"},
         \/ w'.pc = "done" => w'.again
         \/ ~cr'[w.item].alive
         \/ cr'[w.item].deleting /\ ~cr'[w.item].fin
  PROVE  ArmedInv'
<1>1. (\A d \in CR : Coming(d) => Coming(d)') /\ watching' = watching
  BY PutComing
<1>2. ProcessMemory' /\ DeletedIsOver'
  BY <1>1 DEF ArmedInv, ProcessMemory, DeletedIsOver
<1>3. RefreshArmed'
  <2> SUFFICES ASSUME run' = "up", NEW d \in CR, cr'[d].alive
               PROVE  Coming(d)' \/ InHand(d)' \/ LetGo(d)' \/ d \in unread'
    BY DEF RefreshArmed
  <2>1. CASE d = w.item
    BY <2>1 DEF InHand, LetGo
  <2>2. CASE d # w.item
    BY <1>1, <2>2 DEF ArmedInv, RefreshArmed, InHand, LetGo
  <2> QED BY <2>1, <2>2
<1> QED BY <1>2, <1>3 DEF ArmedInv

\* Every step leaves every object scheduled, announced, in hand or let go.
LEMMA StepArmedInv ==
  ASSUME TypeOK, TypeOK', ReadIsCurrentOrStale, BranchIsRight, ArmedInv, [Next]_vars
  PROVE  ArmedInv'
<1> USE DEF memory, ghosts, apiVars
<1>a. w.pc # "idle" => w.item \in CR
  BY DEF TypeOK, Worker
<1>b. q \in QueueOf(CR)
  BY DEF TypeOK
<1>1. CASE HandleEvent
  <2>1. /\ events # <<>> /\ events' = Tail(events) /\ cr' = cr /\ watching' = watching
        /\ run' = run /\ w' = w /\ unread' = unread /\ run # "down"
        /\ q' \in {q, QAdd(q, NextEvent.item)}
        /\ NextEvent.type = "ADDED" => q' = QAdd(q, NextEvent.item)
    BY <1>1 DEF HandleEvent, HandleDeleted, DropOwn, Enqueue, Consume, Listening
  <2>2. NextEvent.item \in CR
    <3>1. Head(events) \in Event
      BY <2>1 DEF TypeOK, ApiTypeOK
    <3> QED BY <3>1 DEF NextEvent, Event
  <2>3. ProcessMemory'
    <3>1. q'.down = q.down
      BY <1>b, <2>1, <2>2 DEF QAdd, QueueOf
    <3> QED BY <2>1, <3>1 DEF ArmedInv, ProcessMemory
  <2>4. CASE run # "up"
    BY <2>1, <2>3, <2>4 DEF ArmedInv, DeletedIsOver, RefreshArmed
  <2>5. CASE run = "up"
    <3>1. ~q.down
      BY <2>5 DEF ArmedInv, ProcessMemory
    <3>2. /\ Scheduled(q) \subseteq Scheduled(q')
          /\ NextEvent.type = "ADDED" => NextEvent.item \in Scheduled(q')
      BY <1>b, <2>1, <2>2, <3>1, AddEffect
    <3>3. \A c \in CR : Coming(c) => Coming(c)'
      BY <2>1, <3>2, ConsumeAnnounces DEF Coming, Scheduled
    <3> QED BY <1>a, <2>1, <2>3, <3>3, ComingKept
  <2> QED BY <2>4, <2>5
<1>2. CASE OpenWatch
  <2>1. /\ cr' = cr /\ w' = w /\ q' = q /\ unread' = unread /\ run' = run /\ run = "up"
    BY <1>2 DEF OpenWatch, Connect
  <2>2. \A c \in CR : cr[c].alive => Announced(c)'
    <3> DEFINE Alive == {c \in CR : cr[c].alive}
    <3>1. PICK s \in [1 .. Cardinality(Alive) -> Alive] :
            /\ Alive = {s[i] : i \in DOMAIN s}
            /\ events' = [i \in 1 .. Cardinality(Alive) |->
                            [type |-> "ADDED", item |-> s[i],
                             rv |-> cr[s[i]].rv, by |-> "client"]]
      BY <1>2 DEF OpenWatch, Connect
    <3> QED BY <3>1 DEF Announced
  <2>3. ProcessMemory'
    BY <2>1 DEF ArmedInv, ProcessMemory
  <2> QED BY <1>a, <2>1, <2>2, <2>3, ComingKept DEF Coming
<1>3. CASE TakeItem
  <2>1. /\ cr' = cr /\ events' = events /\ watching' = watching /\ run' = run
        /\ q' = QTake(q) /\ q.order # <<>> /\ unread' = unread \ {Head(q.order)}
        /\ w.pc = "idle" /\ w'.pc = "read" /\ w'.item = Head(q.order)
    BY <1>3 DEF TakeItem, At, TypeOK, Worker
  <2>2. /\ Scheduled(q) \subseteq Scheduled(q') \cup {Head(q.order)}
        /\ q'.down = q.down
    BY <1>b, <2>1, TakeEffect
  <2>3. \A c \in CR : Coming(c) => Coming(c)' \/ c = Head(q.order)
    BY <2>1, <2>2 DEF Coming, Announced
  <2>4. ProcessMemory' /\ DeletedIsOver'
    BY <2>1, <2>2 DEF ArmedInv, ProcessMemory, DeletedIsOver
  <2>5. RefreshArmed'
    BY <2>1, <2>3 DEF ArmedInv, RefreshArmed, InHand, LetGo
  <2> QED BY <2>4, <2>5 DEF ArmedInv
<1>4. CASE Get
  <2>1. /\ w.item \in CR /\ run' = run /\ q' = q /\ cr' = cr /\ watching' = watching
        /\ events' = events /\ unread' = unread /\ w'.item = w.item
        /\ w'.raw = cr[w.item]
        /\ w'.pc = IF cr[w.item].deleting THEN "revoke"
                   ELSE IF cr[w.item].fin THEN "reconcile" ELSE "finalize"
    BY <1>4, <1>a DEF Get, At, TypeOK, Worker
  <2> QED BY <2>1, PassGoesOn
<1>5. CASE GetFails
  <2>1. /\ cr' = cr /\ events' = events /\ watching' = watching /\ run' = run /\ q' = q
        /\ w'.pc = "done" /\ unread \subseteq unread'
        /\ cr[w.item].alive => w.item \in unread'
    BY <1>5, ReturnPc DEF GetFails
  <2>2. ProcessMemory' /\ DeletedIsOver'
    BY <2>1 DEF ArmedInv, ProcessMemory, DeletedIsOver
  <2>3. RefreshArmed'
    <3>1. \A c \in CR : Coming(c) => Coming(c)'
      BY <2>1 DEF Coming, Announced
    <3> QED BY <2>1, <3>1 DEF ArmedInv, RefreshArmed, InHand, LetGo
  <2> QED BY <2>2, <2>3 DEF ArmedInv
<1>6. CASE DecodeFails \/ Reconcile \/ Conflict \/ Refetch \/ Remember
  <2>1. /\ w.item \in CR /\ run' = run /\ q' = q /\ cr' = cr /\ watching' = watching
        /\ events' = events /\ unread' = unread
    BY <1>6, <1>a DEF DecodeFails, Reconcile, Conflict, Refetch, Remember, At
  <2>2. /\ w'.item = w.item /\ w'.pc \in {"done", "write", "refetch", "rewrite"}
        /\ w'.pc = "done" => w'.again
    <3>1. CASE DecodeFails \/ Remember
      BY <3>1, ReturnPc DEF DecodeFails, Remember
    <3>2. CASE Reconcile
      <4>1. CASE Return(TRUE)
        BY <4>1, ReturnPc
      <4>2. CASE ~Return(TRUE)
        <5>1. PICK r : w' = [w EXCEPT !.pc = "write", !.base = w.raw.rv, !.res = r]
          BY <3>2, <4>2 DEF Reconcile
        <5> QED BY <5>1 DEF TypeOK, Worker
      <4> QED BY <4>1, <4>2
    <3>3. CASE Conflict
      BY <3>3 DEF Conflict, Goto, TypeOK, Worker
    <3>4. CASE Refetch
      BY <3>4 DEF Refetch, TypeOK, Worker
    <3> QED BY <1>6, <3>1, <3>2, <3>3, <3>4
  <2> QED BY <2>1, <2>2, PassGoesOn
<1>7. CASE RevokeLeases
  <2>1. /\ w.item \in CR /\ run' = run /\ q' = q /\ cr' = cr /\ watching' = watching
        /\ events' = events /\ unread' = unread /\ w.pc = "revoke"
    BY <1>7, <1>a DEF RevokeLeases, At
  <2>2. \/ w'.item = w.item /\ w'.pc = "unfinalize" /\ w'.raw = w.raw
        \/ w'.item = w.item /\ w'.pc = "done" /\ w'.again
    BY <1>7, ReturnPc DEF RevokeLeases, Goto, TypeOK, Worker
  <2> QED BY <2>1, <2>2, PassGoesOn
<1>8. CASE RemoveFinalizer
  <2>1. /\ w.item \in CR /\ run' = run /\ q' = q /\ unread' = unread
        /\ w.pc = "unfinalize" /\ w'.item = w.item /\ w'.pc = "done" /\ w.raw.deleting
    BY <1>8, <1>a, ReturnPc DEF RemoveFinalizer, At, BranchIsRight
  <2>2. CASE StoreFinalizer(FALSE)
    <3>1. PICK obj \in Object, type \in {"MODIFIED", "DELETED"} :
            Put(w.item, obj, type, "finalizer")
      BY <2>1, <2>2, StoreFinalizerEffect
    <3>2. /\ \A d \in CR \ {w.item} : cr'[d] = cr[d]
          /\ ~cr'[w.item].alive \/ (cr'[w.item].deleting /\ ~cr'[w.item].fin)
      BY <2>1, <2>2, StoreFinalizerEffect
    <3> QED BY <2>1, <3>1, <3>2, PassWrites
  <2>3. CASE ~w.raw.fin /\ UNCHANGED apiVars
    <3>1. ProcessMemory' /\ DeletedIsOver'
      BY <2>1, <2>3 DEF ArmedInv, ProcessMemory, DeletedIsOver
    <3>2. \A c \in CR : Coming(c)' <=> Coming(c)
      BY <2>1, <2>3 DEF Coming, Announced
    <3>3. run = "up" /\ cr[w.item].alive => Coming(w.item) \/ LetGo(w.item)
      BY <2>1, <2>3 DEF ArmedInv, DeletedIsOver, LetGo
    <3>4. RefreshArmed'
      BY <2>1, <2>3, <3>2, <3>3 DEF ArmedInv, RefreshArmed, InHand, LetGo
    <3> QED BY <3>1, <3>4 DEF ArmedInv
  <2> QED BY <1>8, <2>2, <2>3 DEF RemoveFinalizer
<1>9. CASE AddFinalizer
  <2>1. /\ w.item \in CR /\ run' = run /\ q' = q /\ unread' = unread
        /\ w.pc = "finalize" /\ w'.item = w.item /\ w'.pc = "reconcile"
        /\ StoreFinalizer(TRUE)
    BY <1>9, <1>a DEF AddFinalizer, At, Goto, TypeOK, Worker
  <2>2. PICK obj \in Object, type \in {"MODIFIED", "DELETED"} :
          Put(w.item, obj, type, "finalizer")
    BY <2>1, StoreFinalizerEffect
  <2>3. \A d \in CR \ {w.item} : cr'[d] = cr[d]
    BY <2>1, StoreFinalizerEffect
  <2> QED BY <2>1, <2>2, <2>3, PassWrites
<1>10. CASE FinalizerFails
  <2>1. /\ w.item \in CR /\ run' = run /\ q' = q /\ unread' = unread
        /\ w.pc \in {"finalize", "unfinalize"}
        /\ w'.item = w.item /\ w'.pc = "done" /\ w'.again
    BY <1>10, <1>a, ReturnPc DEF FinalizerFails, At
  <2>2. CASE UNCHANGED apiVars
    BY <2>1, <2>2, PassGoesOn
  <2>3. CASE StoreFinalizer(w.pc = "finalize")
    <3>1. PICK obj \in Object, type \in {"MODIFIED", "DELETED"} :
            Put(w.item, obj, type, "finalizer")
      BY <2>1, <2>3, StoreFinalizerEffect
    <3>2. \A d \in CR \ {w.item} : cr'[d] = cr[d]
      BY <2>1, <2>3, StoreFinalizerEffect
    <3> QED BY <2>1, <3>1, <3>2, PassWrites
  <2> QED BY <1>10, <2>2, <2>3 DEF FinalizerFails
<1>11. CASE WriteStatus \/ StatusFails
  <2>1. /\ w.item \in CR /\ run' = run /\ q' = q /\ unread' = unread /\ w'.item = w.item
        /\ w'.pc = "remember" \/ (w'.pc = "done" /\ w'.again)
    BY <1>11, <1>a, ReturnPc DEF WriteStatus, StatusFails, At, TypeOK, Worker
  <2>2. CASE StoreStatus
    <3>1. PICK obj \in Object : Put(w.item, obj, "MODIFIED", "status")
      BY <2>1, <2>2, StoreStatusEffect
    <3>2. \A d \in CR \ {w.item} : cr'[d] = cr[d]
      BY <2>1, <2>2, StoreStatusEffect
    <3> QED BY <2>1, <3>1, <3>2, PassWrites
  <2>3. CASE UNCHANGED apiVars
    BY <2>1, <2>3, PassGoesOn
  <2> QED BY <1>11, <2>2, <2>3 DEF WriteStatus, StatusFails
<1>12. ASSUME Exit PROVE ArmedInv'
  BY <1>12, DownIsArmed DEF Exit, EmptyQueue
<1>13. CASE FinishPass
  <2>1. CASE run = "cancelled"
    BY <1>12, <1>13, <2>1 DEF FinishPass
  <2>2. CASE run # "cancelled"
    <3>1. /\ run = "up" /\ run' = run /\ cr' = cr /\ events' = events /\ watching' = watching
          /\ unread' = unread /\ w.pc = "done" /\ w.item \in CR /\ w.again \in BOOLEAN
          /\ q' = Requeue(q, w.item, w.again) /\ w' = IdleWorker
      BY <1>13, <1>a, <2>2 DEF FinishPass, At, TypeOK, Worker
    <3>2. ~q.down
      BY <3>1 DEF ArmedInv, ProcessMemory
    <3>3. /\ Scheduled(q) \subseteq Scheduled(q') /\ ~q'.down
          /\ w.again => w.item \in Scheduled(q')
      BY <1>b, <3>1, <3>2, RequeueEffect
    <3>4. \A c \in CR : Coming(c) \/ InHand(c) => Coming(c)'
      BY <3>1, <3>3 DEF Coming, Announced, InHand
    <3>5. RefreshArmed'
      BY <3>1, <3>4 DEF ArmedInv, RefreshArmed, LetGo
    <3> QED BY <3>1, <3>3, <3>5 DEF ArmedInv, ProcessMemory, DeletedIsOver, IdleWorker
  <2> QED BY <2>1, <2>2
<1>14. CASE Stop \/ Crash
  BY <1>12, <1>14 DEF Stop, Crash
<1>15. CASE Cancel
  BY <1>15 DEF Cancel, ArmedInv, ProcessMemory, DeletedIsOver, RefreshArmed
<1>16. CASE ShutDown
  BY <1>16 DEF ShutDown, ArmedInv, ProcessMemory, DeletedIsOver, RefreshArmed
<1>17. CASE Restart
  <2>1. run = "down" /\ run' = "up" /\ watching' = watching /\ q' = q
    BY <1>17 DEF Restart
  <2> QED BY <2>1 DEF ArmedInv, ProcessMemory, DeletedIsOver, RefreshArmed, Coming
<1>18. CASE CloseWatch
  <2>1. run' = run /\ q' = q /\ ~watching'
    BY <1>18 DEF CloseWatch, Disconnect
  <2> QED BY <2>1 DEF ArmedInv, ProcessMemory, DeletedIsOver, RefreshArmed, Coming
<1>19. ASSUME NEW c \in CR, Fire(c) PROVE ArmedInv'
  <2>1. /\ cr' = cr /\ w' = w /\ q' = QFire(q, c) /\ unread' = unread /\ run' = run
        /\ events' = events /\ watching' = watching /\ ~q.down
    BY <1>19 DEF Fire
  <2>2. Scheduled(q) \subseteq Scheduled(q') /\ ~q'.down
    BY <1>b, <2>1, AddEffect
  <2>3. \A d \in CR : Coming(d) => Coming(d)'
    BY <2>1, <2>2 DEF Coming, Announced
  <2>4. ProcessMemory'
    BY <2>1, <2>2 DEF ArmedInv, ProcessMemory
  <2> QED BY <1>a, <2>1, <2>3, <2>4, ComingKept
<1>20. ASSUME NEW c \in CR, Client(c) PROVE ArmedInv'
  BY <1>20, ClientArmedInv
<1>21. CASE UNCHANGED vars \/ \E c \in CR : Flip(c)
  <2>1. /\ cr' = cr /\ w' = w /\ q' = q /\ unread' = unread /\ run' = run
        /\ events' = events /\ watching' = watching
    BY <1>21 DEF Flip, vars
  <2>2. ProcessMemory' /\ \A d \in CR : Coming(d) => Coming(d)'
    BY <2>1 DEF ArmedInv, ProcessMemory, Coming, Announced
  <2> QED BY <1>a, <2>1, <2>2, ComingKept
<1> QED
  BY <1>1, <1>2, <1>3, <1>4, <1>5, <1>6, <1>7, <1>8, <1>9, <1>10, <1>11, <1>13,
     <1>14, <1>15, <1>16, <1>17, <1>18, <1>19, <1>20, <1>21
  DEF Next, WorkerStep

-----------------------------------------------------------------------------
(* The remembered version is never that of a client's change.              *)

VersionInv == VersionsGrow /\ ForeignVersions

\* The events of the watch, and those left after the first, are events.
LEMMA EventTypes ==
  ASSUME TypeOK
  PROVE  \A j \in DOMAIN events : events[j].item \in CR /\ events[j].rv \in Nat
<1>1. events \in Seq(Event)
  BY DEF TypeOK, ApiTypeOK
<1>2. \A j \in DOMAIN events : events[j] \in Event
  BY <1>1
<1> QED BY <1>2 DEF Event

\* Steps that send no event and write no object.
LEMMA QuietVersionInv ==
  ASSUME TypeOK, VersionInv, cr' = cr, w' = w \/ w'.pc # "remember",
         events' \in {events, Tail(events)}, events' = events \/ events # <<>>,
         \A c \in CR : lastWrite'[c] \in {0, lastWrite[c]}
  PROVE  VersionInv'
<1>1. events \in Seq(Event)
  BY DEF TypeOK, ApiTypeOK
<1>2. \A i \in DOMAIN events' : \E j \in DOMAIN events : events'[i] = events[j]
  <2>1. CASE events' = events
    BY <2>1
  <2>2. CASE events # <<>> /\ events' = Tail(events)
    BY <1>1, <2>2
  <2> QED BY <2>1, <2>2
<1>3. \A j \in DOMAIN events : events[j].item \in CR /\ events[j].rv \in Nat
  BY EventTypes
<1>4. \A c \in CR : cr[c].rv \in Nat
  BY DEF TypeOK, ApiTypeOK, Object
<1>5. VersionsGrow'
  BY <1>2, <1>3, <1>4 DEF VersionInv, VersionsGrow
<1>6. ForeignVersions'
  BY <1>2, <1>3 DEF VersionInv, VersionsGrow, ForeignVersions
<1> QED BY <1>5, <1>6 DEF VersionInv

\* A write is announced under a version that nobody has seen.
LEMMA PutVersionInv ==
  ASSUME TypeOK, VersionInv, NEW c \in CR, NEW obj \in Object, NEW type, NEW by,
         Put(c, obj, type, by), lastWrite' = lastWrite,
         \/ w' = w
         \/ w'.pc # "remember"
         \/ by # "client" /\ w'.item = c /\ w'.base = cr[c].rv + 1
  PROVE  VersionInv'
<1>1. events \in Seq(Event)
  BY DEF TypeOK, ApiTypeOK
<1>2. /\ \A d \in CR \ {c} : cr'[d] = cr[d]
      /\ cr'[c].rv = cr[c].rv + 1
      /\ \A d \in CR : cr[d].rv \in Nat
  BY PutEffect DEF TypeOK, ApiTypeOK, Object
<1>3. \A j \in DOMAIN events : events[j].item \in CR /\ events[j].rv \in Nat
  BY EventTypes
<1> DEFINE e == [type |-> type, item |-> c, rv |-> cr[c].rv + 1, by |-> by]
<1>4. e.type = type /\ e.item = c /\ e.rv = cr[c].rv + 1 /\ e.by = by
  OBVIOUS
<1>5. events' \in {events, Append(events, e)}
  BY DEF Put
<1> HIDE DEF e
<1>6. \A i \in DOMAIN events' :
        events'[i] = e \/ \E j \in DOMAIN events : events'[i] = events[j]
  BY <1>1, <1>5
<1>7. /\ \A d \in CR : lastWrite[d] \in Nat
      /\ w.pc = "remember" => w.item \in CR /\ w.base \in Nat
  BY DEF TypeOK, Worker
<1>8. VersionsGrow'
  <2>1. \A i \in DOMAIN events' :
          /\ events'[i].rv <= cr'[events'[i].item].rv
          /\ events'[i].type # "ADDED" => events'[i].rv > 0
    BY <1>2, <1>3, <1>4, <1>6 DEF VersionInv, VersionsGrow
  <2>2. \A d \in CR : lastWrite'[d] <= cr'[d].rv
    BY <1>2, <1>7 DEF VersionInv, VersionsGrow
  <2>3. w'.pc = "remember" => w'.base <= cr'[w'.item].rv
    BY <1>2, <1>7 DEF VersionInv, VersionsGrow
  <2> QED BY <2>1, <2>2, <2>3 DEF VersionsGrow
<1>9. ForeignVersions'
  <2> SUFFICES ASSUME NEW i \in DOMAIN events', events'[i].by = "client",
                      events'[i].type = "MODIFIED"
               PROVE  /\ events'[i].rv # lastWrite'[events'[i].item]
                      /\ w'.pc = "remember" /\ w'.item = events'[i].item
                           => events'[i].rv # w'.base
    BY DEF ForeignVersions
  <2>1. CASE events'[i] = e
    BY <1>2, <1>4, <1>7, <2>1 DEF VersionInv, VersionsGrow
  <2>2. ASSUME NEW j \in DOMAIN events, events'[i] = events[j] PROVE
          /\ events[j].rv # lastWrite[events[j].item]
          /\ w'.pc = "remember" /\ w'.item = events[j].item => events[j].rv # w'.base
    BY <1>2, <1>3, <1>7, <2>2 DEF VersionInv, VersionsGrow, ForeignVersions
  <2> QED BY <1>6, <2>1, <2>2
<1> QED BY <1>8, <1>9 DEF VersionInv

\* Every step keeps the facts about resource versions.
LEMMA StepVersionInv ==
  ASSUME TypeOK, ReadIsCurrentOrStale, BranchIsRight, VersionInv, [Next]_vars
  PROVE  VersionInv'
<1> USE DEF memory, ghosts, apiVars
<1>a. w.pc # "idle" => w.item \in CR
  BY DEF TypeOK, Worker
<1>b. lastWrite \in [CR -> Nat]
  BY DEF TypeOK
<1>1. CASE HandleEvent
  <2>1. /\ events # <<>> /\ events' = Tail(events) /\ cr' = cr /\ w' = w
        /\ \/ lastWrite' = lastWrite
           \/ lastWrite' = [lastWrite EXCEPT ![NextEvent.item] = 0]
    BY <1>1 DEF HandleEvent, HandleDeleted, DropOwn, Enqueue, Consume, Listening
  <2> QED BY <1>b, <2>1, QuietVersionInv
<1>2. CASE OpenWatch
  <2> DEFINE Alive == {c \in CR : cr[c].alive}
  <2>1. PICK s \in [1 .. Cardinality(Alive) -> Alive] :
          events' = [i \in 1 .. Cardinality(Alive) |->
                       [type |-> "ADDED", item |-> s[i],
                        rv |-> cr[s[i]].rv, by |-> "client"]]
    BY <1>2 DEF OpenWatch, Connect
  <2>2. \A i \in DOMAIN events' : /\ events'[i].type = "ADDED" /\ events'[i].item \in CR
                                 /\ events'[i].rv = cr[events'[i].item].rv
    BY <2>1
  <2>3. cr' = cr /\ w' = w /\ lastWrite' = lastWrite
    BY <1>2 DEF OpenWatch, Connect
  <2>4. \A c \in CR : cr[c].rv \in Nat
    BY DEF TypeOK, ApiTypeOK, Object
  <2> QED BY <2>2, <2>3, <2>4 DEF VersionInv, VersionsGrow, ForeignVersions
<1>3. ASSUME Exit PROVE VersionInv'
  <2>1. /\ cr' = cr /\ events' = <<>> /\ lastWrite' = [c \in CR |-> 0] /\ w'.pc = "idle"
    BY <1>3 DEF Exit, IdleWorker
  <2>2. \A c \in CR : cr[c].rv \in Nat
    BY DEF TypeOK, ApiTypeOK, Object
  <2> QED BY <2>1, <2>2 DEF VersionInv, VersionsGrow, ForeignVersions
<1>4. CASE CloseWatch
  <2>1. /\ cr' = cr /\ events' = <<>> /\ lastWrite' = lastWrite /\ w' = w
    BY <1>4 DEF CloseWatch, Disconnect
  <2> QED BY <2>1 DEF VersionInv, VersionsGrow, ForeignVersions
<1>5. CASE \/ TakeItem \/ Get \/ GetFails \/ DecodeFails \/ RevokeLeases
           \/ Reconcile \/ Conflict \/ Refetch
  <2>1. cr' = cr /\ events' = events /\ lastWrite' = lastWrite
    BY <1>5 DEF TakeItem, Get, GetFails, DecodeFails, RevokeLeases, Reconcile, Conflict, Refetch
  <2>2. w'.pc # "remember"
    <3>1. CASE TakeItem \/ Get \/ GetFails \/ DecodeFails \/ RevokeLeases
      BY <3>1, ReturnPc DEF TakeItem, Get, GetFails, DecodeFails, RevokeLeases, Goto,
                            TypeOK, Worker
    <3>2. CASE Reconcile
      <4>1. CASE Return(TRUE)
        BY <4>1, ReturnPc
      <4>2. CASE ~Return(TRUE)
        <5>1. PICK r : w' = [w EXCEPT !.pc = "write", !.base = w.raw.rv, !.res = r]
          BY <3>2, <4>2 DEF Reconcile
        <5> QED BY <5>1 DEF TypeOK, Worker
      <4> QED BY <4>1, <4>2
    <3>3. CASE Conflict
      BY <3>3 DEF Conflict, Goto, TypeOK, Worker
    <3>4. CASE Refetch
      BY <3>4 DEF Refetch, TypeOK, Worker
    <3> QED BY <1>5, <3>1, <3>2, <3>3, <3>4
  <2> QED BY <2>1, <2>2, QuietVersionInv
<1>6. ASSUME w.pc \in {"unfinalize", "finalize"}, NEW held \in BOOLEAN, StoreFinalizer(held),
             w'.pc # "remember", lastWrite' = lastWrite
      PROVE  VersionInv'
  <2>1. PICK obj \in Object, type \in {"MODIFIED", "DELETED"} :
          Put(w.item, obj, type, "finalizer")
    BY <1>a, <1>6, StoreFinalizerEffect
  <2> QED BY <1>a, <1>6, <2>1, PutVersionInv
<1>7. CASE RemoveFinalizer \/ AddFinalizer \/ FinalizerFails
  <2>1. /\ w.pc \in {"unfinalize", "finalize"} /\ lastWrite' = lastWrite
        /\ w'.pc # "remember"
    BY <1>7, ReturnPc DEF RemoveFinalizer, AddFinalizer, FinalizerFails, At, Goto,
                          TypeOK, Worker
  <2>2. CASE UNCHANGED apiVars
    BY <2>1, <2>2, QuietVersionInv
  <2>3. CASE ~UNCHANGED apiVars
    <3>1. \E held \in BOOLEAN : StoreFinalizer(held)
      BY <1>7, <2>3 DEF RemoveFinalizer, AddFinalizer, FinalizerFails
    <3> QED BY <1>6, <2>1, <3>1
  <2> QED BY <2>2, <2>3
<1>8. CASE WriteStatus
  <2>1. w.item \in CR /\ lastWrite' = lastWrite /\ StoreStatus
    BY <1>8, <1>a DEF WriteStatus, At
  <2>2. PICK obj \in Object : Put(w.item, obj, "MODIFIED", "status")
    BY <2>1, StoreStatusEffect
  <2>3. w'.item = w.item /\ w'.base = cr[w.item].rv + 1
    BY <1>8, <2>1 DEF WriteStatus, StoreStatus, TypeOK, Worker
  <2> QED BY <2>1, <2>2, <2>3, PutVersionInv
<1>9. CASE StatusFails
  <2>1. w.item \in CR /\ lastWrite' = lastWrite /\ w'.pc = "done"
    BY <1>9, <1>a, ReturnPc DEF StatusFails, At
  <2>2. CASE UNCHANGED apiVars
    BY <2>1, <2>2, QuietVersionInv
  <2>3. CASE StoreStatus
    <3>1. PICK obj \in Object : Put(w.item, obj, "MODIFIED", "status")
      BY <2>1, <2>3, StoreStatusEffect
    <3> QED BY <2>1, <3>1, PutVersionInv
  <2> QED BY <1>9, <2>2, <2>3 DEF StatusFails
<1>10. CASE Remember
  <2>1. /\ w.item \in CR /\ w.pc = "remember" /\ w'.pc = "done" /\ cr' = cr
        /\ events' = events /\ lastWrite' = [lastWrite EXCEPT ![w.item] = w.base]
    BY <1>10, <1>a, ReturnPc DEF Remember, At
  <2>2. \A j \in DOMAIN events : events[j].item \in CR
    BY EventTypes
  <2> QED BY <1>b, <2>1, <2>2 DEF VersionInv, VersionsGrow, ForeignVersions
<1>11. CASE FinishPass
  <2>1. CASE run = "cancelled"
    BY <1>3, <1>11, <2>1 DEF FinishPass
  <2>2. CASE run # "cancelled"
    <3>1. cr' = cr /\ events' = events /\ lastWrite' = lastWrite /\ w'.pc = "idle"
      BY <1>11, <2>2 DEF FinishPass, IdleWorker
    <3> QED BY <3>1, QuietVersionInv
  <2> QED BY <2>1, <2>2
<1>12. CASE Stop \/ Crash
  BY <1>3, <1>12 DEF Stop, Crash
<1>13. CASE Cancel \/ ShutDown \/ Restart \/ UNCHANGED vars
  BY <1>13, QuietVersionInv DEF Cancel, ShutDown, Restart, vars
<1>14. ASSUME NEW c \in CR, Fire(c) \/ Flip(c) PROVE VersionInv'
  BY <1>14, QuietVersionInv DEF Fire, Flip
<1>15. ASSUME NEW c \in CR, Client(c) PROVE VersionInv'
  <2>1. PICK type \in {"ADDED", "MODIFIED", "DELETED"}, obj \in Object :
          Put(c, obj, type, "client")
    BY <1>15, ClientEffect
  <2>2. w' = w /\ lastWrite' = lastWrite
    BY <1>15 DEF Client
  <2> QED BY <2>1, <2>2, PutVersionInv
<1> QED
  BY <1>1, <1>2, <1>4, <1>5, <1>7, <1>8, <1>9, <1>10, <1>11, <1>12, <1>13, <1>14, <1>15
  DEF Next, WorkerStep

-----------------------------------------------------------------------------
(* Passes after the cancellation.                                          *)

\* Every step keeps the count of late passes.
LEMMA StepLatePass ==
  ASSUME TypeOK, LatePass, [Next]_vars
  PROVE  LatePass'
<1> USE DEF memory, ghosts, apiVars
<1>0. late \in Nat
  BY DEF TypeOK
<1>1. CASE TakeItem
  <2>1. /\ w.pc = "idle" /\ w'.pc = "read" /\ run' = run /\ run # "down"
        /\ late' = IF run = "cancelled" THEN late + 1 ELSE late
    BY <1>1 DEF TakeItem, At, TypeOK, Worker
  <2>2. run \in {"up", "cancelled"}
    BY <2>1 DEF TypeOK
  <2>3. late = 0
    BY <1>0, <2>1, <2>2 DEF LatePass
  <2> QED BY <2>1, <2>2, <2>3 DEF LatePass
<1>2. ASSUME run' = run, late' = late, w'.pc # "idle" \/ w' = w
      PROVE  LatePass'
  BY <1>2 DEF LatePass
<1>3. CASE \/ HandleEvent \/ OpenWatch \/ ShutDown \/ CloseWatch \/ UNCHANGED vars
           \/ \E c \in CR : Fire(c) \/ Client(c) \/ Flip(c)
  BY <1>2, <1>3 DEF HandleEvent, HandleDeleted, DropOwn, Enqueue, Consume, OpenWatch,
                    ShutDown, CloseWatch, Fire, Client, Flip, vars
<1>4. CASE \/ GetFails \/ DecodeFails \/ RemoveFinalizer \/ FinalizerFails
           \/ StatusFails \/ Remember
  BY <1>2, <1>4, ReturnPc DEF GetFails, DecodeFails, RemoveFinalizer, FinalizerFails,
                              StatusFails, Remember
<1>5. CASE Get \/ RevokeLeases \/ AddFinalizer \/ WriteStatus
  BY <1>2, <1>5, ReturnPc DEF Get, RevokeLeases, AddFinalizer, WriteStatus, Goto, TypeOK, Worker
<1>6. CASE Reconcile
  <2>1. w'.pc # "idle"
    <3>1. CASE Return(TRUE)
      BY <3>1, ReturnPc
    <3>2. CASE ~Return(TRUE)
      <4>1. PICK r : w' = [w EXCEPT !.pc = "write", !.base = w.raw.rv, !.res = r]
        BY <1>6, <3>2 DEF Reconcile
      <4> QED BY <4>1 DEF TypeOK, Worker
    <3> QED BY <3>1, <3>2
  <2> QED BY <1>2, <1>6, <2>1 DEF Reconcile
<1>7. CASE Conflict
  BY <1>2, <1>7 DEF Conflict, Goto, TypeOK, Worker
<1>8. CASE Refetch
  BY <1>2, <1>8 DEF Refetch, TypeOK, Worker
<1>9. CASE FinishPass \/ Stop \/ Crash
  <2>1. CASE Exit
    BY <1>9, <2>1 DEF FinishPass, Stop, Crash, Exit, LatePass
  <2>2. CASE FinishPass /\ run # "cancelled"
    <3>1. run = "up" /\ run' = run /\ late' = late
      BY <2>2 DEF FinishPass, At, TypeOK
    <3> QED BY <3>1 DEF LatePass
  <2> QED BY <1>9, <2>1, <2>2 DEF FinishPass, Stop, Crash
<1>10. CASE Cancel
  BY <1>10 DEF Cancel, LatePass
<1>11. CASE Restart
  BY <1>11 DEF Restart, LatePass
<1> QED
  BY <1>1, <1>3, <1>4, <1>5, <1>6, <1>7, <1>8, <1>9, <1>10, <1>11
  DEF Next, WorkerStep

-----------------------------------------------------------------------------
(* The inductive invariant and what follows from it.                       *)

\* The invariant holds initially.
LEMMA InitIInv == Init => IInv
<1> SUFFICES ASSUME Init PROVE IInv
  OBVIOUS
<1>1. TypeOK
  BY InitType
<1>2. /\ w = IdleWorker /\ w.pc = "idle" /\ ~q.down /\ late = 0 /\ run = "up" /\ ~watching
      /\ events = <<>> /\ lastWrite = [c \in CR |-> 0]
  BY DEF Init, ApiInit, IdleWorker, EmptyQueue
<1>3. HonestStatus
  <2> SUFFICES ASSUME NEW c \in CR PROVE cr[c].status = NoStatus
    BY DEF HonestStatus
  <2>1. cr[c] \in {Absent, Declared(1, 1, FALSE), Declared(1, 1, TRUE)}
    BY DEF Init, ApiInit
  <2>2. Absent.status = NoStatus
    BY DEF Absent
  <2>3. Declared(1, 1, FALSE).status = NoStatus /\ Declared(1, 1, TRUE).status = NoStatus
    BY DEF Absent, Declared
  <2> QED BY <2>1, <2>2, <2>3
<1>4. VersionsGrow /\ ForeignVersions
  <2>1. \A c \in CR : cr[c].rv \in Nat
    BY <1>1 DEF TypeOK, ApiTypeOK, Object
  <2> QED BY <1>2, <2>1 DEF VersionsGrow, ForeignVersions
<1>5. ReadIsCurrentOrStale /\ BranchIsRight /\ HeldIsSame /\ MintsUnderFinalizer
  BY <1>2 DEF ReadIsCurrentOrStale, BranchIsRight, HeldIsSame, MintsUnderFinalizer, Holding
<1>6. ProcessMemory /\ DeletedIsOver /\ RefreshArmed /\ LatePass
  BY <1>2 DEF ProcessMemory, DeletedIsOver, RefreshArmed, Coming, LatePass
<1> QED BY <1>1, <1>3, <1>4, <1>5, <1>6 DEF IInv

\* Every step keeps the invariant.
LEMMA StepIInv == IInv /\ [Next]_vars => IInv'
<1> SUFFICES ASSUME IInv, [Next]_vars PROVE IInv'
  OBVIOUS
<1>1. TypeOK'
  BY StepType DEF IInv
<1>2. StatusInv'
  BY StepStatusInv DEF IInv, StatusInv
<1>3. ArmedInv'
  BY <1>1, StepArmedInv DEF IInv, ArmedInv
<1>4. VersionInv'
  BY StepVersionInv DEF IInv, VersionInv
<1>5. LatePass'
  BY StepLatePass DEF IInv
<1> QED BY <1>1, <1>2, <1>3, <1>4, <1>5 DEF IInv, StatusInv, ArmedInv, VersionInv

\* The inductive invariant, for any set of objects, any outcomes and any number of
\* stimuli, whether or not the operator may update its objects.
THEOREM Inductive == Spec => []IInv
BY InitIInv, StepIInv, PTL DEF Spec

\* In every behaviour of the manager every variable keeps its type.
THEOREM TypeCorrect == Spec => []TypeOK
BY InitType, StepType, PTL DEF Spec

\* While the process runs, no existing object is forgotten, except one whose last
\* read failed: the queue, a timer, the watch or the pass under way has it.
THEOREM NoObjectForgotten == Spec => []RefreshArmed
<1>1. IInv => RefreshArmed
  BY DEF IInv
<1> QED BY <1>1, Inductive, PTL

\* Reconcile runs, and leases are minted, only while the object that was read
\* exists and holds LeaseFinalizer.
THEOREM MintedLeasesAreGuarded == Spec => []MintsUnderFinalizer
<1>1. IInv => MintsUnderFinalizer
  BY DEF IInv
<1> QED BY <1>1, Inductive, PTL

\* Every status tells the generation its outcome was computed from, of the very
\* object that carries it, whatever conflicts the write met.
THEOREM StatusIsHonest == Spec => []HonestStatus
<1>1. IInv => HonestStatus
  BY DEF IInv
<1> QED BY <1>1, Inductive, PTL

\* A cancelled manager begins at most one more pass.
THEOREM OneLatePass == Spec => []AtMostOneLatePass
<1>1. IInv => AtMostOneLatePass
  BY DEF IInv, LatePass, AtMostOneLatePass
<1> QED BY <1>1, Inductive, PTL

\* No status write repeats what is stored or goes back to an older generation.
THEOREM StatusWritesMoveForward == Spec => StatusMovesForward
<1> DEFINE Forward ==
      StatusWrite => /\ cr'[w.item].status # cr[w.item].status
                     /\ cr'[w.item].status.obs >= cr[w.item].status.obs
<1>1. IInv /\ [Next]_vars => [Forward]_vars
  <2> SUFFICES ASSUME IInv, Next, StatusWrite
               PROVE  /\ cr'[w.item].status # cr[w.item].status
                      /\ cr'[w.item].status.obs >= cr[w.item].status.obs
    OBVIOUS
  <2> USE DEF memory, ghosts, apiVars
  <2>1. w.pc \in {"write", "rewrite"} /\ w' # w /\ cr' # cr
    BY DEF StatusWrite
  <2>2. w.item \in CR /\ TypeOK
    BY <2>1 DEF IInv, TypeOK, Worker
  <2>3. StoreStatus
    <3>1. WriteStatus \/ StatusFails
      BY <2>1 DEF Next, WorkerStep, HandleEvent, HandleDeleted, DropOwn, Enqueue, Consume,
                  OpenWatch, Connect, Cancel, ShutDown, Crash, Restart, CloseWatch,
                  Disconnect, Fire, Client, Flip, TakeItem, Get, GetFails, DecodeFails,
                  RevokeLeases, RemoveFinalizer, AddFinalizer, FinalizerFails,
                  Reconcile, Conflict, Refetch, Remember, FinishPass, Stop, At, Exit
    <3> QED BY <2>1, <3>1 DEF WriteStatus, StatusFails
  <2>4. cr'[w.item].status = NewStatus
    BY <2>2, <2>3, StoreStatusEffect
  <2>5. /\ cr[w.item].status = w.raw.status /\ w.raw.status.obs <= w.raw.gen
        /\ ~StatusUnchanged(w.raw, w.res)
    BY <2>1 DEF IInv, HeldIsSame, Holding
  <2> QED BY <2>4, <2>5 DEF NewStatus, StatusUnchanged
<1>2. StatusMovesForward <=> [][Forward]_vars
  BY PTL DEF StatusMovesForward
<1> QED BY <1>1, <1>2, Inductive, PTL DEF Spec

\* A client's change to an object without a status write in flight is never
\* taken for an echo.
THEOREM QuietChangesAreSeen == Spec => QuietChangesReconcile
<1> DEFINE Seen ==
      /\ HandleEvent
      /\ NextEvent.by = "client" /\ NextEvent.type = "MODIFIED" /\ ~q.down
      /\ NextEvent.item \notin inFlight
      => NextEvent.item \in q'.dirty
<1>1. IInv /\ [Next]_vars => [Seen]_vars
  <2> SUFFICES ASSUME IInv, HandleEvent, NextEvent.by = "client",
                      NextEvent.type = "MODIFIED", ~q.down,
                      NextEvent.item \notin inFlight
               PROVE  NextEvent.item \in q'.dirty
    OBVIOUS
  <2>1. events \in Seq(Event) /\ events # <<>>
    BY DEF IInv, TypeOK, ApiTypeOK, HandleEvent, HandleDeleted, DropOwn, Enqueue, Listening
  <2>2. 1 \in DOMAIN events /\ NextEvent = events[1] /\ NextEvent \in Event
    BY <2>1 DEF NextEvent
  <2>3. NextEvent.rv # lastWrite[NextEvent.item]
    BY <2>2 DEF IInv, ForeignVersions
  <2>4. q' = QAdd(q, NextEvent.item)
    BY <2>3 DEF HandleEvent, HandleDeleted, DropOwn, Enqueue, IsOwnStatusWrite
  <2>5. NextEvent.item \in CR /\ q \in QueueOf(CR)
    BY <2>2 DEF Event, IInv, TypeOK
  <2> QED BY <2>4, <2>5 DEF QAdd, QueueOf
<1>2. QuietChangesReconcile <=> [][Seen]_vars
  BY PTL DEF QuietChangesReconcile
<1> QED BY <1>1, <1>2, Inductive, PTL DEF Spec

-----------------------------------------------------------------------------
(* Turns.                                                                  *)

\* What is queued stays where it is, with nothing put before it.
StaysPut(order, next) ==
  \A i \in DOMAIN order : i \in DOMAIN next /\ next[i] = order[i]

\* Adding to the queue, and the end of a pass, leave what is queued in its place.
LEMMA OrderStays ==
  ASSUME NEW queue \in QueueOf(CR), NEW x \in CR, NEW again \in BOOLEAN
  PROVE  /\ StaysPut(queue.order, QAdd(queue, x).order)
         /\ StaysPut(queue.order, QFire(queue, x).order)
         /\ StaysPut(queue.order, Requeue(queue, x, again).order)
<1>1. queue.order \in Seq(CR)
  BY DEF QueueOf
<1>2. StaysPut(queue.order, queue.order) /\ StaysPut(queue.order, Append(queue.order, x))
  BY <1>1 DEF StaysPut
<1>3. QAdd(queue, x).order \in {queue.order, Append(queue.order, x)}
  BY DEF QAdd, QueueOf
<1>4. QFire(queue, x).order = QAdd(queue, x).order
  BY QueueTypes DEF QFire, QueueOf
<1>5. Requeue(queue, x, again).order \in {queue.order, Append(queue.order, x)}
  <2>1. QDone(queue, x).order \in {queue.order, Append(queue.order, x)}
    BY DEF QDone, QueueOf
  <2>2. QDone(queue, x) \in QueueOf(CR)
    BY QueueTypes
  <2>3. QAddAfter(QDone(queue, x), x).order = QDone(queue, x).order
    BY <2>2 DEF QAddAfter, QueueOf
  <2> QED BY <2>1, <2>3 DEF Requeue
<1> QED BY <1>2, <1>3, <1>4, <1>5

\* Only the worker takes from the queue.
LEMMA StepOrder ==
  ASSUME TypeOK, Next, run' # "down"
  PROVE  TakeItem \/ StaysPut(q.order, q'.order)
<1> USE DEF memory, vars, apiVars
<1>1. q \in QueueOf(CR) /\ q.order \in Seq(CR)
  BY DEF TypeOK, QueueOf
<1>2. ASSUME q' = q PROVE StaysPut(q.order, q'.order)
  BY <1>1, <1>2 DEF StaysPut
<1>3. CASE HandleEvent
  <2>1. CASE Enqueue
    <3>1. NextEvent \in Event /\ q' = QAdd(q, NextEvent.item)
      BY <2>1, EventTypes DEF Enqueue, Listening, TypeOK, ApiTypeOK, NextEvent
    <3>2. NextEvent.item \in CR
      BY <3>1 DEF Event
    <3> QED BY <1>1, <3>1, <3>2, OrderStays
  <2>2. CASE HandleDeleted \/ DropOwn
    BY <1>2, <2>2 DEF HandleDeleted, DropOwn
  <2> QED BY <1>3, <2>1, <2>2 DEF HandleEvent
<1>4. ASSUME NEW c \in CR, Fire(c) PROVE StaysPut(q.order, q'.order)
  BY <1>1, <1>4, OrderStays DEF Fire
<1>5. CASE ShutDown
  <2>1. q'.order = q.order
    BY <1>1, <1>5 DEF ShutDown, QShutDown, QueueOf
  <2> QED BY <1>1, <2>1 DEF StaysPut
<1>6. CASE WorkerStep
  <2>1. CASE FinishPass
    <3>1. w.item \in CR /\ w.again \in BOOLEAN
      BY <2>1 DEF FinishPass, At, TypeOK, Worker
    <3>2. q' = Requeue(q, w.item, w.again)
      BY <2>1 DEF FinishPass, Exit
    <3> QED BY <1>1, <3>1, <3>2, OrderStays
  <2>2. CASE Stop
    BY <2>2 DEF Stop, Exit
  <2>3. CASE ~(FinishPass \/ Stop \/ TakeItem)
    BY <1>2, <1>6, <2>3 DEF WorkerStep, Get, GetFails, DecodeFails, RevokeLeases,
       RemoveFinalizer, AddFinalizer, FinalizerFails, Reconcile, WriteStatus, Conflict,
       Refetch, StatusFails, Remember
  <2> QED BY <2>1, <2>2, <2>3
<1>7. CASE OpenWatch \/ Cancel \/ Restart \/ CloseWatch
  BY <1>2, <1>7 DEF OpenWatch, Cancel, Restart, CloseWatch
<1>8. CASE Crash
  BY <1>8 DEF Crash, Exit
<1>9. ASSUME NEW c \in CR, Client(c) \/ Flip(c) PROVE StaysPut(q.order, q'.order)
  BY <1>2, <1>9 DEF Client, Flip
<1> QED BY <1>3, <1>4, <1>5, <1>6, <1>7, <1>8, <1>9 DEF Next

\* A pass only goes forward: each of its steps leaves fewer.
LEMMA StepsFall ==
  ASSUME TypeOK, Next, run' # "down", w' # w
  PROVE  /\ StepsLeft \in 0 .. 8 /\ StepsLeft' \in 0 .. 8
         /\ IF TakeItem THEN StepsLeft = 0 ELSE StepsLeft' < StepsLeft
<1> USE DEF memory, vars, apiVars
<1>1. WorkerStep
  BY DEF Next, HandleEvent, HandleDeleted, DropOwn, Enqueue, Consume, OpenWatch, Cancel,
         ShutDown, Crash, Exit, Restart, CloseWatch, Fire, Client, Flip
<1>2. w \in Worker /\ w.pc \in PC
  BY DEF TypeOK, Worker
<1>3. CASE TakeItem
  BY <1>2, <1>3 DEF TakeItem, At, StepsLeft, Worker, PC
<1>4. CASE GetFails \/ DecodeFails \/ RemoveFinalizer \/ FinalizerFails \/ StatusFails \/ Remember
  <2>1. w'.pc = "done" /\ w.pc \notin {"idle", "done"}
    BY <1>4, ReturnPc DEF GetFails, DecodeFails, RemoveFinalizer, FinalizerFails, StatusFails,
       Remember, At
  <2>2. ~TakeItem
    BY <2>1 DEF TakeItem, At
  <2>3. StepsLeft' = 1
    BY <2>1 DEF StepsLeft
  <2>4. StepsLeft \in 2 .. 8
    BY <1>2, <2>1 DEF StepsLeft, PC
  <2> QED BY <2>2, <2>3, <2>4
<1>5. CASE Get \/ RevokeLeases \/ AddFinalizer \/ Reconcile \/ WriteStatus \/ Conflict \/ Refetch
  <2>1. /\ w.pc = "read" => w'.pc \in {"revoke", "reconcile", "finalize"}
        /\ w.pc = "revoke" => w'.pc \in {"unfinalize", "done"}
        /\ w.pc = "finalize" => w'.pc = "reconcile"
        /\ w.pc = "reconcile" => w'.pc \in {"write", "done"}
        /\ w.pc = "write" => w'.pc \in {"remember", "refetch"}
        /\ w.pc = "refetch" => w'.pc = "rewrite"
        /\ w.pc = "rewrite" => w'.pc = "remember"
        /\ w.pc \in {"read", "revoke", "finalize", "reconcile", "write", "refetch", "rewrite"}
    BY <1>2, <1>5, ReturnPc DEF Get, RevokeLeases, AddFinalizer, Reconcile, WriteStatus,
       Conflict, Refetch, Goto, At, Worker
  <2>2. ~TakeItem
    BY <2>1 DEF TakeItem, At
  <2> QED BY <2>1, <2>2 DEF StepsLeft
<1>6. CASE FinishPass \/ Stop
  <2>1. w.pc = "done" /\ w'.pc = "idle"
    BY <1>6 DEF FinishPass, Stop, Exit, At, IdleWorker
  <2> QED BY <2>1 DEF StepsLeft, TakeItem, At
<1> QED BY <1>1, <1>3, <1>4, <1>5, <1>6 DEF WorkerStep

\* No object that waits is overtaken or kept waiting: every step of the worker
\* brings its turn nearer, for any number of objects and failures.
THEOREM NobodyIsOvertaken == Spec => TurnsComeNearer
<1> DEFINE Nearer ==
      run' # "down" =>
        \A i \in DOMAIN q.order :
          \/ i = 1 /\ TakeItem
          \/ \E j \in DOMAIN q'.order :
               /\ q'.order[j] = q.order[i]
               /\ IF w' = w THEN Turn(j)' <= Turn(i) ELSE Turn(j)' < Turn(i)
<1>1. IInv /\ [Next]_vars => [Nearer]_vars
  <2> SUFFICES ASSUME IInv, Next, run' # "down", NEW i \in DOMAIN q.order, ~(i = 1 /\ TakeItem)
               PROVE  \E j \in DOMAIN q'.order :
                        /\ q'.order[j] = q.order[i]
                        /\ IF w' = w THEN Turn(j)' <= Turn(i) ELSE Turn(j)' < Turn(i)
    OBVIOUS
  <2>1. TypeOK /\ q.order \in Seq(CR) /\ i \in Nat
    BY DEF IInv, TypeOK, QueueOf
  <2>2. StepsLeft \in 0 .. 8
    BY <2>1 DEF StepsLeft, TypeOK, Worker, PC
  <2>3. CASE TakeItem
    <3>0. q'.order = Tail(q.order) /\ q.order # <<>> /\ w.pc = "idle" /\ w'.pc = "read"
      BY <2>1, <2>3 DEF TakeItem, QTake, At, TypeOK, QueueOf, Worker
    <3>1. /\ w' # w
          /\ q'.order = Tail(q.order)
          /\ i - 1 \in DOMAIN Tail(q.order) /\ Tail(q.order)[i - 1] = q.order[i]
      BY <2>1, <2>3, <3>0
    <3>2. StepsLeft = 0 /\ StepsLeft' \in 0 .. 8
      BY <2>1, <2>3, <3>1, StepsFall
    <3>3. Turn(i - 1)' < Turn(i)
      BY <2>1, <3>2 DEF Turn
    <3> QED BY <3>1, <3>3
  <2>4. CASE ~TakeItem
    <3>1. i \in DOMAIN q'.order /\ q'.order[i] = q.order[i]
      BY <2>1, <2>4, StepOrder DEF StaysPut
    <3>2. CASE w' = w
      <4>1. StepsLeft' = StepsLeft
        BY <3>2 DEF StepsLeft
      <4>2. Turn(i)' <= Turn(i)
        BY <2>1, <2>2, <4>1 DEF Turn
      <4> QED BY <3>1, <3>2, <4>2
    <3>3. CASE w' # w
      <4>1. StepsLeft' \in 0 .. 8 /\ StepsLeft' < StepsLeft
        BY <2>1, <2>4, <3>3, StepsFall
      <4>2. Turn(i)' < Turn(i)
        BY <2>1, <2>2, <4>1 DEF Turn
      <4> QED BY <3>1, <3>3, <4>2
    <3> QED BY <3>2, <3>3
  <2> QED BY <2>3, <2>4
<1>2. TurnsComeNearer <=> [][Nearer]_vars
  BY PTL DEF TurnsComeNearer
<1> QED BY <1>1, <1>2, Inductive, PTL DEF Spec
=============================================================================
