------------------------- MODULE ManagerLoopProofs -------------------------
(***************************************************************************)
(* Every behaviour of Manager is one of PassLoop: the proof of the         *)
(* refinement, from the inductive invariant of ManagerProofs.              *)
(***************************************************************************)
EXTENDS ManagerProofs

StateMap == [c \in CR |-> StateOf(cr[c])]
FinMap == [c \in CR |-> cr[c].alive /\ cr[c].fin]
ItemMap == IF Doing(w.pc) = "nothing" THEN NoItem ELSE w.item

LoopStep == [Loop!Next]_(Loop!vars)

\* What PassLoop sees is the same if nothing it looks at has changed.
LEMMA LoopVars ==
  /\ Loop!vars = <<StateMap, FinMap, ItemMap, Doing(w.pc)>>
  /\ (Loop!vars)' = <<StateMap', FinMap', ItemMap', Doing(w.pc)'>>
BY DEF Loop!vars, StateMap, FinMap, ItemMap

\* A step that ends the pass, or leaves it ended, and changes no object.
LEMMA EndMaps ==
  ASSUME StateMap' = StateMap, FinMap' = FinMap, Doing(w.pc)' = "nothing"
  PROVE  LoopStep
<1>1. ItemMap' = NoItem
  BY DEF ItemMap
<1>2. Loop!End
  BY <1>1 DEF Loop!End, Loop!NoPass, Loop!Pass, StateMap, FinMap, ItemMap
<1> QED BY <1>2 DEF LoopStep, Loop!Next

\* A step that stays where it is in the pass and changes no object.
LEMMA StutterMaps ==
  ASSUME StateMap' = StateMap, FinMap' = FinMap, Doing(w.pc)' = Doing(w.pc),
         w'.item = w.item
  PROVE  LoopStep
<1>1. ItemMap' = ItemMap
  BY DEF ItemMap
<1> QED BY <1>1, LoopVars DEF LoopStep

\* The maps look at nothing but the objects.
LEMMA SameObjects == ASSUME cr' = cr PROVE StateMap' = StateMap /\ FinMap' = FinMap
BY DEF StateMap, FinMap

\* The stages of a pass.
LEMMA Stages ==
  /\ \A pc \in Holding : Doing(pc) = "syncing"
  /\ Doing("revoke") = "revoking" /\ Doing("unfinalize") = "revoked"
  /\ \A pc \in {"idle", "read", "finalize", "done"} : Doing(pc) = "nothing"
BY DEF Doing, Holding

\* A read that finds the finalizer, or a deletion, begins the pass.
LEMMA GetMaps == ASSUME IInv, Get, NEW c \in CR, c = w.item PROVE LoopStep
<1>1. w.item \in CR /\ w.pc = "read" /\ cr' = cr /\ cr[w.item].alive
  BY DEF IInv, TypeOK, Worker, Get, At, apiVars
<1>2. w \in Worker /\ w'.item = w.item
  BY DEF IInv, TypeOK, Worker, Get
<1>3. CASE cr[w.item].deleting
  <2>1. w'.pc = "revoke"
    BY <1>2, <1>3 DEF Get, Worker
  <2>2. Loop!Revoke(c)
    BY <1>1, <1>2, <1>3, <2>1, SameObjects, Stages
       DEF Loop!Revoke, Loop!Pass, StateMap, FinMap, StateOf
  <2> QED BY <1>1, <2>2 DEF LoopStep, Loop!Next
<1>4. CASE ~cr[w.item].deleting /\ cr[w.item].fin
  <2>1. w'.pc = "reconcile"
    BY <1>2, <1>4 DEF Get, Worker
  <2>2. FinMap' = [FinMap EXCEPT ![w.item] = TRUE] /\ StateMap' = StateMap
    BY <1>1, <1>4, SameObjects DEF FinMap
  <2>3. Doing("reconcile") = "syncing" /\ Doing("read") = "nothing"
    BY Stages DEF Holding
  <2>4. Loop!Sync(c)
    BY <1>1, <1>2, <1>4, <2>1, <2>2, <2>3
       DEF Loop!Sync, Loop!Hold, Loop!Pass, StateMap, FinMap, StateOf
  <2> QED BY <1>1, <2>4 DEF LoopStep, Loop!Next
<1>5. CASE ~cr[w.item].deleting /\ ~cr[w.item].fin
  <2>1. w'.pc = "finalize"
    BY <1>2, <1>5 DEF Get, Worker
  <2> QED BY <1>1, <2>1, SameObjects, Stages, EndMaps
<1> QED BY <1>3, <1>4, <1>5

\* Storing the finalizer holds a live object; taking it away lets go of a deleted one.
LEMMA StoreFinalizerMaps ==
  ASSUME IInv, NEW c \in CR, c = w.item, NEW held \in BOOLEAN, StoreFinalizer(held),
         w.pc = (IF held THEN "finalize" ELSE "unfinalize"), held \/ w.raw.fin,
         w'.item = w.item, w'.pc = "done" \/ (held /\ w'.pc = "reconcile")
  PROVE  LoopStep
<1>1. /\ TypeOK /\ ReadIsCurrentOrStale /\ BranchIsRight /\ w.item \in CR
      /\ w.pc \in {"unfinalize", "finalize"}
  BY DEF IInv, TypeOK, Worker
<1>2. /\ cr[w.item] = w.raw /\ w.raw.alive
      /\ \A d \in CR \ {w.item} : cr'[d] = cr[d]
  BY <1>1, StoreFinalizerEffect DEF BranchIsRight
<1>3. cr' \in [CR -> Object] /\ cr \in [CR -> Object]
  BY <1>1, StoreFinalizerType DEF TypeOK, ApiTypeOK
<1>a. w.raw \in Object /\ w.raw.deleting \in BOOLEAN /\ w.raw.fin \in BOOLEAN
  BY <1>1 DEF TypeOK, Worker, Object
<1>4. CASE held
  <2>1. /\ cr'[w.item].alive /\ cr'[w.item].fin
        /\ ~cr'[w.item].deleting /\ ~cr[w.item].deleting /\ w.pc = "finalize"
    BY <1>1, <1>2, <1>4, StoreFinalizerEffect DEF BranchIsRight
  <2>2. FinMap' = [FinMap EXCEPT ![w.item] = TRUE]
    BY <1>2, <2>1 DEF FinMap
  <2>3. StateMap' = StateMap
    BY <1>2, <2>1 DEF StateMap, StateOf
  <2>4. Loop!Hold(c)
    BY <1>1, <1>2, <2>1, <2>2, <2>3, Stages DEF Loop!Hold, StateMap, FinMap, StateOf
  <2>5. CASE w'.pc = "done"
    <3>1. Loop!HoldOnly(c)
      BY <2>4, <2>5, Stages DEF Loop!HoldOnly, Loop!NoPass, Loop!Pass
    <3> QED BY <1>1, <3>1 DEF LoopStep, Loop!Next
  <2>6. CASE w'.pc = "reconcile"
    <3>1. Doing("reconcile") = "syncing"
      BY Stages DEF Holding
    <3>2. Loop!Sync(c)
      BY <2>4, <2>6, <3>1 DEF Loop!Sync, Loop!Pass
    <3> QED BY <1>1, <3>2 DEF LoopStep, Loop!Next
  <2> QED BY <2>5, <2>6
<1>5. CASE ~held
  <2>1. w.pc = "unfinalize" /\ w'.pc = "done" /\ w.raw.fin /\ w.raw.deleting
    BY <1>1, <1>5 DEF BranchIsRight
  <2>2. cr'[w.item].alive => ~cr'[w.item].fin /\ cr'[w.item].deleting
    BY <1>1, <1>5, <2>1, StoreFinalizerEffect
  <2>3. FinMap' = [FinMap EXCEPT ![w.item] = FALSE]
    BY <1>2, <2>2 DEF FinMap
  <2>4. StateMap' = [StateMap EXCEPT ![w.item] = StateOf(cr'[w.item])]
    BY <1>2 DEF StateMap
  <2>5. StateOf(cr'[w.item]) \in {"none", "deleting"}
    BY <2>2 DEF StateOf
  <2>6. StateMap[w.item] = "deleting" /\ FinMap[w.item]
    BY <1>1, <1>2, <2>1 DEF StateMap, FinMap, StateOf
  <2>7. Loop!LetGo(c)
    BY <1>1, <2>1, <2>3, <2>4, <2>5, <2>6, Stages
       DEF Loop!LetGo, Loop!NoPass, Loop!Pass, StateMap, FinMap
  <2> QED BY <1>1, <2>7 DEF LoopStep, Loop!Next
<1> QED BY <1>4, <1>5

\* A status write changes nothing that PassLoop sees of an object.
LEMMA StoreStatusMaps ==
  ASSUME TypeOK, w.item \in CR, StoreStatus
  PROVE  StateMap' = StateMap /\ FinMap' = FinMap
<1>1. /\ \A d \in CR \ {w.item} : cr'[d] = cr[d]
      /\ cr[w.item].alive /\ cr'[w.item].alive
      /\ cr'[w.item].fin = cr[w.item].fin /\ cr'[w.item].deleting = cr[w.item].deleting
  BY StoreStatusEffect DEF StoreStatus
<1> QED BY <1>1 DEF StateMap, FinMap, StateOf

\* A client creates, changes or deletes an object, or lets one go that nothing holds.
LEMMA ClientMaps == ASSUME IInv, NEW c \in CR, Client(c) PROVE LoopStep
<1>1. w' = w /\ TypeOK
  BY DEF IInv, Client, memory
<1>2. \A d \in CR \ {c} : cr'[d] = cr[d]
  BY <1>1, ClientEffect
<1>3. StateMap' = [StateMap EXCEPT ![c] = StateOf(cr'[c])]
  BY <1>2 DEF StateMap
<1>4. StateMap[c] = StateOf(cr[c]) /\ (FinMap[c] <=> cr[c].alive /\ cr[c].fin)
  BY DEF StateMap, FinMap
<1>5. cr[c].deleting \in BOOLEAN /\ cr[c].fin \in BOOLEAN
  BY <1>1 DEF TypeOK, ApiTypeOK, Object
<1>6. cr'[c].alive /\ cr'[c].fin <=> cr[c].alive /\ cr[c].fin
  BY <1>1, <1>5, ClientEffect
<1>7. FinMap' = FinMap
  BY <1>2, <1>6 DEF FinMap
<1>8. ItemMap' = ItemMap /\ Doing(w.pc)' = Doing(w.pc)
  BY <1>1 DEF ItemMap
<1>9. \/ StateOf(cr'[c]) = StateOf(cr[c])
      \/ StateOf(cr[c]) = "none" /\ StateOf(cr'[c]) = "live"
      \/ StateOf(cr[c]) = "live" /\ StateOf(cr'[c]) = "deleting"
      \/ StateOf(cr[c]) \in {"live", "deleting"} /\ ~cr[c].fin /\ StateOf(cr'[c]) = "none"
  BY <1>1, ClientEffect DEF StateOf
<1>10. CASE StateOf(cr'[c]) = StateOf(cr[c])
  <2>1. StateMap' = StateMap
    BY <1>2, <1>10 DEF StateMap
  <2> QED BY <1>1, <1>7, <2>1, StutterMaps
<1>11. CASE StateOf(cr'[c]) # StateOf(cr[c])
  <2>1. Loop!Client(c)
    BY <1>3, <1>4, <1>7, <1>8, <1>9, <1>11 DEF Loop!Client, StateMap, FinMap, ItemMap
  <2> QED BY <2>1 DEF LoopStep, Loop!Next
<1> QED BY <1>10, <1>11

\* A step of the worker is a step of a pass, its end, or none.
LEMMA WorkerMaps == ASSUME IInv, WorkerStep PROVE LoopStep
<1> USE DEF apiVars
<1>a. TypeOK /\ w \in Worker /\ (w.pc # "idle" => w.item \in CR)
  BY DEF IInv, TypeOK, Worker
<1>b. \A again : Return(again) => w'.pc = "done" /\ w'.item = w.item
  BY ReturnPc
<1>1. ASSUME cr' = cr, w'.pc \in {"idle", "read", "finalize", "done"} PROVE LoopStep
  BY <1>1, SameObjects, Stages, EndMaps
<1>2. ASSUME cr' = cr, w.pc \in Holding, w'.pc \in Holding, w'.item = w.item PROVE LoopStep
  BY <1>2, SameObjects, Stages, StutterMaps
<1>3. CASE TakeItem
  BY <1>1, <1>3, <1>a DEF TakeItem, Worker
<1>4. CASE Get
  BY <1>4, <1>a, GetMaps DEF Get, At
<1>5. CASE GetFails \/ DecodeFails
  BY <1>1, <1>5, <1>b DEF GetFails, DecodeFails
<1>6. CASE RevokeLeases
  <2>1. w.pc = "revoke" /\ cr' = cr /\ w.item \in CR
    BY <1>6, <1>a DEF RevokeLeases, At
  <2>2. CASE Goto("unfinalize")
    <3>1. w'.pc = "unfinalize" /\ w'.item = w.item
      BY <1>a, <2>2 DEF Goto, Worker
    <3>2. Loop!Revoked
      BY <2>1, <3>1, SameObjects, Stages DEF Loop!Revoked, Loop!Pass, StateMap, FinMap
    <3> QED BY <3>2 DEF LoopStep, Loop!Next
  <2>3. CASE Return(TRUE)
    BY <1>1, <1>b, <2>1, <2>3
  <2> QED BY <1>6, <2>2, <2>3 DEF RevokeLeases
<1>7. CASE RemoveFinalizer
  <2>1. w'.pc = "done" /\ w'.item = w.item /\ w.pc = "unfinalize"
    BY <1>7, <1>b DEF RemoveFinalizer, At
  <2>2. CASE cr' = cr
    BY <1>1, <2>1, <2>2
  <2>3. CASE w.raw.fin /\ StoreFinalizer(FALSE)
    BY <1>a, <2>1, <2>3, StoreFinalizerMaps
  <2> QED BY <1>7, <2>2, <2>3 DEF RemoveFinalizer
<1>8. CASE AddFinalizer
  <2>1. w'.pc = "reconcile" /\ w'.item = w.item /\ w.pc = "finalize" /\ StoreFinalizer(TRUE)
    BY <1>8, <1>a DEF AddFinalizer, At, Goto, Worker
  <2> QED BY <1>a, <2>1, StoreFinalizerMaps
<1>9. CASE FinalizerFails
  <2>1. /\ w'.pc = "done" /\ w'.item = w.item
        /\ w.pc = "finalize" \/ (w.pc = "unfinalize" /\ w.raw.fin)
    BY <1>9, <1>b DEF FinalizerFails, At
  <2>2. CASE cr' = cr
    BY <1>1, <2>1, <2>2
  <2>3. CASE StoreFinalizer(w.pc = "finalize")
    <3>1. CASE w.pc = "finalize"
      <4>1. StoreFinalizer(TRUE)
        BY <2>3, <3>1 DEF StoreFinalizer
      <4> QED BY <1>a, <2>1, <3>1, <4>1, StoreFinalizerMaps
    <3>2. CASE w.pc = "unfinalize" /\ w.raw.fin
      <4>1. StoreFinalizer(FALSE)
        BY <2>3, <3>2 DEF StoreFinalizer
      <4> QED BY <1>a, <2>1, <3>2, <4>1, StoreFinalizerMaps
    <3> QED BY <2>1, <3>1, <3>2
  <2> QED BY <1>9, <2>2, <2>3 DEF FinalizerFails
<1>10. CASE Reconcile
  <2>1. w.pc = "reconcile" /\ cr' = cr
    BY <1>10 DEF Reconcile, At
  <2>2. w'.item = w.item /\ w'.pc \in {"done", "write"}
    BY <1>10, <1>a, <1>b DEF Reconcile, Worker
  <2> QED BY <1>1, <1>2, <2>1, <2>2 DEF Holding
<1>11. CASE Conflict \/ Refetch
  BY <1>2, <1>11, <1>a DEF Conflict, Refetch, At, Goto, Holding, Worker
<1>12. CASE WriteStatus
  <2>1. /\ w.pc \in Holding /\ w'.pc \in Holding /\ w'.item = w.item
        /\ w.item \in CR /\ StoreStatus
    BY <1>12, <1>a DEF WriteStatus, At, Holding, Worker
  <2> QED BY <1>a, <2>1, StoreStatusMaps, Stages, StutterMaps
<1>13. CASE StatusFails
  <2>1. w'.pc = "done" /\ w.item \in CR
    BY <1>13, <1>a, <1>b DEF StatusFails, At
  <2>2. cr' = cr \/ StoreStatus
    BY <1>13 DEF StatusFails
  <2>3. StateMap' = StateMap /\ FinMap' = FinMap
    BY <1>a, <2>1, <2>2, SameObjects, StoreStatusMaps
  <2> QED BY <2>1, <2>3, Stages, EndMaps
<1>14. CASE Remember
  BY <1>1, <1>14, <1>b DEF Remember
<1>15. CASE FinishPass \/ Stop
  BY <1>1, <1>15 DEF FinishPass, Stop, Exit, IdleWorker
<1> QED BY <1>3, <1>4, <1>5, <1>6, <1>7, <1>8, <1>9, <1>10, <1>11, <1>12, <1>13, <1>14,
           <1>15 DEF WorkerStep

\* Manager implements PassLoop: lost answers, conflicts, replaced objects, crashes
\* and cancellations are steps of it.
THEOREM PassesAreSerial == Spec => ImplementsPassLoop
<1>1. Init => Loop!Init
  <2> SUFFICES ASSUME Init PROVE Loop!Init
    OBVIOUS
  <2>1. \A c \in CR : ~cr[c].fin /\ ~cr[c].deleting
    <3>1. /\ ~Absent.fin /\ ~Absent.deleting
          /\ \A g \in BOOLEAN : ~Declared(1, 1, g).fin /\ ~Declared(1, 1, g).deleting
      BY DEF Absent, Declared
    <3>2. \A c \in CR : cr[c] \in {Absent, Declared(1, 1, FALSE), Declared(1, 1, TRUE)}
      BY DEF Init, ApiInit
    <3> QED BY <3>1, <3>2
  <2>2. StateMap \in [CR -> {"none", "live"}] /\ FinMap = [c \in CR |-> FALSE]
    BY <2>1 DEF StateMap, FinMap, StateOf
  <2>3. ItemMap = NoItem /\ Doing(w.pc) = "nothing"
    BY Stages DEF Init, IdleWorker, ItemMap
  <2> QED BY <2>2, <2>3 DEF Loop!Init, StateMap, FinMap, ItemMap
<1>2. ASSUME IInv, [Next]_vars PROVE [Loop!Next]_(Loop!vars)
  <2> SUFFICES LoopStep
    BY DEF LoopStep
  <2>1. CASE cr' = cr /\ w' = w
    BY <2>1, SameObjects, StutterMaps
  <2>2. CASE WorkerStep
    BY <1>2, <2>2, WorkerMaps
  <2>3. CASE \E c \in CR : Client(c)
    BY <1>2, <2>3, ClientMaps
  <2>4. CASE Crash
    BY <2>4, SameObjects, Stages, EndMaps DEF Crash, Exit, IdleWorker
  <2>5. CASE HandleEvent \/ OpenWatch \/ Cancel \/ ShutDown \/ Restart \/ CloseWatch
    BY <2>1, <2>5 DEF HandleEvent, HandleDeleted, DropOwn, Enqueue, Consume, OpenWatch,
       Connect, Cancel, ShutDown, Restart, CloseWatch, Disconnect, memory, apiVars
  <2>6. CASE \E c \in CR : Fire(c) \/ Flip(c)
    BY <2>1, <2>6 DEF Fire, Flip, memory, apiVars
  <2>7. CASE UNCHANGED vars
    BY <2>1, <2>7 DEF vars, memory, apiVars
  <2> QED BY <1>2, <2>2, <2>3, <2>4, <2>5, <2>6, <2>7 DEF Next
<1> QED BY <1>1, <1>2, Inductive, PTL DEF Spec, ImplementsPassLoop, Loop!Spec
=============================================================================
