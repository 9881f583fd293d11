------------------------------ MODULE KubeApi ------------------------------
(***************************************************************************)
(* The Kubernetes API server as the operator sees it: the KrypticSecret    *)
(* objects, their optimistic concurrency (resourceVersion), finalizers,    *)
(* deletion, the status subresource, and the watch stream.  The server is  *)
(* not in the repository; its contract is the one the calls in             *)
(* internal/controller/manager.go assume.                                  *)
(*                                                                         *)
(* Resource versions are counted per object: the code only ever compares   *)
(* versions of one object.  They keep growing across incarnations.         *)
(***************************************************************************)
EXTENDS Integers, Sequences, FiniteSets

CONSTANTS CR,        \* the KrypticSecret names in the watched namespaces
          Result,    \* what a reconcile can report: the Ready condition
          NoResult   \* the condition of an object without a status

ASSUME ResultAssumption == NoResult \notin Result
ASSUME FiniteAssumption == IsFiniteSet(CR)

VARIABLES cr,        \* the stored objects
          events,    \* the watch events the server sent, oldest first
          watching   \* a watch is established

apiVars == <<cr, events, watching>>

\* uid and gen of a status are the incarnation and the generation it was
\* computed from.  The object does not carry them; they are there to state what
\* a status speaks about.  obs is the observedGeneration it claims.
Status   == [uid : Nat, gen : Nat, obs : Nat, res : Result \cup {NoResult}]
NoStatus == [uid |-> 0, gen |-> 0, obs |-> 0, res |-> NoResult]

\* fin: the operator's LeaseFinalizer; guard: a finalizer of someone else.
Object == [alive : BOOLEAN, uid : Nat, gen : Nat, rv : Nat, fin : BOOLEAN,
           guard : BOOLEAN, deleting : BOOLEAN, status : Status]

Absent == [alive |-> FALSE, uid |-> 0, gen |-> 0, rv |-> 0, fin |-> FALSE,
           guard |-> FALSE, deleting |-> FALSE, status |-> NoStatus]

\* "by" is the writer of the change, which the event itself does not carry.
Event == [type : {"ADDED", "MODIFIED", "DELETED"}, item : CR, rv : Nat,
          by : {"client", "finalizer", "status"}]

\* An object as a client creates it.
Declared(uid, rv, g) ==
  [Absent EXCEPT !.alive = TRUE, !.uid = uid, !.gen = 1, !.rv = rv, !.guard = g]

\* The operator is installed into a cluster where objects may already be.
ApiInit ==
  /\ cr \in [CR -> {Absent, Declared(1, 1, FALSE), Declared(1, 1, TRUE)}]
  /\ events = <<>>
  /\ watching = FALSE

ApiTypeOK ==
  /\ cr \in [CR -> Object]
  /\ events \in Seq(Event)
  /\ watching \in BOOLEAN

\* Store obj as the next version of c and tell the watch, if there is one.
Put(c, obj, type, by) ==
  /\ cr' = [cr EXCEPT ![c] = [obj EXCEPT !.rv = cr[c].rv + 1]]
  /\ events' = IF watching
               THEN Append(events, [type |-> type, item |-> c,
                                    rv |-> cr[c].rv + 1, by |-> by])
               ELSE events
  /\ UNCHANGED watching

\* An object that is being deleted goes when its last finalizer does.
PutOrRemove(c, obj, by) ==
  IF obj.deleting /\ ~obj.fin /\ ~obj.guard
  THEN Put(c, [Absent EXCEPT !.uid = obj.uid], "DELETED", by)
  ELSE Put(c, obj, "MODIFIED", by)

-----------------------------------------------------------------------------
(* What users and other controllers do to a KrypticSecret.                 *)

Create(c, g) ==
  /\ ~cr[c].alive
  /\ Put(c, Declared(cr[c].uid + 1, cr[c].rv + 1, g), "ADDED", "client")

EditSpec(c) ==
  /\ cr[c].alive
  /\ Put(c, [cr[c] EXCEPT !.gen = @ + 1], "MODIFIED", "client")

\* An annotation nudge: a new version, the same generation.
Touch(c) ==
  /\ cr[c].alive
  /\ Put(c, cr[c], "MODIFIED", "client")

Delete(c) ==
  /\ cr[c].alive /\ ~cr[c].deleting
  /\ PutOrRemove(c, [cr[c] EXCEPT !.deleting = TRUE, !.gen = @ + 1], "client")

\* The other controller drops its finalizer.
Release(c) ==
  /\ cr[c].alive /\ cr[c].guard
  /\ PutOrRemove(c, [cr[c] EXCEPT !.guard = FALSE], "client")

-----------------------------------------------------------------------------
(* The watch.  A new one starts with an ADDED event for every object there *)
(* is; what happened while no watch was established is not replayed.       *)

Connect ==
  /\ ~watching
  /\ watching' = TRUE
  /\ LET Alive == {c \in CR : cr[c].alive}
     IN \E s \in [1 .. Cardinality(Alive) -> Alive] :
          /\ Alive = {s[i] : i \in DOMAIN s}
          /\ events' = [i \in 1 .. Cardinality(Alive) |->
                          [type |-> "ADDED", item |-> s[i],
                           rv |-> cr[s[i]].rv, by |-> "client"]]
  /\ UNCHANGED cr

Disconnect ==
  /\ watching
  /\ watching' = FALSE
  /\ events' = <<>>
  /\ UNCHANGED cr
=============================================================================
