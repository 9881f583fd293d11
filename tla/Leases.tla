------------------------------- MODULE Leases -------------------------------
(***************************************************************************)
(* The life of dynamic-secret leases: Reconcile and RevokeCRLeases of      *)
(* internal/controller/reconcile.go, SyncDynamic and RevokeLeases of       *)
(* internal/krypticapi/leases.go and Apply of internal/dynsecret/apply.go. *)
(* The lease ids of an object are on an annotation of its target Secret;   *)
(* the leases are at the platform and the roles behind them at a provider. *)
(*                                                                         *)
(* One pass runs at a time, and none mints before the finalizer is stored: *)
(* PassLoop, which Manager implements too.  A second operator, which a     *)
(* rolling update may run, makes whole passes between two steps of this    *)
(* one.  Static values are not modelled.  The platform and the providers   *)
(* are external: their contract is what the calls assume.  Every object    *)
(* uses one identity, project and environment.                             *)
(***************************************************************************)
EXTENDS Integers, FiniteSets

CONSTANTS CR,         \* the KrypticSecrets
          NoCR,       \* the owner of a Secret somebody made by hand
          Name,       \* the names a target Secret can have
          Key,        \* the keys of dynamic secrets
          MaxLease,   \* bound: the leases the platform can hand out
          MaxTrouble, \* bound: stimuli and faults
          Trouble     \* which of them happen

ASSUME OwnerAssumption == NoCR \notin CR
ASSUME LeaseAssumption == MaxLease \in Nat /\ MaxTrouble \in Nat
ASSUME KeyAssumption == IsFiniteSet(Key)
ASSUME NameAssumption == Name # {}
ASSUME TroubleAssumption ==
  Trouble \subseteq {"fault", "unreadable", "foreign", "drop", "retarget", "hint",
                     "expire", "delete", "rollout"}

VARIABLES obj,      \* the KrypticSecrets as stored
          secret,   \* the Secrets, by name
          hints,    \* bundle.DynamicSecrets: the keys that want a lease
          lease,    \* the platform: the state of each lease
          role,     \* the provider: the role the platform has on record lives
          stray,    \* the provider: roles of a lease the platform has no name of
          p,        \* the pass of the worker
          revoked,  \* history: leases the operator asked the platform to revoke
          lost,     \* history: leases in the hands of a pass that failed
          minted,   \* history: whose pass requested the lease
          budget    \* stimuli and faults left

kube == <<obj, secret>>
platform == <<hints, lease>>
provider == <<role, stray>>
history == <<revoked, lost, minted>>
vars == <<kube, platform, provider, p, history, budget>>

Lease == 1 .. MaxLease
NoLease == 0
LeaseIDs == [Key -> Lease \cup {NoLease}]
NoIDs == [k \in Key |-> NoLease]
IDs(m) == {m[k] : k \in Key} \ {NoLease}

Object == [state : {"none", "live", "deleting"}, fin : BOOLEAN, name : Name]

\* ann: the annotation; data: the leases whose values are in the data.
\* dead: the incarnation named by the owner reference is gone.
Secret == [there : BOOLEAN, owner : CR \cup {NoCR}, dead : BOOLEAN,
           ann : LeaseIDs, data : LeaseIDs]
NoSecret == [there |-> FALSE, owner |-> NoCR, dead |-> FALSE,
             ann |-> NoIDs, data |-> NoIDs]

\* "wanted" has a create item, "ending" a revoke item of work.
LeaseState == {"free", "wanted", "active", "ending", "over"}
Item == [lease : Lease, action : {"create", "revoke"}]

PC == {"idle", "read", "sync", "work", "leasework", "envelope", "apply", "complete",
       "revoke", "store", "unfinalize"}
Fate == {"current", "edited", "gone"}
Back == {"work", "envelope", "revoke"}

\* name: spec.secretName as the pass read it; raw: what has become of the object
\* the pass read; existing, made: the maps of SyncDynamic; todo: hints not looked
\* at; work: the batch of applyOwnWork; item: the work item being applied, then:
\* where to go on after it; key: the hint being ensured; list: leases to revoke.
Pass == [pc : PC, cr : CR \cup {NoCR}, name : Name, deleting : BOOLEAN, raw : Fate,
         existing : LeaseIDs, made : LeaseIDs, todo : SUBSET Key,
         work : SUBSET Item, item : SUBSET Item, then : Back, key : SUBSET Key,
         list : SUBSET Lease]

NoPass == [pc |-> "idle", cr |-> NoCR, name |-> CHOOSE n \in Name : TRUE,
           deleting |-> FALSE, raw |-> "current", existing |-> NoIDs, made |-> NoIDs, todo |-> {},
           work |-> {}, item |-> {}, then |-> "work", key |-> {}, list |-> {}]

Init ==
  /\ obj \in [CR -> {[state |-> "live", fin |-> FALSE, name |-> n] : n \in Name}]
  /\ secret \in [Name -> {NoSecret} \cup {[NoSecret EXCEPT !.there = TRUE] :
                                          k \in Trouble \cap {"foreign"}}]
  /\ hints \in SUBSET Key
  /\ lease = [l \in Lease |-> "free"]
  /\ role = [l \in Lease |-> FALSE]
  /\ stray = [l \in Lease |-> 0]
  /\ p = NoPass
  /\ revoked = {} /\ lost = {}
  /\ minted = [l \in Lease |-> NoCR]
  /\ budget = MaxTrouble

Spend(kind) == kind \in Trouble /\ budget > 0 /\ budget' = budget - 1

At(pc) == p.pc = pc
Goto(pc) == p' = [p EXCEPT !.pc = pc]

\* The pass ends without a result: what it holds is nowhere else.
Abandon ==
  /\ p' = NoPass
  /\ lost' = lost \cup IDs(p.made)
  /\ UNCHANGED <<revoked, minted>>

-----------------------------------------------------------------------------
(* A pass begins.                                                          *)

\* Seeded fault: the pass does not wait for its finalizer.
BeginBare(c) ==
  /\ At("idle")
  /\ obj[c].state # "none"
  /\ p' = [NoPass EXCEPT !.pc = "read", !.cr = c, !.name = obj[c].name,
                         !.deleting = (obj[c].state = "deleting")]
  /\ UNCHANGED <<kube, platform, provider, history, budget>>

\* Manager's addFinalizer is behind every pass over a live object.
Begin(c) ==
  /\ At("idle")
  /\ obj[c].state # "none"
  /\ obj' = [obj EXCEPT ![c].fin = TRUE]
  /\ p' = [NoPass EXCEPT !.pc = "read", !.cr = c, !.name = obj[c].name,
                         !.deleting = (obj[c].state = "deleting")]
  /\ UNCHANGED <<secret, platform, provider, history, budget>>

\* readLeaseIDs, for Reconcile or for RevokeCRLeases.
TakeLeaseIDs(ids) ==
  p' = [p EXCEPT !.existing = ids,
                 !.list = IF p.deleting THEN IDs(ids) ELSE {},
                 !.pc = IF p.deleting THEN "revoke" ELSE "sync"]

ReadLeaseIDs ==
  /\ At("read")
  /\ \/ /\ TakeLeaseIDs(secret[p.name].ann)
        /\ UNCHANGED <<lost, budget>>
     \/ /\ TakeLeaseIDs(NoIDs)
        /\ Spend("unreadable")
        /\ lost' = lost \cup IDs(secret[p.name].ann)
  /\ UNCHANGED <<kube, platform, provider, revoked, minted>>

-----------------------------------------------------------------------------
(* SyncDynamic.                                                            *)

\* The items the platform offers: GET /work, or GET /leases/l/work.
WorkOf(l) ==
  IF lease[l] = "wanted" THEN {[lease |-> l, action |-> "create"]}
  ELSE IF lease[l] = "ending" THEN {[lease |-> l, action |-> "revoke"]} ELSE {}

Offered == UNION {WorkOf(l) : l \in Lease}

\* Up to applyOwnWork's GET, which may find no such route.
SyncDynamic ==
  /\ At("sync")
  /\ IF hints = {} /\ p.existing = NoIDs
     THEN Goto("store") /\ UNCHANGED budget
     ELSE \/ /\ p' = [p EXCEPT !.pc = "work", !.todo = hints, !.work = Offered]
             /\ UNCHANGED budget
          \/ /\ p' = [p EXCEPT !.pc = "work", !.todo = hints]
             /\ Spend("fault")
  /\ UNCHANGED <<kube, platform, provider, history>>

OwnWork ==
  /\ At("work")
  /\ \E i \in p.work :
       p' = [p EXCEPT !.pc = "apply", !.work = @ \ {i}, !.item = {i}, !.then = "work"]
  /\ UNCHANGED <<kube, platform, provider, history, budget>>

\* ensureLease: the envelope of the lease on record can be read.
ReuseLease ==
  /\ At("work") /\ p.work = {}
  /\ \E k \in p.todo :
       /\ p.existing[k] # NoLease
       /\ lease[p.existing[k]] = "active"
       /\ p' = [p EXCEPT !.todo = @ \ {k}, !.made[k] = p.existing[k]]
  /\ UNCHANGED <<kube, platform, provider, history, budget>>

Fresh == {l \in Lease : lease[l] = "free" /\ \A m \in Lease : lease[m] = "free" => l <= m}

\* Seeded fault: a lease on record that cannot be read is not replaced.
RequestLeaseOnce ==
  /\ At("work") /\ p.work = {}
  /\ \E k \in p.todo, l \in Fresh :
       /\ p.existing[k] = NoLease /\ UNCHANGED budget
       /\ lease' = [lease EXCEPT ![l] = "wanted"]
       /\ minted' = [minted EXCEPT ![l] = p.cr]
       /\ p' = [p EXCEPT !.pc = "leasework", !.todo = @ \ {k}, !.key = {k}, !.made[k] = l]
  /\ UNCHANGED <<kube, hints, provider, revoked, lost>>

\* ensureLease: there is none on record, or its envelope cannot be read.
RequestLease ==
  /\ At("work") /\ p.work = {}
  /\ \E k \in p.todo, l \in Fresh :
       /\ \/ p.existing[k] = NoLease /\ UNCHANGED budget
          \/ /\ p.existing[k] # NoLease
             /\ IF lease[p.existing[k]] = "active" THEN Spend("fault") ELSE UNCHANGED budget
       /\ lease' = [lease EXCEPT ![l] = "wanted"]
       /\ minted' = [minted EXCEPT ![l] = p.cr]
       /\ p' = [p EXCEPT !.pc = "leasework", !.todo = @ \ {k}, !.key = {k}, !.made[k] = l]
  /\ UNCHANGED <<kube, hints, provider, revoked, lost>>

Requested == {p.made[k] : k \in p.key} \ {NoLease}

\* applyLeaseWork.
LeaseWork ==
  /\ At("leasework")
  /\ \E l \in Requested :
       IF WorkOf(l) # {}
       THEN /\ p' = [p EXCEPT !.pc = "apply", !.item = WorkOf(l), !.then = "envelope"]
            /\ UNCHANGED history
       ELSE Abandon
  /\ UNCHANGED <<kube, platform, provider, budget>>

\* readMinted after the item is complete.
ReadEnvelope ==
  /\ At("envelope")
  /\ \E l \in Requested :
       IF lease[l] = "active"
       THEN p' = [p EXCEPT !.pc = "work", !.key = {}] /\ UNCHANGED history
       ELSE Abandon
  /\ UNCHANGED <<kube, platform, provider, budget>>

\* Seeded faults: every lease on record is taken for stale; or none is.
StaleAll(existing, made) == IDs(existing)
StaleNone(existing, made) == {}

Stale(existing, made) ==
  {existing[k] : k \in {x \in Key : existing[x] # NoLease /\ made[x] # existing[x]}}

HintsDone ==
  /\ At("work") /\ p.work = {} /\ p.todo = {}
  /\ p' = [p EXCEPT !.pc = "revoke", !.list = Stale(p.existing, p.made)]
  /\ UNCHANGED <<kube, platform, provider, history, budget>>

-----------------------------------------------------------------------------
(* Apply: the provider, then the platform's /work/complete.                *)

\* Seeded fault: the failure of a provider to revoke is not an error.
ApplyNoRevoke ==
  /\ At("apply")
  /\ \E i \in p.item :
       /\ stray' = IF i.action = "create" THEN [stray EXCEPT ![i.lease] = @ + 1] ELSE stray
       /\ role' = role
  /\ Goto("complete")
  /\ UNCHANGED <<kube, platform, history, budget>>

\* A mint draws a new user name; the platform learns it from Complete.
Apply ==
  /\ At("apply")
  /\ \E i \in p.item :
       IF i.action = "create"
       THEN stray' = [stray EXCEPT ![i.lease] = @ + 1] /\ UNCHANGED role
       ELSE role' = [role EXCEPT ![i.lease] = FALSE] /\ UNCHANGED stray
  /\ Goto("complete")
  /\ UNCHANGED <<kube, platform, history, budget>>

\* Seeded fault: a revoke item is completed as if it had minted.
CompleteAsMint ==
  /\ At("complete")
  /\ \E i \in p.item :
       IF i \notin WorkOf(i.lease)
       THEN Abandon /\ UNCHANGED <<lease, provider>>
       ELSE /\ p' = [p EXCEPT !.pc = p.then, !.item = {}]
            /\ lease' = [lease EXCEPT ![i.lease] = IF i.action = "create" THEN "active" ELSE "over"]
            /\ role' = [role EXCEPT ![i.lease] = TRUE]
            /\ stray' = [stray EXCEPT ![i.lease] = @ - 1]
            /\ UNCHANGED history
  /\ UNCHANGED <<kube, hints, budget>>

\* The platform refuses the completion of an item it has withdrawn.
Complete ==
  /\ At("complete")
  /\ \E i \in p.item :
       IF i \notin WorkOf(i.lease)
       THEN Abandon /\ UNCHANGED <<lease, provider>>
       ELSE /\ p' = [p EXCEPT !.pc = p.then, !.item = {}]
            /\ IF i.action = "create"
               THEN /\ lease' = [lease EXCEPT ![i.lease] = "active"]
                    /\ role' = [role EXCEPT ![i.lease] = TRUE]
                    /\ stray' = [stray EXCEPT ![i.lease] = @ - 1]
               ELSE /\ lease' = [lease EXCEPT ![i.lease] = "over"]
                    /\ UNCHANGED provider
            /\ UNCHANGED history
  /\ UNCHANGED <<kube, hints, budget>>

-----------------------------------------------------------------------------
(* RevokeLeases.                                                           *)

\* What POST /leases/l/revoke makes of a lease.
Ended(l) == IF lease[l] \in {"active", "ending"} THEN "ending" ELSE "over"

\* Seeded faults: a lease without work is an error, as in applyLeaseWork;
\* or the platform is asked and the work is left to it.
RevokeOneStrict ==
  /\ At("revoke")
  /\ \E l \in p.list :
       /\ lease' = [lease EXCEPT ![l] = Ended(l)]
       /\ revoked' = revoked \cup {l}
       /\ p' = IF Ended(l) = "over" THEN NoPass
               ELSE [p EXCEPT !.pc = "apply", !.list = @ \ {l}, !.then = "revoke",
                              !.item = {[lease |-> l, action |-> "revoke"]}]
  /\ UNCHANGED <<kube, hints, provider, lost, minted, budget>>
RevokeOneAsk ==
  /\ At("revoke")
  /\ \E l \in p.list :
       /\ lease' = [lease EXCEPT ![l] = Ended(l)]
       /\ revoked' = revoked \cup {l}
       /\ p' = [p EXCEPT !.list = @ \ {l}]
  /\ UNCHANGED <<kube, hints, provider, lost, minted, budget>>

\* revokeOne: the POST and the GET of the work it makes, if any.
RevokeOne ==
  /\ At("revoke")
  /\ \E l \in p.list :
       /\ lease' = [lease EXCEPT ![l] = Ended(l)]
       /\ revoked' = revoked \cup {l}
       /\ p' = IF Ended(l) = "over" THEN [p EXCEPT !.list = @ \ {l}]
               ELSE [p EXCEPT !.pc = "apply", !.list = @ \ {l}, !.then = "revoke",
                              !.item = {[lease |-> l, action |-> "revoke"]}]
  /\ UNCHANGED <<kube, hints, provider, lost, minted, budget>>

RevokedAll ==
  /\ At("revoke") /\ p.list = {}
  /\ Goto(IF p.deleting THEN "unfinalize" ELSE "store")
  /\ UNCHANGED <<kube, platform, provider, history, budget>>

-----------------------------------------------------------------------------
(* A pass ends.                                                            *)

\* withLeaseIDs and mergeInto: an empty map leaves the annotation there was.
Annotated(old, made) == IF made = NoIDs THEN old ELSE made

\* applySecret; the lookup and the write conflict if the Secret changed.  The
\* object can be gone only if another operator let it go.
ApplySecret ==
  /\ At("store")
  /\ LET s == secret[p.name]
         gone == p.raw = "gone"
     IN IF s.there /\ s.owner # p.cr
        THEN Abandon /\ UNCHANGED secret
        ELSE /\ secret' = [secret EXCEPT ![p.name] =
                  [there |-> TRUE, owner |-> p.cr, dead |-> gone,
                   ann |-> Annotated(s.ann, p.made), data |-> p.made]]
             /\ p' = NoPass
             /\ lost' = IF gone THEN lost \cup IDs(p.made) ELSE lost
             /\ UNCHANGED <<revoked, minted>>
  /\ UNCHANGED <<obj, platform, provider, budget>>

\* The last finalizer goes, and with it the object.
Removed(c) ==
  /\ obj' = [obj EXCEPT ![c].state = "none", ![c].fin = FALSE]
  /\ secret' = [n \in Name |-> IF secret[n].there /\ secret[n].owner = c
                               THEN [secret[n] EXCEPT !.dead = TRUE] ELSE secret[n]]

\* setFinalizer conflicts if the object is no longer the one read.
Unfinalize ==
  /\ At("unfinalize")
  /\ IF p.raw = "current"
     THEN Removed(p.cr) /\ p' = NoPass /\ UNCHANGED history
     ELSE Abandon /\ UNCHANGED kube
  /\ UNCHANGED <<platform, provider, budget>>

\* A call fails, or the process dies.  A mint can fail half way, and Apply
\* reports a failed item to the platform, which may or may not drop it.
Fail ==
  /\ ~At("idle")
  /\ Spend("fault")
  /\ Abandon
  /\ \/ UNCHANGED <<lease, stray>>
     \/ /\ At("apply") \/ At("complete")
        /\ \E i \in p.item :
             /\ i.action = "create"
             /\ stray' = IF At("apply") THEN [stray EXCEPT ![i.lease] = @ + 1] ELSE stray
             /\ \/ UNCHANGED lease
                \/ lease[i.lease] = "wanted" /\ lease' = [lease EXCEPT ![i.lease] = "over"]
  /\ UNCHANGED <<kube, hints, role>>

PassStep ==
  \/ ReadLeaseIDs \/ SyncDynamic \/ OwnWork \/ ReuseLease \/ RequestLease
  \/ LeaseWork \/ ReadEnvelope \/ HintsDone \/ Apply \/ Complete
  \/ RevokeOne \/ RevokedAll \/ ApplySecret \/ Unfinalize

-----------------------------------------------------------------------------
(* Users, the garbage collector and the platform.                          *)

CreateObject(c) ==
  /\ obj[c].state = "none"
  /\ Spend("delete")
  /\ \E n \in Name : obj' = [obj EXCEPT ![c] = [state |-> "live", fin |-> FALSE, name |-> n]]
  /\ UNCHANGED <<secret, platform, provider, p, history>>

DeleteObject(c) ==
  /\ obj[c].state = "live"
  /\ Spend("delete")
  /\ IF obj[c].fin
     THEN obj' = [obj EXCEPT ![c].state = "deleting"] /\ UNCHANGED secret
     ELSE Removed(c)
  /\ UNCHANGED <<platform, provider, p, history>>

\* An edit of spec.secretName.
Retarget(c) ==
  /\ obj[c].state # "none"
  /\ Spend("retarget")
  /\ \E n \in Name \ {obj[c].name} : obj' = [obj EXCEPT ![c].name = n]
  /\ p' = [p EXCEPT !.raw = IF p.cr = c /\ @ = "current" THEN "edited" ELSE @]
  /\ UNCHANGED <<secret, platform, provider, history>>

\* A user, a foreground deletion or the end of the namespace.
DropSecret(n) ==
  /\ secret[n].there
  /\ Spend("drop")
  /\ secret' = [secret EXCEPT ![n] = NoSecret]
  /\ lost' = lost \cup IDs(secret[n].ann)
  /\ UNCHANGED <<obj, platform, provider, p, revoked, minted>>

Collect(n) ==
  /\ secret[n].dead
  /\ secret' = [secret EXCEPT ![n] = NoSecret]
  /\ UNCHANGED <<obj, platform, provider, p, history, budget>>

ChangeHints(k) ==
  /\ Spend("hint")
  /\ hints' = IF k \in hints THEN hints \ {k} ELSE hints \cup {k}
  /\ UNCHANGED <<kube, lease, provider, p, history>>

\* A lease runs out: the platform wants its role dropped.
Expire(l) ==
  /\ lease[l] \in {"wanted", "active"}
  /\ Spend("expire")
  /\ lease' = [lease EXCEPT ![l] = Ended(l)]
  /\ UNCHANGED <<kube, hints, provider, p, history>>

\* A rolling update runs a second operator for a while.  It mints a lease for
\* a key without one, in a whole pass of its own between two steps of this one,
\* whose write may overwrite the annotation it left.
OtherMints(c, k) ==
  LET n == obj[c].name
  IN /\ obj[c].state = "live" /\ obj[c].fin
     /\ secret[n].there /\ secret[n].owner = c
     /\ k \in hints /\ (secret[n].ann[k] # NoLease => lease[secret[n].ann[k]] # "active")
     /\ Spend("rollout")
     /\ \E l \in Fresh :
          /\ lease' = [m \in Lease |->
               IF m = l THEN "active"
               ELSE IF m = secret[n].ann[k] THEN "over" ELSE lease[m]]
          /\ role' = [m \in Lease |-> m = l \/ (role[m] /\ m # secret[n].ann[k])]
          /\ secret' = [secret EXCEPT ![n].ann[k] = l, ![n].data[k] = l, ![n].dead = FALSE]
          /\ minted' = [minted EXCEPT ![l] = c]
          /\ lost' = IF p.name = n /\ ~At("idle") /\ ~At("read") THEN lost \cup {l} ELSE lost
     /\ UNCHANGED <<obj, hints, stray, p, revoked>>

\* Or it revokes the leases of an object and takes the finalizer away.
OtherRevokes(c) ==
  LET s == secret[obj[c].name]
  IN /\ obj[c].state = "deleting"
     /\ Spend("rollout")
     /\ lease' = [l \in Lease |-> IF l \in IDs(s.ann) THEN "over" ELSE lease[l]]
     /\ role' = [l \in Lease |-> role[l] /\ l \notin IDs(s.ann)]
     /\ Removed(c)
     /\ p' = [p EXCEPT !.raw = IF p.cr = c THEN "gone" ELSE @]
     /\ UNCHANGED <<hints, stray, history>>

World ==
  \/ \E c \in CR : CreateObject(c) \/ DeleteObject(c) \/ Retarget(c) \/ OtherRevokes(c)
  \/ \E c \in CR, k \in Key : OtherMints(c, k)
  \/ \E n \in Name : DropSecret(n) \/ Collect(n)
  \/ \E k \in Key : ChangeHints(k)
  \/ \E l \in Lease : Expire(l)

Next == (\E c \in CR : Begin(c)) \/ PassStep \/ Fail \/ World

Spec == Init /\ [][Next]_vars

\* Every call returns; every object is looked at again and again, which is
\* Manager's RefreshArmed and the order of the queue.
Fairness == WF_vars(PassStep) /\ \A c \in CR : SF_vars(Begin(c))

LiveSpec == Spec /\ Fairness

-----------------------------------------------------------------------------
(* Properties.                                                             *)

\* There is one operator: no rolling update is under way.
Alone == "rollout" \notin Trouble

TypeOK ==
  /\ obj \in [CR -> Object]
  /\ secret \in [Name -> Secret]
  /\ hints \in SUBSET Key
  /\ lease \in [Lease -> LeaseState]
  /\ role \in [Lease -> BOOLEAN]
  /\ stray \in [Lease -> Nat]
  /\ p \in Pass
  /\ revoked \in SUBSET Lease /\ lost \in SUBSET Lease
  /\ minted \in [Lease -> CR \cup {NoCR}]
  /\ budget \in 0 .. MaxTrouble

Recorded == UNION {IDs(secret[n].ann) : n \in Name}

InHand == IDs(p.made) \cup p.list \cup IDs(p.existing)

\* A lease that is not over, or a role without a name at the platform, is on
\* the annotation of a Secret, in the hands of the running pass, or was in the
\* hands of a pass that failed or on a Secret that was deleted, could not be read
\* or met another operator: no sequence of successful passes, hint changes,
\* expiries and deletions forgets one (leases.go SyncDynamic, reconcile.go
\* applySecret and RevokeCRLeases).
NoSilentLeak ==
  \A l \in Lease :
    lease[l] \in {"wanted", "active", "ending"} \/ stray[l] > 0
      => l \in Recorded \cup InHand \cup lost

\* The values a pass is about to write are not of a lease the operator has
\* revoked: the stale leases it revokes first are not among those it keeps
\* (leases.go SyncDynamic 74-83).
StoredIsLive == At("store") => IDs(p.made) \cap revoked = {}

\* Every run of Apply is one step here; the roles are those a lease promises,
\* and none is left when the platform is told that it is over (apply.go).
R == INSTANCE Roles WITH state <- lease

ImplementsRoles == R!Spec

\* The passes over a Secret are those Manager makes: both are PassLoop's.
Doing ==
  IF At("idle") THEN "nothing"
  ELSE IF ~p.deleting THEN "syncing"
  ELSE IF At("unfinalize") THEN "revoked" ELSE "revoking"

Loop == INSTANCE PassLoop WITH
  NoItem <- NoCR,
  state <- [c \in CR |-> obj[c].state],
  fin <- [c \in CR |-> obj[c].fin],
  item <- p.cr,
  doing <- Doing

\* What this module takes from the manager is what the manager keeps: a pass
\* syncs under the finalizer and lets go after it has revoked (manager.go 138-157).
ImplementsPassLoop == Loop!Spec

\* The finalizer goes only when every lease on the annotation of the object's
\* own target Secret is over, whatever failed in between (reconcile.go
\* RevokeCRLeases, manager.go 138-148).
FinalizerWaits ==
  [][\A c \in CR :
       obj[c].state = "deleting" /\ obj'[c].state = "none"
         => LET s == secret[obj[c].name]
            IN s.there /\ s.owner = c => \A l \in IDs(s.ann) : lease'[l] = "over"]_vars

Applying == p.pc \in {"apply", "complete"}
Revoking == p.pc = "revoke" \/ (Applying /\ p.then = "revoke")
ItemLeases == {i.lease : i \in p.item}
Down(l) == lease[l] \in {"ending", "over"}

\* A bound on the steps that are left to a pass.
Hinted == 3 * Cardinality(Key) + 3 + 3 * Cardinality(p.work) + 5 * Cardinality(p.todo)
Ahead ==
  CASE At("idle") -> 0
    [] p.pc \in {"store", "unfinalize"} -> 1
    [] At("read") -> 8 * Cardinality(Key) + 3 * MaxLease + 5
    [] At("sync") -> 8 * Cardinality(Key) + 3 * MaxLease + 4
    [] OTHER ->
         (IF Revoking THEN 3 * Cardinality(p.list) + 2 ELSE Hinted)
         + (CASE At("leasework") -> 4
              [] At("envelope") -> 1
              [] At("apply") -> IF p.then = "envelope" THEN 3 ELSE 2
              [] At("complete") -> IF p.then = "envelope" THEN 2 ELSE 1
              [] OTHER -> 0)

\* What a pass can end with: its Secret is written or somebody else's, its object
\* is released or no longer the one it read, or a lease it worked on was ended
\* meanwhile, which only another operator does to one it revokes.
CameThrough ==
  \/ At("store") /\ ~p.deleting /\ LET s == secret[p.name]
                    IN \/ s.there /\ s.owner # p.cr
                       \/ secret'[p.name].owner = p.cr /\ secret'[p.name].data = p.made
  \/ At("unfinalize") /\ p.deleting /\ (p.raw # "current" \/ obj'[p.cr].state = "none")
  \/ /\ \E l \in ItemLeases \cup Requested : Down(l)
     /\ p.deleting => ~Alone

\* A pass that meets no fault does what it came for, in a number of steps that
\* is known when it begins: it repeats nothing for ever, no work item is completed
\* twice, and no state of a lease is an error of its revocation (leases.go
\* applyOwnWork, applyLeaseWork, RevokeLeases).
PassGoesThrough ==
  [][~At("idle") /\ p' # p /\ budget' = budget
       => Ahead' < Ahead /\ (At("idle")' => CameThrough)]_vars

HandMade(n) == secret[n].there /\ secret[n].owner = NoCR

Synced(c) ==
  obj[c].state = "live" /\ ~HandMade(obj[c].name)
    => \A k \in hints :
         LET l == secret[obj[c].name].data[k] IN l # NoLease /\ lease[l] = "active"

\* Once the faults are over, the Secret of a live object holds the values of
\* an active lease for every dynamic key, for good (Reconcile).
Supplied == \A c \in CR : <>[]Synced(c)

\* A deleted object goes: no state of its leases keeps the finalizer for ever
\* (leases.go RevokeLeases).
DeletionEnds == \A c \in CR : obj[c].state = "deleting" ~> obj[c].state # "deleting"

\* README.md 7-8: "Enterprise dynamic keys are minted in the operator and
\* revoked when the CR is deleted."
DeletedIsRevoked ==
  [][\A c \in CR :
       obj[c].state = "deleting" /\ obj'[c].state = "none"
         => \A l \in Recorded : minted[l] = c => lease[l] = "over"]_vars

\* reconcile.go 244: "RevokeCRLeases drops provider roles this CR minted."
RevokesItsOwn ==
  At("revoke") /\ p.deleting => \A l \in p.list : minted[l] = p.cr
-----------------------------------------------------------------------------
(* Why the safety properties hold: the parts of an inductive invariant.    *)

Fixed == "retarget" \notin Trouble

\* What each stage of a pass holds.
PassShape ==
  /\ At("idle") => p = NoPass
  /\ ~Applying => p.item = {}
  /\ \A i, j \in p.item : i = j
  /\ ~Revoking => p.list = {}
  /\ Revoking => \A i \in p.item : i.action = "revoke"
  /\ At("complete") => \A i \in p.item : i.action = "create" => stray[i.lease] > 0
  /\ p.deleting => At("read") \/ Revoking \/ At("unfinalize")
  /\ At("unfinalize") => p.deleting
  /\ p.deleting \/ p.pc \in {"idle", "read", "sync"} => p.made = NoIDs
  /\ At("read") => p.existing = NoIDs
  /\ p.key # {} => p.pc = "leasework" \/ p.pc = "envelope" \/ (Applying /\ p.then = "envelope")
  /\ \A j, k \in p.key : j = k
  /\ p.key # {} => p.work = {}

\* The pass and its object.
PassObject ==
  /\ \A c \in CR :
       /\ obj[c].state = "none" => ~obj[c].fin
       /\ obj[c].state = "deleting" => obj[c].fin
  /\ ~At("idle") =>
       /\ p.cr \in CR
       /\ p.raw = "gone" => ~Alone /\ ~obj[p.cr].fin
       /\ p.raw # "gone" =>
            /\ obj[p.cr].fin
            /\ p.deleting => obj[p.cr].state = "deleting"
            /\ p.raw = "current" \/ Fixed => obj[p.cr].name = p.name

Exist(ids) == \A k \in Key : ids[k] # NoLease => lease[ids[k]] # "free"

\* A lease that anybody knows of exists; work is what the platform once offered.
LeaseStates ==
  /\ \A n \in Name : Exist(secret[n].ann)
  /\ Exist(p.existing) /\ Exist(p.made)
  /\ \A l \in p.list : lease[l] # "free"
  /\ \A i \in p.work \cup p.item :
       lease[i.lease] # "free" /\ (i.action = "revoke" => Down(i.lease))
  /\ \A l \in revoked : Down(l)
  /\ At("complete") => \A i \in p.item : i.action = "revoke" => ~role[i.lease]

\* An item is applied once, and nobody but the pass completes it.
ItemsFit ==
  /\ p.item \cap p.work = {}
  /\ p.deleting \/ Revoking => p.work = {}
  /\ \A i \in p.work \cup p.item :
       i.action = "create" => lease[i.lease] \in {"wanted", "over"}
  /\ Applying /\ p.then = "envelope" => ItemLeases = Requested
  /\ At("leasework") => \A l \in Requested : lease[l] \in {"wanted", "over"}
  /\ At("envelope") => \A l \in Requested : lease[l] # "wanted"
  /\ Alone /\ p.deleting /\ Applying => \A l \in ItemLeases : lease[l] = "ending"

\* Every key has a lease of its own, and what a pass keeps it does not revoke.
Distinct(ids) == \A j, k \in Key : ids[j] # NoLease /\ ids[j] = ids[k] => j = k

KeptApart ==
  /\ \A n \in Name : Distinct(secret[n].ann)
  /\ Distinct(p.existing) /\ Distinct(p.made)
  /\ \A k \in Key : p.made[k] \in {NoLease, p.existing[k]} \/ p.made[k] \notin IDs(p.existing)
  /\ \A k \in p.todo : p.made[k] = NoLease
  /\ p.list \subseteq IDs(p.existing)
  /\ IDs(p.made) \cap (p.list \cup revoked) = {}

\* What a pass has read is what there is, and what it does not keep it revokes.
ReadIsWhole ==
  ~At("idle") /\ ~At("read") =>
    LET s == secret[p.name]
    IN /\ IDs(s.ann) \subseteq IDs(p.existing) \cup lost
       /\ \/ IDs(s.ann) \subseteq IDs(p.existing)
          \/ "unreadable" \in Trouble
          \/ ~Alone /\ ~(p.deleting /\ s.owner = p.cr)

RestIsRevoked ==
  Revoking \/ At("store") \/ At("unfinalize") =>
    \A l \in IDs(p.existing) \ IDs(p.made) :
      lease[l] = "over" \/ l \in p.list \cup ItemLeases

\* A Secret in use belongs to an object that holds the finalizer; the leases of
\* one that is about to go are over.
SecretsAreHeld ==
  \A n \in Name :
    LET s == secret[n]
    IN /\ s.there /\ s.owner # NoCR /\ ~s.dead => obj[s.owner].fin /\ obj[s.owner].name = n
       /\ s.dead => \A l \in IDs(s.ann) : lease[l] = "over" \/ l \in lost

\* Who knows of a lease that is requested, that has a role, or whose role the
\* platform has no name of; whose item may be applied; what a pass has read.
WantedHeld == \A l \in Lease : lease[l] = "wanted" => l \in lost \cup Requested
LiveHeld ==
  \A l \in Lease : lease[l] \in {"active", "ending"} => l \in lost \cup Recorded \cup IDs(p.made)
StraysHeld ==
  \A l \in Lease : stray[l] > 0 /\ l \notin lost =>
    /\ At("complete") /\ stray[l] = 1
    /\ [lease |-> l, action |-> "create"] \in p.item
ItemsHeld ==
  \A i \in p.work \cup p.item : i.action = "create" => i.lease \in lost \cup Requested
ReadHeld ==
  \A l \in IDs(p.existing) : lease[l] = "over" \/ l \in lost \cup IDs(secret[p.name].ann)

Accounted == WantedHeld /\ LiveHeld /\ StraysHeld /\ ItemsHeld /\ ReadHeld
LInv ==
  /\ TypeOK
  /\ PassShape
  /\ PassObject /\ LeaseStates /\ ItemsFit /\ KeptApart
  /\ ReadIsWhole /\ RestIsRevoked
  /\ Fixed => SecretsAreHeld /\ Accounted
=============================================================================
