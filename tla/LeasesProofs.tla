---------------------------- MODULE LeasesProofs ----------------------------
(***************************************************************************)
(* The safety properties of Leases, for any number of objects, Secrets,    *)
(* keys, leases and faults: types; that its passes are PassLoop's and its  *)
(* leases are Roles'; then LInv, part by part, and what follows from it.   *)
(*                                                                         *)
(* The parts depend on each other in the order of the module: the shape of *)
(* a pass, its object, the states of the leases it knows of, the items it  *)
(* applies, that kept and revoked leases are apart, that what was read is  *)
(* revoked or kept, and last that every lease is somewhere.  They survive  *)
(* a second operator; only the two refinements assume that there is none   *)
(* (Alone), and the last part that no secretName is edited (Fixed).        *)
(***************************************************************************)
EXTENDS Leases, FiniteSetTheorems, TLAPS

-----------------------------------------------------------------------------
(* Types.                                                                  *)

\* Where a pass can be.
LEMMA Stages ==
  /\ "idle" \in PC /\ "read" \in PC /\ "sync" \in PC /\ "work" \in PC
  /\ "leasework" \in PC /\ "envelope" \in PC /\ "apply" \in PC
  /\ "complete" \in PC /\ "revoke" \in PC /\ "store" \in PC /\ "unfinalize" \in PC
  /\ "current" \in Fate /\ "edited" \in Fate /\ "gone" \in Fate
  /\ "work" \in Back /\ "envelope" \in Back /\ "revoke" \in Back
BY DEF PC, Fate, Back

\* The constants the types are made of.
LEMMA Values ==
  /\ NoPass \in Pass /\ NoIDs \in LeaseIDs /\ NoSecret \in Secret
  /\ IDs(NoIDs) = {}
  /\ \A ids \in LeaseIDs : IDs(ids) \subseteq Lease
  /\ NoLease \notin Lease
<1>1. NoIDs \in LeaseIDs /\ NoLease \notin Lease
  BY LeaseAssumption DEF NoIDs, LeaseIDs, NoLease, Lease
<1>2. NoSecret \in Secret
  BY <1>1 DEF NoSecret, Secret
<1>3. IDs(NoIDs) = {}
  BY DEF IDs, NoIDs
<1>4. \A ids \in LeaseIDs : IDs(ids) \subseteq Lease
  BY DEF IDs, LeaseIDs
<1>5. (CHOOSE n \in Name : TRUE) \in Name
  BY NameAssumption
<1>6. NoPass \in Pass
  BY <1>1, <1>5, Stages DEF NoPass, Pass
<1> QED BY <1>1, <1>2, <1>3, <1>4, <1>6

\* A pass that fails leaves nothing behind but the leases it held.
LEMMA AbandonTypes ==
  ASSUME TypeOK, Abandon
  PROVE  p' \in Pass /\ lost' \in SUBSET Lease /\ revoked' = revoked /\ minted' = minted
<1>1. p.made \in LeaseIDs
  BY DEF TypeOK, Pass
<1> QED BY <1>1, Values DEF Abandon, TypeOK

\* The platform's answers are about leases.
LEMMA WorkTypes ==
  /\ \A l \in Lease : WorkOf(l) \subseteq Item
  /\ Offered \subseteq Item
  /\ Fresh \subseteq Lease
  /\ \A l \in Lease : Ended(l) \in LeaseState
BY DEF WorkOf, Offered, Fresh, Ended, Item, LeaseState

\* An object goes, and its Secrets are left to the garbage collector.
LEMMA RemovedTypes ==
  ASSUME TypeOK, NEW c, Removed(c)
  PROVE  obj' \in [CR -> Object] /\ secret' \in [Name -> Secret]
<1>1. obj' \in [CR -> Object]
  BY DEF TypeOK, Removed, Object
<1>2. secret' \in [Name -> Secret]
  BY DEF TypeOK, Removed, Secret
<1> QED BY <1>1, <1>2

\* A stimulus or a fault is paid for.
LEMMA SpendTypes == ASSUME TypeOK, NEW kind, Spend(kind) PROVE budget' \in 0 .. MaxTrouble
BY LeaseAssumption DEF TypeOK, Spend

-----------------------------------------------------------------------------
(* What each step of a pass does to it, field by field.                    *)

SameOwner == p'.cr = p.cr /\ p'.name = p.name /\ p'.deleting = p.deleting /\ p'.raw = p.raw
SameIDs == p'.existing = p.existing /\ p'.made = p.made
SameWork == p'.work = p.work /\ p'.item = p.item /\ p'.then = p.then
SameHints == p'.todo = p.todo /\ p'.key = p.key

\* The fields of a typed pass.
LEMMA PassFields ==
  ASSUME p \in Pass
  PROVE  /\ p.existing \in LeaseIDs /\ p.made \in LeaseIDs /\ p.name \in Name
         /\ p.work \subseteq Item /\ p.item \subseteq Item /\ p.todo \subseteq Key
         /\ p.list \subseteq Lease /\ p.key \subseteq Key /\ p.cr \in CR \cup {NoCR}
         /\ p.deleting \in BOOLEAN /\ p.pc \in PC /\ p.raw \in Fate
BY DEF Pass

\* Goto moves the pass and changes nothing else.
LEMMA GotoEffect ==
  ASSUME p \in Pass, NEW pc \in PC, Goto(pc)
  PROVE  /\ p' \in Pass /\ p'.pc = pc /\ p'.list = p.list
         /\ SameOwner /\ SameIDs /\ SameWork /\ SameHints
BY DEF Goto, Pass, SameOwner, SameIDs, SameWork, SameHints

\* readLeaseIDs: the ids go to the map of a sync or to the list of a deletion.
LEMMA TakeLeaseIDsEffect ==
  ASSUME p \in Pass, NEW ids \in LeaseIDs, TakeLeaseIDs(ids)
  PROVE  /\ p' \in Pass
         /\ p'.pc = (IF p.deleting THEN "revoke" ELSE "sync")
         /\ p'.existing = ids /\ p'.made = p.made
         /\ p'.list = (IF p.deleting THEN IDs(ids) ELSE {})
         /\ SameOwner /\ SameWork /\ SameHints
<1> DEFINE list == IF p.deleting THEN IDs(ids) ELSE {}
           pc == IF p.deleting THEN "revoke" ELSE "sync"
<1>1. list \in SUBSET Lease /\ pc \in PC
  BY Values, Stages
<1>2. p' = [p EXCEPT !.existing = ids, !.list = list, !.pc = pc]
  BY DEF TakeLeaseIDs
<1> HIDE DEF list, pc
<1>3. p' \in Pass
  BY <1>1, <1>2 DEF Pass
<1>4. p'.pc = pc /\ p'.existing = ids /\ p'.made = p.made /\ p'.list = list
  BY <1>2 DEF Pass
<1>5. SameOwner /\ SameWork /\ SameHints
  BY <1>2 DEF Pass, SameOwner, SameWork, SameHints
<1> QED BY <1>3, <1>4, <1>5 DEF list, pc

\* SyncDynamic: the hints and the work that is offered, or nothing to do at all.
LEMMA SyncDynamicEffect ==
  ASSUME p \in Pass, hints \in SUBSET Key, SyncDynamic
  PROVE  /\ p' \in Pass /\ p'.list = p.list /\ SameOwner /\ SameIDs
         /\ p'.item = p.item /\ p'.then = p.then /\ p'.key = p.key
         /\ \/ p.existing = NoIDs /\ p'.pc = "store" /\ p'.work = p.work
            \/ p'.pc = "work" /\ p'.work \in {p.work, Offered}
<1> DEFINE Effect == /\ p' \in Pass /\ p'.list = p.list /\ SameOwner /\ SameIDs
                     /\ p'.item = p.item /\ p'.then = p.then /\ p'.key = p.key
<1>1. CASE p.existing = NoIDs /\ Goto("store")
  BY <1>1, Stages, GotoEffect DEF SameWork, SameHints
<1>2. CASE p' = [p EXCEPT !.pc = "work", !.todo = hints, !.work = Offered]
  <2>1. p' \in Pass
    BY <1>2, Stages, WorkTypes DEF Pass
  <2>2. Effect /\ p'.pc = "work" /\ p'.work = Offered
    BY <1>2, <2>1 DEF Pass, SameOwner, SameIDs
  <2> QED BY <2>2
<1>3. CASE p' = [p EXCEPT !.pc = "work", !.todo = hints]
  <2>1. p' \in Pass
    BY <1>3, Stages DEF Pass
  <2>2. Effect /\ p'.pc = "work" /\ p'.work = p.work
    BY <1>3, <2>1 DEF Pass, SameOwner, SameIDs
  <2> QED BY <2>2
<1> QED BY <1>1, <1>2, <1>3 DEF SyncDynamic

\* applyOwnWork: one item of the batch.
LEMMA OwnWorkEffect ==
  ASSUME p \in Pass, OwnWork
  PROVE  /\ p' \in Pass /\ p'.pc = "apply" /\ p'.then = "work" /\ p'.list = p.list
         /\ SameOwner /\ SameIDs /\ SameHints
         /\ \E i \in p.work : p'.work = p.work \ {i} /\ p'.item = {i}
<1>1. PICK i \in p.work :
        p' = [p EXCEPT !.pc = "apply", !.work = @ \ {i}, !.item = {i}, !.then = "work"]
  BY DEF OwnWork
<1>2. p' \in Pass
  BY <1>1, PassFields, Stages DEF Pass
<1>3. p'.pc = "apply" /\ p'.then = "work" /\ p'.list = p.list /\ SameOwner
  BY <1>1 DEF Pass, SameOwner
<1>4. SameIDs /\ SameHints /\ p'.work = p.work \ {i} /\ p'.item = {i}
  BY <1>1 DEF Pass, SameIDs, SameHints
<1> QED BY <1>2, <1>3, <1>4

\* ensureLease keeps the lease on record.
LEMMA ReuseLeaseEffect ==
  ASSUME p \in Pass, ReuseLease
  PROVE  /\ p' \in Pass /\ p'.pc = p.pc /\ p'.list = p.list /\ p'.key = p.key
         /\ SameOwner /\ SameWork /\ p'.existing = p.existing
         /\ \E k \in Key : /\ p.existing[k] \in Lease /\ lease[p.existing[k]] = "active"
                           /\ p'.made = [p.made EXCEPT ![k] = p.existing[k]]
<1>1. PICK k \in p.todo :
        /\ p.existing[k] # NoLease /\ lease[p.existing[k]] = "active"
        /\ p' = [p EXCEPT !.todo = @ \ {k}, !.made[k] = p.existing[k]]
  BY DEF ReuseLease
<1> DEFINE made == [p.made EXCEPT ![k] = p.existing[k]]
<1>2. k \in Key /\ p.existing[k] \in Lease /\ made \in LeaseIDs
  BY <1>1, PassFields DEF LeaseIDs
<1>3. p' = [p EXCEPT !.todo = p.todo \ {k}, !.made = made]
  BY <1>1
<1> HIDE DEF made
<1>4. p' \in Pass
  BY <1>2, <1>3, PassFields DEF Pass
<1>5. p'.pc = p.pc /\ p'.list = p.list /\ p'.key = p.key /\ SameOwner /\ SameWork
  BY <1>3 DEF Pass, SameOwner, SameWork
<1>6. p'.existing = p.existing /\ p'.made = made
  BY <1>3 DEF Pass
<1> QED BY <1>1, <1>2, <1>4, <1>5, <1>6 DEF made

\* ensureLease requests a lease the platform has not handed out before.
LEMMA RequestLeaseEffect ==
  ASSUME p \in Pass, RequestLease
  PROVE  /\ p' \in Pass /\ p'.pc = "leasework" /\ p'.list = p.list
         /\ SameOwner /\ SameWork /\ p'.existing = p.existing
         /\ \E k \in Key, l \in Lease :
              /\ lease[l] = "free" /\ lease' = [lease EXCEPT ![l] = "wanted"]
              /\ minted' = [minted EXCEPT ![l] = p.cr]
              /\ p'.key = {k} /\ p'.made = [p.made EXCEPT ![k] = l]
<1>1. PICK k \in p.todo, l \in Fresh :
        /\ lease' = [lease EXCEPT ![l] = "wanted"]
        /\ minted' = [minted EXCEPT ![l] = p.cr]
        /\ p' = [p EXCEPT !.pc = "leasework", !.todo = @ \ {k}, !.key = {k}, !.made[k] = l]
  BY DEF RequestLease
<1> DEFINE made == [p.made EXCEPT ![k] = l]
<1>2. k \in Key /\ l \in Lease /\ lease[l] = "free" /\ made \in LeaseIDs
  BY <1>1, PassFields DEF LeaseIDs, Fresh
<1>3. p' = [p EXCEPT !.pc = "leasework", !.todo = p.todo \ {k}, !.key = {k}, !.made = made]
  BY <1>1
<1> HIDE DEF made
<1>4. p' \in Pass
  BY <1>2, <1>3, PassFields, Stages DEF Pass
<1>5. p'.pc = "leasework" /\ p'.list = p.list /\ p'.key = {k} /\ SameOwner /\ SameWork
  BY <1>3 DEF Pass, SameOwner, SameWork
<1>6. p'.existing = p.existing /\ p'.made = made
  BY <1>3 DEF Pass
<1> QED BY <1>1, <1>2, <1>4, <1>5, <1>6 DEF made

\* applyLeaseWork: the work of the lease just requested, or the end of the pass.
LEMMA LeaseWorkEffect ==
  ASSUME p \in Pass, LeaseWork
  PROVE  \/ Abandon
         \/ /\ p' \in Pass /\ p'.pc = "apply" /\ p'.then = "envelope" /\ p'.list = p.list
            /\ p'.work = p.work /\ SameOwner /\ SameIDs /\ SameHints
            /\ \E l \in Requested \cap Lease : p'.item = WorkOf(l) /\ WorkOf(l) # {}
            /\ UNCHANGED history
<1>1. CASE Abandon
  BY <1>1
<1>2. CASE ~Abandon
  <2>1. PICK l \in Requested : /\ WorkOf(l) # {} /\ UNCHANGED history
                               /\ p' = [p EXCEPT !.pc = "apply", !.item = WorkOf(l), !.then = "envelope"]
    BY <1>2 DEF LeaseWork
  <2>2. l \in Lease /\ WorkOf(l) \subseteq Item
    BY PassFields, WorkTypes DEF Requested, LeaseIDs
  <2> DEFINE item == WorkOf(l)
  <2>3. p' = [p EXCEPT !.pc = "apply", !.item = item, !.then = "envelope"] /\ item \subseteq Item
    BY <2>1, <2>2
  <2> HIDE DEF item
  <2>4. p' \in Pass
    BY <2>3, Stages DEF Pass
  <2>5. /\ p'.pc = "apply" /\ p'.then = "envelope" /\ p'.list = p.list /\ p'.work = p.work
        /\ SameOwner /\ SameIDs /\ SameHints /\ p'.item = item
    BY <2>3 DEF Pass, SameOwner, SameIDs, SameHints
  <2> QED BY <2>1, <2>2, <2>4, <2>5 DEF item
<1> QED BY <1>1, <1>2

\* readMinted finds the lease handed out, or the pass ends.
LEMMA ReadEnvelopeEffect ==
  ASSUME p \in Pass, ReadEnvelope
  PROVE  \/ Abandon
         \/ /\ p' \in Pass /\ p'.pc = "work" /\ p'.key = {} /\ p'.list = p.list
            /\ SameOwner /\ SameIDs /\ SameWork
            /\ \E l \in Requested : lease[l] = "active"
            /\ UNCHANGED history
<1>1. CASE ~Abandon
  <2>1. PICK l \in Requested : /\ lease[l] = "active" /\ UNCHANGED history
                               /\ p' = [p EXCEPT !.pc = "work", !.key = {}]
    BY <1>1 DEF ReadEnvelope
  <2>2. p' \in Pass
    BY <2>1, Stages DEF Pass
  <2> QED BY <2>1, <2>2 DEF Pass, SameOwner, SameIDs, SameWork
<1> QED BY <1>1

\* The stale leases are to be revoked.
LEMMA HintsDoneEffect ==
  ASSUME p \in Pass, HintsDone
  PROVE  /\ p' \in Pass /\ p'.pc = "revoke" /\ p'.list = Stale(p.existing, p.made)
         /\ SameOwner /\ SameIDs /\ SameWork /\ SameHints
<1> DEFINE list == Stale(p.existing, p.made)
<1>1. list \subseteq Lease
  BY PassFields DEF Stale, LeaseIDs
<1>2. p' = [p EXCEPT !.pc = "revoke", !.list = list]
  BY DEF HintsDone
<1> HIDE DEF list
<1>3. p' \in Pass
  BY <1>1, <1>2, Stages DEF Pass
<1> QED BY <1>2, <1>3 DEF Pass, SameOwner, SameIDs, SameWork, SameHints, list

\* The platform takes the completion of an item, or the pass ends.
LEMMA CompleteEffect ==
  ASSUME p \in Pass, Complete
  PROVE  \/ Abandon /\ UNCHANGED <<lease, provider>>
         \/ /\ p' \in Pass /\ p'.pc = p.then /\ p'.item = {} /\ p'.work = p.work
            /\ p'.then = p.then /\ p'.list = p.list /\ SameOwner /\ SameIDs /\ SameHints
            /\ UNCHANGED history
            /\ \E i \in p.item :
                 /\ i \in WorkOf(i.lease)
                 /\ \/ /\ i.action = "create"
                       /\ lease' = [lease EXCEPT ![i.lease] = "active"]
                       /\ role' = [role EXCEPT ![i.lease] = TRUE]
                       /\ stray' = [stray EXCEPT ![i.lease] = @ - 1]
                    \/ /\ i.action # "create"
                       /\ lease' = [lease EXCEPT ![i.lease] = "over"]
                       /\ UNCHANGED provider
<1>1. CASE ~(Abandon /\ UNCHANGED <<lease, provider>>)
  <2>1. PICK i \in p.item :
          /\ i \in WorkOf(i.lease) /\ p' = [p EXCEPT !.pc = p.then, !.item = {}]
          /\ UNCHANGED history
          /\ IF i.action = "create"
             THEN /\ lease' = [lease EXCEPT ![i.lease] = "active"]
                  /\ role' = [role EXCEPT ![i.lease] = TRUE]
                  /\ stray' = [stray EXCEPT ![i.lease] = @ - 1]
             ELSE /\ lease' = [lease EXCEPT ![i.lease] = "over"]
                  /\ UNCHANGED provider
    BY <1>1 DEF Complete
  <2>2. p.then \in Back /\ p.then \in PC
    BY Stages DEF Pass, Back
  <2>3. p' \in Pass
    BY <2>1, <2>2 DEF Pass
  <2>4. /\ p'.pc = p.then /\ p'.item = {} /\ p'.work = p.work /\ p'.then = p.then
        /\ p'.list = p.list /\ SameOwner /\ SameIDs /\ SameHints
    BY <2>1 DEF Pass, SameOwner, SameIDs, SameHints
  <2> QED BY <2>1, <2>3, <2>4
<1> QED BY <1>1

\* A lease of the list is revoked at the platform; its work is to be applied.
LEMMA RevokeOneEffect ==
  ASSUME p \in Pass, RevokeOne
  PROVE  /\ p' \in Pass /\ SameOwner /\ SameIDs /\ SameHints /\ p'.work = p.work
         /\ \E l \in p.list :
              /\ lease' = [lease EXCEPT ![l] = Ended(l)]
              /\ revoked' = revoked \cup {l} /\ p'.list = p.list \ {l}
              /\ \/ /\ Ended(l) = "over" /\ p'.pc = p.pc
                    /\ p'.item = p.item /\ p'.then = p.then
                 \/ /\ Ended(l) # "over" /\ p'.pc = "apply" /\ p'.then = "revoke"
                    /\ p'.item = {[lease |-> l, action |-> "revoke"]}
<1>1. PICK l \in p.list :
        /\ lease' = [lease EXCEPT ![l] = Ended(l)]
        /\ revoked' = revoked \cup {l}
        /\ p' = IF Ended(l) = "over" THEN [p EXCEPT !.list = @ \ {l}]
                ELSE [p EXCEPT !.pc = "apply", !.list = @ \ {l}, !.then = "revoke",
                               !.item = {[lease |-> l, action |-> "revoke"]}]
  BY DEF RevokeOne
<1>2. CASE Ended(l) = "over"
  <2>1. p' = [p EXCEPT !.list = @ \ {l}]
    BY <1>1, <1>2
  <2>2. p' \in Pass
    BY <2>1, PassFields DEF Pass
  <2>3. /\ SameOwner /\ SameIDs /\ SameHints /\ p'.work = p.work /\ p'.list = p.list \ {l}
        /\ p'.pc = p.pc /\ p'.item = p.item /\ p'.then = p.then
    BY <2>1 DEF Pass, SameOwner, SameIDs, SameHints
  <2> QED BY <1>1, <1>2, <2>2, <2>3
<1>3. CASE Ended(l) # "over"
  <2> DEFINE item == {[lease |-> l, action |-> "revoke"]}
  <2>1. p' = [p EXCEPT !.pc = "apply", !.list = @ \ {l}, !.then = "revoke", !.item = item]
    BY <1>1, <1>3
  <2>2. item \subseteq Item
    BY PassFields DEF Item
  <2> HIDE DEF item
  <2>3. p' \in Pass
    BY <2>1, <2>2, PassFields, Stages DEF Pass
  <2>4. /\ SameOwner /\ SameIDs /\ SameHints /\ p'.work = p.work /\ p'.list = p.list \ {l}
        /\ p'.pc = "apply" /\ p'.item = item /\ p'.then = "revoke"
    BY <2>1 DEF Pass, SameOwner, SameIDs, SameHints
  <2> QED BY <1>1, <1>3, <2>3, <2>4 DEF item
<1> QED BY <1>2, <1>3

-----------------------------------------------------------------------------
(* Types are kept.                                                         *)

\* The steps of a pass.
LEMMA PassTypes ==
  ASSUME TypeOK, PassShape, PassStep
  PROVE  TypeOK'
<1> USE DEF TypeOK, kube, platform, provider, history
<1>0. /\ p \in Pass /\ p.existing \in LeaseIDs /\ p.made \in LeaseIDs /\ p.name \in Name
      /\ p.item \subseteq Item /\ p.list \subseteq Lease
  BY PassFields
<1>s. \A n \in Name : secret[n] \in Secret /\ secret[n].ann \in LeaseIDs
  BY DEF Secret
<1>1. CASE ReadLeaseIDs
  <2>1. p' \in Pass
    BY <1>0, <1>1, <1>s, Values, TakeLeaseIDsEffect DEF ReadLeaseIDs
  <2>2. budget' \in 0 .. MaxTrouble
    BY <1>1, SpendTypes DEF ReadLeaseIDs
  <2>3. lost' \subseteq Lease
    BY <1>0, <1>1, <1>s, Values DEF ReadLeaseIDs
  <2> QED BY <1>1, <2>1, <2>2, <2>3 DEF ReadLeaseIDs
<1>2. CASE SyncDynamic
  <2>1. budget' \in 0 .. MaxTrouble
    BY <1>2, SpendTypes DEF SyncDynamic
  <2> QED BY <1>0, <1>2, <2>1, SyncDynamicEffect DEF SyncDynamic
<1>3. CASE OwnWork
  BY <1>0, <1>3, OwnWorkEffect DEF OwnWork
<1>4. CASE ReuseLease
  BY <1>0, <1>4, ReuseLeaseEffect DEF ReuseLease
<1>5. CASE RequestLease
  <2>1. /\ minted' \in [Lease -> CR \cup {NoCR}] /\ lease' \in [Lease -> LeaseState]
        /\ p' \in Pass
    <3>1. p.cr \in CR \cup {NoCR}
      BY <1>0, PassFields
    <3> QED BY <1>0, <1>5, <3>1, RequestLeaseEffect DEF LeaseState
  <2>2. budget' \in 0 .. MaxTrouble
    BY <1>5, SpendTypes DEF RequestLease
  <2> QED BY <1>5, <2>1, <2>2 DEF RequestLease
<1>6. CASE LeaseWork
  BY <1>0, <1>6, LeaseWorkEffect, AbandonTypes DEF LeaseWork
<1>7. CASE ReadEnvelope
  BY <1>0, <1>7, ReadEnvelopeEffect, AbandonTypes DEF ReadEnvelope
<1>8. CASE HintsDone
  BY <1>0, <1>8, HintsDoneEffect DEF HintsDone
<1>9. CASE Apply
  <2>1. p' \in Pass
    BY <1>0, <1>9, GotoEffect, Stages DEF Apply
  <2>2. PICK i \in p.item :
          IF i.action = "create"
          THEN stray' = [stray EXCEPT ![i.lease] = @ + 1] /\ UNCHANGED role
          ELSE role' = [role EXCEPT ![i.lease] = FALSE] /\ UNCHANGED stray
    BY <1>9 DEF Apply
  <2>3. i.lease \in Lease
    BY <1>0 DEF Item
  <2>4. role' \in [Lease -> BOOLEAN] /\ stray' \in [Lease -> Nat]
    <3>1. CASE i.action = "create"
      BY <2>2, <2>3, <3>1
    <3>2. CASE i.action # "create"
      BY <2>2, <2>3, <3>2
    <3> QED BY <3>1, <3>2
  <2> QED BY <1>9, <2>1, <2>4 DEF Apply
<1>10. CASE RevokeOne
  <2>1. PICK l \in p.list : /\ lease' = [lease EXCEPT ![l] = Ended(l)]
                            /\ revoked' = revoked \cup {l}
    BY <1>0, <1>10, RevokeOneEffect
  <2>2. lease' \in [Lease -> LeaseState] /\ revoked' \subseteq Lease
    BY <1>0, <2>1, WorkTypes
  <2> QED BY <1>0, <1>10, <2>2, RevokeOneEffect DEF RevokeOne
<1>11. CASE RevokedAll
  <2>1. p' \in Pass
    BY <1>0, <1>11, GotoEffect, Stages DEF RevokedAll
  <2> QED BY <1>11, <2>1 DEF RevokedAll
<1>12. CASE Complete
  <2>1. p' \in Pass /\ lost' \in SUBSET Lease /\ revoked' = revoked /\ minted' = minted
    BY <1>0, <1>12, CompleteEffect, AbandonTypes
  <2>2. lease' \in [Lease -> LeaseState] /\ role' \in [Lease -> BOOLEAN] /\ stray' \in [Lease -> Nat]
    <3>1. CASE UNCHANGED <<lease, provider>>
      BY <3>1
    <3>2. CASE ~UNCHANGED <<lease, provider>>
      <4>1. PICK i \in p.item :
              \/ /\ i.action = "create"
                 /\ lease' = [lease EXCEPT ![i.lease] = "active"]
                 /\ role' = [role EXCEPT ![i.lease] = TRUE]
                 /\ stray' = [stray EXCEPT ![i.lease] = @ - 1]
              \/ /\ lease' = [lease EXCEPT ![i.lease] = "over"]
                 /\ UNCHANGED provider
        BY <1>0, <1>12, <3>2, CompleteEffect
      <4>2. i.lease \in Lease /\ (i.action = "create" => stray[i.lease] > 0)
        BY <1>0, <1>12 DEF Item, PassShape, Complete, At
      <4>3. CASE i.action = "create" /\ stray' = [stray EXCEPT ![i.lease] = @ - 1]
        <5>1. stray[i.lease] - 1 \in Nat
          BY <4>2, <4>3
        <5> QED BY <4>1, <4>2, <4>3, <5>1 DEF LeaseState
      <4>4. CASE UNCHANGED provider /\ lease' = [lease EXCEPT ![i.lease] = "over"]
        BY <4>2, <4>4 DEF LeaseState
      <4> QED BY <4>1, <4>3, <4>4
    <3> QED BY <3>1, <3>2
  <2> QED BY <1>12, <2>1, <2>2 DEF Complete
<1>13. CASE ApplySecret
  <2>1. CASE Abandon /\ UNCHANGED secret
    BY <1>13, <2>1, AbandonTypes DEF ApplySecret
  <2>2. CASE ~(Abandon /\ UNCHANGED secret)
    <3> DEFINE s == [there |-> TRUE, owner |-> p.cr, dead |-> p.raw = "gone",
                     ann |-> Annotated(secret[p.name].ann, p.made), data |-> p.made]
    <3>1. /\ secret' = [secret EXCEPT ![p.name] = s]
          /\ p' = NoPass /\ lost' \in {lost, lost \cup IDs(p.made)}
          /\ UNCHANGED <<revoked, minted>>
      BY <1>13, <2>2 DEF ApplySecret
    <3>2. s \in Secret
      BY <1>0, <1>s, PassFields DEF Secret, Annotated
    <3> HIDE DEF s
    <3>3. secret' \in [Name -> Secret]
      BY <3>1, <3>2
    <3> QED BY <1>0, <1>13, <3>1, <3>3, Values DEF ApplySecret
  <2> QED BY <2>1, <2>2
<1>14. CASE Unfinalize
  <2>1. CASE Abandon /\ UNCHANGED kube
    BY <1>14, <2>1, AbandonTypes DEF Unfinalize
  <2>2. CASE Removed(p.cr) /\ p' = NoPass /\ UNCHANGED history
    BY <1>14, <2>2, Values, RemovedTypes DEF Unfinalize
  <2> QED BY <1>14, <2>1, <2>2 DEF Unfinalize
<1> QED BY <1>1, <1>2, <1>3, <1>4, <1>5, <1>6, <1>7, <1>8, <1>9, <1>10, <1>11, <1>12,
           <1>13, <1>14 DEF PassStep

\* Every other step.
LEMMA StepTypes ==
  ASSUME TypeOK, PassShape, [Next]_vars
  PROVE  TypeOK'
<1> USE DEF TypeOK, kube, platform, provider, history
<1>0. p \in Pass /\ p.made \in LeaseIDs /\ p.item \subseteq Item
  BY PassFields
<1>s. \A n \in Name : secret[n] \in Secret /\ secret[n].ann \in LeaseIDs
  BY DEF Secret
<1>b. ASSUME NEW kind, Spend(kind) PROVE budget' \in 0 .. MaxTrouble
  BY <1>b, SpendTypes
<1>1. ASSUME NEW c \in CR, Begin(c) PROVE TypeOK'
  <2>1. obj' \in [CR -> Object] /\ obj[c].name \in Name
    BY <1>1 DEF Begin, Object
  <2> DEFINE del == obj[c].state = "deleting"
  <2>2. p' = [NoPass EXCEPT !.pc = "read", !.cr = c, !.name = obj[c].name, !.deleting = del]
    BY <1>1 DEF Begin
  <2>3. del \in BOOLEAN
    OBVIOUS
  <2> HIDE DEF del
  <2>4. p' \in Pass
    BY <2>1, <2>2, <2>3, Values, Stages DEF Pass
  <2> QED BY <1>1, <2>1, <2>4 DEF Begin
<1>2. CASE PassStep
  BY <1>2, PassTypes
<1>3. CASE Fail
  <2>1. p' \in Pass /\ lost' \in SUBSET Lease /\ revoked' = revoked /\ minted' = minted
    BY <1>3, AbandonTypes DEF Fail
  <2>2. stray' \in [Lease -> Nat] /\ lease' \in [Lease -> LeaseState]
    <3>1. CASE UNCHANGED <<lease, stray>>
      BY <3>1
    <3>2. CASE ~UNCHANGED <<lease, stray>>
      <4>1. PICK i \in p.item :
              /\ stray' \in {stray, [stray EXCEPT ![i.lease] = @ + 1]}
              /\ lease' \in {lease, [lease EXCEPT ![i.lease] = "over"]}
        BY <1>3, <3>2 DEF Fail
      <4>2. i.lease \in Lease
        BY <1>0 DEF Item
      <4> QED BY <4>1, <4>2 DEF LeaseState
    <3> QED BY <3>1, <3>2
  <2> QED BY <1>3, <1>b, <2>1, <2>2 DEF Fail
<1>4. ASSUME NEW c \in CR, CreateObject(c) PROVE TypeOK'
  BY <1>4, <1>b DEF CreateObject, Object
<1>5. ASSUME NEW c \in CR, DeleteObject(c) PROVE TypeOK'
  <2>1. obj' \in [CR -> Object] /\ secret' \in [Name -> Secret]
    <3>1. CASE Removed(c)
      BY <3>1, RemovedTypes
    <3>2. CASE obj' = [obj EXCEPT ![c].state = "deleting"] /\ UNCHANGED secret
      BY <3>2 DEF Object
    <3> QED BY <1>5, <3>1, <3>2 DEF DeleteObject
  <2> QED BY <1>5, <1>b, <2>1 DEF DeleteObject
<1>6. ASSUME NEW c \in CR, Retarget(c) PROVE TypeOK'
  <2>1. obj' \in [CR -> Object]
    BY <1>6 DEF Retarget, Object
  <2>2. p' \in Pass
    <3> DEFINE raw == IF p.cr = c /\ p.raw = "current" THEN "edited" ELSE p.raw
    <3>1. raw \in Fate
      BY <1>0, PassFields, Stages
    <3>2. p' = [p EXCEPT !.raw = raw]
      BY <1>6 DEF Retarget
    <3> HIDE DEF raw
    <3> QED BY <1>0, <3>1, <3>2 DEF Pass
  <2> QED BY <1>6, <1>b, <2>1, <2>2 DEF Retarget
<1>7. ASSUME NEW c \in CR, OtherRevokes(c) PROVE TypeOK'
  <2>1. obj' \in [CR -> Object] /\ secret' \in [Name -> Secret]
    BY <1>7, RemovedTypes DEF OtherRevokes
  <2>2. p' \in Pass
    <3> DEFINE raw == IF p.cr = c THEN "gone" ELSE p.raw
    <3>1. raw \in Fate
      BY <1>0, PassFields, Stages
    <3>2. p' = [p EXCEPT !.raw = raw]
      BY <1>7 DEF OtherRevokes
    <3> HIDE DEF raw
    <3> QED BY <1>0, <3>1, <3>2 DEF Pass
  <2>3. lease' \in [Lease -> LeaseState] /\ role' \in [Lease -> BOOLEAN]
    BY <1>7 DEF OtherRevokes, LeaseState
  <2> QED BY <1>7, <1>b, <2>1, <2>2, <2>3 DEF OtherRevokes
<1>8. ASSUME NEW c \in CR, NEW k \in Key, OtherMints(c, k) PROVE TypeOK'
  <2> DEFINE n == obj[c].name
             old == secret[n].ann[k]
  <2>0. n \in Name
    BY DEF Object
  <2>1. PICK l \in Fresh :
          /\ lease' = [m \in Lease |-> IF m = l THEN "active" ELSE IF m = old THEN "over" ELSE lease[m]]
          /\ role' = [m \in Lease |-> m = l \/ (role[m] /\ m # old)]
          /\ secret' = [secret EXCEPT ![n].ann[k] = l, ![n].data[k] = l, ![n].dead = FALSE]
          /\ minted' = [minted EXCEPT ![l] = c]
          /\ lost' \in {lost, lost \cup {l}}
    BY <1>8 DEF OtherMints
  <2>2. l \in Lease
    BY WorkTypes
  <2>3. lease' \in [Lease -> LeaseState] /\ role' \in [Lease -> BOOLEAN]
    BY <2>1 DEF LeaseState
  <2>4. secret' \in [Name -> Secret]
    <3> DEFINE s == [secret[n] EXCEPT !.ann[k] = l, !.data[k] = l, !.dead = FALSE]
    <3>1. s \in Secret
      BY <1>s, <2>0, <2>2 DEF Secret, LeaseIDs
    <3>2. secret' = [secret EXCEPT ![n] = s]
      BY <2>0, <2>1
    <3> QED BY <2>0, <3>1, <3>2
  <2>5. minted' \in [Lease -> CR \cup {NoCR}] /\ lost' \in SUBSET Lease
    BY <2>1, <2>2
  <2> QED BY <1>8, <1>b, <2>3, <2>4, <2>5 DEF OtherMints
<1>9. ASSUME NEW n \in Name, DropSecret(n) \/ Collect(n) PROVE TypeOK'
  BY <1>9, <1>b, <1>s, Values DEF DropSecret, Collect
<1>10. ASSUME NEW k \in Key, ChangeHints(k) PROVE TypeOK'
  BY <1>10, <1>b DEF ChangeHints
<1>11. ASSUME NEW l \in Lease, Expire(l) PROVE TypeOK'
  BY <1>11, <1>b, WorkTypes DEF Expire
<1>12. CASE UNCHANGED vars
  BY <1>12 DEF vars
<1> QED BY <1>1, <1>2, <1>3, <1>4, <1>5, <1>6, <1>7, <1>8, <1>9, <1>10, <1>11, <1>12
        DEF Next, World

\* What the other operator's pass over an object does when it mints.
LEMMA OtherMintsEffect ==
  ASSUME TypeOK, NEW c \in CR, NEW k \in Key, OtherMints(c, k)
  PROVE  /\ ~Alone /\ UNCHANGED <<obj, p, stray, revoked>>
         /\ obj[c].state = "live" /\ obj[c].fin
         /\ \E l \in Lease, n \in Name :
              /\ lease[l] = "free" /\ lease'[l] = "active"
              /\ \A m \in Lease \ {l} :
                   lease'[m] \in {lease[m], "over"} /\ (role'[m] => role[m])
              /\ n = obj[c].name /\ secret[n].owner = c
              /\ \A m \in Name \ {n} : secret'[m] = secret[m]
              /\ secret'[n].owner = c /\ ~secret'[n].dead
              /\ secret'[n].ann[k] = l
              /\ \A j \in Key \ {k} : secret'[n].ann[j] = secret[n].ann[j]
              /\ secret[n].ann[k] \in Lease \ {l} => lease'[secret[n].ann[k]] = "over"
              /\ p.name = n /\ ~At("idle") /\ ~At("read") => l \in lost'
<1> DEFINE n == obj[c].name
           old == secret[n].ann[k]
<1>0. n \in Name /\ secret[n] \in Secret
  BY DEF TypeOK, Object
<1>1. PICK l \in Fresh :
        /\ lease' = [m \in Lease |-> IF m = l THEN "active" ELSE IF m = old THEN "over" ELSE lease[m]]
        /\ role' = [m \in Lease |-> m = l \/ (role[m] /\ m # old)]
        /\ secret' = [secret EXCEPT ![n].ann[k] = l, ![n].data[k] = l, ![n].dead = FALSE]
        /\ lost' = IF p.name = n /\ ~At("idle") /\ ~At("read") THEN lost \cup {l} ELSE lost
  BY DEF OtherMints
<1>2. l \in Lease /\ lease[l] = "free"
  BY DEF Fresh
<1>3. /\ \A m \in Name \ {n} : secret'[m] = secret[m]
      /\ secret'[n] = [secret[n] EXCEPT !.ann[k] = l, !.data[k] = l, !.dead = FALSE]
  BY <1>0, <1>1 DEF TypeOK
<1>4. /\ secret'[n].ann = [secret[n].ann EXCEPT ![k] = l] /\ secret'[n].dead = FALSE
      /\ secret'[n].owner = secret[n].owner /\ secret[n].ann \in LeaseIDs
  BY <1>0, <1>3 DEF Secret
<1>5. secret'[n].ann[k] = l /\ \A j \in Key \ {k} : secret'[n].ann[j] = secret[n].ann[j]
  BY <1>4 DEF LeaseIDs
<1>6. /\ ~Alone /\ UNCHANGED <<obj, p, stray, revoked>>
      /\ obj[c].state = "live" /\ obj[c].fin /\ secret[n].owner = c
  BY DEF OtherMints, Spend, Alone
<1>7. /\ lease'[l] = "active"
      /\ \A m \in Lease \ {l} : lease'[m] \in {lease[m], "over"} /\ (role'[m] => role[m])
      /\ old \in Lease \ {l} => lease'[old] = "over"
  BY <1>1, <1>2 DEF TypeOK
<1>8. p.name = n /\ ~At("idle") /\ ~At("read") => l \in lost'
  BY <1>1
<1>9. secret'[n].owner = c /\ ~secret'[n].dead /\ n = obj[c].name
  BY <1>4, <1>6
<1> HIDE DEF n
<1>10. \E x \in Lease, m \in Name :
         /\ lease[x] = "free" /\ lease'[x] = "active"
         /\ \A y \in Lease \ {x} : lease'[y] \in {lease[y], "over"} /\ (role'[y] => role[y])
         /\ m = obj[c].name /\ secret[m].owner = c
         /\ \A y \in Name \ {m} : secret'[y] = secret[y]
         /\ secret'[m].owner = c /\ ~secret'[m].dead
         /\ secret'[m].ann[k] = x
         /\ \A j \in Key \ {k} : secret'[m].ann[j] = secret[m].ann[j]
         /\ secret[m].ann[k] \in Lease \ {x} => lease'[secret[m].ann[k]] = "over"
         /\ p.name = m /\ ~At("idle") /\ ~At("read") => x \in lost'
  <2> USE <1>0, <1>2
  <2> WITNESS l \in Lease, n \in Name
  <2> QED BY <1>3, <1>5, <1>6, <1>7, <1>8, <1>9
<1> QED BY <1>6, <1>10

\* And when it revokes the leases of an object and lets it go.
LEMMA OtherRevokesEffect ==
  ASSUME TypeOK, NEW c \in CR, OtherRevokes(c)
  PROVE  /\ ~Alone /\ UNCHANGED <<stray, lost, revoked>> /\ Removed(c)
         /\ \A l \in Lease : lease'[l] \in {lease[l], "over"} /\ (role'[l] => role[l])
         /\ obj[c].name \in Name
         /\ \A l \in IDs(secret[obj[c].name].ann) : lease'[l] = "over"
         /\ \A n \in Name : secret'[n].ann = secret[n].ann /\ secret'[n].owner = secret[n].owner
         /\ p' \in Pass /\ p'.pc = p.pc /\ p'.list = p.list
         /\ p'.cr = p.cr /\ p'.name = p.name /\ p'.deleting = p.deleting
         /\ p'.existing = p.existing /\ p'.made = p.made /\ p'.todo = p.todo /\ p'.key = p.key
         /\ p'.work = p.work /\ p'.item = p.item /\ p'.then = p.then
         /\ p'.raw = (IF p.cr = c THEN "gone" ELSE p.raw)
<1> DEFINE s == secret[obj[c].name]
           raw == IF p.cr = c THEN "gone" ELSE p.raw
<1>0. p \in Pass /\ raw \in Fate /\ obj[c].name \in Name /\ s.ann \in LeaseIDs
  BY PassFields, Stages DEF TypeOK, Object, Secret
<1>1. /\ lease' = [l \in Lease |-> IF l \in IDs(s.ann) THEN "over" ELSE lease[l]]
      /\ role' = [l \in Lease |-> role[l] /\ l \notin IDs(s.ann)]
      /\ Removed(c) /\ p' = [p EXCEPT !.raw = raw]
      /\ ~Alone /\ UNCHANGED <<stray, lost, revoked>>
  BY DEF OtherRevokes, Spend, Alone, history
<1>2. /\ \A l \in Lease : lease'[l] \in {lease[l], "over"} /\ (role'[l] => role[l])
      /\ \A l \in IDs(s.ann) : lease'[l] = "over"
  BY <1>0, <1>1, Values
<1>3. \A n \in Name : secret'[n].ann = secret[n].ann /\ secret'[n].owner = secret[n].owner
  BY <1>1 DEF Removed, TypeOK, Secret
<1> HIDE DEF raw
<1>4. /\ p' \in Pass /\ p'.pc = p.pc /\ p'.list = p.list
      /\ p'.cr = p.cr /\ p'.name = p.name /\ p'.deleting = p.deleting
      /\ p'.existing = p.existing /\ p'.made = p.made /\ p'.todo = p.todo /\ p'.key = p.key
      /\ p'.work = p.work /\ p'.item = p.item /\ p'.then = p.then /\ p'.raw = raw
  BY <1>0, <1>1 DEF Pass
<1> QED BY <1>0, <1>1, <1>2, <1>3, <1>4 DEF raw

-----------------------------------------------------------------------------
(* What each stage of a pass holds.                                        *)

\* A pass that is over holds nothing.
LEMMA IdleShape ==
  ASSUME p' = NoPass
  PROVE  PassShape'
BY Values DEF PassShape, NoPass, At, Applying, Revoking

\* Steps that leave the pass and the strays alone leave its shape alone.
LEMMA SameShape ==
  ASSUME PassShape, UNCHANGED <<p, stray>>
  PROVE  PassShape'
BY DEF PassShape, At, Applying, Revoking

\* Only the pass of an object has a fate.
LEMMA FateShape ==
  ASSUME PassShape, NEW c \in CR, NEW f, p \in Pass, UNCHANGED stray,
         p' = [p EXCEPT !.raw = f], p.cr # c => f = p.raw
  PROVE  PassShape'
<1>1. /\ p'.pc = p.pc /\ p'.list = p.list /\ p'.key = p.key /\ p'.deleting = p.deleting
      /\ SameIDs /\ SameWork
  BY DEF Pass, SameIDs, SameWork
<1>2. At("idle") => p' = p
  <2>1. At("idle") => p.cr # c
    BY OwnerAssumption DEF PassShape, NoPass
  <2> QED BY <2>1 DEF Pass
<1> QED BY <1>1, <1>2 DEF PassShape, At, Applying, Revoking, SameIDs, SameWork

\* The steps of a pass keep its shape.
LEMMA PassStepShape ==
  ASSUME TypeOK, PassShape, PassStep
  PROVE  PassShape'
<1> USE DEF At, Applying, Revoking
<1>0. /\ p \in Pass /\ p.existing \in LeaseIDs /\ p.made \in LeaseIDs /\ p.name \in Name
      /\ p.item \subseteq Item /\ p.list \subseteq Lease
  BY PassFields DEF TypeOK
<1>a. Abandon => PassShape'
  BY IdleShape DEF Abandon
<1>1. CASE ReadLeaseIDs
  <2>1. PICK ids \in LeaseIDs : TakeLeaseIDs(ids)
    BY <1>0, <1>1, Values DEF ReadLeaseIDs, TypeOK, Secret
  <2> QED BY <1>0, <1>1, <2>1, TakeLeaseIDsEffect
          DEF PassShape, ReadLeaseIDs, SameOwner, SameWork, SameHints
<1>2. CASE SyncDynamic
  <2>1. p.pc = "sync" /\ p'.pc \in {"store", "work"}
    BY <1>0, <1>2, SyncDynamicEffect DEF SyncDynamic, TypeOK
  <2>2. /\ SameOwner /\ SameIDs /\ p'.list = p.list
        /\ p'.item = p.item /\ p'.then = p.then /\ p'.key = p.key
    BY <1>0, <1>2, SyncDynamicEffect DEF TypeOK
  <2> QED BY <2>1, <2>2 DEF PassShape, SameOwner, SameIDs
<1>3. CASE OwnWork
  BY <1>0, <1>3, OwnWorkEffect DEF PassShape, OwnWork, SameOwner, SameIDs, SameHints
<1>4. CASE ReuseLease
  BY <1>0, <1>4, ReuseLeaseEffect DEF PassShape, ReuseLease, SameOwner, SameWork
<1>5. CASE RequestLease
  BY <1>0, <1>5, RequestLeaseEffect DEF PassShape, RequestLease, SameOwner, SameWork
<1>6. CASE LeaseWork
  <2>1. \A l \in Lease : \A i, j \in WorkOf(l) : i = j
    BY DEF WorkOf
  <2>2. CASE ~Abandon
    <3>1. /\ p'.pc = "apply" /\ p'.then = "envelope" /\ p'.list = p.list /\ p'.work = p.work
          /\ SameOwner /\ SameIDs /\ SameHints
          /\ \A i, j \in p'.item : i = j
      BY <1>0, <1>6, <2>1, <2>2, LeaseWorkEffect
    <3>2. p.pc = "leasework"
      BY <1>6 DEF LeaseWork
    <3> QED BY <3>1, <3>2 DEF PassShape, SameOwner, SameIDs, SameHints
  <2> QED BY <1>a, <2>2
<1>7. CASE ReadEnvelope
  BY <1>0, <1>7, <1>a, ReadEnvelopeEffect DEF PassShape, ReadEnvelope, SameOwner, SameIDs, SameWork
<1>8. CASE HintsDone
  BY <1>0, <1>8, HintsDoneEffect
     DEF PassShape, HintsDone, SameOwner, SameIDs, SameWork, SameHints
<1>9. CASE Apply
  <2>1. /\ p' \in Pass /\ p'.pc = "complete" /\ p'.list = p.list
        /\ SameOwner /\ SameIDs /\ SameWork /\ SameHints
    BY <1>0, <1>9, GotoEffect, Stages DEF Apply
  <2>2. \A i \in p.item : i.action = "create" => stray'[i.lease] > 0
    BY <1>0, <1>9 DEF PassShape, Apply, TypeOK, Item
  <2> QED BY <1>9, <2>1, <2>2
          DEF PassShape, Apply, SameOwner, SameIDs, SameWork, SameHints
<1>10. CASE RevokeOne
  <2>1. PICK l \in p.list : p'.list = p.list \ {l} /\
              (\/ /\ p'.pc = p.pc /\ p'.item = p.item /\ p'.then = p.then
               \/ /\ p'.pc = "apply" /\ p'.then = "revoke"
                  /\ p'.item = {[lease |-> l, action |-> "revoke"]})
    BY <1>0, <1>10, RevokeOneEffect
  <2>2. SameOwner /\ SameIDs /\ SameHints
    BY <1>0, <1>10, RevokeOneEffect
  <2> QED BY <1>10, <2>1, <2>2 DEF PassShape, RevokeOne, SameOwner, SameIDs, SameHints
<1>11. CASE RevokedAll
  <2> DEFINE pc == IF p.deleting THEN "unfinalize" ELSE "store"
  <2>1. pc \in PC /\ Goto(pc)
    BY <1>11, Stages DEF RevokedAll
  <2>2. /\ p'.pc = pc /\ p'.list = p.list /\ SameOwner /\ SameIDs /\ SameWork /\ SameHints
    BY <1>0, <2>1, GotoEffect
  <2> QED BY <1>11, <2>2 DEF PassShape, RevokedAll, SameOwner, SameIDs, SameWork, SameHints
<1>12. CASE Complete
  <2>1. CASE Abandon
    BY <1>a, <2>1
  <2>2. CASE ~Abandon
    <3>1. /\ p'.pc = p.then /\ p'.item = {} /\ p'.then = p.then /\ p'.list = p.list
          /\ p'.work = p.work /\ SameOwner /\ SameIDs /\ SameHints
      BY <1>0, <1>12, <2>2, CompleteEffect
    <3>2. p.then \in Back
      BY <1>0 DEF Pass
    <3> QED BY <1>12, <3>1, <3>2
            DEF PassShape, Complete, SameOwner, SameIDs, SameHints, Back
  <2> QED BY <2>1, <2>2
<1>13. CASE ApplySecret
  BY <1>13, <1>a, IdleShape DEF ApplySecret
<1>14. CASE Unfinalize
  BY <1>14, <1>a, IdleShape DEF Unfinalize
<1> QED BY <1>1, <1>2, <1>3, <1>4, <1>5, <1>6, <1>7, <1>8, <1>9, <1>10, <1>11, <1>12,
           <1>13, <1>14 DEF PassStep

\* And so does every other step.
LEMMA StepShape ==
  ASSUME TypeOK, PassShape, [Next]_vars
  PROVE  PassShape'
<1> USE DEF kube, platform, provider, history
<1>0. p \in Pass
  BY DEF TypeOK
<1>1. ASSUME NEW c \in CR, Begin(c) PROVE PassShape'
  <2> DEFINE del == obj[c].state = "deleting"
             name == obj[c].name
  <2>1. p' = [NoPass EXCEPT !.pc = "read", !.cr = c, !.name = name, !.deleting = del]
    BY <1>1 DEF Begin
  <2> HIDE DEF del, name
  <2>2. /\ p'.pc = "read" /\ p'.item = {} /\ p'.list = {} /\ p'.key = {}
        /\ p'.made = NoIDs /\ p'.existing = NoIDs
    BY <2>1 DEF NoPass
  <2> QED BY <2>2 DEF PassShape, At, Applying, Revoking
<1>2. CASE PassStep
  BY <1>2, PassStepShape
<1>3. CASE Fail
  BY <1>3, IdleShape DEF Fail, Abandon
<1>4. ASSUME NEW c \in CR, CreateObject(c) \/ DeleteObject(c) PROVE PassShape'
  BY <1>4, SameShape DEF CreateObject, DeleteObject
<1>5. ASSUME NEW c \in CR, Retarget(c) PROVE PassShape'
  <2> DEFINE f == IF p.cr = c /\ p.raw = "current" THEN "edited" ELSE p.raw
  <2>1. p' = [p EXCEPT !.raw = f] /\ UNCHANGED stray /\ (p.cr # c => f = p.raw)
    BY <1>5 DEF Retarget
  <2> HIDE DEF f
  <2> QED BY <1>0, <2>1, FateShape
<1>6. ASSUME NEW c \in CR, OtherRevokes(c) PROVE PassShape'
  <2> DEFINE f == IF p.cr = c THEN "gone" ELSE p.raw
  <2>1. p' = [p EXCEPT !.raw = f] /\ UNCHANGED stray /\ (p.cr # c => f = p.raw)
    BY <1>6 DEF OtherRevokes
  <2> HIDE DEF f
  <2> QED BY <1>0, <2>1, FateShape
<1>7. ASSUME NEW c \in CR, NEW k \in Key, OtherMints(c, k) PROVE PassShape'
  BY <1>7, SameShape DEF OtherMints
<1>8. ASSUME NEW n \in Name, DropSecret(n) \/ Collect(n) PROVE PassShape'
  BY <1>8, SameShape DEF DropSecret, Collect
<1>9. ASSUME NEW k \in Key, ChangeHints(k) PROVE PassShape'
  BY <1>9, SameShape DEF ChangeHints
<1>10. ASSUME NEW l \in Lease, Expire(l) PROVE PassShape'
  BY <1>10, SameShape DEF Expire
<1>11. CASE UNCHANGED vars
  BY <1>11, SameShape DEF vars
<1> QED BY <1>1, <1>2, <1>3, <1>4, <1>5, <1>6, <1>7, <1>8, <1>9, <1>10, <1>11
        DEF Next, World

\* At installation nothing is leased and no pass runs.
LEMMA InitTypes == Init => TypeOK /\ PassShape
<1> SUFFICES ASSUME Init PROVE TypeOK /\ PassShape
  OBVIOUS
<1>1. obj \in [CR -> Object]
  <2>1. \A n \in Name : [state |-> "live", fin |-> FALSE, name |-> n] \in Object
    BY DEF Object
  <2> QED BY <2>1 DEF Init
<1>2. secret \in [Name -> Secret]
  <2>1. [NoSecret EXCEPT !.there = TRUE] \in Secret
    BY Values DEF Secret
  <2> QED BY <2>1, Values DEF Init
<1>3. TypeOK
  BY <1>1, <1>2, Values, LeaseAssumption DEF Init, TypeOK, LeaseState
<1>4. PassShape
  BY Values DEF Init, PassShape, NoPass, At, Applying, Revoking
<1> QED BY <1>3, <1>4

\* Every record the operator and the platform keep has its type, whatever fails
\* and with a second operator at work (SyncDynamic, RevokeLeases, Apply).
THEOREM LeaseTypes == Spec => []TypeOK
<1>1. TypeOK /\ PassShape /\ [Next]_vars => (TypeOK /\ PassShape)'
  BY StepTypes, StepShape
<1> QED BY <1>1, InitTypes, PTL DEF Spec

-----------------------------------------------------------------------------
(* One operator: the passes over a Secret are PassLoop's.                  *)

\* A step of a pass goes on with its object or ends it.
LEMMA PassStepOwner ==
  ASSUME TypeOK, PassStep
  PROVE  /\ ~At("idle")
         /\ \/ UNCHANGED obj /\ SameOwner /\ ~At("unfinalize") /\ p'.pc # "idle"
            \/ UNCHANGED obj /\ p' = NoPass
            \/ At("unfinalize") /\ p.raw = "current" /\ Removed(p.cr) /\ p' = NoPass
<1> USE DEF At, kube
<1>0. p \in Pass
  BY DEF TypeOK
<1>1. CASE ReadLeaseIDs
  <2>1. PICK ids \in LeaseIDs : TakeLeaseIDs(ids)
    BY <1>0, <1>1, Values, PassFields DEF ReadLeaseIDs, TypeOK, Secret
  <2>2. p'.pc \in {"revoke", "sync"} /\ SameOwner
    BY <1>0, <2>1, TakeLeaseIDsEffect
  <2> QED BY <1>1, <2>2 DEF ReadLeaseIDs
<1>2. CASE SyncDynamic
  <2>1. p'.pc \in {"store", "work"} /\ SameOwner
    BY <1>0, <1>2, SyncDynamicEffect DEF TypeOK
  <2> QED BY <1>2, <2>1 DEF SyncDynamic
<1>3. CASE OwnWork
  BY <1>0, <1>3, OwnWorkEffect DEF OwnWork
<1>4. CASE ReuseLease
  BY <1>0, <1>4, ReuseLeaseEffect DEF ReuseLease
<1>5. CASE RequestLease
  BY <1>0, <1>5, RequestLeaseEffect DEF RequestLease
<1>6. CASE LeaseWork
  BY <1>0, <1>6, LeaseWorkEffect DEF LeaseWork, Abandon
<1>7. CASE ReadEnvelope
  BY <1>0, <1>7, ReadEnvelopeEffect DEF ReadEnvelope, Abandon
<1>8. CASE HintsDone
  BY <1>0, <1>8, HintsDoneEffect DEF HintsDone
<1>9. CASE Apply
  BY <1>0, <1>9, GotoEffect, Stages DEF Apply
<1>10. CASE RevokeOne
  <2>1. p'.pc \in {p.pc, "apply"} /\ SameOwner
    BY <1>0, <1>10, RevokeOneEffect
  <2> QED BY <1>10, <2>1 DEF RevokeOne
<1>11. CASE RevokedAll
  <2> DEFINE pc == IF p.deleting THEN "unfinalize" ELSE "store"
  <2>1. pc \in PC /\ Goto(pc)
    BY <1>11, Stages DEF RevokedAll
  <2>2. p'.pc = pc /\ SameOwner
    BY <1>0, <2>1, GotoEffect
  <2> QED BY <1>11, <2>2 DEF RevokedAll
<1>12. CASE Complete
  <2>1. CASE Abandon
    BY <1>12, <2>1 DEF Abandon, Complete
  <2>2. CASE ~Abandon
    <3>1. p'.pc = p.then /\ SameOwner /\ p.then \in Back
      BY <1>0, <1>12, <2>2, CompleteEffect DEF Pass
    <3> QED BY <1>12, <3>1 DEF Complete, Back
  <2> QED BY <2>1, <2>2
<1>13. CASE ApplySecret
  BY <1>13 DEF ApplySecret, Abandon
<1>14. CASE Unfinalize
  BY <1>14 DEF Unfinalize, Abandon
<1> QED BY <1>1, <1>2, <1>3, <1>4, <1>5, <1>6, <1>7, <1>8, <1>9, <1>10, <1>11, <1>12,
           <1>13, <1>14 DEF PassStep

\* What is to be shown of every step: the pass has its object, and PassLoop a step.
LoopStep == PassObject' /\ (Alone => [Loop!Next]_(Loop!vars))

StateMap == [c \in CR |-> obj[c].state]
FinMap == [c \in CR |-> obj[c].fin]

\* Steps that PassLoop does not see.
LEMMA StutterMaps ==
  ASSUME StateMap' = StateMap, FinMap' = FinMap, p'.cr = p.cr, Doing' = Doing
  PROVE  UNCHANGED Loop!vars
BY DEF Loop!vars, StateMap, FinMap

\* The pass is over, or the process is.
LEMMA EndMaps ==
  ASSUME StateMap' = StateMap, FinMap' = FinMap, p' = NoPass
  PROVE  [Loop!Next]_(Loop!vars)
BY DEF Loop!Next, Loop!End, Loop!NoPass, Loop!Pass, StateMap, FinMap, NoPass, Doing, At

\* The other actions of PassLoop, by what they change.
LEMMA SyncMaps ==
  ASSUME NEW c \in CR, Doing = "nothing", StateMap[c] = "live",
         FinMap' = [FinMap EXCEPT ![c] = TRUE], StateMap' = StateMap,
         p'.cr = c, Doing' = "syncing"
  PROVE  Loop!Next
<1>1. Loop!Sync(c)
  BY DEF Loop!Sync, Loop!Hold, Loop!Pass, StateMap, FinMap
<1> QED BY <1>1 DEF Loop!Next

\* A pass over a deleted object begins as PassLoop's Revoke.
LEMMA RevokeMaps ==
  ASSUME NEW c \in CR, Doing = "nothing", StateMap[c] = "deleting",
         FinMap' = FinMap, StateMap' = StateMap, p'.cr = c, Doing' = "revoking"
  PROVE  Loop!Next
<1>1. Loop!Revoke(c)
  BY DEF Loop!Revoke, Loop!Pass, StateMap, FinMap
<1> QED BY <1>1 DEF Loop!Next

\* The end of RevokeCRLeases is PassLoop's Revoked.
LEMMA RevokedMaps ==
  ASSUME Doing = "revoking", Doing' = "revoked", p'.cr = p.cr,
         FinMap' = FinMap, StateMap' = StateMap
  PROVE  Loop!Next
BY DEF Loop!Next, Loop!Revoked, Loop!Pass, StateMap, FinMap

\* The finalizer goes as in PassLoop's LetGo.
LEMMA LetGoMaps ==
  ASSUME NEW c \in CR, p.cr = c, Doing = "revoked", StateMap[c] = "deleting", FinMap[c],
         FinMap' = [FinMap EXCEPT ![c] = FALSE],
         StateMap' = [StateMap EXCEPT ![c] = "none"], p' = NoPass
  PROVE  Loop!Next
<1>1. Loop!LetGo(c)
  BY DEF Loop!LetGo, Loop!NoPass, Loop!Pass, StateMap, FinMap, NoPass, Doing, At
<1> QED BY <1>1 DEF Loop!Next

\* What users do to objects is PassLoop's Client.
LEMMA ClientMaps ==
  ASSUME NEW c \in CR, UNCHANGED <<p.cr, Doing>>, FinMap' = FinMap,
         \/ StateMap[c] = "none" /\ StateMap' = [StateMap EXCEPT ![c] = "live"]
         \/ StateMap[c] = "live" /\ StateMap' = [StateMap EXCEPT ![c] = "deleting"]
         \/ /\ StateMap[c] \in {"live", "deleting"} /\ ~FinMap[c]
            /\ StateMap' = [StateMap EXCEPT ![c] = "none"]
  PROVE  Loop!Next
<1>1. Loop!Client(c)
  BY DEF Loop!Client, StateMap, FinMap
<1> QED BY <1>1 DEF Loop!Next

\* Steps that leave the objects and the owner of the pass alone.
LEMMA SameObject ==
  ASSUME PassObject, UNCHANGED obj, SameOwner, At("idle")' = At("idle")
  PROVE  PassObject'
BY DEF PassObject, SameOwner, At, Fixed, Alone

\* The object whose finalizer goes is gone.
LEMMA RemovedObject ==
  ASSUME TypeOK, PassObject, NEW c \in CR, Removed(c),
         p' = NoPass \/ (p' = p /\ (p.cr # c \/ p.raw = "gone"))
  PROVE  /\ PassObject'
         /\ FinMap' = [FinMap EXCEPT ![c] = FALSE]
         /\ StateMap' = [StateMap EXCEPT ![c] = "none"]
<1>1. \A d \in CR : obj'[d] = IF d = c THEN [obj[c] EXCEPT !.state = "none", !.fin = FALSE]
                             ELSE obj[d]
  BY DEF Removed, TypeOK
<1>2. obj'[c].state = "none" /\ obj'[c].fin = FALSE
  BY <1>1 DEF TypeOK, Object
<1>3. FinMap' = [FinMap EXCEPT ![c] = FALSE] /\ StateMap' = [StateMap EXCEPT ![c] = "none"]
  BY <1>1, <1>2 DEF FinMap, StateMap
<1>4. PassObject'
  BY <1>1, <1>2 DEF PassObject, NoPass, At, Fixed, Alone
<1> QED BY <1>3, <1>4

\* One step: the pass has its object, and PassLoop takes the step too if it is
\* not the other operator's.
LEMMA StepMaps ==
  ASSUME TypeOK, PassShape, PassObject, [Next]_vars
  PROVE  LoopStep
<1> USE DEF kube, platform, provider, history
<1>0. p \in Pass /\ (At("idle") => p = NoPass)
  BY DEF TypeOK, PassShape
<1>a. ASSUME UNCHANGED <<obj, p>> PROVE LoopStep
  <2>1. PassObject'
    BY <1>a, SameObject DEF SameOwner, At
  <2>2. UNCHANGED Loop!vars
    BY <1>a, StutterMaps DEF StateMap, FinMap, Doing, At
  <2> QED BY <2>1, <2>2 DEF LoopStep
<1>b. ASSUME UNCHANGED obj, p' = NoPass PROVE LoopStep
  <2>1. PassObject'
    BY <1>b DEF PassObject, NoPass, At
  <2> QED BY <1>b, <2>1, EndMaps DEF LoopStep, StateMap, FinMap
<1>c. ASSUME NEW kind, Spend(kind)
      PROVE  (Alone => kind # "rollout") /\ (Fixed => kind # "retarget")
  BY <1>c DEF Spend, Alone, Fixed
<1>1. ASSUME NEW c \in CR, Begin(c) PROVE LoopStep
  <2> DEFINE del == obj[c].state = "deleting"
             name == obj[c].name
  <2>1. p' = [NoPass EXCEPT !.pc = "read", !.cr = c, !.name = name, !.deleting = del]
    BY <1>1 DEF Begin
  <2>2. p'.pc = "read" /\ p'.cr = c /\ p'.name = name /\ p'.deleting = del /\ p'.raw = "current"
    <3> HIDE DEF name, del
    <3> QED BY <2>1 DEF NoPass
  <2>3. /\ obj[c].state \in {"live", "deleting"} /\ At("idle")
        /\ obj' = [obj EXCEPT ![c].fin = TRUE]
    BY <1>1 DEF Begin, TypeOK, Object
  <2>4. \A d \in CR : /\ obj'[d].state = obj[d].state /\ obj'[d].name = obj[d].name
                      /\ obj'[d].fin = (IF d = c THEN TRUE ELSE obj[d].fin)
    BY <2>3 DEF TypeOK, Object
  <2>5. PassObject'
    <3>1. /\ obj'[c].fin /\ obj'[c].name = p'.name
          /\ p'.deleting => obj'[c].state = "deleting"
      BY <2>2, <2>4
    <3>2. \A d \in CR : /\ obj'[d].state = "none" => ~obj'[d].fin
                        /\ obj'[d].state = "deleting" => obj'[d].fin
      BY <2>3, <2>4 DEF PassObject
    <3> QED BY <2>2, <3>1, <3>2 DEF PassObject
  <2>6. FinMap' = [FinMap EXCEPT ![c] = TRUE] /\ StateMap' = StateMap
    BY <2>4 DEF FinMap, StateMap
  <2>7. Doing = "nothing" /\ Doing' = IF del THEN "revoking" ELSE "syncing"
    BY <2>2, <2>3 DEF Doing, At
  <2>8. CASE del
    <3>1. \A d \in CR : obj'[d].fin = obj[d].fin
      <4>1. obj[c].fin = TRUE
        BY <2>8 DEF PassObject, TypeOK, Object
      <4> QED BY <2>4, <4>1
    <3>2. FinMap' = FinMap
      BY <3>1 DEF FinMap
    <3> QED BY <2>2, <2>5, <2>6, <2>7, <2>8, <3>2, RevokeMaps DEF LoopStep, StateMap
  <2>9. CASE ~del
    BY <2>2, <2>3, <2>5, <2>6, <2>7, <2>9, SyncMaps DEF LoopStep, StateMap
  <2> QED BY <2>8, <2>9
<1>2. CASE PassStep
  <2>0. /\ p.cr \in CR
        /\ p.raw = "current" => obj[p.cr].fin /\ (p.deleting => obj[p.cr].state = "deleting")
    BY <1>2, PassStepOwner DEF PassObject
  <2>1. CASE UNCHANGED obj /\ SameOwner /\ ~At("unfinalize") /\ p'.pc # "idle"
    <3>1. PassObject'
      BY <1>2, <2>1, PassStepOwner, SameObject DEF At
    <3>2. p'.cr = p.cr /\ p'.deleting = p.deleting
      BY <2>1 DEF SameOwner
    <3>3. CASE Doing' = Doing
      BY <2>1, <3>1, <3>2, <3>3, StutterMaps DEF LoopStep, StateMap, FinMap
    <3>4. CASE Doing' # Doing
      <4>1. p.deleting /\ Doing = "revoking" /\ Doing' = "revoked"
        <5>1. ~At("idle")
          BY <1>2, PassStepOwner
        <5> QED BY <2>1, <3>2, <3>4, <5>1 DEF Doing, At
      <4> QED BY <2>1, <3>1, <3>2, <4>1, RevokedMaps DEF LoopStep, StateMap, FinMap
    <3> QED BY <3>3, <3>4
  <2>2. CASE UNCHANGED obj /\ p' = NoPass
    BY <1>b, <2>2
  <2>3. CASE At("unfinalize") /\ p.raw = "current" /\ Removed(p.cr) /\ p' = NoPass
    <3> DEFINE c == p.cr
    <3>1. p.deleting
      BY <2>3 DEF PassShape
    <3>2. Doing = "revoked" /\ StateMap[c] = "deleting" /\ FinMap[c]
      BY <2>0, <2>3, <3>1 DEF Doing, At, StateMap, FinMap
    <3>3. \E d \in CR : /\ p.cr = d /\ StateMap[d] = "deleting" /\ FinMap[d]
                        /\ FinMap' = [FinMap EXCEPT ![d] = FALSE]
                        /\ StateMap' = [StateMap EXCEPT ![d] = "none"]
      BY <2>0, <2>3, <3>2, RemovedObject
    <3>4. Loop!Next
      BY <2>3, <3>2, <3>3, LetGoMaps
    <3>5. PassObject'
      BY <2>0, <2>3, RemovedObject
    <3> QED BY <3>4, <3>5 DEF LoopStep
  <2> QED BY <1>2, <2>1, <2>2, <2>3, PassStepOwner
<1>3. CASE Fail
  BY <1>3, <1>b DEF Fail, Abandon
<1>4. ASSUME NEW c \in CR, CreateObject(c) PROVE LoopStep
  <2>1. PICK n \in Name : obj' = [obj EXCEPT ![c] = [state |-> "live", fin |-> FALSE, name |-> n]]
    BY <1>4 DEF CreateObject
  <2>2. obj[c].state = "none" /\ ~obj[c].fin /\ UNCHANGED p
    BY <1>4 DEF CreateObject, PassObject
  <2>3. \A d \in CR : d # c => obj'[d] = obj[d]
    BY <2>1 DEF TypeOK
  <2>4. obj'[c].state = "live" /\ obj'[c].fin = FALSE
    BY <2>1 DEF TypeOK
  <2>5. PassObject'
    BY <2>2, <2>3, <2>4 DEF PassObject, At, Fixed, Alone
  <2>6. FinMap' = FinMap /\ StateMap' = [StateMap EXCEPT ![c] = "live"]
    BY <2>2, <2>3, <2>4 DEF FinMap, StateMap, TypeOK, Object
  <2>7. UNCHANGED <<p.cr, Doing>> /\ StateMap[c] = "none"
    BY <2>2 DEF Doing, At, StateMap
  <2> QED BY <2>5, <2>6, <2>7, ClientMaps DEF LoopStep
<1>5. ASSUME NEW c \in CR, DeleteObject(c) PROVE LoopStep
  <2>0. obj[c].state = "live" /\ UNCHANGED p /\ UNCHANGED <<p.cr, Doing>>
    BY <1>5 DEF DeleteObject, Doing, At
  <2>1. CASE obj[c].fin
    <3>1. obj' = [obj EXCEPT ![c].state = "deleting"]
      BY <1>5, <2>1 DEF DeleteObject
    <3>2. \A d \in CR : /\ obj'[d].fin = obj[d].fin /\ obj'[d].name = obj[d].name
                        /\ obj'[d].state = (IF d = c THEN "deleting" ELSE obj[d].state)
      BY <3>1 DEF TypeOK, Object
    <3>3. PassObject'
      BY <2>0, <2>1, <3>2 DEF PassObject, At, Fixed, Alone
    <3>4. FinMap' = FinMap /\ StateMap' = [StateMap EXCEPT ![c] = "deleting"]
      BY <3>2 DEF FinMap, StateMap
    <3> QED BY <2>0, <3>3, <3>4, ClientMaps DEF LoopStep, StateMap
  <2>2. CASE ~obj[c].fin
    <3>1. p.cr # c \/ p.raw = "gone"
      BY <1>0, <2>2, OwnerAssumption DEF PassObject, NoPass
    <3>2. /\ PassObject' /\ FinMap' = [FinMap EXCEPT ![c] = FALSE]
          /\ StateMap' = [StateMap EXCEPT ![c] = "none"]
      BY <1>5, <2>0, <2>2, <3>1, RemovedObject DEF DeleteObject
    <3>3. FinMap' = FinMap
      BY <2>2, <3>2 DEF FinMap, TypeOK, Object
    <3>4. StateMap[c] = "live" /\ ~FinMap[c]
      BY <2>0, <2>2 DEF StateMap, FinMap
    <3> QED BY <2>0, <3>2, <3>3, <3>4, ClientMaps DEF LoopStep
  <2> QED BY <2>1, <2>2
<1>6. ASSUME NEW c \in CR, Retarget(c) PROVE LoopStep
  <2>1. PICK n \in Name : obj' = [obj EXCEPT ![c].name = n]
    BY <1>6 DEF Retarget
  <2> DEFINE f == IF p.cr = c /\ p.raw = "current" THEN "edited" ELSE p.raw
  <2>2. p' = [p EXCEPT !.raw = f] /\ ~Fixed
    BY <1>6, <1>c DEF Retarget
  <2>3. f # "current" \/ p.cr # c
    OBVIOUS
  <2>4. p.raw = "gone" <=> f = "gone"
    OBVIOUS
  <2>t. f = p.raw \/ f = "edited"
    OBVIOUS
  <2> HIDE DEF f
  <2>5. p'.pc = p.pc /\ p'.cr = p.cr /\ p'.deleting = p.deleting /\ p'.name = p.name /\ p'.raw = f
    BY <1>0, <2>2 DEF Pass
  <2>6. \A d \in CR : /\ obj'[d].state = obj[d].state /\ obj'[d].fin = obj[d].fin
                      /\ d # c => obj'[d].name = obj[d].name
    BY <2>1 DEF TypeOK, Object
  <2>7. PassObject'
    BY <2>2, <2>3, <2>4, <2>t, <2>5, <2>6 DEF PassObject, At, Fixed, Alone
  <2>8. UNCHANGED Loop!vars
    BY <2>5, <2>6, StutterMaps DEF StateMap, FinMap, Doing, At
  <2> QED BY <2>7, <2>8 DEF LoopStep
<1>7. ASSUME NEW c \in CR, OtherRevokes(c) PROVE LoopStep
  <2> DEFINE f == IF p.cr = c THEN "gone" ELSE p.raw
  <2>1. p' = [p EXCEPT !.raw = f] /\ Removed(c) /\ ~Alone
    BY <1>7, <1>c DEF OtherRevokes
  <2>2. (p.cr = c => f = "gone") /\ (p.cr # c => f = p.raw)
    OBVIOUS
  <2> HIDE DEF f
  <2>3. p'.pc = p.pc /\ p'.cr = p.cr /\ p'.deleting = p.deleting /\ p'.name = p.name /\ p'.raw = f
    BY <1>0, <2>1 DEF Pass
  <2>4. /\ \A d \in CR : d # c => obj'[d] = obj[d]
        /\ obj'[c].state = "none" /\ obj'[c].fin = FALSE
    BY <2>1 DEF Removed, TypeOK, Object
  <2> QED BY <2>1, <2>2, <2>3, <2>4 DEF LoopStep, PassObject, At, Fixed, Alone
<1>11. ASSUME NEW c \in CR, NEW k \in Key, OtherMints(c, k) PROVE LoopStep
  BY <1>11, <1>a DEF OtherMints
<1>8. ASSUME NEW n \in Name, DropSecret(n) \/ Collect(n) PROVE LoopStep
  BY <1>8, <1>a DEF DropSecret, Collect
<1>9. CASE (\E k \in Key : ChangeHints(k)) \/ \E l \in Lease : Expire(l)
  BY <1>9, <1>a DEF ChangeHints, Expire
<1>10. CASE UNCHANGED vars
  BY <1>10, <1>a DEF vars
<1> QED BY <1>1, <1>2, <1>3, <1>4, <1>5, <1>6, <1>7, <1>8, <1>9, <1>10, <1>11 DEF Next, World

\* The passes over a Secret are serial and guarded: Leases implements PassLoop, as
\* Manager does, for as long as one operator runs (manager.go 127-157).
THEOREM PassesAreTheManagers == ASSUME Alone PROVE Spec => ImplementsPassLoop
<1>1. Init => TypeOK /\ PassShape /\ PassObject /\ Loop!Init
  <2> SUFFICES ASSUME Init PROVE TypeOK /\ PassShape /\ PassObject /\ Loop!Init
    OBVIOUS
  <2>1. TypeOK /\ PassShape
    BY InitTypes
  <2>2. \A c \in CR : obj[c].state = "live" /\ obj[c].fin = FALSE
    BY DEF Init
  <2>3. PassObject
    BY <2>2 DEF Init, PassObject, NoPass, At
  <2>4. Loop!Init
    BY <2>2 DEF Init, Loop!Init, NoPass, Doing, At
  <2> QED BY <2>1, <2>3, <2>4
<1>2. /\ TypeOK /\ PassShape /\ PassObject /\ [Next]_vars
      => (TypeOK /\ PassShape /\ PassObject)' /\ [Loop!Next]_(Loop!vars)
  BY StepTypes, StepShape, StepMaps DEF LoopStep
<1> QED BY <1>1, <1>2, PTL DEF Spec, ImplementsPassLoop, Loop!Spec

-----------------------------------------------------------------------------
(* The leases keep their promise, as far as one operator goes.             *)

\* A lease that exists goes on existing, and one that is ended stays ended.
Forward ==
  \A l \in Lease :
    /\ lease[l] # "free" => lease'[l] # "free"
    /\ lease[l] = "over" => lease'[l] = "over"
    /\ Down(l) => Down(l)'

Other == \E c \in CR : OtherRevokes(c) \/ \E k \in Key : OtherMints(c, k)

\* What is to be shown of every step.
Steady == Forward /\ ([R!Next]_(R!vars) \/ Other)

\* The moves of a lease.
LEMMA Moves ==
  ASSUME TypeOK, NEW l \in Lease,
         \/ /\ role' = role /\ lease[l] = "free"
            /\ lease' = [lease EXCEPT ![l] = "wanted"]
         \/ /\ lease[l] = "wanted" /\ lease' = [lease EXCEPT ![l] = "active"]
            /\ role' = [role EXCEPT ![l] = TRUE]
         \/ /\ role' = role /\ lease[l] = "wanted"
            /\ lease' = [lease EXCEPT ![l] = "over"]
         \/ /\ role' = role /\ lease[l] \in {"wanted", "active"}
            /\ lease' = [lease EXCEPT ![l] = "ending"]
         \/ /\ lease' = lease /\ lease[l] \in {"ending", "over"}
            /\ role' = [role EXCEPT ![l] = FALSE]
         \/ /\ role' = role /\ lease[l] = "ending" /\ ~role[l]
            /\ lease' = [lease EXCEPT ![l] = "over"]
  PROVE  Steady
<1>1. Forward
  BY DEF Forward, Down, TypeOK
<1>2. R!Request(l) \/ R!Adopt(l) \/ R!Withdraw(l) \/ R!End(l) \/ R!Drop(l) \/ R!Close(l)
  BY DEF R!Request, R!Adopt, R!Withdraw, R!End, R!Drop, R!Close, R!Move
<1> QED BY <1>1, <1>2 DEF Steady, R!Next

\* The platform and the provider do not move.
LEMMA Stays ==
  ASSUME UNCHANGED <<lease, role>>
  PROVE  Steady
BY DEF Steady, Forward, Down, R!vars

\* What POST /leases/l/revoke does to a lease that exists.
LEMMA EndedMoves ==
  ASSUME TypeOK, NEW l \in Lease, lease[l] # "free", UNCHANGED role,
         lease' = [lease EXCEPT ![l] = Ended(l)]
  PROVE  Steady /\ Down(l)'
<1>1. lease[l] \in {"wanted", "active", "ending", "over"}
  BY DEF TypeOK, LeaseState
<1>d. Down(l)'
  BY DEF Down, Ended, TypeOK
<1>2. CASE lease[l] = "wanted"
  <2>1. lease' = [lease EXCEPT ![l] = "over"] /\ role' = role
    BY <1>2 DEF Ended
  <2> QED BY <1>2, <1>d, <2>1, Moves
<1>3. CASE lease[l] = "active"
  <2>1. lease' = [lease EXCEPT ![l] = "ending"] /\ role' = role
    BY <1>3 DEF Ended
  <2> QED BY <1>3, <1>d, <2>1, Moves
<1>4. CASE lease[l] \in {"ending", "over"}
  <2>1. UNCHANGED <<lease, role>>
    BY <1>4 DEF Ended, TypeOK
  <2> QED BY <1>d, <2>1, Stays
<1> QED BY <1>1, <1>2, <1>3, <1>4

\* Every step but the other operator's moves one lease as Roles allows, or none.
LEMMA StepRoles ==
  ASSUME TypeOK, PassShape, LeaseStates, [Next]_vars
  PROVE  Steady
<1> USE DEF kube, platform, provider, history, At
<1>0. p \in Pass /\ p.item \subseteq Item /\ p.list \subseteq Lease /\ p.made \in LeaseIDs
  BY PassFields DEF TypeOK
<1>i. \A i \in Item : i.lease \in Lease /\ i.action \in {"create", "revoke"}
  BY DEF Item
<1>1. CASE RequestLease
  <2>1. PICK l \in Lease : lease[l] = "free" /\ lease' = [lease EXCEPT ![l] = "wanted"]
    BY <1>0, <1>1, RequestLeaseEffect
  <2> QED BY <1>1, <2>1, Moves DEF RequestLease
<1>2. CASE Apply
  <2>1. PICK i \in p.item :
          IF i.action = "create"
          THEN stray' = [stray EXCEPT ![i.lease] = @ + 1] /\ UNCHANGED role
          ELSE role' = [role EXCEPT ![i.lease] = FALSE] /\ UNCHANGED stray
    BY <1>2 DEF Apply
  <2>2. UNCHANGED lease
    BY <1>2 DEF Apply
  <2>3. CASE i.action = "create"
    BY <2>1, <2>2, <2>3, Stays
  <2>4. CASE i.action # "create"
    <3>1. i.lease \in Lease /\ lease[i.lease] \in {"ending", "over"}
      BY <1>0, <1>i, <2>4 DEF LeaseStates, Down
    <3> QED BY <2>1, <2>2, <2>4, <3>1, Moves
  <2> QED BY <2>3, <2>4
<1>3. CASE Complete
  <2>1. CASE UNCHANGED <<lease, provider>>
    BY <2>1, Stays
  <2>2. CASE ~UNCHANGED <<lease, provider>>
    <3>1. PICK i \in p.item :
            /\ i \in WorkOf(i.lease)
            /\ \/ /\ i.action = "create"
                  /\ lease' = [lease EXCEPT ![i.lease] = "active"]
                  /\ role' = [role EXCEPT ![i.lease] = TRUE]
               \/ /\ i.action # "create"
                  /\ lease' = [lease EXCEPT ![i.lease] = "over"]
                  /\ UNCHANGED provider
      BY <1>0, <1>3, <2>2, CompleteEffect
    <3>2. i.lease \in Lease
      BY <1>0, <1>i
    <3>3. CASE i.action = "create"
      <4>1. lease[i.lease] = "wanted"
        BY <3>1, <3>3 DEF WorkOf
      <4> QED BY <3>1, <3>2, <3>3, <4>1, Moves
    <3>4. CASE i.action # "create"
      <4>1. i.action = "revoke"
        BY <1>0, <1>i, <3>4
      <4>2. lease[i.lease] = "ending" /\ ~role[i.lease]
        BY <1>3, <3>1, <4>1 DEF WorkOf, LeaseStates, Complete
      <4> QED BY <3>1, <3>2, <3>4, <4>2, Moves
    <3> QED BY <3>3, <3>4
  <2> QED BY <2>1, <2>2
<1>4. CASE RevokeOne
  <2>1. PICK l \in p.list : lease' = [lease EXCEPT ![l] = Ended(l)]
    BY <1>0, <1>4, RevokeOneEffect
  <2> QED BY <1>0, <1>4, <2>1, EndedMoves DEF RevokeOne, LeaseStates
<1>5. CASE Fail
  <2>1. CASE UNCHANGED lease
    BY <1>5, <2>1, Stays DEF Fail
  <2>2. CASE ~UNCHANGED lease
    <3>1. PICK i \in p.item :
            lease[i.lease] = "wanted" /\ lease' = [lease EXCEPT ![i.lease] = "over"]
      BY <1>5, <2>2 DEF Fail
    <3> QED BY <1>0, <1>5, <1>i, <3>1, Moves DEF Fail
  <2> QED BY <2>1, <2>2
<1>6. ASSUME NEW l \in Lease, Expire(l) PROVE Steady
  <2>1. lease[l] # "free"
    BY <1>6 DEF Expire
  <2> QED BY <1>6, <2>1, EndedMoves DEF Expire
<1>7. CASE \/ ReadLeaseIDs \/ SyncDynamic \/ OwnWork \/ ReuseLease \/ LeaseWork
           \/ ReadEnvelope \/ HintsDone
  BY <1>7, Stays DEF ReadLeaseIDs, SyncDynamic, OwnWork, ReuseLease, LeaseWork,
     ReadEnvelope, HintsDone
<1>8. CASE RevokedAll \/ ApplySecret \/ Unfinalize
  BY <1>8, Stays DEF RevokedAll, ApplySecret, Unfinalize
<1>9. CASE \E c \in CR : Begin(c) \/ CreateObject(c) \/ DeleteObject(c) \/ Retarget(c)
  BY <1>9, Stays DEF Begin, CreateObject, DeleteObject, Retarget
<1>10. CASE Other
  <2>1. ASSUME NEW c \in CR, OtherRevokes(c) PROVE Forward
    BY <2>1, OtherRevokesEffect DEF Forward, Down
  <2>2. ASSUME NEW c \in CR, NEW k \in Key, OtherMints(c, k) PROVE Forward
    <3>1. PICK l \in Lease : /\ lease[l] = "free" /\ lease'[l] = "active"
                             /\ \A m \in Lease \ {l} : lease'[m] \in {lease[m], "over"}
      BY <2>2, OtherMintsEffect
    <3> QED BY <3>1 DEF Forward, Down
  <2> QED BY <1>10, <2>1, <2>2 DEF Steady, Other
<1>11. CASE \/ \E n \in Name : DropSecret(n) \/ Collect(n)
            \/ \E k \in Key : ChangeHints(k)
  BY <1>11, Stays DEF DropSecret, Collect, ChangeHints
<1>12. CASE UNCHANGED vars
  BY <1>12, Stays DEF vars
<1> QED BY <1>1, <1>2, <1>3, <1>4, <1>5, <1>6, <1>7, <1>8, <1>9, <1>10, <1>11, <1>12
        DEF Next, PassStep, World, Other

\* Where a step takes what it holds from.
FromAnnotation(l) == \E k \in Key : l \in {p.existing[k], secret[p.name].ann[k]} /\ l # NoLease
Offers(i) == lease[i.lease] # "free" /\ (i.action = "revoke" => Down(i.lease))

\* What is known stays true of what was known.
LEMMA StatesFrom ==
  ASSUME TypeOK, LeaseStates, Forward,
         \A n \in Name : \/ secret'[n].ann \in {secret[n].ann, NoIDs, p.made}
                         \/ \A k \in Key : secret'[n].ann[k] # NoLease => lease'[secret'[n].ann[k]] # "free",
         p'.existing \in {p.existing, NoIDs, secret[p.name].ann},
         \A k \in Key : \/ p'.made[k] \in {NoLease, p.made[k], p.existing[k]}
                        \/ lease'[p'.made[k]] # "free",
         \A l \in p'.list : l \in p.list \/ FromAnnotation(l),
         \A i \in p'.work \cup p'.item : i \in p.work \cup p.item \/ Offers(i)',
         \A l \in revoked' : l \in revoked \/ Down(l)',
         At("complete")' => \A i \in p'.item : i.action = "revoke" => ~role'[i.lease]
  PROVE  LeaseStates'
<1>0. /\ p \in Pass /\ p.existing \in LeaseIDs /\ p.made \in LeaseIDs /\ p.name \in Name
      /\ p.list \subseteq Lease /\ p.work \subseteq Item /\ p.item \subseteq Item
  BY PassFields DEF TypeOK
<1>1. ASSUME NEW ids \in LeaseIDs, Exist(ids)
      PROVE  \A k \in Key : ids[k] # NoLease => lease'[ids[k]] # "free"
  BY <1>1 DEF Exist, Forward, LeaseIDs
<1>2. \A n \in Name : secret[n].ann \in LeaseIDs /\ Exist(secret[n].ann)
  BY DEF TypeOK, Secret, LeaseStates
<1>3. \A k \in Key : NoIDs[k] = NoLease
  BY DEF NoIDs
<1>4. \A k \in Key : p.made[k] # NoLease => lease'[p.made[k]] # "free"
  BY <1>0, <1>1 DEF LeaseStates
<1>5. \A k \in Key : p.existing[k] # NoLease => lease'[p.existing[k]] # "free"
  BY <1>0, <1>1 DEF LeaseStates
<1>6. \A n \in Name : Exist(secret[n].ann)'
  BY <1>1, <1>2, <1>3, <1>4 DEF Exist
<1>7. Exist(p.existing)'
  BY <1>0, <1>1, <1>2, <1>3, <1>5 DEF Exist
<1>8. Exist(p.made)'
  BY <1>4, <1>5 DEF Exist
<1>9. \A l \in p'.list : lease'[l] # "free"
  <2> SUFFICES ASSUME NEW l \in p'.list PROVE lease'[l] # "free"
    OBVIOUS
  <2>1. CASE l \in p.list
    BY <1>0, <2>1 DEF LeaseStates, Forward
  <2>2. CASE FromAnnotation(l)
    BY <1>0, <1>1, <1>2, <1>5, <2>2 DEF FromAnnotation
  <2> QED BY <2>1, <2>2
<1>10. \A i \in p'.work \cup p'.item : Offers(i)'
  <2>1. \A i \in p.work \cup p.item : i.lease \in Lease /\ Offers(i)
    BY <1>0 DEF Item, LeaseStates, Offers
  <2>2. \A i \in p.work \cup p.item : Offers(i)'
    BY <2>1 DEF Offers, Forward
  <2> QED BY <2>2
<1>11. \A l \in revoked' : Down(l)'
  BY DEF LeaseStates, Forward, TypeOK
<1> QED BY <1>6, <1>7, <1>8, <1>9, <1>10, <1>11 DEF LeaseStates, Offers, At

\* A pass that is over holds nothing.
LEMMA OverStates ==
  ASSUME TypeOK, LeaseStates, Forward, p' = NoPass,
         \A n \in Name : secret'[n].ann \in {secret[n].ann, NoIDs, p.made},
         revoked' = revoked
  PROVE  LeaseStates'
<1>1. /\ p'.existing = NoIDs /\ \A k \in Key : p'.made[k] = NoLease
      /\ p'.list = {} /\ p'.work = {} /\ p'.item = {} /\ ~At("complete")'
  BY DEF NoPass, NoIDs, At
<1> QED BY <1>1, StatesFrom

\* Nor does a step that leaves the pass alone tell it anything.
LEMMA SamePassStates ==
  ASSUME TypeOK, LeaseStates, Forward, UNCHANGED <<p, role>>,
         \A n \in Name : secret'[n].ann \in {secret[n].ann, NoIDs},
         revoked' = revoked
  PROVE  LeaseStates'
BY StatesFrom DEF LeaseStates, At

\* The steps of a pass know only leases that exist.
LEMMA PassStepStates ==
  ASSUME TypeOK, PassShape, LeaseStates, Steady, PassStep
  PROVE  LeaseStates'
<1> USE DEF kube, platform, provider, history, At
<1>0. /\ p \in Pass /\ p.item \subseteq Item /\ p.work \subseteq Item /\ p.list \subseteq Lease
      /\ p.made \in LeaseIDs /\ p.existing \in LeaseIDs /\ p.name \in Name
  BY PassFields DEF TypeOK
<1>i. \A i \in Item : i.lease \in Lease /\ i.action \in {"create", "revoke"}
  BY DEF Item
<1>f. Forward
  BY DEF Steady
<1>a. ASSUME Abandon, UNCHANGED secret PROVE LeaseStates'
  BY <1>a, <1>f, OverStates DEF Abandon
<1>1. CASE ReadLeaseIDs
  <2>1. PICK ids \in {secret[p.name].ann, NoIDs} : TakeLeaseIDs(ids)
    BY <1>1 DEF ReadLeaseIDs
  <2>2. ids \in LeaseIDs
    BY <1>0, <2>1, Values DEF TypeOK, Secret
  <2>3. /\ p'.existing = ids /\ p'.made = p.made /\ p'.list \subseteq IDs(ids)
        /\ SameWork /\ p'.pc # "complete"
    BY <1>0, <2>1, <2>2, TakeLeaseIDsEffect
  <2>4. \A l \in p'.list : FromAnnotation(l)
    BY <2>1, <2>3, Values DEF IDs, FromAnnotation
  <2>5. UNCHANGED <<secret, revoked>>
    BY <1>1 DEF ReadLeaseIDs
  <2> QED BY <1>f, <2>1, <2>3, <2>4, <2>5, StatesFrom DEF SameWork
<1>2. CASE SyncDynamic
  <2>1. /\ p'.list = p.list /\ SameIDs /\ p'.item = p.item /\ p'.pc # "complete"
        /\ p'.work \in {p.work, Offered}
    BY <1>0, <1>2, SyncDynamicEffect DEF TypeOK
  <2>2. UNCHANGED <<secret, lease, revoked>>
    BY <1>2 DEF SyncDynamic
  <2>3. \A i \in Offered : Offers(i)
    BY DEF Offered, Offers, WorkOf, Down
  <2>4. \A i \in p'.work \cup p'.item : i \in p.work \cup p.item \/ Offers(i)'
    BY <2>1, <2>2, <2>3 DEF Offers, Down
  <2> QED BY <1>f, <2>1, <2>2, <2>4, StatesFrom DEF SameIDs
<1>3. CASE OwnWork
  <2>1. /\ p'.list = p.list /\ SameIDs /\ p'.pc # "complete"
        /\ p'.work \cup p'.item \subseteq p.work
    BY <1>0, <1>3, OwnWorkEffect
  <2>2. UNCHANGED <<secret, revoked>>
    BY <1>3 DEF OwnWork
  <2> QED BY <1>f, <2>1, <2>2, StatesFrom DEF SameIDs
<1>4. CASE ReuseLease
  <2>1. PICK k \in Key : p'.made = [p.made EXCEPT ![k] = p.existing[k]]
    BY <1>0, <1>4, ReuseLeaseEffect
  <2>2. \A j \in Key : p'.made[j] \in {p.made[j], p.existing[j]}
    BY <1>0, <2>1 DEF LeaseIDs
  <2>3. p'.pc = "work" /\ p'.list = p.list /\ SameWork /\ p'.existing = p.existing
    BY <1>0, <1>4, ReuseLeaseEffect DEF ReuseLease
  <2>4. UNCHANGED <<secret, revoked>>
    BY <1>4 DEF ReuseLease
  <2> QED BY <1>f, <2>2, <2>3, <2>4, StatesFrom DEF SameWork
<1>5. CASE RequestLease
  <2>1. PICK k \in Key, l \in Lease : /\ lease' = [lease EXCEPT ![l] = "wanted"]
                                      /\ p'.made = [p.made EXCEPT ![k] = l]
    BY <1>0, <1>5, RequestLeaseEffect
  <2>2. \A j \in Key : p'.made[j] = p.made[j] \/ lease'[p'.made[j]] # "free"
    BY <1>0, <2>1 DEF LeaseIDs, TypeOK
  <2>3. p'.pc = "leasework" /\ p'.list = p.list /\ SameWork /\ p'.existing = p.existing
    BY <1>0, <1>5, RequestLeaseEffect
  <2>4. UNCHANGED <<secret, revoked>>
    BY <1>5 DEF RequestLease
  <2> QED BY <1>f, <2>2, <2>3, <2>4, StatesFrom DEF SameWork
<1>6. CASE LeaseWork
  <2>1. UNCHANGED <<secret, lease>>
    BY <1>6 DEF LeaseWork
  <2>2. CASE Abandon
    BY <1>a, <2>1, <2>2
  <2>3. CASE ~Abandon
    <3>1. /\ p'.pc = "apply" /\ p'.list = p.list /\ p'.work = p.work /\ SameIDs
          /\ \E l \in Lease : p'.item = WorkOf(l)
          /\ revoked' = revoked
      BY <1>0, <1>6, <2>3, LeaseWorkEffect
    <3>2. \A l \in Lease : \A i \in WorkOf(l) : Offers(i)
      BY DEF Offers, WorkOf, Down
    <3>3. \A i \in p'.item : Offers(i)'
      BY <2>1, <3>1, <3>2 DEF Offers, Down
    <3> QED BY <1>f, <2>1, <3>1, <3>3, StatesFrom DEF SameIDs
  <2> QED BY <2>2, <2>3
<1>7. CASE ReadEnvelope
  <2>1. UNCHANGED secret
    BY <1>7 DEF ReadEnvelope
  <2>2. CASE Abandon
    BY <1>a, <2>1, <2>2
  <2>3. CASE ~Abandon
    <3>1. p'.pc = "work" /\ p'.list = p.list /\ SameIDs /\ SameWork /\ revoked' = revoked
      BY <1>0, <1>7, <2>3, ReadEnvelopeEffect
    <3> QED BY <1>f, <2>1, <3>1, StatesFrom DEF SameIDs, SameWork
  <2> QED BY <2>2, <2>3
<1>8. CASE HintsDone
  <2>1. p'.pc = "revoke" /\ p'.list = Stale(p.existing, p.made) /\ SameIDs /\ SameWork
    BY <1>0, <1>8, HintsDoneEffect
  <2>2. \A l \in p'.list : FromAnnotation(l)
    BY <2>1 DEF Stale, FromAnnotation
  <2>3. UNCHANGED <<secret, revoked>>
    BY <1>8 DEF HintsDone
  <2> QED BY <1>f, <2>1, <2>2, <2>3, StatesFrom DEF SameIDs, SameWork
<1>9. CASE Apply
  <2>1. p'.list = p.list /\ SameIDs /\ SameWork
    BY <1>0, <1>9, GotoEffect, Stages DEF Apply
  <2>2. UNCHANGED <<secret, revoked>>
    BY <1>9 DEF Apply
  <2>3. \A i \in p'.item : i.action = "revoke" => ~role'[i.lease]
    <3> SUFFICES ASSUME NEW i \in p.item, i.action = "revoke" PROVE ~role'[i.lease]
      BY <2>1 DEF SameWork
    <3>1. PICK j \in p.item :
            IF j.action = "create"
            THEN stray' = [stray EXCEPT ![j.lease] = @ + 1] /\ UNCHANGED role
            ELSE role' = [role EXCEPT ![j.lease] = FALSE] /\ UNCHANGED stray
      BY <1>9 DEF Apply
    <3>2. i = j /\ i.lease \in Lease
      BY <1>0, <1>i DEF PassShape
    <3> QED BY <3>1, <3>2 DEF TypeOK
  <2> QED BY <1>f, <2>1, <2>2, <2>3, StatesFrom DEF SameIDs, SameWork
<1>10. CASE RevokeOne
  <2>1. PICK l \in p.list :
          /\ lease' = [lease EXCEPT ![l] = Ended(l)]
          /\ revoked' = revoked \cup {l} /\ p'.list = p.list \ {l}
          /\ \/ p'.pc = p.pc /\ p'.item = p.item
             \/ p'.pc = "apply" /\ p'.item = {[lease |-> l, action |-> "revoke"]}
    BY <1>0, <1>10, RevokeOneEffect
  <2>2. SameIDs /\ p'.work = p.work /\ p'.pc # "complete"
    BY <1>0, <1>10, <2>1, RevokeOneEffect DEF RevokeOne
  <2>3. l \in Lease /\ Down(l)'
    BY <1>0, <1>10, <2>1, EndedMoves DEF RevokeOne, LeaseStates
  <2>4. \A i \in p'.item : i \in p.item \/ Offers(i)'
    BY <2>1, <2>3 DEF Offers, Down
  <2>5. UNCHANGED secret
    BY <1>10 DEF RevokeOne
  <2> QED BY <1>f, <2>1, <2>2, <2>3, <2>4, <2>5, StatesFrom DEF SameIDs
<1>11. CASE RevokedAll
  <2>1. p'.pc # "complete" /\ p'.list = p.list /\ SameIDs /\ SameWork
    BY <1>0, <1>11, GotoEffect, Stages DEF RevokedAll
  <2>2. UNCHANGED <<secret, revoked>>
    BY <1>11 DEF RevokedAll
  <2> QED BY <1>f, <2>1, <2>2, StatesFrom DEF SameIDs, SameWork
<1>12. CASE Complete
  <2>1. UNCHANGED secret
    BY <1>12 DEF Complete
  <2>2. CASE Abandon
    BY <1>a, <2>1, <2>2
  <2>3. CASE ~Abandon
    <3>1. /\ p'.pc = p.then /\ p'.item = {} /\ p'.list = p.list /\ p'.work = p.work
          /\ SameIDs /\ revoked' = revoked
      BY <1>0, <1>12, <2>3, CompleteEffect
    <3> QED BY <1>f, <2>1, <3>1, StatesFrom DEF SameIDs
  <2> QED BY <2>2, <2>3
<1>13. CASE ApplySecret
  <2>1. CASE Abandon /\ UNCHANGED secret
    BY <1>a, <2>1
  <2>2. CASE ~(Abandon /\ UNCHANGED secret)
    <3> DEFINE s == [there |-> TRUE, owner |-> p.cr, dead |-> p.raw = "gone",
                     ann |-> Annotated(secret[p.name].ann, p.made), data |-> p.made]
    <3>1. /\ secret' = [secret EXCEPT ![p.name] = s]
          /\ p' = NoPass /\ UNCHANGED revoked
      BY <1>13, <2>2 DEF ApplySecret
    <3>2. s.ann \in {secret[p.name].ann, p.made}
      BY DEF Annotated
    <3> HIDE DEF s
    <3>3. \A n \in Name : secret'[n].ann \in {secret[n].ann, p.made}
      BY <1>0, <3>1, <3>2 DEF TypeOK
    <3> QED BY <1>f, <3>1, <3>3, OverStates
  <2> QED BY <2>1, <2>2
<1>14. CASE Unfinalize
  <2>1. CASE Abandon /\ UNCHANGED secret
    BY <1>a, <2>1
  <2>2. CASE Removed(p.cr) /\ p' = NoPass /\ UNCHANGED history
    <3>1. \A n \in Name : secret'[n].ann = secret[n].ann
      BY <2>2 DEF Removed, TypeOK, Secret
    <3> QED BY <1>f, <2>2, <3>1, OverStates
  <2> QED BY <1>14, <2>1, <2>2 DEF Unfinalize
<1> QED BY <1>1, <1>2, <1>3, <1>4, <1>5, <1>6, <1>7, <1>8, <1>9, <1>10, <1>11, <1>12,
           <1>13, <1>14 DEF PassStep

\* And so does every other step.
LEMMA StepStates ==
  ASSUME TypeOK, PassShape, LeaseStates, [Next]_vars
  PROVE  LeaseStates' /\ Steady
<1> USE DEF kube, platform, provider, history, At
<1>0. p \in Pass
  BY DEF TypeOK
<1>s. Steady /\ Forward
  BY StepRoles DEF Steady
<1> SUFFICES LeaseStates'
  BY <1>s DEF Steady
<1>r. ASSUME NEW c, Removed(c) PROVE \A n \in Name : secret'[n].ann = secret[n].ann
  BY <1>r DEF Removed, TypeOK, Secret
<1>1. ASSUME NEW c \in CR, Begin(c) PROVE LeaseStates'
  <2> DEFINE del == obj[c].state = "deleting"
             name == obj[c].name
  <2>1. p' = [NoPass EXCEPT !.pc = "read", !.cr = c, !.name = name, !.deleting = del]
    BY <1>1 DEF Begin
  <2> HIDE DEF del, name
  <2>2. /\ p'.pc = "read" /\ p'.item = {} /\ p'.list = {} /\ p'.work = {}
        /\ p'.made = NoIDs /\ p'.existing = NoIDs
    BY <2>1 DEF NoPass
  <2>3. UNCHANGED <<secret, revoked>> /\ \A k \in Key : NoIDs[k] = NoLease
    BY <1>1 DEF Begin, NoIDs
  <2> QED BY <1>s, <2>2, <2>3, StatesFrom
<1>2. CASE PassStep
  BY <1>2, <1>s, PassStepStates
<1>3. CASE Fail
  BY <1>3, <1>s, OverStates DEF Fail, Abandon
<1>4. ASSUME NEW c \in CR, CreateObject(c) \/ DeleteObject(c) PROVE LeaseStates'
  <2>1. \A n \in Name : secret'[n].ann = secret[n].ann
    BY <1>4, <1>r DEF CreateObject, DeleteObject
  <2> QED BY <1>4, <1>s, <2>1, SamePassStates DEF CreateObject, DeleteObject
<1>5. ASSUME NEW c \in CR, Retarget(c) PROVE LeaseStates'
  <2> DEFINE f == IF p.cr = c /\ p.raw = "current" THEN "edited" ELSE p.raw
  <2>1. p' = [p EXCEPT !.raw = f] /\ UNCHANGED <<secret, lease, role, revoked>>
    BY <1>5 DEF Retarget
  <2> HIDE DEF f
  <2>2. p'.pc = p.pc /\ p'.list = p.list /\ SameIDs /\ SameWork
    BY <1>0, <2>1 DEF Pass, SameIDs, SameWork
  <2> QED BY <1>s, <2>1, <2>2, StatesFrom DEF SameIDs, SameWork, LeaseStates
<1>t. p.item \subseteq Item /\ \A i \in Item : i.lease \in Lease
  BY <1>0, PassFields DEF Item
<1>6. ASSUME NEW c \in CR, OtherRevokes(c) PROVE LeaseStates'
  <2>1. At("complete") => \A i \in p.item : i.action = "revoke" => ~role'[i.lease]
    BY <1>6, <1>t, OtherRevokesEffect DEF LeaseStates
  <2> QED BY <1>6, <1>s, <2>1, OtherRevokesEffect, StatesFrom
<1>10. ASSUME NEW c \in CR, NEW k \in Key, OtherMints(c, k) PROVE LeaseStates'
  <2>1. PICK l \in Lease, n \in Name :
          /\ lease[l] = "free" /\ lease'[l] = "active"
          /\ \A m \in Lease \ {l} : role'[m] => role[m]
          /\ \A m \in Name \ {n} : secret'[m] = secret[m]
          /\ secret'[n].ann[k] = l
          /\ \A j \in Key \ {k} : secret'[n].ann[j] = secret[n].ann[j]
    BY <1>10, OtherMintsEffect
  <2>2. UNCHANGED <<p, revoked>>
    BY <1>10, OtherMintsEffect
  <2>3. \A j \in Key : secret[n].ann[j] # NoLease =>
          secret[n].ann[j] \in Lease /\ lease'[secret[n].ann[j]] # "free"
    BY <1>s DEF LeaseStates, Exist, Forward, TypeOK, Secret, LeaseIDs
  <2>4. \A j \in Key : secret'[n].ann[j] # NoLease => lease'[secret'[n].ann[j]] # "free"
    BY <2>1, <2>3
  <2>5. At("complete") => \A i \in p.item : i.action = "revoke" => ~role'[i.lease]
    BY <1>t, <2>1 DEF LeaseStates
  <2> QED BY <1>s, <2>1, <2>2, <2>4, <2>5, StatesFrom DEF LeaseStates
<1>7. ASSUME NEW n \in Name, DropSecret(n) \/ Collect(n) PROVE LeaseStates'
  <2>1. \A m \in Name : secret'[m].ann \in {secret[m].ann, NoIDs}
    <3>1. NoSecret.ann = NoIDs /\ secret' = [secret EXCEPT ![n] = NoSecret]
      BY <1>7 DEF NoSecret, DropSecret, Collect
    <3> QED BY <3>1 DEF TypeOK
  <2>2. UNCHANGED <<p, role, revoked>>
    BY <1>7 DEF DropSecret, Collect
  <2> QED BY <1>s, <2>1, <2>2, SamePassStates
<1>8. CASE (\E k \in Key : ChangeHints(k)) \/ \E l \in Lease : Expire(l)
  BY <1>8, <1>s, SamePassStates DEF ChangeHints, Expire
<1>9. CASE UNCHANGED vars
  BY <1>9, <1>s, SamePassStates DEF vars
<1> QED BY <1>1, <1>2, <1>3, <1>4, <1>5, <1>6, <1>7, <1>8, <1>9, <1>10 DEF Next, World

\* Every operator, pass and fault moves the leases as Roles allows: no role is
\* left when the platform is told that a lease is over (apply.go 83-139).
THEOREM LeasesKeepTheirRoles == ASSUME Alone PROVE Spec => ImplementsRoles
<1>1. Init => TypeOK /\ PassShape /\ LeaseStates /\ R!Init
  <2> SUFFICES ASSUME Init PROVE TypeOK /\ PassShape /\ LeaseStates /\ R!Init
    OBVIOUS
  <2>1. TypeOK /\ PassShape
    BY InitTypes
  <2>2. \A n \in Name : secret[n].ann = NoIDs
    BY DEF Init, NoSecret
  <2>3. p.existing = NoIDs /\ p.made = NoIDs /\ p.list = {} /\ p.work = {} /\ p.item = {}
    BY DEF Init, NoPass
  <2>4. Exist(NoIDs)
    BY DEF Exist, NoIDs
  <2>5. LeaseStates
    BY <2>2, <2>3, <2>4 DEF Init, LeaseStates, At
  <2> QED BY <2>1, <2>5 DEF Init, R!Init
<1>2. /\ TypeOK /\ PassShape /\ LeaseStates /\ [Next]_vars
      => (TypeOK /\ PassShape /\ LeaseStates)' /\ [R!Next]_(R!vars)
  <2> SUFFICES ASSUME TypeOK, PassShape, LeaseStates, [Next]_vars, Other PROVE FALSE
    BY StepTypes, StepShape, StepStates DEF Steady
  <2> QED BY OtherRevokesEffect, OtherMintsEffect DEF Other
<1> QED BY <1>1, <1>2, PTL DEF Spec, ImplementsRoles, R!Spec

-----------------------------------------------------------------------------
(* What a pass keeps is not what it revokes.                               *)

Ends == /\ p' = NoPass /\ revoked' = revoked
        /\ \A n \in Name : secret'[n].ann \in {secret[n].ann, p.made}

GoesOn == /\ ~At("read") /\ SameIDs /\ p'.list \subseteq p.list /\ revoked' \subseteq revoked \cup p.list
          /\ p'.todo = p.todo /\ UNCHANGED secret

\* A step of a pass takes ids in hand, ends the pass, or goes on with those it has.
LEMMA PassStepKinds ==
  ASSUME TypeOK, PassStep
  PROVE  \/ ReadLeaseIDs \/ SyncDynamic \/ ReuseLease \/ RequestLease \/ HintsDone
         \/ Ends \/ GoesOn
<1> USE DEF kube, platform, provider, history, At
<1>0. p \in Pass /\ p.name \in Name
  BY PassFields DEF TypeOK
<1>a. ASSUME Abandon, UNCHANGED secret PROVE Ends
  BY <1>a DEF Abandon, Ends
<1>1. CASE OwnWork
  BY <1>0, <1>1, OwnWorkEffect DEF OwnWork, GoesOn, SameHints
<1>2. CASE LeaseWork
  BY <1>0, <1>2, <1>a, LeaseWorkEffect DEF LeaseWork, GoesOn, SameHints
<1>3. CASE ReadEnvelope
  <2>1. CASE Abandon
    BY <1>3, <1>a, <2>1 DEF ReadEnvelope
  <2>2. CASE ~Abandon
    <3>1. PICK l \in Requested : p' = [p EXCEPT !.pc = "work", !.key = {}] /\ UNCHANGED history
      BY <1>3, <2>2 DEF ReadEnvelope
    <3>2. p'.todo = p.todo /\ p'.list = p.list /\ SameIDs
      BY <1>0, <3>1 DEF Pass, SameIDs
    <3> QED BY <1>3, <3>1, <3>2 DEF ReadEnvelope, GoesOn
  <2> QED BY <2>1, <2>2
<1>4. CASE Apply
  BY <1>0, <1>4, GotoEffect, Stages DEF Apply, GoesOn, SameHints
<1>5. CASE Complete
  BY <1>0, <1>5, <1>a, CompleteEffect DEF Complete, GoesOn, SameHints
<1>6. CASE RevokeOne
  BY <1>0, <1>6, RevokeOneEffect DEF RevokeOne, GoesOn, SameHints
<1>7. CASE RevokedAll
  BY <1>0, <1>7, GotoEffect, Stages DEF RevokedAll, GoesOn, SameHints
<1>8. CASE ApplySecret
  <2>1. CASE Abandon /\ UNCHANGED secret
    BY <1>a, <2>1
  <2>2. CASE ~(Abandon /\ UNCHANGED secret)
    <3> DEFINE s == [there |-> TRUE, owner |-> p.cr, dead |-> p.raw = "gone",
                     ann |-> Annotated(secret[p.name].ann, p.made), data |-> p.made]
    <3>1. /\ secret' = [secret EXCEPT ![p.name] = s]
          /\ p' = NoPass /\ UNCHANGED revoked
      BY <1>8, <2>2 DEF ApplySecret
    <3>2. s.ann \in {secret[p.name].ann, p.made}
      BY DEF Annotated
    <3> HIDE DEF s
    <3> QED BY <1>0, <3>1, <3>2 DEF TypeOK, Ends
  <2> QED BY <2>1, <2>2
<1>9. CASE Unfinalize
  <2>1. CASE Abandon /\ UNCHANGED secret
    BY <1>a, <2>1
  <2>2. CASE Removed(p.cr) /\ p' = NoPass /\ UNCHANGED history
    BY <2>2 DEF Removed, TypeOK, Secret, Ends
  <2> QED BY <1>9, <2>1, <2>2 DEF Unfinalize
<1> QED BY <1>1, <1>2, <1>3, <1>4, <1>5, <1>6, <1>7, <1>8, <1>9 DEF PassStep

\* Any other step leaves the ids of the pass alone.
Beside ==
  /\ SameIDs /\ SameWork /\ SameHints
  /\ p'.list = p.list /\ p'.pc = p.pc /\ p'.name = p.name /\ revoked' = revoked
  /\ p'.cr = p.cr /\ p'.deleting = p.deleting

\* And the annotations, unless the other operator mints.
Clears ==
  \A n \in Name : \/ secret'[n].ann = NoIDs
                  \/ secret'[n].ann = secret[n].ann /\ secret'[n].owner = secret[n].owner

OtherMinting == \E c \in CR, k \in Key : OtherMints(c, k)

\* What users, the platform and the other operator do is beside the pass.
LEMMA WorldBeside == ASSUME TypeOK, World PROVE Beside /\ (Clears \/ OtherMinting)
<1> USE DEF kube, platform, provider, history
<1>0. p \in Pass
  BY DEF TypeOK
<1>r. ASSUME NEW c, Removed(c) PROVE Clears
  BY <1>r DEF Removed, TypeOK, Secret, Clears
<1>s. ASSUME UNCHANGED secret PROVE Clears
  BY <1>s DEF Clears
<1>p. ASSUME UNCHANGED <<p, revoked>> PROVE Beside
  BY <1>p DEF Beside, SameIDs, SameWork, SameHints
<1>2. ASSUME NEW c \in CR, CreateObject(c) \/ DeleteObject(c) PROVE Beside /\ Clears
  BY <1>2, <1>r, <1>s, <1>p DEF CreateObject, DeleteObject
<1>3. ASSUME NEW c \in CR, Retarget(c) PROVE Beside /\ Clears
  <2> DEFINE f == IF p.cr = c /\ p.raw = "current" THEN "edited" ELSE p.raw
  <2>1. p' = [p EXCEPT !.raw = f] /\ UNCHANGED <<secret, revoked>>
    BY <1>3 DEF Retarget
  <2> HIDE DEF f
  <2> QED BY <1>0, <1>s, <2>1 DEF Pass, SameIDs, SameWork, SameHints, Beside
<1>4. ASSUME NEW c \in CR, OtherRevokes(c) PROVE Beside /\ Clears
  BY <1>4, OtherRevokesEffect DEF Beside, Clears, SameIDs, SameWork, SameHints
<1>8. ASSUME NEW c \in CR, NEW k \in Key, OtherMints(c, k) PROVE Beside /\ OtherMinting
  BY <1>8, <1>p, OtherMintsEffect DEF OtherMinting
<1>5. ASSUME NEW n \in Name, DropSecret(n) \/ Collect(n) PROVE Beside /\ Clears
  <2>1. NoSecret.ann = NoIDs /\ secret' = [secret EXCEPT ![n] = NoSecret]
    BY <1>5 DEF NoSecret, DropSecret, Collect
  <2>2. UNCHANGED <<p, revoked>>
    BY <1>5 DEF DropSecret, Collect
  <2> QED BY <1>p, <2>1, <2>2 DEF TypeOK, Clears
<1>6. CASE (\E k \in Key : ChangeHints(k)) \/ \E l \in Lease : Expire(l)
  BY <1>6, <1>s, <1>p DEF ChangeHints, Expire
<1> QED BY <1>2, <1>3, <1>4, <1>5, <1>6, <1>8 DEF World

\* A step outside the passes begins one, ends one, or leaves it alone.
LEMMA OtherStepKinds ==
  ASSUME TypeOK, [Next]_vars, ~PassStep
  PROVE  \/ \E c \in CR : Begin(c)
         \/ Fail /\ Ends
         \/ Beside /\ (Clears \/ OtherMinting)
<1>1. CASE Fail
  BY <1>1 DEF kube, Fail, Abandon, Ends
<1>2. CASE UNCHANGED vars
  BY <1>2 DEF vars, kube, history, Beside, Clears, SameIDs, SameWork, SameHints
<1> QED BY <1>1, <1>2, WorldBeside DEF Next

\* Nothing in hand, nothing to tell apart.
LEMMA EmptyApart ==
  ASSUME p'.existing = NoIDs, p'.made = NoIDs, p'.list = {}, p'.todo = {},
         \A n \in Name : Distinct(secret'[n].ann)
  PROVE  KeptApart'
<1>1. \A k \in Key : NoIDs[k] = NoLease
  BY DEF NoIDs
<1> QED BY <1>1, Values DEF KeptApart, Distinct

\* A lease of a map is there under its key.
LEMMA InIDs ==
  ASSUME NEW ids PROVE \A l : l \in IDs(ids) <=> l # NoLease /\ \E k \in Key : l = ids[k]
BY DEF IDs

\* No step mixes what is kept with what is revoked.
LEMMA StepApart ==
  ASSUME TypeOK, PassShape, LeaseStates, KeptApart, [Next]_vars
  PROVE  KeptApart'
<1> USE DEF kube, platform, provider, history, At
<1>0. /\ p \in Pass /\ p.made \in LeaseIDs /\ p.existing \in LeaseIDs /\ p.name \in Name
  BY PassFields DEF TypeOK
<1>k. \A k \in Key : NoIDs[k] = NoLease
  BY DEF NoIDs
<1>p. NoPass.existing = NoIDs /\ NoPass.made = NoIDs /\ NoPass.list = {} /\ NoPass.todo = {}
  BY DEF NoPass
<1>d. ASSUME NEW n \in Name, secret'[n].ann \in {secret[n].ann, NoIDs, p.made}
      PROVE  Distinct(secret'[n].ann)
  BY <1>d, <1>k DEF KeptApart, Distinct
<1>1. CASE \E c \in CR : Begin(c)
  <2>1. PICK c \in CR : Begin(c)
    BY <1>1
  <2> DEFINE del == obj[c].state = "deleting"
             name == obj[c].name
  <2>2. p' = [NoPass EXCEPT !.pc = "read", !.cr = c, !.name = name, !.deleting = del]
    BY <2>1 DEF Begin
  <2> HIDE DEF del, name
  <2>3. p'.list = {} /\ p'.todo = {} /\ p'.made = NoIDs /\ p'.existing = NoIDs
    BY <2>2 DEF NoPass
  <2>4. UNCHANGED secret
    BY <2>1 DEF Begin
  <2> QED BY <1>d, <2>3, <2>4, EmptyApart
<1>2. CASE Ends
  BY <1>2, <1>d, <1>p, EmptyApart DEF Ends
<1>3. CASE GoesOn
  BY <1>3 DEF GoesOn, SameIDs, KeptApart
<1>4. CASE Beside /\ (Clears \/ OtherMinting)
  <2>1. ASSUME Clears PROVE \A n \in Name : Distinct(secret'[n].ann)
    BY <1>d, <2>1 DEF Clears
  <2>2. ASSUME OtherMinting PROVE \A n \in Name : Distinct(secret'[n].ann)
    <3>1. PICK c \in CR, k \in Key : OtherMints(c, k)
      BY <2>2 DEF OtherMinting
    <3>2. PICK l \in Lease, n \in Name :
            /\ lease[l] = "free" /\ secret'[n].ann[k] = l
            /\ \A m \in Name \ {n} : secret'[m] = secret[m]
            /\ \A j \in Key \ {k} : secret'[n].ann[j] = secret[n].ann[j]
      BY <3>1, OtherMintsEffect
    <3>3. \A j \in Key : secret[n].ann[j] # l
      BY <3>2, Values DEF LeaseStates, Exist
    <3>4. Distinct(secret'[n].ann)
      BY <3>2, <3>3 DEF KeptApart, Distinct
    <3> QED BY <1>d, <3>2, <3>4
  <2>3. \A n \in Name : Distinct(secret'[n].ann)
    BY <1>4, <2>1, <2>2
  <2> QED BY <1>4, <2>3 DEF Beside, SameIDs, SameHints, KeptApart
<1>5. CASE ReadLeaseIDs
  <2>1. PICK ids \in {secret[p.name].ann, NoIDs} : TakeLeaseIDs(ids)
    BY <1>5 DEF ReadLeaseIDs
  <2>2. ids \in LeaseIDs /\ Distinct(ids)
    BY <1>0, <1>k, <2>1, Values DEF TypeOK, Secret, KeptApart, Distinct
  <2>3. p'.existing = ids /\ p'.made = p.made /\ p'.list \subseteq IDs(ids) /\ p'.todo = p.todo
    BY <1>0, <2>1, <2>2, TakeLeaseIDsEffect DEF SameHints
  <2>4. p.made = NoIDs /\ UNCHANGED <<secret, revoked>>
    BY <1>5 DEF PassShape, ReadLeaseIDs
  <2> QED BY <1>k, <2>2, <2>3, <2>4, Values DEF KeptApart, Distinct
<1>6. CASE SyncDynamic
  <2>1. p.made = NoIDs /\ UNCHANGED <<secret, revoked>>
    BY <1>6 DEF PassShape, SyncDynamic
  <2>2. p'.list = p.list /\ SameIDs
    BY <1>0, <1>6, SyncDynamicEffect DEF TypeOK
  <2>3. p' \in Pass
    BY <1>0, <1>6, SyncDynamicEffect DEF TypeOK
  <2>4. \A k \in p'.todo : p'.made[k] = NoLease
    BY <1>k, <2>1, <2>2, <2>3, PassFields DEF SameIDs, Pass
  <2> QED BY <2>1, <2>2, <2>4 DEF SameIDs, KeptApart
<1>7. CASE ReuseLease
  <2>1. PICK k \in p.todo :
          /\ p.existing[k] # NoLease /\ lease[p.existing[k]] = "active"
          /\ p' = [p EXCEPT !.todo = @ \ {k}, !.made[k] = p.existing[k]]
    BY <1>7 DEF ReuseLease
  <2> DEFINE l == p.existing[k]
             made == [p.made EXCEPT ![k] = p.existing[k]]
  <2>2. k \in Key /\ l \in Lease /\ made \in LeaseIDs
    BY <1>0, <2>1, PassFields DEF LeaseIDs
  <2>3. p' = [p EXCEPT !.todo = p.todo \ {k}, !.made = made]
    BY <2>1
  <2>4. /\ \A j \in Key : made[j] = IF j = k THEN l ELSE p.made[j]
        /\ l # NoLease /\ l \notin revoked
    BY <1>0, <2>1, <2>2 DEF LeaseIDs, LeaseStates, Down
  <2> HIDE DEF made
  <2>5. p'.todo = p.todo \ {k} /\ p'.made = made /\ p'.existing = p.existing /\ p'.list = p.list
    BY <1>0, <2>3 DEF Pass
  <2>6. p.list = {} /\ UNCHANGED <<secret, revoked>>
    BY <1>7 DEF PassShape, Revoking, Applying, ReuseLease
  <2>7. \A j \in Key \ {k} : p.made[j] # l
    <3> SUFFICES ASSUME NEW j \in Key \ {k}, p.made[j] = l PROVE FALSE
      OBVIOUS
    <3>1. l \in IDs(p.existing)
      BY <2>2, <2>4 DEF IDs
    <3>2. p.made[j] = p.existing[j]
      BY <2>4, <3>1 DEF KeptApart
    <3> QED BY <2>2, <2>4, <3>2 DEF KeptApart, Distinct
  <2>8. Distinct(made)
    BY <2>4, <2>7 DEF KeptApart, Distinct
  <2>9. \A j \in Key : made[j] \in {NoLease, p.existing[j]} \/ made[j] \notin IDs(p.existing)
    BY <2>4 DEF KeptApart
  <2>10. \A j \in p.todo \ {k} : made[j] = NoLease
    BY <1>0, <2>4, PassFields DEF KeptApart
  <2>11. IDs(made) \cap revoked = {}
    BY <2>4 DEF KeptApart, IDs
  <2> QED BY <2>5, <2>6, <2>8, <2>9, <2>10, <2>11 DEF KeptApart
<1>8. CASE RequestLease
  <2>1. PICK k \in p.todo, l \in Fresh :
          p' = [p EXCEPT !.pc = "leasework", !.todo = @ \ {k}, !.key = {k}, !.made[k] = l]
    BY <1>8 DEF RequestLease
  <2> DEFINE made == [p.made EXCEPT ![k] = l]
  <2>2. k \in Key /\ l \in Lease /\ lease[l] = "free" /\ l # NoLease
    BY <1>0, <2>1, PassFields, Values DEF Fresh
  <2>3. p' = [p EXCEPT !.pc = "leasework", !.todo = p.todo \ {k}, !.key = {k}, !.made = made]
    BY <2>1
  <2>4. \A j \in Key : made[j] = IF j = k THEN l ELSE p.made[j]
    BY <1>0, <2>2 DEF LeaseIDs
  <2> HIDE DEF made
  <2>5. p'.todo = p.todo \ {k} /\ p'.made = made /\ p'.existing = p.existing /\ p'.list = p.list
    BY <1>0, <2>3 DEF Pass
  <2>6. p.list = {} /\ UNCHANGED <<secret, revoked>>
    BY <1>8 DEF PassShape, Revoking, Applying, RequestLease
  <2>7. /\ \A j \in Key : p.made[j] # l /\ p.existing[j] # l
        /\ l \notin revoked /\ l \notin IDs(p.existing)
    BY <2>2 DEF LeaseStates, Exist, Down, IDs
  <2>8. Distinct(made)
    BY <2>4, <2>7 DEF KeptApart, Distinct
  <2>9. \A j \in Key : made[j] \in {NoLease, p.existing[j]} \/ made[j] \notin IDs(p.existing)
    BY <2>4, <2>7 DEF KeptApart
  <2>10. \A j \in p.todo \ {k} : made[j] = NoLease
    BY <1>0, <2>4, PassFields DEF KeptApart
  <2>11. IDs(made) \cap revoked = {}
    BY <2>4, <2>7 DEF KeptApart, IDs
  <2> QED BY <2>5, <2>6, <2>8, <2>9, <2>10, <2>11 DEF KeptApart
<1>9. CASE HintsDone
  <2>1. p'.list = Stale(p.existing, p.made) /\ SameIDs /\ SameHints
    BY <1>0, <1>9, HintsDoneEffect
  <2>2. UNCHANGED <<secret, revoked>>
    BY <1>9 DEF HintsDone
  <2>3. p'.list \subseteq IDs(p.existing)
    BY <2>1 DEF Stale, IDs
  <2>4. IDs(p.made) \cap p'.list = {}
    <3> SUFFICES ASSUME NEW l \in IDs(p.made), l \in p'.list PROVE FALSE
      OBVIOUS
    <3>1. PICK k \in Key : l = p.existing[k] /\ l # NoLease /\ p.made[k] # p.existing[k]
      BY <2>1 DEF Stale
    <3>2. PICK j \in Key : l = p.made[j]
      BY DEF IDs
    <3>3. l \in IDs(p.existing)
      BY <2>3
    <3>4. p.made[j] = p.existing[j]
      BY <3>1, <3>2, <3>3 DEF KeptApart
    <3> QED BY <3>1, <3>2, <3>4 DEF KeptApart, Distinct
  <2> QED BY <2>1, <2>2, <2>3, <2>4 DEF SameIDs, SameHints, KeptApart
<1> QED BY <1>1, <1>2, <1>3, <1>4, <1>5, <1>6, <1>7, <1>8, <1>9, PassStepKinds, OtherStepKinds

\* What a pass is about to write has not been revoked, whatever it reused, replaced
\* and revoked before (leases.go 49-84).
THEOREM StoredLeasesLive == Spec => []StoredIsLive
<1>1. Init => TypeOK /\ PassShape /\ LeaseStates /\ KeptApart
  <2> SUFFICES ASSUME Init PROVE LeaseStates /\ KeptApart
    BY InitTypes
  <2>1. \A n \in Name : secret[n].ann = NoIDs
    BY DEF Init, NoSecret
  <2>2. /\ p.existing = NoIDs /\ p.made = NoIDs /\ p.list = {} /\ p.work = {} /\ p.item = {}
        /\ p.todo = {} /\ revoked = {} /\ ~At("complete")
    BY DEF Init, NoPass, At
  <2>3. Exist(NoIDs) /\ Distinct(NoIDs) /\ IDs(NoIDs) = {} /\ \A k \in Key : NoIDs[k] = NoLease
    BY Values DEF Exist, Distinct, NoIDs
  <2>4. LeaseStates
    BY <2>1, <2>2, <2>3 DEF LeaseStates
  <2>5. KeptApart
    BY <2>1, <2>2, <2>3 DEF KeptApart
  <2> QED BY <2>4, <2>5
<1>2. /\ TypeOK /\ PassShape /\ LeaseStates /\ KeptApart /\ [Next]_vars
      => (TypeOK /\ PassShape /\ LeaseStates /\ KeptApart)'
  BY StepTypes, StepShape, StepStates, StepApart
<1>3. KeptApart => StoredIsLive
  BY DEF KeptApart, StoredIsLive
<1> QED BY <1>1, <1>2, <1>3, PTL DEF Spec

-----------------------------------------------------------------------------
(* An item of work is applied once, and the pass is the one that does.     *)

\* What happens to the leases beside a pass: none becomes wanted, none that is
\* wanted is handed out, and one that is ending is over only with another operator.
Calm ==
  \A l \in Lease :
    \/ lease'[l] = lease[l]
    \/ lease[l] = "wanted" /\ lease'[l] = "over"
    \/ lease[l] = "active" /\ lease'[l] = "ending"
    \/ lease[l] = "free" /\ lease'[l] = "active"
    \/ lease'[l] = "over" /\ ~Alone

\* A pass that begins has nothing in hand.
LEMMA BeginEffect ==
  ASSUME NEW c \in CR, Begin(c)
  PROVE  /\ p'.pc = "read" /\ p'.then = "work" /\ p'.name = obj[c].name /\ p'.cr = c
         /\ p'.existing = NoIDs /\ p'.made = NoIDs /\ p'.raw = "current"
         /\ p'.key = {} /\ p'.work = {} /\ p'.item = {} /\ p'.list = {}
<1> DEFINE del == obj[c].state = "deleting"
           name == obj[c].name
<1>1. p' = [NoPass EXCEPT !.pc = "read", !.cr = c, !.name = name, !.deleting = del]
  BY DEF Begin
<1> HIDE DEF del
<1>2. p'.name = name
  <2> HIDE DEF name
  <2> QED BY <1>1 DEF NoPass
<1> HIDE DEF name
<1> QED BY <1>1, <1>2 DEF NoPass, name

\* Neither users nor expiry nor another operator complete an item of this pass.
LEMMA StepCalm == ASSUME TypeOK, [World]_vars PROVE Calm
<1> USE DEF kube, platform
<1>a. UNCHANGED lease => Calm
  BY DEF Calm
<1>1. ASSUME NEW c \in CR, OtherRevokes(c) PROVE Calm
  BY <1>1, OtherRevokesEffect DEF Calm
<1>2. ASSUME NEW c \in CR, NEW k \in Key, OtherMints(c, k) PROVE Calm
  <2>1. PICK l \in Lease : /\ lease[l] = "free" /\ lease'[l] = "active"
                           /\ \A m \in Lease \ {l} : lease'[m] \in {lease[m], "over"}
    BY <1>2, OtherMintsEffect
  <2> QED BY <1>2, <2>1, OtherMintsEffect DEF Calm
<1>3. ASSUME NEW l \in Lease, Expire(l) PROVE Calm
  BY <1>3 DEF Expire, Ended, Calm, TypeOK
<1>4. CASE \/ \E c \in CR : CreateObject(c) \/ DeleteObject(c) \/ Retarget(c)
           \/ \E n \in Name : DropSecret(n) \/ Collect(n)
           \/ \E k \in Key : ChangeHints(k)
  BY <1>4, <1>a DEF CreateObject, DeleteObject, Retarget, DropSecret, Collect, ChangeHints
<1>5. CASE UNCHANGED vars
  BY <1>5, <1>a DEF vars
<1> QED BY <1>1, <1>2, <1>3, <1>4, <1>5 DEF World

\* The items of a pass stay items that can be completed, by this pass alone.
LEMMA StepItemsFit ==
  ASSUME TypeOK, PassShape, LeaseStates, ItemsFit, [Next]_vars
  PROVE  ItemsFit'
<1> USE DEF kube, platform, provider, history, At, Applying
<1>0. /\ p \in Pass /\ p.made \in LeaseIDs /\ p.work \subseteq Item /\ p.item \subseteq Item
      /\ p.list \subseteq Lease /\ p.key \subseteq Key
      /\ \A i \in p.work \cup p.item : i.lease \in Lease /\ i.action \in {"create", "revoke"}
  BY PassFields DEF TypeOK, Item
<1>q. Requested \subseteq Lease
  BY <1>0 DEF Requested, LeaseIDs
<1>e. ~Applying => p.item = {}
  BY DEF PassShape
<1>d. p.deleting => p.pc \notin {"sync", "work", "leasework", "envelope"}
  BY DEF PassShape, Revoking
<1>w. p.key # {} => p.work = {}
  BY DEF PassShape
<1>n. p' = NoPass => ItemsFit'
  BY DEF NoPass, ItemsFit, Revoking
<1>1. CASE World \/ UNCHANGED vars
  <2>1. Beside /\ Calm
    <3>1. Calm
      BY <1>1, StepCalm
    <3>2. CASE UNCHANGED vars
      BY <3>1, <3>2 DEF vars, Beside, SameIDs, SameWork, SameHints
    <3>3. CASE World
      BY <3>1, <3>3, WorldBeside
    <3> QED BY <1>1, <3>2, <3>3
  <2>2. Requested' = Requested /\ ItemLeases' = ItemLeases
    BY <2>1 DEF Beside, SameIDs, SameWork, SameHints, Requested, ItemLeases
  <2>3. \A l \in ItemLeases : l \in Lease
    BY <1>0 DEF ItemLeases
  <2>4. \A l \in Lease : /\ lease[l] \in {"wanted", "over"} => lease'[l] \in {"wanted", "over"}
                         /\ lease'[l] = "wanted" => lease[l] = "wanted"
                         /\ Alone /\ lease[l] = "ending" => lease'[l] = "ending"
    BY <2>1 DEF Calm
  <2> QED BY <1>0, <1>q, <2>1, <2>2, <2>3, <2>4 DEF Beside, SameWork, ItemsFit, Revoking
<1>2. CASE ReadLeaseIDs
  <2>1. PICK ids \in LeaseIDs : TakeLeaseIDs(ids)
    BY <1>0, <1>2, Values, PassFields DEF ReadLeaseIDs, TypeOK, Secret
  <2>2. /\ p'.pc = (IF p.deleting THEN "revoke" ELSE "sync") /\ SameWork
        /\ p'.deleting = p.deleting /\ UNCHANGED lease
    BY <1>0, <1>2, <2>1, TakeLeaseIDsEffect DEF ReadLeaseIDs, SameOwner
  <2> QED BY <1>2, <1>e, <2>2 DEF SameWork, ReadLeaseIDs, ItemsFit, Revoking
<1>3. CASE SyncDynamic
  <2>1. /\ p'.pc \in {"store", "work"} /\ p'.item = p.item /\ p'.deleting = p.deleting
        /\ p'.work \in {p.work, Offered} /\ UNCHANGED lease
    BY <1>0, <1>3, SyncDynamicEffect DEF SyncDynamic, TypeOK, SameOwner
  <2>2. \A i \in Offered : i.action = "create" => lease[i.lease] = "wanted"
    BY DEF Offered, WorkOf
  <2> QED BY <1>3, <1>e, <1>d, <2>1, <2>2 DEF SyncDynamic, ItemsFit, Revoking
<1>4. CASE OwnWork
  <2>1. /\ p'.pc = "apply" /\ p'.then = "work" /\ p'.deleting = p.deleting /\ UNCHANGED lease
        /\ \E i \in p.work : p'.work = p.work \ {i} /\ p'.item = {i}
    BY <1>0, <1>4, OwnWorkEffect DEF OwnWork, SameOwner
  <2> QED BY <1>4, <1>d, <2>1 DEF OwnWork, ItemsFit, Revoking
<1>5. CASE ReuseLease
  <2>1. p'.pc = "work" /\ SameWork /\ p'.deleting = p.deleting /\ UNCHANGED lease
    BY <1>0, <1>5, ReuseLeaseEffect DEF ReuseLease, SameOwner
  <2> QED BY <1>5, <1>e, <1>d, <2>1 DEF ReuseLease, SameWork, ItemsFit, Revoking
<1>6. CASE RequestLease
  <2>1. PICK k \in Key, l \in Lease :
          /\ lease' = [lease EXCEPT ![l] = "wanted"]
          /\ p'.key = {k} /\ p'.made = [p.made EXCEPT ![k] = l]
    BY <1>0, <1>6, RequestLeaseEffect
  <2>2. p'.pc = "leasework" /\ SameWork /\ p'.deleting = p.deleting /\ p.work = {} /\ p.item = {}
    BY <1>0, <1>6, <1>e, RequestLeaseEffect DEF RequestLease, SameOwner
  <2>3. \A m \in Requested' : m = l
    BY <1>0, <2>1 DEF Requested, LeaseIDs
  <2>4. lease'[l] = "wanted"
    BY <2>1 DEF TypeOK
  <2> QED BY <2>2, <2>3, <2>4 DEF SameWork, ItemsFit, Revoking
<1>7. CASE LeaseWork /\ ~Abandon
  <2>1. /\ p'.pc = "apply" /\ p'.then = "envelope" /\ p'.work = p.work
        /\ SameOwner /\ SameIDs /\ SameHints
    BY <1>0, <1>7, LeaseWorkEffect
  <2>2. PICK l \in Requested : p'.item = WorkOf(l) /\ WorkOf(l) # {}
    BY <1>0, <1>7, LeaseWorkEffect
  <2>3. UNCHANGED lease
    BY <1>7 DEF LeaseWork
  <2>4. \A m \in Requested : m = l
    BY DEF Requested, PassShape
  <2>5. lease[l] \in {"wanted", "over"} /\ p.work = {}
    BY <1>7, <1>w DEF LeaseWork, ItemsFit, Requested
  <2>6. \A i \in p'.item : i.lease = l /\ lease[l] = "wanted"
    BY <2>2, <2>5 DEF WorkOf
  <2>7. ItemLeases' = {l} /\ Requested' = {l}
    BY <2>1, <2>2, <2>4, <2>6 DEF ItemLeases, SameIDs, SameHints, Requested
  <2> QED BY <1>7, <1>d, <2>1, <2>3, <2>5, <2>6, <2>7
          DEF LeaseWork, SameOwner, ItemsFit, Revoking
<1>8. CASE ReadEnvelope /\ ~Abandon
  <2>1. p'.pc = "work" /\ SameWork /\ p'.deleting = p.deleting /\ UNCHANGED lease
    BY <1>0, <1>8, ReadEnvelopeEffect DEF ReadEnvelope, SameOwner
  <2> QED BY <1>8, <1>e, <1>d, <2>1 DEF ReadEnvelope, SameWork, ItemsFit, Revoking
<1>9. CASE HintsDone
  <2>1. p'.pc = "revoke" /\ SameWork /\ p'.deleting = p.deleting /\ p.work = {} /\ UNCHANGED lease
    BY <1>0, <1>9, HintsDoneEffect DEF HintsDone, SameOwner
  <2> QED BY <1>9, <1>e, <2>1 DEF HintsDone, SameWork, ItemsFit, Revoking
<1>10. CASE Apply
  <2>1. p.pc = "apply" /\ p'.pc = "complete" /\ UNCHANGED lease
    BY <1>0, <1>10, GotoEffect, Stages DEF Apply
  <2>2. SameOwner /\ SameIDs /\ SameWork /\ SameHints
    BY <1>0, <1>10, GotoEffect, Stages DEF Apply
  <2>3. Requested' = Requested /\ ItemLeases' = ItemLeases
    BY <2>2 DEF SameIDs, SameWork, SameHints, Requested, ItemLeases
  <2> QED BY <2>1, <2>2, <2>3 DEF SameOwner, SameWork, ItemsFit, Revoking
<1>11. CASE Complete /\ ~Abandon
  <2>1. /\ p'.pc = p.then /\ p'.then = p.then /\ p'.item = {} /\ p'.work = p.work
        /\ SameOwner /\ SameIDs /\ SameHints /\ p.then \in Back
    BY <1>0, <1>11, CompleteEffect DEF Pass
  <2>2. PICK i \in p.item :
          \/ i.action = "create" /\ lease' = [lease EXCEPT ![i.lease] = "active"]
          \/ i.action # "create" /\ lease' = [lease EXCEPT ![i.lease] = "over"]
    BY <1>0, <1>11, CompleteEffect
  <2>3. /\ i.lease \in Lease /\ lease'[i.lease] \in {"active", "over"}
        /\ i.action # "create" => lease'[i.lease] = "over"
        /\ \A l \in Lease \ {i.lease} : lease'[l] = lease[l]
    BY <1>0, <2>2 DEF TypeOK
  <2>4. \A j \in p.work : j.action = "create" => lease'[j.lease] \in {"wanted", "over"}
    <3> SUFFICES ASSUME NEW j \in p.work, j.action = "create"
                 PROVE  lease'[j.lease] \in {"wanted", "over"}
      OBVIOUS
    <3>1. j \in Item /\ i \in Item /\ j # i
      BY <1>0 DEF ItemsFit
    <3>2. CASE j.lease # i.lease
      BY <1>0, <2>3, <3>2 DEF ItemsFit
    <3>3. CASE j.lease = i.lease
      <4>1. i.action # "create"
        BY <3>1, <3>3 DEF Item
      <4> QED BY <2>3, <3>3, <4>1
    <3> QED BY <3>2, <3>3
  <2>5. p.then = "envelope" => \A l \in Requested : lease'[l] # "wanted"
    <3>1. p.then = "envelope" => \A l \in Requested : \E j \in p.item : j.lease = l
      BY <1>11 DEF Complete, ItemsFit, ItemLeases
    <3>2. \A j \in p.item : j = i
      BY DEF PassShape
    <3> QED BY <2>3, <3>1, <3>2
  <2>6. Requested' = Requested
    BY <2>1 DEF SameIDs, SameHints, Requested
  <2>7. p.deleting \/ p.then = "revoke" => p.work = {}
    BY <1>11 DEF Complete, ItemsFit, Revoking
  <2> QED BY <2>1, <2>4, <2>5, <2>6, <2>7 DEF SameOwner, ItemsFit, Revoking, Back
<1>12. CASE RevokeOne
  <2>1. PICK l \in p.list :
          /\ lease' = [lease EXCEPT ![l] = Ended(l)]
          /\ \/ p'.pc = p.pc /\ p'.item = p.item
             \/ /\ Ended(l) # "over" /\ p'.pc = "apply" /\ p'.then = "revoke"
                /\ p'.item = {[lease |-> l, action |-> "revoke"]}
    BY <1>0, <1>12, RevokeOneEffect
  <2>2. p.pc = "revoke" /\ p.item = {} /\ p.work = {} /\ p'.work = p.work
    BY <1>0, <1>12, <1>e, RevokeOneEffect DEF RevokeOne, ItemsFit, Revoking
  <2>3. lease'[l] = Ended(l) /\ Ended(l) \in {"ending", "over"}
    BY <1>0, <2>1 DEF TypeOK, Ended
  <2>4. ASSUME Ended(l) # "over", p'.pc = "apply", p'.then = "revoke",
               p'.item = {[lease |-> l, action |-> "revoke"]}
        PROVE  ItemsFit'
    <3>1. \A i \in p'.item : i.action = "revoke" /\ i.lease = l
      BY <2>4
    <3> QED BY <2>2, <2>3, <2>4, <3>1 DEF ItemsFit, Revoking, ItemLeases
  <2> QED BY <2>1, <2>2, <2>4 DEF ItemsFit, Revoking
<1>13. CASE RevokedAll
  <2>1. p'.pc \in {"unfinalize", "store"} /\ SameWork /\ p'.deleting = p.deleting /\ UNCHANGED lease
    BY <1>0, <1>13, GotoEffect, Stages DEF RevokedAll, SameOwner
  <2> QED BY <1>13, <1>e, <2>1 DEF RevokedAll, SameWork, ItemsFit, Revoking
<1>14. CASE ApplySecret \/ Unfinalize \/ Fail \/ Abandon
  BY <1>14, <1>n DEF ApplySecret, Unfinalize, Fail, Abandon
<1>15. CASE \E c \in CR : Begin(c)
  BY <1>15, BeginEffect DEF ItemsFit, Revoking
<1> QED BY <1>1, <1>2, <1>3, <1>4, <1>5, <1>6, <1>7, <1>8, <1>9, <1>10, <1>11, <1>12, <1>13,
           <1>14, <1>15 DEF Next, PassStep

-----------------------------------------------------------------------------
(* The finalizer waits for the leases a pass has read.                     *)

\* What is known to be lost stays known.
LEMMA LostGrows == ASSUME [Next]_vars PROVE lost \subseteq lost'
<1> USE DEF kube, platform, provider, history, Abandon
<1>1. CASE PassStep
  BY <1>1 DEF PassStep, ReadLeaseIDs, SyncDynamic, OwnWork, ReuseLease, RequestLease,
     LeaseWork, ReadEnvelope, HintsDone, Apply, Complete, RevokeOne, RevokedAll,
     ApplySecret, Unfinalize
<1>2. CASE Fail \/ \E c \in CR : Begin(c)
  BY <1>2 DEF Fail, Begin
<1>3. CASE World
  BY <1>3 DEF World, CreateObject, DeleteObject, Retarget, OtherRevokes, OtherMints,
     DropSecret, Collect, ChangeHints, Expire
<1>4. CASE UNCHANGED vars
  BY <1>4 DEF vars
<1> QED BY <1>1, <1>2, <1>3, <1>4 DEF Next

\* What a pass has read stays what there is.
LEMMA StepWhole ==
  ASSUME TypeOK, PassObject, ReadIsWhole, [Next]_vars
  PROVE  ReadIsWhole'
<1> USE DEF At
<1>0. /\ p \in Pass /\ p.name \in Name /\ lost \subseteq lost'
  BY PassFields, LostGrows DEF TypeOK
<1>1. CASE \E c \in CR : Begin(c)
  BY <1>1, BeginEffect DEF ReadIsWhole
<1>2. CASE Ends
  BY <1>2 DEF Ends, ReadIsWhole, NoPass
<1>3. CASE Beside /\ Clears
  <2>1. CASE secret'[p.name].ann = NoIDs
    BY <1>3, <2>1, Values DEF Beside, ReadIsWhole
  <2>2. CASE secret'[p.name].ann = secret[p.name].ann /\ secret'[p.name].owner = secret[p.name].owner
    BY <1>0, <1>3, <2>2 DEF Beside, SameIDs, ReadIsWhole
  <2> QED BY <1>0, <1>3, <2>1, <2>2 DEF Clears
<1>6. CASE OtherMinting
  <2>1. PICK c \in CR, k \in Key : OtherMints(c, k)
    BY <1>6 DEF OtherMinting
  <2>2. PICK l \in Lease, n \in Name :
          /\ \A m \in Name \ {n} : secret'[m] = secret[m]
          /\ secret'[n].owner = c /\ secret'[n].ann[k] = l
          /\ \A j \in Key \ {k} : secret'[n].ann[j] = secret[n].ann[j]
          /\ p.name = n /\ ~At("idle") /\ ~At("read") => l \in lost'
    BY <2>1, OtherMintsEffect
  <2>3. UNCHANGED p /\ ~Alone /\ obj[c].state = "live" /\ obj[c].fin
    BY <2>1, OtherMintsEffect
  <2>4. CASE p.name # n
    BY <1>0, <2>2, <2>3, <2>4 DEF ReadIsWhole
  <2>5. CASE p.name = n /\ ~At("idle") /\ ~At("read")
    <3>1. IDs(secret'[n].ann) \subseteq IDs(secret[n].ann) \cup {l}
      BY <2>2 DEF IDs
    <3>2. ~(p.deleting /\ c = p.cr)
      BY <2>3, <2>5 DEF PassObject
    <3>3. IDs(secret'[n].ann) \subseteq IDs(p.existing) \cup lost'
      BY <1>0, <2>2, <2>5, <3>1 DEF ReadIsWhole
    <3> QED BY <2>2, <2>3, <2>5, <3>2, <3>3 DEF ReadIsWhole
  <2> QED BY <2>3, <2>4, <2>5 DEF ReadIsWhole
<1>4. CASE ReadLeaseIDs
  <2>1. p'.name = p.name /\ UNCHANGED secret
    BY <1>0, <1>4, TakeLeaseIDsEffect, Values
       DEF ReadLeaseIDs, TypeOK, Secret, SameOwner, kube
  <2>2. CASE TakeLeaseIDs(secret[p.name].ann)
    <3>1. p'.existing = secret[p.name].ann
      BY <1>0, <2>2, TakeLeaseIDsEffect DEF TypeOK, Secret
    <3> QED BY <2>1, <3>1 DEF ReadIsWhole
  <2>3. CASE Spend("unreadable") /\ lost' = lost \cup IDs(secret[p.name].ann)
    BY <2>1, <2>3 DEF Spend, ReadIsWhole
  <2> QED BY <1>4, <2>2, <2>3 DEF ReadLeaseIDs
<1>5. CASE PassStep /\ ~ReadLeaseIDs /\ ~Ends
  <2>1. p'.existing = p.existing /\ UNCHANGED secret /\ ~At("read")
    <3>1. CASE SyncDynamic
      BY <1>0, <3>1, SyncDynamicEffect DEF SyncDynamic, TypeOK, SameIDs, kube
    <3>2. CASE ReuseLease
      BY <1>0, <3>2, ReuseLeaseEffect DEF ReuseLease, kube
    <3>3. CASE RequestLease
      BY <1>0, <3>3, RequestLeaseEffect DEF RequestLease, kube
    <3>4. CASE HintsDone
      BY <1>0, <3>4, HintsDoneEffect DEF HintsDone, SameIDs, kube
    <3>5. CASE GoesOn
      BY <3>5 DEF GoesOn, SameIDs
    <3> QED BY <1>5, <3>1, <3>2, <3>3, <3>4, <3>5, PassStepKinds
  <2>2. ~At("idle") /\ (SameOwner \/ p' = NoPass)
    BY <1>5, PassStepOwner
  <2>3. CASE p' = NoPass
    BY <2>3 DEF NoPass, ReadIsWhole
  <2>4. CASE SameOwner
    BY <1>0, <2>1, <2>2, <2>4 DEF SameOwner, ReadIsWhole
  <2> QED BY <2>2, <2>3, <2>4
<1> QED BY <1>1, <1>2, <1>3, <1>4, <1>5, <1>6, OtherStepKinds

\* A pass that does not revoke yet, or is over.
LEMMA NothingRevoked ==
  ASSUME p'.pc \notin {"revoke", "store", "unfinalize"},
         p'.pc \in {"apply", "complete"} => p'.then # "revoke"
  PROVE  RestIsRevoked'
BY DEF RestIsRevoked, Revoking, Applying, At

\* What a pass does not keep is over, or still in its list.
LEMMA StepRest ==
  ASSUME TypeOK, PassShape, LeaseStates, RestIsRevoked, [Next]_vars
  PROVE  RestIsRevoked'
<1> USE DEF At
<1>0. /\ p \in Pass /\ p.existing \in LeaseIDs /\ IDs(p.existing) \subseteq Lease
      /\ p.list \subseteq Lease /\ p.item \subseteq Item
  BY PassFields, Values DEF TypeOK
<1>f. \A l \in Lease : lease[l] = "over" => lease'[l] = "over"
  BY StepRoles DEF Steady, Forward
<1>a. p' = NoPass => RestIsRevoked'
  BY NothingRevoked DEF NoPass
<1>1. CASE \E c \in CR : Begin(c)
  BY <1>1, BeginEffect, NothingRevoked
<1>2. CASE Ends
  BY <1>2, <1>a DEF Ends
<1>3. CASE Beside
  BY <1>0, <1>3, <1>f
     DEF Beside, SameIDs, SameWork, RestIsRevoked, Revoking, Applying, ItemLeases
<1>4. CASE ReadLeaseIDs
  <2>1. PICK ids \in LeaseIDs : TakeLeaseIDs(ids)
    BY <1>0, <1>4, Values, PassFields DEF ReadLeaseIDs, TypeOK, Secret
  <2>2. /\ p'.pc = (IF p.deleting THEN "revoke" ELSE "sync") /\ p'.existing = ids
        /\ p'.list = (IF p.deleting THEN IDs(ids) ELSE {})
    BY <1>0, <2>1, TakeLeaseIDsEffect
  <2> QED BY <2>2 DEF RestIsRevoked, Revoking, Applying
<1>5. CASE SyncDynamic
  <2>1. p'.pc = "work" \/ (p'.pc = "store" /\ p'.existing = NoIDs)
    BY <1>0, <1>5, SyncDynamicEffect DEF TypeOK, SameIDs
  <2> QED BY <2>1, Values DEF RestIsRevoked, Revoking, Applying
<1>6. CASE OwnWork
  BY <1>0, <1>6, OwnWorkEffect, NothingRevoked
<1>7. CASE ReuseLease
  BY <1>0, <1>7, ReuseLeaseEffect, NothingRevoked DEF ReuseLease
<1>8. CASE RequestLease
  BY <1>0, <1>8, RequestLeaseEffect, NothingRevoked
<1>9. CASE LeaseWork
  BY <1>0, <1>9, <1>a, LeaseWorkEffect, NothingRevoked DEF Abandon
<1>10. CASE ReadEnvelope
  BY <1>0, <1>10, <1>a, ReadEnvelopeEffect, NothingRevoked DEF Abandon
<1>11. CASE HintsDone
  <2>1. p'.list = Stale(p.existing, p.made) /\ SameIDs
    BY <1>0, <1>11, HintsDoneEffect
  <2>2. \A l \in IDs(p.existing) \ IDs(p.made) : l \in Stale(p.existing, p.made)
    <3> SUFFICES ASSUME NEW l \in IDs(p.existing) \ IDs(p.made) PROVE l \in Stale(p.existing, p.made)
      OBVIOUS
    <3>1. PICK k \in Key : l = p.existing[k] /\ l # NoLease
      BY InIDs
    <3>2. p.made[k] # l
      BY <3>1, InIDs
    <3> QED BY <3>1, <3>2 DEF Stale
  <2> QED BY <2>1, <2>2 DEF SameIDs, RestIsRevoked
<1>12. CASE Apply
  <2>1. p'.pc = "complete" /\ p.pc = "apply" /\ p'.list = p.list /\ SameIDs /\ SameWork
    BY <1>0, <1>12, GotoEffect, Stages DEF Apply
  <2> QED BY <1>0, <1>f, <2>1
          DEF SameIDs, SameWork, RestIsRevoked, Revoking, Applying, ItemLeases
<1>13. CASE Complete
  <2>1. CASE Abandon
    BY <1>a, <2>1 DEF Abandon
  <2>2. CASE ~Abandon
    <3>1. /\ p'.pc = p.then /\ p'.then = p.then /\ p'.item = {} /\ p'.list = p.list /\ SameIDs
          /\ p.then \in Back
      BY <1>0, <1>13, <2>2, CompleteEffect DEF Pass
    <3>2. CASE p.then # "revoke"
      BY <3>1, <3>2, NothingRevoked DEF Back
    <3>3. CASE p.then = "revoke"
      <4>1. PICK i \in p.item :
              \/ i.action = "create"
              \/ i.action # "create" /\ lease' = [lease EXCEPT ![i.lease] = "over"]
        BY <1>0, <1>13, <2>2, CompleteEffect
      <4>2. Revoking /\ i.action = "revoke" /\ i.lease \in Lease
        BY <1>0, <1>13, <3>3 DEF Complete, Revoking, Applying, PassShape, Item
      <4>3. lease'[i.lease] = "over"
        BY <4>1, <4>2 DEF TypeOK
      <4>4. \A l \in ItemLeases : l = i.lease
        BY DEF ItemLeases, PassShape
      <4>5. \A l \in IDs(p.existing) \ IDs(p.made) : lease'[l] = "over" \/ l \in p.list
        BY <1>0, <1>f, <4>2, <4>3, <4>4 DEF RestIsRevoked
      <4> QED BY <3>1, <4>5 DEF SameIDs, RestIsRevoked
    <3> QED BY <3>2, <3>3
  <2> QED BY <2>1, <2>2
<1>14. CASE RevokeOne
  <2>1. PICK l \in p.list :
          /\ lease' = [lease EXCEPT ![l] = Ended(l)] /\ p'.list = p.list \ {l}
          /\ \/ Ended(l) = "over"
             \/ p'.item = {[lease |-> l, action |-> "revoke"]}
    BY <1>0, <1>14, RevokeOneEffect
  <2>2. SameIDs /\ p.pc = "revoke" /\ p.item = {}
    BY <1>0, <1>14, RevokeOneEffect DEF RevokeOne, PassShape, Applying
  <2>3. \A m \in IDs(p.existing) \ IDs(p.made) : lease[m] = "over" \/ m \in p.list
    BY <2>2 DEF RestIsRevoked, Revoking, ItemLeases
  <2>4. lease'[l] = "over" \/ l \in ItemLeases'
    <3>1. CASE Ended(l) = "over"
      BY <1>0, <2>1, <3>1 DEF TypeOK
    <3>2. CASE Ended(l) # "over"
      <4>1. [lease |-> l, action |-> "revoke"] \in p'.item
        BY <2>1, <3>2
      <4> QED BY <4>1 DEF ItemLeases
    <3> QED BY <3>1, <3>2
  <2> QED BY <1>0, <1>f, <2>1, <2>2, <2>3, <2>4 DEF SameIDs, RestIsRevoked
<1>15. CASE RevokedAll
  <2>1. p.list = {} /\ p.item = {} /\ p.pc = "revoke"
    BY <1>15 DEF RevokedAll, PassShape, Applying
  <2>2. SameIDs
    BY <1>0, <1>15, GotoEffect, Stages DEF RevokedAll
  <2>3. \A l \in IDs(p.existing) \ IDs(p.made) : lease[l] = "over"
    BY <2>1 DEF RestIsRevoked, Revoking, ItemLeases
  <2> QED BY <1>0, <1>f, <2>2, <2>3 DEF SameIDs, RestIsRevoked
<1>16. CASE ApplySecret \/ Unfinalize
  BY <1>16, <1>a DEF ApplySecret, Unfinalize, Abandon
<1> QED BY <1>1, <1>2, <1>3, <1>4, <1>5, <1>6, <1>7, <1>8, <1>9, <1>10, <1>11, <1>12,
           <1>13, <1>14, <1>15, <1>16, OtherStepKinds DEF PassStep

\* Only the end of a deletion pass over it makes a deleted object go.
LEMMA LetGoOnly ==
  ASSUME TypeOK, [Next]_vars, NEW c \in CR,
         obj[c].state = "deleting", obj'[c].state = "none"
  PROVE  (At("unfinalize") /\ p.raw = "current" /\ c = p.cr) \/ OtherRevokes(c)
<1> USE DEF kube, platform, provider, history
<1>r. ASSUME NEW d, Removed(d) PROVE c = d
  BY <1>r DEF Removed, TypeOK, Object
<1>a. ASSUME UNCHANGED obj PROVE FALSE
  BY <1>a
<1>1. CASE PassStep
  BY <1>1, <1>a, <1>r, PassStepOwner
<1>2. ASSUME NEW d \in CR, Begin(d) PROVE FALSE
  BY <1>2 DEF Begin, TypeOK, Object
<1>3. ASSUME NEW d \in CR, CreateObject(d) PROVE FALSE
  <2>1. d # c
    BY <1>3 DEF CreateObject
  <2> QED BY <1>3, <2>1 DEF CreateObject, TypeOK
<1>4. ASSUME NEW d \in CR, DeleteObject(d) PROVE FALSE
  <2>1. d # c
    BY <1>4 DEF DeleteObject
  <2> QED BY <1>4, <1>r, <2>1 DEF DeleteObject, TypeOK
<1>5. ASSUME NEW d \in CR, Retarget(d) PROVE FALSE
  BY <1>5 DEF Retarget, TypeOK, Object
<1>6. CASE \E d \in CR : OtherRevokes(d) \/ \E k \in Key : OtherMints(d, k)
  BY <1>6, <1>a, <1>r, OtherRevokesEffect, OtherMintsEffect
<1>7. CASE \/ \E n \in Name : DropSecret(n) \/ Collect(n)
           \/ \E k \in Key : ChangeHints(k)
           \/ \E l \in Lease : Expire(l)
  BY <1>7, <1>a DEF DropSecret, Collect, ChangeHints, Expire
<1>8. CASE Fail \/ UNCHANGED vars
  BY <1>8, <1>a DEF Fail, vars
<1> QED BY <1>1, <1>2, <1>3, <1>4, <1>5, <1>6, <1>7, <1>8 DEF Next, World

\* The leases on the Secret of an object that is let go.
LEMMA RevokedBefore ==
  ASSUME PassShape, ReadIsWhole, RestIsRevoked, At("unfinalize")
  PROVE  \A l \in IDs(secret[p.name].ann) :
           \/ lease[l] = "over"
           \/ l \in lost /\ ("unreadable" \in Trouble \/ secret[p.name].owner # p.cr)
<1>1. p.list = {} /\ p.item = {} /\ p.deleting /\ p.made = NoIDs
  BY DEF PassShape, Revoking, Applying, At
<1>2. \A l \in IDs(p.existing) : lease[l] = "over"
  BY <1>1, Values DEF RestIsRevoked, ItemLeases
<1> QED BY <1>1, <1>2 DEF ReadIsWhole, At

Held == /\ TypeOK /\ PassShape /\ PassObject /\ LeaseStates /\ KeptApart
        /\ ItemsFit /\ ReadIsWhole /\ RestIsRevoked

\* The inductive invariant of any number of troubles.
LEMMA HeldInductive == (Init => Held) /\ (Held /\ [Next]_vars => Held')
<1>1. ASSUME Init PROVE Held
  <2>0. TypeOK /\ PassShape
    BY <1>1, InitTypes
  <2>1. \A n \in Name : secret[n].ann = NoIDs
    BY <1>1 DEF Init, NoSecret
  <2>2. /\ p.existing = NoIDs /\ p.made = NoIDs /\ p.list = {} /\ p.work = {} /\ p.item = {}
        /\ p.todo = {} /\ p.pc = "idle" /\ revoked = {}
    BY <1>1 DEF Init, NoPass
  <2>3. Exist(NoIDs) /\ Distinct(NoIDs) /\ IDs(NoIDs) = {} /\ \A k \in Key : NoIDs[k] = NoLease
    BY Values DEF Exist, Distinct, NoIDs
  <2>4. LeaseStates
    BY <2>1, <2>2, <2>3 DEF LeaseStates, At
  <2>5. KeptApart
    BY <2>1, <2>2, <2>3 DEF KeptApart
  <2>6. PassObject
    <3>1. \A c \in CR : obj[c].state = "live" /\ obj[c].fin = FALSE
      BY <1>1 DEF Init
    <3> QED BY <2>2, <3>1 DEF PassObject, At
  <2>7. ReadIsWhole /\ RestIsRevoked /\ ItemsFit
    BY <2>2 DEF ReadIsWhole, RestIsRevoked, ItemsFit, Revoking, Applying, At
  <2> QED BY <2>0, <2>4, <2>5, <2>6, <2>7 DEF Held
<1>2. ASSUME Held, [Next]_vars PROVE Held'
  BY <1>2, StepTypes, StepShape, StepMaps, StepStates, StepApart, StepItemsFit, StepWhole,
     StepRest DEF Held, LoopStep
<1> QED BY <1>1, <1>2

\* As long as every annotation can be read, no failure, race, edit or rolling
\* update lets a deleted object go while a lease on its Secret is not over
\* (reconcile.go 244-276, manager.go 138-148).
THEOREM FinalizersWait ==
  ASSUME "unreadable" \notin Trouble PROVE Spec => FinalizerWaits
<1>1. ASSUME Held, [Next]_vars,
             NEW c \in CR, obj[c].state = "deleting", obj'[c].state = "none",
             secret[obj[c].name].owner = c
      PROVE  \A l \in IDs(secret[obj[c].name].ann) : lease'[l] = "over"
  <2>1. CASE At("unfinalize") /\ p.raw = "current" /\ c = p.cr
    <3>1. obj[c].name = p.name /\ p.name \in Name
      BY <1>1, <2>1, PassFields DEF At, Held, PassObject, TypeOK
    <3>2. IDs(secret[p.name].ann) \subseteq Lease
      BY <1>1, <3>1, Values DEF Held, TypeOK, Secret
    <3>3. \A l \in Lease : lease[l] = "over" => lease'[l] = "over"
      BY <1>1, StepStates DEF Held, Steady, Forward
    <3> QED BY <1>1, <2>1, <3>1, <3>2, <3>3, RevokedBefore DEF Held
  <2>2. CASE OtherRevokes(c)
    BY <1>1, <2>2, OtherRevokesEffect DEF Held
  <2> QED BY <1>1, <2>1, <2>2, LetGoOnly DEF Held
<1>2. Held /\ [Next]_vars =>
        [\A c \in CR :
           obj[c].state = "deleting" /\ obj'[c].state = "none"
             => LET s == secret[obj[c].name]
                IN s.there /\ s.owner = c => \A l \in IDs(s.ann) : lease'[l] = "over"]_vars
  BY <1>1
<1> QED BY <1>2, HeldInductive, PTL DEF Spec, FinalizerWaits

-----------------------------------------------------------------------------
(* A pass that meets no fault comes through.                               *)

\* A set whose elements all come from those of a finite one is no larger.
LEMMA CoveredSize ==
  ASSUME NEW S, IsFiniteSet(S), NEW T, NEW f, \A t \in T : \E s \in S : f[s] = t
  PROVE  IsFiniteSet(T) /\ Cardinality(T) <= Cardinality(S)
<1> DEFINE U == {s \in S : f[s] \in T}
           g == [s \in U |-> f[s]]
<1>1. IsFiniteSet(U) /\ Cardinality(U) <= Cardinality(S)
  BY FS_Subset
<1>2. g \in Surjection(U, T)
  BY DEF Surjection
<1> HIDE DEF U, g
<1>3. IsFiniteSet(T) /\ Cardinality(T) <= Cardinality(U)
  BY <1>1, <1>2, FS_Surjection
<1>4. Cardinality(S) \in Nat /\ Cardinality(T) \in Nat /\ Cardinality(U) \in Nat
  BY <1>1, <1>3, FS_CardinalityType
<1> QED BY <1>1, <1>3, <1>4

\* There are as many leases as the platform can hand out, and finitely many items.
LEMMA LeaseSize ==
  /\ IsFiniteSet(Lease) /\ Cardinality(Lease) = MaxLease
  /\ IsFiniteSet(Item)
  /\ Cardinality(Key) \in Nat
<1>1. IsFiniteSet(Lease) /\ Cardinality(Lease) = MaxLease
  BY LeaseAssumption, FS_Interval DEF Lease
<1>2. IsFiniteSet({"create", "revoke"})
  <2>1. {"create", "revoke"} = {"create"} \cup {"revoke"}
    OBVIOUS
  <2>2. IsFiniteSet({"create"}) /\ IsFiniteSet({"revoke"})
    BY FS_Singleton
  <2> QED BY <2>1, <2>2, FS_Union
<1> DEFINE S == Lease \X {"create", "revoke"}
           f == [x \in S |-> [lease |-> x[1], action |-> x[2]]]
<1>3. IsFiniteSet(S)
  BY <1>1, <1>2, FS_Product
<1>4. \A i \in Item : \E x \in S : f[x] = i
  <2> SUFFICES ASSUME NEW i \in Item PROVE \E x \in S : f[x] = i
    OBVIOUS
  <2>1. /\ i.lease \in Lease /\ i.action \in {"create", "revoke"}
        /\ i = [lease |-> i.lease, action |-> i.action]
    BY DEF Item
  <2>2. <<i.lease, i.action>> \in S /\ f[<<i.lease, i.action>>] = i
    BY <2>1
  <2> QED BY <2>2
<1> HIDE DEF S, f
<1>5. IsFiniteSet(Item)
  BY <1>3, <1>4, CoveredSize
<1> QED BY <1>1, <1>5, KeyAssumption, FS_CardinalityType

\* What a pass has before it is finite, and so is what it can be given.
LEMMA PassSizes ==
  ASSUME NEW q \in Pass
  PROVE  /\ IsFiniteSet(q.work) /\ IsFiniteSet(q.todo) /\ IsFiniteSet(q.list)
         /\ Cardinality(q.work) \in Nat /\ Cardinality(q.todo) \in 0 .. Cardinality(Key)
         /\ Cardinality(q.list) \in 0 .. MaxLease
<1>1. q.work \in SUBSET Item /\ q.todo \in SUBSET Key /\ q.list \in SUBSET Lease
  BY DEF Pass
<1>2. /\ IsFiniteSet(q.work) /\ IsFiniteSet(q.todo) /\ IsFiniteSet(q.list)
      /\ Cardinality(q.todo) <= Cardinality(Key) /\ Cardinality(q.list) <= MaxLease
  BY <1>1, LeaseSize, KeyAssumption, FS_Subset
<1> QED BY <1>2, LeaseSize, LeaseAssumption, FS_CardinalityType

\* The platform offers at most one item for a lease.
LEMMA OfferedSize == Cardinality(Offered) <= MaxLease
<1> DEFINE f == [l \in Lease |->
                   [lease |-> l, action |-> IF lease[l] = "wanted" THEN "create" ELSE "revoke"]]
<1>1. \A i \in Offered : \E l \in Lease : f[l] = i
  BY DEF Offered, WorkOf
<1> HIDE DEF f
<1> QED BY <1>1, LeaseSize, CoveredSize

\* At most one lease of a key is stale.
LEMMA StaleSize ==
  ASSUME p \in Pass
  PROVE  Cardinality(Stale(p.existing, p.made)) <= Cardinality(Key)
<1>1. \A l \in Stale(p.existing, p.made) : \E k \in Key : p.existing[k] = l
  BY DEF Stale
<1> QED BY <1>1, KeyAssumption, CoveredSize

\* Taking a member out of a finite set.
LEMMA OneLess ==
  ASSUME NEW S, IsFiniteSet(S), NEW x \in S
  PROVE  Cardinality(S \ {x}) = Cardinality(S) - 1
BY FS_RemoveElement

\* What Ahead is at each stage.
Listed == 3 * Cardinality(p.list) + 2
AheadIs ==
  /\ At("idle") => Ahead = 0
  /\ At("store") \/ At("unfinalize") => Ahead = 1
  /\ At("read") => Ahead = 8 * Cardinality(Key) + 3 * MaxLease + 5
  /\ At("sync") => Ahead = 8 * Cardinality(Key) + 3 * MaxLease + 4
  /\ At("work") => Ahead = Hinted + 0
  /\ At("leasework") => Ahead = Hinted + 4
  /\ At("envelope") => Ahead = Hinted + 1
  /\ At("revoke") => Ahead = Listed + 0
  /\ At("apply") => Ahead = (IF p.then = "revoke" THEN Listed ELSE Hinted)
                            + (IF p.then = "envelope" THEN 3 ELSE 2)
  /\ At("complete") => Ahead = (IF p.then = "revoke" THEN Listed ELSE Hinted)
                               + (IF p.then = "envelope" THEN 2 ELSE 1)

\* Ahead, before a step.
LEMMA AheadNow == AheadIs
BY DEF AheadIs, Ahead, At, Revoking, Applying, Listed

\* Ahead, after it.
LEMMA AheadNext == AheadIs'
BY DEF AheadIs, Ahead, At, Revoking, Applying, Hinted, Listed

\* The leases a pass has requested are in its map.
LEMMA RequestedMade == TypeOK => Requested \subseteq IDs(p.made)
<1> SUFFICES ASSUME TypeOK, NEW l \in Requested PROVE l \in IDs(p.made)
  OBVIOUS
<1>1. PICK k \in p.key : l = p.made[k] /\ l # NoLease
  BY DEF Requested
<1>2. k \in Key
  BY PassFields DEF TypeOK
<1> QED BY <1>1, <1>2 DEF IDs

\* What is left after a step is less than what was left before it, and a pass that
\* is over has come through.
Goes == Ahead' < Ahead /\ (At("idle")' => CameThrough)

\* A pass that goes on has less before it.
LEMMA StepGoesOn ==
  ASSUME Held, Held', PassStep, budget' = budget, ~Abandon, ~ApplySecret, ~Unfinalize
  PROVE  Goes
<1> USE DEF kube, platform, provider, history, At
<1>0. /\ p \in Pass /\ p' \in Pass /\ TypeOK
      /\ ~Applying => p.item = {}
      /\ p.key # {} => p.work = {}
  BY DEF Held, TypeOK, PassShape
<1>b. ASSUME NEW kind, Spend(kind) PROVE FALSE
  BY <1>0, <1>b, LeaseAssumption DEF Spend, TypeOK
<1>n. /\ Cardinality(Key) \in Nat /\ MaxLease \in Nat
      /\ IsFiniteSet(p.work) /\ IsFiniteSet(p.todo) /\ IsFiniteSet(p.list)
      /\ Cardinality(p.work) \in Nat /\ Cardinality(p'.work) \in Nat
      /\ Cardinality(p.todo) \in Nat /\ Cardinality(p'.todo) \in 0 .. Cardinality(Key)
      /\ Cardinality(p.list) \in Nat /\ Cardinality(p'.list) \in 0 .. MaxLease
  BY <1>0, LeaseSize, LeaseAssumption, PassSizes
<1>h. Hinted = 3 * Cardinality(Key) + 3 + 3 * Cardinality(p.work) + 5 * Cardinality(p.todo)
  BY DEF Hinted
<1>i. Hinted' = 3 * Cardinality(Key) + 3 + 3 * Cardinality(p'.work) + 5 * Cardinality(p'.todo)
  BY DEF Hinted
<1>j. /\ Listed = 3 * Cardinality(p.list) + 2
      /\ Listed' = 3 * Cardinality(p'.list) + 2
  BY DEF Listed
<1>c. Hinted \in Nat /\ Hinted' \in Nat /\ Listed \in Nat /\ Listed' \in Nat
  BY <1>n, <1>h, <1>i, <1>j
<1>1. CASE ReadLeaseIDs
  <2>1. PICK ids \in LeaseIDs : TakeLeaseIDs(ids)
    BY <1>0, <1>1, Values, PassFields DEF ReadLeaseIDs, TypeOK, Secret
  <2>2. p.pc = "read" /\ p'.pc \in {"revoke", "sync"}
    BY <1>0, <1>1, <2>1, TakeLeaseIDsEffect DEF ReadLeaseIDs
  <2> QED BY <1>n, <1>j, <2>2, AheadNow, AheadNext DEF AheadIs, Goes
<1>2. CASE SyncDynamic
  <2>1. \/ p'.pc = "store"
        \/ p'.pc = "work" /\ p'.work = Offered
    <3>1. CASE Goto("store")
      BY <1>0, <3>1, GotoEffect, Stages
    <3>2. CASE p' = [p EXCEPT !.pc = "work", !.todo = hints, !.work = Offered]
      BY <1>0, <3>2 DEF Pass
    <3> QED BY <1>2, <1>b, <3>1, <3>2 DEF SyncDynamic
  <2>2. p.pc = "sync"
    BY <1>2 DEF SyncDynamic
  <2>3. p'.pc = "work" => Hinted' <= 8 * Cardinality(Key) + 3 * MaxLease + 3
    BY <1>n, <1>i, <2>1, OfferedSize
  <2> QED BY <1>n, <1>c, <2>1, <2>2, <2>3, AheadNow, AheadNext DEF AheadIs, Goes
<1>3. CASE OwnWork
  <2>1. PICK i \in p.work : p'.work = p.work \ {i}
    BY <1>0, <1>3, OwnWorkEffect
  <2>2. p.pc = "work" /\ p'.pc = "apply" /\ p'.then = "work" /\ p'.todo = p.todo
    BY <1>0, <1>3, OwnWorkEffect DEF OwnWork, SameHints
  <2>3. Cardinality(p'.work) = Cardinality(p.work) - 1
    BY <1>n, <2>1, OneLess
  <2>4. Hinted' = Hinted - 3
    BY <1>n, <1>h, <1>i, <2>2, <2>3
  <2> QED BY <1>c, <2>2, <2>4, AheadNow, AheadNext DEF AheadIs, Goes
<1>4. CASE ReuseLease \/ RequestLease
  <2>1. PICK k \in p.todo : p'.todo = p.todo \ {k}
    <3>1. CASE ReuseLease
      BY <1>0, <3>1 DEF ReuseLease, Pass
    <3>2. CASE RequestLease
      BY <1>0, <3>2 DEF RequestLease, Pass
    <3> QED BY <1>4, <3>1, <3>2
  <2>2. p.pc = "work" /\ p'.pc \in {"work", "leasework"} /\ p'.work = p.work
    BY <1>0, <1>4, ReuseLeaseEffect, RequestLeaseEffect DEF ReuseLease, RequestLease, SameWork
  <2>3. Cardinality(p'.todo) = Cardinality(p.todo) - 1
    BY <1>n, <2>1, OneLess
  <2>4. Hinted' = Hinted - 5
    BY <1>n, <1>h, <1>i, <2>2, <2>3
  <2> QED BY <1>c, <2>2, <2>4, AheadNow, AheadNext DEF AheadIs, Goes
<1>5. CASE LeaseWork
  <2>1. p'.pc = "apply" /\ p'.then = "envelope" /\ p'.work = p.work /\ p'.todo = p.todo
    BY <1>0, <1>5, LeaseWorkEffect DEF SameHints
  <2>2. p.pc = "leasework"
    BY <1>5 DEF LeaseWork
  <2>3. Hinted' = Hinted
    BY <1>h, <1>i, <2>1
  <2> QED BY <1>c, <2>1, <2>2, <2>3, AheadNow, AheadNext DEF AheadIs, Goes
<1>6. CASE ReadEnvelope
  <2>1. PICK l \in Requested : p' = [p EXCEPT !.pc = "work", !.key = {}]
    BY <1>6 DEF ReadEnvelope
  <2>2. p.pc = "envelope" /\ p'.pc = "work" /\ p'.work = p.work /\ p'.todo = p.todo
    BY <1>0, <1>6, <2>1 DEF ReadEnvelope, Pass
  <2>3. Hinted' = Hinted
    BY <1>h, <1>i, <2>2
  <2> QED BY <1>c, <2>2, <2>3, AheadNow, AheadNext DEF AheadIs, Goes
<1>7. CASE HintsDone
  <2>1. p.pc = "work" /\ p'.pc = "revoke" /\ p'.list = Stale(p.existing, p.made)
    BY <1>0, <1>7, HintsDoneEffect DEF HintsDone
  <2>2. Cardinality(p'.list) <= Cardinality(Key)
    BY <1>0, <2>1, StaleSize
  <2> QED BY <1>n, <1>h, <1>j, <2>1, <2>2, AheadNow, AheadNext DEF AheadIs, Goes
<1>8. CASE Apply
  <2>1. p.pc = "apply" /\ p'.pc = "complete" /\ p'.list = p.list /\ SameWork /\ SameHints
    BY <1>0, <1>8, GotoEffect, Stages DEF Apply
  <2>2. Hinted' = Hinted /\ Listed' = Listed
    BY <1>h, <1>i, <1>j, <2>1 DEF SameWork, SameHints
  <2> QED BY <1>c, <2>1, <2>2, AheadNow, AheadNext DEF AheadIs, Goes, SameWork
<1>9. CASE Complete
  <2>1. /\ p'.pc = p.then /\ p'.list = p.list /\ p'.work = p.work /\ p'.todo = p.todo
        /\ p.then \in Back
    BY <1>0, <1>9, CompleteEffect DEF SameHints, Pass
  <2>2. p.pc = "complete"
    BY <1>9 DEF Complete
  <2>3. Hinted' = Hinted /\ Listed' = Listed
    BY <1>h, <1>i, <1>j, <2>1
  <2> QED BY <1>c, <2>1, <2>2, <2>3, AheadNow, AheadNext DEF AheadIs, Goes, Back
<1>10. CASE RevokeOne
  <2>1. PICK l \in p.list :
          /\ p'.list = p.list \ {l}
          /\ p'.pc = p.pc \/ (p'.pc = "apply" /\ p'.then = "revoke")
    BY <1>0, <1>10, RevokeOneEffect
  <2>2. p.pc = "revoke"
    BY <1>10 DEF RevokeOne
  <2>3. Cardinality(p'.list) = Cardinality(p.list) - 1
    BY <1>n, <2>1, OneLess
  <2>4. Listed' = Listed - 3
    BY <1>n, <1>j, <2>3
  <2> QED BY <1>c, <2>1, <2>2, <2>4, AheadNow, AheadNext DEF AheadIs, Goes
<1>11. CASE RevokedAll
  <2>1. p.pc = "revoke" /\ p'.pc \in {"unfinalize", "store"}
    BY <1>0, <1>11, GotoEffect, Stages DEF RevokedAll
  <2> QED BY <1>n, <1>j, <2>1, AheadNow, AheadNext DEF AheadIs, Goes
<1> QED BY <1>1, <1>2, <1>3, <1>4, <1>5, <1>6, <1>7, <1>8, <1>9, <1>10, <1>11 DEF PassStep

\* A pass that is over has written or released, or a lease was ended under its hands.
LEMMA StepCameThrough ==
  ASSUME Held, PassStep, budget' = budget, Abandon \/ ApplySecret \/ Unfinalize
  PROVE  p' = NoPass /\ CameThrough
<1> USE DEF kube, platform, provider, history, At
<1>0. /\ p \in Pass /\ TypeOK /\ PassShape /\ LeaseStates /\ ItemsFit /\ p.item \subseteq Item
      /\ p.name \in Name /\ Requested \subseteq IDs(p.made) /\ IDs(p.made) \subseteq Lease
      /\ lease \in [Lease -> LeaseState] /\ secret \in [Name -> Secret] /\ obj \in [CR -> Object]
  BY PassFields, RequestedMade, Values DEF Held, TypeOK
<1>d. p.deleting => p.pc \in {"read", "apply", "complete", "revoke", "unfinalize"}
  BY <1>0 DEF PassShape, Revoking, Applying
<1>1. CASE ApplySecret
  <2>1. p' = NoPass /\ p.pc = "store"
    BY <1>1 DEF ApplySecret, Abandon
  <2>2. CASE secret[p.name].there /\ secret[p.name].owner # p.cr
    BY <1>d, <2>1, <2>2 DEF CameThrough
  <2>3. CASE ~(secret[p.name].there /\ secret[p.name].owner # p.cr)
    <3> DEFINE s == [there |-> TRUE, owner |-> p.cr, dead |-> p.raw = "gone",
                     ann |-> Annotated(secret[p.name].ann, p.made), data |-> p.made]
    <3>1. secret' = [secret EXCEPT ![p.name] = s]
      BY <1>1, <2>3 DEF ApplySecret
    <3>2. s.owner = p.cr /\ s.data = p.made
      OBVIOUS
    <3> HIDE DEF s
    <3>3. secret'[p.name].owner = p.cr /\ secret'[p.name].data = p.made
      BY <1>0, <3>1, <3>2
    <3> QED BY <1>d, <2>1, <3>3 DEF CameThrough
  <2> QED BY <2>2, <2>3
<1>2. CASE Unfinalize
  <2>1. p' = NoPass /\ p.pc = "unfinalize" /\ p.deleting
    BY <1>0, <1>2 DEF Unfinalize, Abandon, PassShape
  <2>2. p.raw = "current" => obj'[p.cr].state = "none"
    <3>1. ASSUME p.raw = "current" PROVE obj'[p.cr].state = "none"
      <4>1. p.cr \in CR /\ Removed(p.cr)
        BY <1>2, <2>1, <3>1 DEF Unfinalize, Held, PassObject
      <4> QED BY <1>0, <4>1 DEF Removed, Object
    <3> QED BY <3>1
  <2> QED BY <2>1, <2>2 DEF CameThrough
<1>3. CASE Abandon /\ ~ApplySecret /\ ~Unfinalize
  <2>1. p' = NoPass /\ p'.pc = "idle"
    BY <1>3 DEF Abandon, NoPass
  <2>2. LeaseWork \/ ReadEnvelope \/ Complete
    <3>1. CASE ReadLeaseIDs
      <4>1. PICK ids \in LeaseIDs : TakeLeaseIDs(ids)
        BY <1>0, <3>1, Values, PassFields DEF ReadLeaseIDs, Secret
      <4> QED BY <1>0, <2>1, <4>1, TakeLeaseIDsEffect
    <3>2. CASE SyncDynamic \/ OwnWork \/ RequestLease \/ HintsDone
      BY <1>0, <2>1, <3>2, SyncDynamicEffect, OwnWorkEffect, RequestLeaseEffect, HintsDoneEffect
         DEF TypeOK
    <3>3. CASE ReuseLease
      BY <1>0, <2>1, <3>3, ReuseLeaseEffect DEF ReuseLease
    <3>4. CASE Apply \/ RevokedAll
      BY <1>0, <2>1, <3>4, GotoEffect, Stages DEF Apply, RevokedAll
    <3>5. CASE RevokeOne
      BY <1>0, <2>1, <3>5, RevokeOneEffect DEF RevokeOne
    <3> QED BY <1>3, <3>1, <3>2, <3>3, <3>4, <3>5 DEF PassStep
  <2>3. CASE LeaseWork
    <3>1. PICK l \in Requested : WorkOf(l) = {}
      BY <1>0, <2>1, <2>3 DEF LeaseWork, Pass
    <3>2. lease[l] \in {"wanted", "over"} /\ p.pc = "leasework"
      BY <1>0, <2>3 DEF LeaseWork, ItemsFit
    <3>3. Down(l)
      BY <3>1, <3>2 DEF WorkOf, Down
    <3> QED BY <1>d, <2>1, <3>2, <3>3 DEF CameThrough
  <2>4. CASE ReadEnvelope
    <3>1. PICK l \in Requested : lease[l] # "active"
      BY <1>0, <2>1, <2>4 DEF ReadEnvelope, Pass
    <3>2. lease[l] # "wanted" /\ p.pc = "envelope"
      BY <1>0, <2>4 DEF ReadEnvelope, ItemsFit
    <3>3. l \in Lease /\ lease[l] # "free"
      BY <1>0, InIDs DEF LeaseStates, Exist
    <3>4. Down(l)
      BY <1>0, <3>1, <3>2, <3>3 DEF LeaseState, Down
    <3> QED BY <1>d, <2>1, <3>2, <3>4 DEF CameThrough
  <2>5. CASE Complete
    <3>1. PICK i \in p.item : i \notin WorkOf(i.lease)
      <4>1. PICK i \in p.item : i \notin WorkOf(i.lease) \/ p' = [p EXCEPT !.pc = p.then, !.item = {}]
        BY <2>5 DEF Complete
      <4>2. p'.pc # p.then
        BY <1>0, <2>1 DEF Pass, Back
      <4> QED BY <1>0, <4>1, <4>2 DEF Pass
    <3>2. /\ p.pc = "complete" /\ i.lease \in Lease
          /\ i.action \in {"create", "revoke"} /\ i = [lease |-> i.lease, action |-> i.action]
      BY <1>0, <2>5 DEF Complete, Item
    <3>3. Down(i.lease)
      BY <1>0, <3>1, <3>2 DEF ItemsFit, LeaseStates, WorkOf, Down
    <3>4. i.lease \in ItemLeases
      BY DEF ItemLeases
    <3>5. ~(p.deleting /\ Alone)
      <4> SUFFICES ASSUME p.deleting, Alone PROVE FALSE
        OBVIOUS
      <4>1. lease[i.lease] = "ending" /\ i.action = "revoke"
        BY <1>0, <3>2, <3>4 DEF ItemsFit, Applying, PassShape, Revoking
      <4> QED BY <3>1, <3>2, <4>1 DEF WorkOf
    <3> QED BY <2>1, <3>3, <3>4, <3>5 DEF CameThrough
  <2> QED BY <2>1, <2>2, <2>3, <2>4, <2>5
<1> QED BY <1>1, <1>2, <1>3

\* Every pass that meets no fault comes to what it was begun for, within the steps
\* Ahead counts, whatever users, expiry and another operator do meanwhile (leases.go
\* SyncDynamic, RevokeLeases, apply.go Apply).
THEOREM FaultlessPassesComeThrough == Spec => PassGoesThrough
<1>1. ASSUME Held, [Next]_vars, ~At("idle"), p' # p, budget' = budget PROVE Goes
  <2>1. PassStep
    <3> USE DEF kube, platform, provider, history
    <3>1. \A kind : ~Spend(kind)
      BY <1>1, LeaseAssumption DEF Spend, Held, TypeOK
    <3>2. CASE Fail \/ \E c \in CR : Begin(c)
      BY <1>1, <3>1, <3>2 DEF Fail, Begin
    <3>3. CASE World
      BY <1>1, <3>1, <3>3 DEF World, CreateObject, DeleteObject, Retarget, OtherRevokes,
         OtherMints, DropSecret, Collect, ChangeHints, Expire
    <3> QED BY <1>1, <3>2, <3>3 DEF Next, vars
  <2>2. Held'
    BY <1>1, HeldInductive
  <2>3. CASE Abandon \/ ApplySecret \/ Unfinalize
    <3>1. p' = NoPass /\ CameThrough
      BY <1>1, <2>1, <2>3, StepCameThrough
    <3>2. Ahead' = 0
      BY <3>1, AheadNext DEF AheadIs, NoPass, At
    <3>3. Ahead > 0
      <4>1. p \in Pass /\ p.pc # "idle" /\ p.pc \in PC
        BY <1>1, PassFields DEF Held, TypeOK, At
      <4>2. /\ Cardinality(Key) \in Nat /\ MaxLease \in Nat /\ Cardinality(p.work) \in Nat
            /\ Cardinality(p.todo) \in Nat /\ Cardinality(p.list) \in Nat
        BY <4>1, PassSizes, LeaseSize, LeaseAssumption
      <4>3. Hinted \in Nat /\ Listed \in Nat /\ Hinted > 0 /\ Listed > 0
        BY <4>2 DEF Hinted, Listed
      <4> QED BY <4>1, <4>2, <4>3, AheadNow DEF AheadIs, At, PC
    <3> QED BY <3>1, <3>2, <3>3 DEF Goes
  <2>4. CASE ~(Abandon \/ ApplySecret \/ Unfinalize)
    BY <1>1, <2>1, <2>2, <2>4, StepGoesOn
  <2> QED BY <2>3, <2>4
<1>2. Held /\ [Next]_vars =>
        [~At("idle") /\ p' # p /\ budget' = budget
           => Ahead' < Ahead /\ (At("idle")' => CameThrough)]_vars
  BY <1>1 DEF Goes
<1> QED BY <1>2, HeldInductive, PTL DEF Spec, PassGoesThrough

-----------------------------------------------------------------------------
(* No edits of spec.secretName: no lease is forgotten.                     *)

\* A lease of either map moves on, no state comes back, and one the other
\* operator mints is on record at once.
Onward ==
  \A l \in Lease :
    /\ lease'[l] = "wanted" => lease[l] \in {"free", "wanted"}
    /\ lease'[l] \in {"active", "ending"} =>
         lease[l] \in {"wanted", "active", "ending"} \/ l \in Recorded'
    /\ lease[l] = "over" => lease'[l] = "over"

\* A lease only moves onward, and one that is over stays over.
LEMMA RolesOnward ==
  ASSUME TypeOK, Steady
  PROVE  Onward
<1>o. \A l \in Lease : lease[l] = "over" => lease'[l] = "over"
  BY DEF Steady, Forward
<1>3. ASSUME NEW c \in CR, OtherRevokes(c) PROVE Onward
  <2>1. \A l \in Lease : lease'[l] \in {lease[l], "over"}
    BY <1>3, OtherRevokesEffect
  <2> QED BY <2>1 DEF Onward
<1>4. ASSUME NEW c \in CR, NEW k \in Key, OtherMints(c, k) PROVE Onward
  <2>1. PICK l \in Lease, n \in Name :
          /\ lease'[l] = "active" /\ secret'[n].ann[k] = l
          /\ \A m \in Lease \ {l} : lease'[m] \in {lease[m], "over"}
    BY <1>4, OtherMintsEffect
  <2>2. l \in IDs(secret'[n].ann)
    BY <2>1, Values DEF IDs
  <2>3. l \in Recorded'
    BY <2>2 DEF Recorded, IDs
  <2> QED BY <1>o, <2>1, <2>3 DEF Onward
<1>1. CASE UNCHANGED R!vars
  BY <1>1 DEF R!vars, Onward
<1>2. CASE R!Next
  <2>1. PICK l \in Lease : \/ R!Request(l) \/ R!Adopt(l) \/ R!Withdraw(l)
                           \/ R!End(l) \/ R!Drop(l) \/ R!Close(l)
    BY <1>2 DEF R!Next
  <2>2. /\ \A m \in Lease \ {l} : lease'[m] = lease[m]
        /\ \/ lease'[l] = lease[l]
           \/ lease[l] = "free" /\ lease'[l] = "wanted"
           \/ lease[l] = "wanted" /\ lease'[l] \in {"active", "over", "ending"}
           \/ lease[l] = "active" /\ lease'[l] = "ending"
           \/ lease[l] = "ending" /\ lease'[l] = "over"
    BY <2>1 DEF TypeOK, R!Request, R!Adopt, R!Withdraw, R!End, R!Drop, R!Close, R!Move
  <2> QED BY <2>2 DEF Onward
<1> QED BY <1>1, <1>2, <1>3, <1>4 DEF Steady, Other

\* Only a request makes a lease wanted.
LEMMA NotWanted ==
  ASSUME TypeOK, [Next]_vars, ~RequestLease
  PROVE  \A l \in Lease : lease'[l] = "wanted" => lease[l] = "wanted"
<1> USE DEF kube, platform, provider, history
<1>0. p \in Pass /\ p.item \subseteq Item /\ p.list \subseteq Lease
  BY PassFields DEF TypeOK
<1>a. UNCHANGED lease => \A l \in Lease : lease'[l] = "wanted" => lease[l] = "wanted"
  OBVIOUS
<1>b. ASSUME NEW l \in Lease, NEW s, s # "wanted", lease' = [lease EXCEPT ![l] = s]
      PROVE  \A m \in Lease : lease'[m] = "wanted" => lease[m] = "wanted"
  BY <1>b DEF TypeOK
<1>e. \A l \in Lease : Ended(l) # "wanted"
  BY DEF Ended
<1>i. \A i \in p.item : i.lease \in Lease
  BY <1>0 DEF Item
<1>1. CASE Complete
  <2>1. UNCHANGED lease \/ \E i \in p.item, s \in {"active", "over"} :
                             lease' = [lease EXCEPT ![i.lease] = s]
    BY <1>0, <1>1, CompleteEffect
  <2> QED BY <1>a, <1>b, <1>i, <2>1
<1>2. CASE RevokeOne
  <2>1. PICK l \in p.list : lease' = [lease EXCEPT ![l] = Ended(l)]
    BY <1>0, <1>2, RevokeOneEffect
  <2> QED BY <1>0, <1>b, <1>e, <2>1
<1>3. CASE Fail
  <2>1. UNCHANGED lease \/ \E i \in p.item : lease' = [lease EXCEPT ![i.lease] = "over"]
    BY <1>3 DEF Fail
  <2> QED BY <1>a, <1>b, <1>i, <2>1
<1>4. ASSUME NEW l \in Lease, Expire(l) PROVE \A m \in Lease : lease'[m] = "wanted" => lease[m] = "wanted"
  BY <1>4, <1>b, <1>e DEF Expire
<1>5. CASE \/ ReadLeaseIDs \/ SyncDynamic \/ OwnWork \/ ReuseLease \/ LeaseWork \/ ReadEnvelope
           \/ HintsDone \/ Apply \/ RevokedAll \/ ApplySecret \/ Unfinalize
  BY <1>5, <1>a DEF ReadLeaseIDs, SyncDynamic, OwnWork, ReuseLease, LeaseWork, ReadEnvelope,
     HintsDone, Apply, RevokedAll, ApplySecret, Unfinalize
<1>6. CASE \E c \in CR : Begin(c) \/ CreateObject(c) \/ DeleteObject(c) \/ Retarget(c)
  BY <1>6, <1>a DEF Begin, CreateObject, DeleteObject, Retarget
<1>7. CASE \E c \in CR : OtherRevokes(c)
  <2>1. \A l \in Lease : lease'[l] \in {lease[l], "over"}
    BY <1>7, OtherRevokesEffect
  <2> QED BY <2>1
<1>10. CASE \E c \in CR, k \in Key : OtherMints(c, k)
  <2>1. PICK l \in Lease : /\ lease'[l] = "active"
                           /\ \A m \in Lease \ {l} : lease'[m] \in {lease[m], "over"}
    BY <1>10, OtherMintsEffect
  <2> QED BY <2>1
<1>8. CASE \/ \E n \in Name : DropSecret(n) \/ Collect(n)
           \/ \E k \in Key : ChangeHints(k)
  BY <1>8, <1>a DEF DropSecret, Collect, ChangeHints
<1>9. CASE UNCHANGED vars
  BY <1>9, <1>a DEF vars
<1> QED BY <1>1, <1>2, <1>3, <1>4, <1>5, <1>6, <1>7, <1>8, <1>9, <1>10
        DEF Next, PassStep, World

\* How a step of a pass hands its leases on.
Drops == Abandon /\ UNCHANGED secret
Stores ==
  /\ At("store") /\ p' = NoPass /\ UNCHANGED obj
  /\ secret' = [secret EXCEPT ![p.name] =
       [there |-> TRUE, owner |-> p.cr, dead |-> p.raw = "gone",
        ann |-> Annotated(secret[p.name].ann, p.made), data |-> p.made]]
  /\ p.raw = "gone" => IDs(p.made) \subseteq lost'
LetsGo == At("unfinalize") /\ p.raw = "current" /\ Removed(p.cr) /\ p' = NoPass
EnvelopeRead ==
  /\ At("envelope") /\ p'.key = {} /\ SameIDs /\ SameWork /\ p'.name = p.name
  /\ UNCHANGED secret
  /\ \E l \in Requested : lease[l] = "active"
Keeps ==
  /\ ~At("read") /\ SameIDs /\ p'.key = p.key /\ p'.name = p.name /\ UNCHANGED secret

\* What each step of a pass does with the leases in its hands.
LEMMA PassStepHands ==
  ASSUME TypeOK, PassStep
  PROVE  \/ ReadLeaseIDs \/ ReuseLease \/ RequestLease \/ EnvelopeRead
         \/ Drops \/ Stores \/ LetsGo \/ Keeps
<1> USE DEF kube, platform, provider, history, At
<1>0. p \in Pass
  BY DEF TypeOK
<1>1. CASE SyncDynamic
  BY <1>0, <1>1, SyncDynamicEffect DEF SyncDynamic, TypeOK, SameOwner, Keeps
<1>2. CASE OwnWork
  BY <1>0, <1>2, OwnWorkEffect DEF OwnWork, SameOwner, SameHints, Keeps
<1>3. CASE LeaseWork
  BY <1>0, <1>3, LeaseWorkEffect DEF LeaseWork, SameOwner, SameHints, Keeps, Drops
<1>4. CASE ReadEnvelope
  BY <1>0, <1>4, ReadEnvelopeEffect DEF ReadEnvelope, SameOwner, EnvelopeRead, Drops
<1>5. CASE HintsDone
  BY <1>0, <1>5, HintsDoneEffect DEF HintsDone, SameOwner, SameHints, Keeps
<1>6. CASE Apply
  BY <1>0, <1>6, GotoEffect, Stages DEF Apply, SameOwner, SameHints, Keeps
<1>7. CASE Complete
  BY <1>0, <1>7, CompleteEffect DEF Complete, SameOwner, SameHints, Keeps, Drops
<1>8. CASE RevokeOne
  BY <1>0, <1>8, RevokeOneEffect DEF RevokeOne, SameOwner, SameHints, Keeps
<1>9. CASE RevokedAll
  BY <1>0, <1>9, GotoEffect, Stages DEF RevokedAll, SameOwner, SameHints, Keeps
<1>10. CASE ApplySecret
  BY <1>10 DEF ApplySecret, Stores, Drops
<1>11. CASE Unfinalize
  BY <1>11 DEF Unfinalize, LetsGo, Drops
<1> QED BY <1>1, <1>2, <1>3, <1>4, <1>5, <1>6, <1>7, <1>8, <1>9, <1>10, <1>11 DEF PassStep

\* Beside the passes, an annotation goes only with leases that are known.
Remembers ==
  \A n \in Name : \A l \in IDs(secret[n].ann) :
    l \in IDs(secret'[n].ann) \cup lost' \/ lease'[l] = "over"

\* Outside the passes, a lease leaves an annotation only for lost or when over.
LEMMA OtherStepHands ==
  ASSUME TypeOK, SecretsAreHeld, Fixed, [Next]_vars, ~PassStep
  PROVE  \/ \E c \in CR : Begin(c) /\ UNCHANGED <<secret, stray>>
         \/ Fail /\ Drops
         \/ Beside /\ Remembers /\ UNCHANGED stray
<1> USE DEF kube, platform, provider, history
<1>1. CASE Fail
  BY <1>1 DEF Fail, Drops
<1>2. CASE \E c \in CR : Begin(c)
  BY <1>2 DEF Begin
<1>3. CASE Beside /\ (Clears \/ OtherMinting)
  <2>1. CASE \E n \in Name : DropSecret(n)
    <3>1. PICK n \in Name : DropSecret(n)
      BY <2>1
    <3>2. \A m \in Name \ {n} : secret'[m] = secret[m]
      BY <3>1 DEF DropSecret, TypeOK
    <3>3. IDs(secret[n].ann) \subseteq lost' /\ UNCHANGED stray
      BY <3>1 DEF DropSecret
    <3> QED BY <1>3, <3>2, <3>3 DEF Remembers
  <2>2. CASE \E n \in Name : Collect(n)
    <3>1. PICK n \in Name : Collect(n)
      BY <2>2
    <3>2. \A m \in Name \ {n} : secret'[m] = secret[m]
      BY <3>1 DEF Collect, TypeOK
    <3>3. \A l \in IDs(secret[n].ann) : lease[l] = "over" \/ l \in lost
      BY <3>1 DEF Collect, SecretsAreHeld
    <3>4. UNCHANGED <<lease, lost, stray>>
      BY <3>1 DEF Collect
    <3> QED BY <1>3, <3>2, <3>3, <3>4 DEF Remembers
  <2>3. ASSUME UNCHANGED stray, \A n \in Name : secret'[n].ann = secret[n].ann
        PROVE  Beside /\ Remembers /\ UNCHANGED stray
    BY <1>3, <2>3 DEF Remembers
  <2>r. ASSUME NEW c, Removed(c) PROVE \A n \in Name : secret'[n].ann = secret[n].ann
    BY <2>r DEF Removed, TypeOK, Secret
  <2>4. CASE \E c \in CR : CreateObject(c) \/ DeleteObject(c) \/ Retarget(c)
    BY <2>4, <2>3, <2>r DEF CreateObject, DeleteObject, Retarget
  <2>5. CASE \E c \in CR : OtherRevokes(c)
    BY <2>3, <2>5, OtherRevokesEffect
  <2>8. CASE OtherMinting
    <3>1. PICK c \in CR, k \in Key : OtherMints(c, k)
      BY <2>8 DEF OtherMinting
    <3>2. PICK n \in Name :
            /\ \A m \in Name \ {n} : secret'[m] = secret[m]
            /\ \A j \in Key \ {k} : secret'[n].ann[j] = secret[n].ann[j]
            /\ secret[n].ann[k] \in Lease /\ secret[n].ann[k] # secret'[n].ann[k]
                 => lease'[secret[n].ann[k]] = "over"
      BY <3>1, OtherMintsEffect
    <3>3. UNCHANGED stray /\ IDs(secret[n].ann) \subseteq Lease
      BY <3>1, OtherMintsEffect, Values DEF TypeOK, Secret
    <3>4. ASSUME NEW l \in IDs(secret[n].ann)
          PROVE  l \in IDs(secret'[n].ann) \/ lease'[l] = "over"
      <4>1. PICK j \in Key : l = secret[n].ann[j] /\ l # NoLease
        BY InIDs
      <4> QED BY <3>2, <3>3, <4>1, InIDs
    <3> QED BY <1>3, <3>2, <3>3, <3>4 DEF Remembers
  <2>6. CASE (\E k \in Key : ChangeHints(k)) \/ \E l \in Lease : Expire(l)
    BY <2>6, <2>3 DEF ChangeHints, Expire
  <2>7. CASE UNCHANGED vars
    BY <2>7, <2>3 DEF vars
  <2> QED BY <1>1, <1>2, <2>1, <2>2, <2>4, <2>5, <2>6, <2>7, <2>8 DEF Next, World, OtherMinting
<1> QED BY <1>1, <1>2, <1>3, OtherStepKinds

\* What is to be shown to hold while nothing is retargeted.
AllHeld == Held /\ SecretsAreHeld /\ Accounted

\* Facts every case needs.
LEMMA Facts ==
  ASSUME AllHeld, Fixed, [Next]_vars
  PROVE  /\ TypeOK /\ PassShape /\ Onward /\ lost \subseteq lost'
         /\ p \in Pass /\ p.existing \in LeaseIDs /\ p.made \in LeaseIDs /\ p.name \in Name
         /\ IDs(p.existing) \subseteq Lease /\ IDs(p.made) \subseteq Lease
         /\ Requested \subseteq IDs(p.made) /\ p.item \subseteq Item
         /\ \A n \in Name : IDs(secret[n].ann) \subseteq Lease
<1>1. TypeOK /\ PassShape /\ LeaseStates
  BY DEF AllHeld, Held
<1>2. Onward
  BY <1>1, StepStates, RolesOnward
<1>3. p \in Pass
  BY <1>1 DEF TypeOK
<1>4. \A n \in Name : IDs(secret[n].ann) \subseteq Lease
  BY <1>1, Values DEF TypeOK, Secret
<1> QED BY <1>1, <1>2, <1>3, <1>4, LostGrows, PassFields, RequestedMade, Values

\* A lease on the annotation of some Secret.
LEMMA OnRecord == \A l : l \in Recorded <=> \E n \in Name : l \in IDs(secret[n].ann)
BY DEF Recorded

\* What a step of a pass that requests or reuses a lease starts from.
LEMMA AtHints ==
  ASSUME PassShape, ReuseLease \/ RequestLease
  PROVE  At("work") /\ p.work = {} /\ p.item = {} /\ p.key = {} /\ Requested = {}
BY DEF ReuseLease, RequestLease, PassShape, Applying, At, Requested

\* A lease that is requested is being minted, or was when its pass failed.
LEMMA StepWanted ==
  ASSUME AllHeld, Fixed, [Next]_vars
  PROVE  WantedHeld'
<1> USE DEF At
<1>0. /\ TypeOK /\ PassShape /\ lost \subseteq lost' /\ p \in Pass
      /\ Requested \subseteq IDs(p.made) /\ WantedHeld
  BY Facts DEF AllHeld, Accounted
<1>1. CASE RequestLease
  <2>1. PICK k \in Key, l \in Lease :
          /\ lease' = [lease EXCEPT ![l] = "wanted"]
          /\ p'.key = {k} /\ p'.made = [p.made EXCEPT ![k] = l]
    BY <1>0, <1>1, RequestLeaseEffect
  <2>2. p.made \in LeaseIDs /\ l # NoLease /\ Requested = {}
    BY <1>0, <1>1, PassFields, AtHints, Values
  <2>3. l \in Requested'
    BY <2>1, <2>2 DEF Requested, LeaseIDs
  <2> QED BY <1>0, <2>1, <2>2, <2>3 DEF WantedHeld, TypeOK
<1>2. CASE ~RequestLease
  <2>1. \A l \in Lease : lease'[l] = "wanted" => l \in lost \cup Requested
    BY <1>0, <1>2, NotWanted DEF WantedHeld
  <2>2. ASSUME Requested \subseteq lost' \cup Requested' PROVE WantedHeld'
    BY <1>0, <2>1, <2>2 DEF WantedHeld
  <2>3. ASSUME p'.key = p.key, p'.made = p.made PROVE WantedHeld'
    BY <2>2, <2>3 DEF Requested
  <2>4. ASSUME p.key = {} PROVE WantedHeld'
    BY <2>2, <2>4 DEF Requested
  <2>5. CASE ReadLeaseIDs \/ ReuseLease \/ Stores \/ LetsGo
    BY <1>0, <2>4, <2>5, AtHints DEF ReadLeaseIDs, Stores, LetsGo, PassShape, Applying
  <2>6. CASE EnvelopeRead
    <3>1. \A j, k \in p.key : j = k
      BY <1>0 DEF PassShape
    <3>2. \A l \in Requested : lease[l] = "active"
      BY <2>6, <3>1 DEF EnvelopeRead, Requested
    <3>3. \A l \in Lease : lease[l] = "wanted" => l \in lost
      BY <1>0, <3>2 DEF WantedHeld
    <3> QED BY <1>0, <1>2, <3>3, NotWanted DEF WantedHeld
  <2>7. CASE Drops
    BY <1>0, <2>2, <2>7 DEF Drops, Abandon
  <2>8. CASE Keeps
    BY <2>3, <2>8 DEF Keeps, SameIDs
  <2>9. CASE \E c \in CR : Begin(c)
    BY <1>0, <2>4, <2>9 DEF Begin, PassShape, Applying
  <2>10. CASE Beside
    BY <2>3, <2>10 DEF Beside, SameIDs, SameHints
  <2> QED BY <1>0, <1>2, <2>5, <2>6, <2>7, <2>8, <2>9, <2>10, PassStepHands, OtherStepHands
          DEF AllHeld
<1> QED BY <1>1, <1>2

\* A lease with a role is on an annotation, in the map of the pass, or known lost.
LEMMA StepLive ==
  ASSUME AllHeld, Fixed, [Next]_vars
  PROVE  LiveHeld'
<1> USE DEF At
<1>0. /\ TypeOK /\ PassShape /\ Onward /\ lost \subseteq lost'
      /\ p \in Pass /\ p.existing \in LeaseIDs /\ p.made \in LeaseIDs /\ p.name \in Name
      /\ \A n \in Name : IDs(secret[n].ann) \subseteq Lease
  BY Facts
<1>k. ASSUME NEW l \in Lease, lease'[l] \in {"active", "ending"}, l \notin Recorded'
      PROVE  l \in lost \cup IDs(p.made) \/ \E n \in Name : l \in IDs(secret[n].ann)
  <2>1. lease[l] \in {"wanted", "active", "ending"}
    BY <1>0, <1>k DEF Onward
  <2>2. l \in lost \cup Recorded \cup IDs(p.made)
    BY <1>0, <2>1, Facts DEF AllHeld, Accounted, WantedHeld, LiveHeld
  <2> QED BY <2>2, OnRecord
<1>r. \A l : l \in Recorded' <=> \E n \in Name : l \in IDs(secret'[n].ann)
  BY DEF Recorded
<1>l. SUFFICES ASSUME NEW l \in Lease, lease'[l] \in {"active", "ending"}, l \notin Recorded'
               PROVE  l \in lost' \cup Recorded' \cup IDs(p'.made)
  BY DEF LiveHeld, IDs
<1>o. lease[l] # "over"
  BY <1>0, <1>l DEF Onward
<1>a. ASSUME \A n \in Name : secret'[n].ann = secret[n].ann, IDs(p.made) \subseteq lost' \cup IDs(p'.made)
      PROVE  l \in lost' \cup Recorded' \cup IDs(p'.made)
  BY <1>0, <1>a, <1>k, <1>l, <1>r
<1>1. CASE RequestLease \/ ReuseLease
  <2>1. PICK k \in p.todo, m \in Lease : p'.made = [p.made EXCEPT ![k] = m]
    <3>1. CASE RequestLease
      <4>1. PICK k \in p.todo, m \in Fresh :
              p' = [p EXCEPT !.pc = "leasework", !.todo = @ \ {k}, !.key = {k}, !.made[k] = m]
        BY <3>1 DEF RequestLease
      <4>2. m \in Lease /\ p'.made = [p.made EXCEPT ![k] = m]
        BY <1>0, <4>1 DEF Fresh, Pass
      <4> QED BY <4>2
    <3>2. CASE ReuseLease
      <4>1. PICK k \in p.todo : /\ p.existing[k] # NoLease
                                /\ p' = [p EXCEPT !.todo = @ \ {k}, !.made[k] = p.existing[k]]
        BY <3>2 DEF ReuseLease
      <4>2. k \in Key
        BY <1>0, PassFields
      <4>3. p.existing[k] \in Lease /\ p'.made = [p.made EXCEPT ![k] = p.existing[k]]
        BY <1>0, <4>1, <4>2 DEF Pass, LeaseIDs
      <4> QED BY <4>3
    <3> QED BY <1>1, <3>1, <3>2
  <2>2. k \in Key /\ p.made[k] = NoLease
    BY <1>0, PassFields DEF AllHeld, Held, KeptApart
  <2>3. IDs(p.made) \subseteq IDs(p'.made)
    <3> SUFFICES ASSUME NEW x \in IDs(p.made) PROVE x \in IDs(p'.made)
      OBVIOUS
    <3>1. PICK j \in Key : x = p.made[j] /\ x # NoLease
      BY InIDs
    <3>2. j # k /\ p'.made[j] = x
      BY <1>0, <2>1, <2>2, <3>1 DEF LeaseIDs
    <3> QED BY <3>1, <3>2, InIDs
  <2>4. UNCHANGED secret
    BY <1>1 DEF RequestLease, ReuseLease, kube
  <2> QED BY <1>a, <2>3, <2>4
<1>2. CASE ReadLeaseIDs
  <2>1. PICK ids \in LeaseIDs : TakeLeaseIDs(ids)
    BY <1>0, <1>2, Values DEF ReadLeaseIDs, TypeOK, Secret
  <2>2. p'.made = p.made
    BY <1>0, <2>1, TakeLeaseIDsEffect
  <2> QED BY <1>2, <1>a, <2>2 DEF ReadLeaseIDs, kube
<1>3. CASE EnvelopeRead \/ Keeps
  BY <1>3, <1>a DEF EnvelopeRead, Keeps, SameIDs
<1>4. CASE Drops
  BY <1>4, <1>a DEF Drops, Abandon
<1>5. CASE LetsGo
  <2>1. p.made = NoIDs
    BY <1>0, <1>5 DEF LetsGo, PassShape
  <2>2. \A n \in Name : secret'[n].ann = secret[n].ann
    BY <1>0, <1>5 DEF LetsGo, Removed, TypeOK, Secret
  <2> QED BY <1>a, <2>1, <2>2, Values
<1>6. CASE Stores
  <2>1. /\ \A n \in Name \ {p.name} : secret'[n] = secret[n]
        /\ secret'[p.name].ann = Annotated(secret[p.name].ann, p.made)
    BY <1>0, <1>6 DEF Stores, TypeOK
  <2>2. CASE p.made = NoIDs
    BY <1>a, <2>1, <2>2, Values DEF Annotated
  <2>3. CASE p.made # NoIDs
    <3>1. secret'[p.name].ann = p.made
      BY <2>1, <2>3 DEF Annotated
    <3>2. p.list = {} /\ p.item = {}
      BY <1>0, <1>6 DEF Stores, PassShape, Revoking, Applying
    <3>3. l \in IDs(p.existing) => l \in IDs(p.made)
      BY <1>6, <1>o, <3>2 DEF Stores, AllHeld, Held, RestIsRevoked, ItemLeases
    <3>4. l \in IDs(secret[p.name].ann) => l \in lost \cup IDs(p.made)
      BY <1>6, <3>3 DEF Stores, AllHeld, Held, ReadIsWhole
    <3>5. l \in IDs(p.made) => l \in Recorded'
      BY <1>0, <1>r, <3>1
    <3> QED BY <1>0, <1>k, <1>l, <1>r, <2>1, <3>4, <3>5
  <2> QED BY <2>2, <2>3
<1>7. CASE \E c \in CR : Begin(c) /\ UNCHANGED secret
  <2>1. p.made = NoIDs
    BY <1>0, <1>7 DEF Begin, PassShape
  <2> QED BY <1>7, <1>a, <2>1, Values
<1>8. CASE Beside /\ Remembers
  BY <1>0, <1>8, <1>k, <1>l, <1>o, <1>r DEF Beside, SameIDs, Remembers
<1> QED BY <1>0, <1>1, <1>2, <1>3, <1>4, <1>5, <1>6, <1>7, <1>8, PassStepHands, OtherStepHands
        DEF AllHeld

\* Work that may be applied is for a lease that is known.
LEMMA StepItems ==
  ASSUME AllHeld, Fixed, [Next]_vars
  PROVE  ItemsHeld'
<1> USE DEF At
<1>0. /\ TypeOK /\ PassShape /\ lost \subseteq lost' /\ p \in Pass
      /\ WantedHeld /\ ItemsHeld /\ Requested \subseteq IDs(p.made)
  BY Facts DEF AllHeld, Accounted
<1>w. \A l \in Lease : \A i \in WorkOf(l) : i.action = "create" => i.lease \in lost \cup Requested
  BY <1>0 DEF WorkOf, WantedHeld
<1>a. ASSUME p'.work \cup p'.item = {} PROVE ItemsHeld'
  BY <1>a DEF ItemsHeld
<1>b. ASSUME \A i \in p'.work \cup p'.item :
               i.action = "create" => i \in p.work \cup p.item \/ i.lease \in lost \cup Requested,
             p'.key = p.key, p'.made = p.made
      PROVE  ItemsHeld'
  BY <1>0, <1>b DEF ItemsHeld, Requested
<1>e. p' = NoPass => ItemsHeld'
  BY <1>a DEF NoPass
<1>1. CASE ReadLeaseIDs
  <2>1. PICK ids \in LeaseIDs : TakeLeaseIDs(ids)
    BY <1>0, <1>1, Values, PassFields DEF ReadLeaseIDs, TypeOK, Secret
  <2>2. p'.made = p.made /\ SameWork /\ SameHints
    BY <1>0, <2>1, TakeLeaseIDsEffect
  <2> QED BY <1>b, <2>2 DEF SameWork, SameHints
<1>2. CASE SyncDynamic
  <2>1. SameIDs /\ p'.item = p.item /\ p'.key = p.key /\ p'.work \in {p.work, Offered}
    BY <1>0, <1>2, SyncDynamicEffect DEF TypeOK
  <2>2. \A i \in Offered : i.action = "create" => i.lease \in lost \cup Requested
    BY <1>w DEF Offered
  <2> QED BY <1>b, <2>1, <2>2 DEF SameIDs
<1>3. CASE OwnWork
  <2>1. SameIDs /\ SameHints /\ p'.work \cup p'.item \subseteq p.work
    BY <1>0, <1>3, OwnWorkEffect
  <2> QED BY <1>b, <2>1 DEF SameIDs, SameHints
<1>4. CASE ReuseLease \/ RequestLease
  <2>1. SameWork
    BY <1>0, <1>4, ReuseLeaseEffect, RequestLeaseEffect
  <2> QED BY <1>0, <1>4, <1>a, <2>1, AtHints DEF SameWork
<1>5. CASE LeaseWork
  <2>1. CASE Abandon
    BY <1>e, <2>1 DEF Abandon
  <2>2. CASE ~Abandon
    <3>1. p'.work = p.work /\ SameIDs /\ SameHints /\ \E l \in Lease : p'.item = WorkOf(l)
      BY <1>0, <1>5, <2>2, LeaseWorkEffect
    <3> QED BY <1>b, <1>w, <3>1 DEF SameIDs, SameHints
  <2> QED BY <2>1, <2>2
<1>6. CASE ReadEnvelope
  <2>1. CASE Abandon
    BY <1>e, <2>1 DEF Abandon
  <2>2. CASE ~Abandon
    <3>1. SameWork /\ \E l \in Requested : TRUE
      BY <1>0, <1>6, <2>2, ReadEnvelopeEffect
    <3>2. p.key # {}
      BY <3>1 DEF Requested
    <3> QED BY <1>0, <1>6, <1>a, <3>1, <3>2 DEF ReadEnvelope, SameWork, PassShape, Applying
  <2> QED BY <2>1, <2>2
<1>7. CASE HintsDone
  BY <1>0, <1>7, <1>b, HintsDoneEffect DEF SameIDs, SameWork, SameHints
<1>8. CASE Apply
  BY <1>0, <1>8, <1>b, GotoEffect, Stages DEF Apply, SameIDs, SameWork, SameHints
<1>9. CASE Complete
  <2>1. CASE Abandon
    BY <1>e, <2>1 DEF Abandon
  <2>2. CASE ~Abandon
    <3>1. p'.work = p.work /\ p'.item = {} /\ SameIDs /\ SameHints
      BY <1>0, <1>9, <2>2, CompleteEffect
    <3> QED BY <1>b, <3>1 DEF SameIDs, SameHints
  <2> QED BY <2>1, <2>2
<1>10. CASE RevokeOne
  <2>1. /\ p'.work = p.work /\ SameIDs /\ SameHints
        /\ \/ p'.item = p.item
           \/ \E l \in p.list : p'.item = {[lease |-> l, action |-> "revoke"]}
    BY <1>0, <1>10, RevokeOneEffect
  <2> QED BY <1>b, <2>1 DEF SameIDs, SameHints
<1>11. CASE RevokedAll
  BY <1>0, <1>11, <1>b, GotoEffect, Stages DEF RevokedAll, SameIDs, SameWork, SameHints
<1>12. CASE ApplySecret \/ Unfinalize
  BY <1>12, <1>e DEF ApplySecret, Unfinalize, Abandon
<1>13. CASE \E c \in CR : Begin(c)
  BY <1>13, <1>a, BeginEffect
<1>14. CASE Fail
  BY <1>14, <1>e DEF Fail, Abandon
<1>15. CASE Beside
  BY <1>15, <1>b DEF Beside, SameIDs, SameWork, SameHints
<1> QED BY <1>0, <1>1, <1>2, <1>3, <1>4, <1>5, <1>6, <1>7, <1>8, <1>9, <1>10, <1>11, <1>12,
           <1>13, <1>14, <1>15, OtherStepKinds DEF PassStep

\* A role without a name is the pass's own, for as long as it has not told the platform.
LEMMA StepStrays ==
  ASSUME AllHeld, Fixed, [Next]_vars
  PROVE  StraysHeld'
<1> USE DEF At
<1>0. /\ TypeOK /\ PassShape /\ lost \subseteq lost' /\ p \in Pass /\ p.item \subseteq Item
      /\ StraysHeld /\ ItemsHeld /\ Requested \subseteq IDs(p.made)
  BY Facts DEF AllHeld, Accounted
<1>i. \A i \in p.item : i.lease \in Lease /\ i.action \in {"create", "revoke"}
  BY <1>0 DEF Item
<1>a. ASSUME UNCHANGED stray, ~At("complete") PROVE StraysHeld'
  BY <1>0, <1>a DEF StraysHeld
<1>b. ASSUME UNCHANGED stray, IDs(p.made) \subseteq lost' PROVE StraysHeld'
  <2>1. \A l \in Lease : stray[l] > 0 /\ l \notin lost => l \in lost \cup Requested
    <3> SUFFICES ASSUME NEW l \in Lease, stray[l] > 0, l \notin lost PROVE l \in Requested
      OBVIOUS
    <3> DEFINE i == [lease |-> l, action |-> "create"]
    <3>1. i \in p.item /\ i.lease = l /\ i.action = "create"
      BY <1>0 DEF StraysHeld
    <3> HIDE DEF i
    <3> QED BY <1>0, <3>1 DEF ItemsHeld
  <2> QED BY <1>0, <1>b, <2>1 DEF StraysHeld
<1>1. CASE Apply
  <2>1. PICK i \in p.item :
          IF i.action = "create"
          THEN stray' = [stray EXCEPT ![i.lease] = @ + 1] /\ UNCHANGED role
          ELSE role' = [role EXCEPT ![i.lease] = FALSE] /\ UNCHANGED stray
    BY <1>1 DEF Apply
  <2>2. /\ p.pc = "apply" /\ p'.pc = "complete" /\ p'.item = p.item
        /\ \A l \in Lease : stray[l] > 0 => l \in lost
    BY <1>0, <1>1, GotoEffect, Stages DEF Apply, SameWork, StraysHeld
  <2>3. CASE i.action = "create"
    <3>1. i = [lease |-> i.lease, action |-> "create"]
      BY <1>0, <2>3 DEF Item
    <3>2. stray' = [stray EXCEPT ![i.lease] = @ + 1] /\ i.lease \in Lease
      BY <1>i, <2>1, <2>3
    <3>3. ASSUME NEW l \in Lease, stray'[l] > 0, l \notin lost'
          PROVE  l = i.lease /\ stray'[l] = 1
      BY <1>0, <2>2, <3>2, <3>3 DEF TypeOK
    <3> QED BY <2>2, <3>1, <3>3 DEF StraysHeld
  <2>4. CASE i.action # "create"
    BY <1>0, <1>a, <2>1, <2>2, <2>4
  <2> QED BY <2>3, <2>4
<1>2. CASE Complete
  <2>1. CASE Abandon /\ UNCHANGED <<lease, provider>>
    BY <1>b, <2>1 DEF Abandon, provider
  <2>2. CASE ~(Abandon /\ UNCHANGED <<lease, provider>>)
    <3>1. PICK i \in p.item : \/ i.action = "create" /\ stray' = [stray EXCEPT ![i.lease] = @ - 1]
                              \/ i.action # "create" /\ UNCHANGED stray
      BY <1>0, <1>2, <2>2, CompleteEffect DEF provider
    <3>2. \A j \in p.item : j = i
      BY <1>0 DEF PassShape
    <3>3. ASSUME NEW l \in Lease, stray'[l] > 0, l \notin lost' PROVE FALSE
      <4>1. stray[l] > 0
        BY <1>0, <1>i, <3>1, <3>3 DEF TypeOK
      <4>2. stray[l] = 1 /\ [lease |-> l, action |-> "create"] \in p.item
        BY <1>0, <3>3, <4>1 DEF StraysHeld
      <4>3. i.lease = l /\ i.action = "create"
        BY <3>2, <4>2
      <4> QED BY <1>0, <3>1, <3>3, <4>2, <4>3 DEF TypeOK
    <3> QED BY <3>3 DEF StraysHeld
  <2> QED BY <2>1, <2>2
<1>3. CASE Fail
  <2>1. IDs(p.made) \subseteq lost'
    BY <1>3 DEF Fail, Abandon
  <2>2. CASE UNCHANGED stray
    BY <1>b, <2>1, <2>2
  <2>3. CASE ~UNCHANGED stray
    <3>1. PICK i \in p.item : /\ i.action = "create" /\ At("apply")
                              /\ stray' = [stray EXCEPT ![i.lease] = @ + 1]
      BY <1>3, <2>3 DEF Fail
    <3>2. i.lease \in lost' /\ \A l \in Lease : stray[l] > 0 => l \in lost
      BY <1>0, <2>1, <3>1 DEF ItemsHeld, StraysHeld
    <3>3. \A l \in Lease : stray'[l] > 0 => l \in lost'
      BY <1>0, <1>i, <3>1, <3>2 DEF TypeOK
    <3> QED BY <3>3 DEF StraysHeld
  <2> QED BY <2>2, <2>3
<1>4. CASE \/ ReadLeaseIDs \/ SyncDynamic \/ OwnWork \/ ReuseLease \/ RequestLease \/ LeaseWork
           \/ ReadEnvelope \/ HintsDone \/ RevokeOne \/ RevokedAll \/ ApplySecret \/ Unfinalize
  BY <1>4, <1>a DEF ReadLeaseIDs, SyncDynamic, OwnWork, ReuseLease, RequestLease, LeaseWork,
     ReadEnvelope, HintsDone, RevokeOne, RevokedAll, ApplySecret, Unfinalize, provider
<1>5. CASE \E c \in CR : Begin(c)
  BY <1>5, <1>a DEF Begin, provider
<1>6. CASE Beside /\ UNCHANGED stray
  BY <1>0, <1>6 DEF Beside, SameWork, StraysHeld
<1> QED BY <1>0, <1>1, <1>2, <1>3, <1>4, <1>5, <1>6, OtherStepHands DEF PassStep, AllHeld

\* What a pass has read is over, on the Secret still, or known lost.
LEMMA StepRead ==
  ASSUME AllHeld, Fixed, [Next]_vars
  PROVE  ReadHeld'
<1> USE DEF At
<1>0. /\ TypeOK /\ PassShape /\ Onward /\ lost \subseteq lost' /\ p \in Pass /\ p.name \in Name
      /\ ReadHeld /\ IDs(p.existing) \subseteq Lease
  BY Facts DEF AllHeld, Accounted
<1>a. ASSUME p'.existing = NoIDs PROVE ReadHeld'
  BY <1>a, Values DEF ReadHeld
<1>b. ASSUME p'.existing = p.existing, p'.name = p.name,
             \A l \in IDs(secret[p.name].ann) :
               l \in IDs(secret'[p.name].ann) \cup lost' \/ lease'[l] = "over"
      PROVE  ReadHeld'
  BY <1>0, <1>b DEF ReadHeld, Onward
<1>e. p' = NoPass => ReadHeld'
  BY <1>a DEF NoPass
<1>1. CASE ReadLeaseIDs
  <2>1. PICK ids \in {secret[p.name].ann, NoIDs} : TakeLeaseIDs(ids)
    BY <1>1 DEF ReadLeaseIDs
  <2>2. ids \in LeaseIDs
    BY <1>0, <2>1, Values DEF TypeOK, Secret
  <2>3. p'.existing = ids /\ p'.name = p.name /\ UNCHANGED secret
    BY <1>0, <1>1, <2>1, <2>2, TakeLeaseIDsEffect DEF ReadLeaseIDs, SameOwner, kube
  <2> QED BY <2>1, <2>3, Values DEF ReadHeld
<1>2. CASE ReuseLease
  BY <1>0, <1>2, <1>b, ReuseLeaseEffect DEF ReuseLease, SameOwner, kube
<1>3. CASE RequestLease
  BY <1>0, <1>3, <1>b, RequestLeaseEffect DEF RequestLease, SameOwner, kube
<1>4. CASE EnvelopeRead \/ Keeps
  BY <1>4, <1>b DEF EnvelopeRead, Keeps, SameIDs
<1>5. CASE Drops \/ Stores \/ LetsGo
  BY <1>5, <1>e DEF Drops, Abandon, Stores, LetsGo
<1>6. CASE \E c \in CR : Begin(c)
  BY <1>6, <1>a, BeginEffect
<1>7. CASE Beside /\ Remembers
  BY <1>0, <1>7, <1>b DEF Beside, SameIDs, Remembers
<1> QED BY <1>0, <1>1, <1>2, <1>3, <1>4, <1>5, <1>6, <1>7, PassStepHands, OtherStepHands
        DEF AllHeld

\* A Secret in use is its object's, and one that may be collected holds no lease
\* that is neither over nor known to be lost.
LEMMA StepSecrets ==
  ASSUME AllHeld, Fixed, [Next]_vars
  PROVE  SecretsAreHeld'
<1> USE DEF kube, platform, provider, history
<1>0. /\ TypeOK /\ PassShape /\ Onward /\ lost \subseteq lost' /\ p \in Pass /\ p.name \in Name
      /\ SecretsAreHeld /\ \A n \in Name : IDs(secret[n].ann) \subseteq Lease
      /\ PassObject /\ OwnerAssumption
  BY Facts, OwnerAssumption DEF AllHeld, Held
<1>t. \A n \in Name : secret[n].owner \in CR \cup {NoCR}
  BY <1>0 DEF TypeOK, Secret
<1>k. \A n \in Name : secret[n].dead =>
        \A l \in IDs(secret[n].ann) : lease'[l] = "over" \/ l \in lost'
  BY <1>0 DEF SecretsAreHeld, Onward
<1>a. ASSUME \A n \in Name : secret'[n] \in {secret[n], NoSecret},
             \A c \in CR : obj[c].fin => obj'[c].fin /\ obj'[c].name = obj[c].name
      PROVE  SecretsAreHeld'
  <2> SUFFICES ASSUME NEW n \in Name
               PROVE  LET s == secret'[n]
                      IN /\ s.there /\ s.owner # NoCR /\ ~s.dead
                              => obj'[s.owner].fin /\ obj'[s.owner].name = n
                         /\ s.dead => \A l \in IDs(s.ann) : lease'[l] = "over" \/ l \in lost'
    BY DEF SecretsAreHeld, IDs
  <2>1. CASE secret'[n] = secret[n]
    BY <1>0, <1>a, <1>k, <1>t, <2>1 DEF SecretsAreHeld
  <2>2. CASE secret'[n] = NoSecret
    BY <2>2 DEF NoSecret
  <2> QED BY <1>a, <2>1, <2>2
<1>b. ASSUME NEW c \in CR, Removed(c),
             \A n \in Name : LET s == secret[n] IN
               s.there /\ s.owner = c /\ ~s.dead =>
                 \A l \in IDs(s.ann) : lease'[l] = "over" \/ l \in lost'
      PROVE  SecretsAreHeld'
  <2> SUFFICES ASSUME NEW n \in Name
               PROVE  LET s == secret'[n]
                      IN /\ s.there /\ s.owner # NoCR /\ ~s.dead
                              => obj'[s.owner].fin /\ obj'[s.owner].name = n
                         /\ s.dead => \A l \in IDs(s.ann) : lease'[l] = "over" \/ l \in lost'
    BY DEF SecretsAreHeld, IDs
  <2>1. CASE secret[n].there /\ secret[n].owner = c
    <3>1. secret'[n] = [secret[n] EXCEPT !.dead = TRUE]
      BY <1>b, <2>1 DEF Removed
    <3>2. secret'[n].dead = TRUE /\ secret'[n].ann = secret[n].ann
      BY <1>0, <3>1 DEF TypeOK, Secret
    <3>3. \A l \in IDs(secret[n].ann) : lease'[l] = "over" \/ l \in lost'
      BY <1>b, <1>k, <2>1
    <3> QED BY <3>2, <3>3
  <2>2. CASE ~(secret[n].there /\ secret[n].owner = c)
    <3>1. secret'[n] = secret[n]
      BY <1>b, <2>2 DEF Removed
    <3>2. \A d \in CR \ {c} : obj'[d] = obj[d]
      BY <1>0, <1>b DEF Removed, TypeOK
    <3> QED BY <1>0, <1>k, <1>t, <2>2, <3>1, <3>2 DEF SecretsAreHeld
  <2> QED BY <2>1, <2>2
<1>1. CASE Stores
  <2>1. /\ p.cr \in CR
        /\ p.raw # "gone" => obj[p.cr].fin /\ obj[p.cr].name = p.name
    BY <1>0, <1>1 DEF Stores, PassObject, At
  <2> DEFINE s == [there |-> TRUE, owner |-> p.cr, dead |-> p.raw = "gone",
                   ann |-> Annotated(secret[p.name].ann, p.made), data |-> p.made]
  <2>2. secret' = [secret EXCEPT ![p.name] = s] /\ UNCHANGED obj
    BY <1>1 DEF Stores
  <2>3. s.owner = p.cr /\ s.dead = (p.raw = "gone")
    OBVIOUS
  <2>6. ASSUME NEW l \in IDs(s.ann), p.raw = "gone" PROVE lease'[l] = "over" \/ l \in lost'
    <3>1. CASE l \in IDs(p.made)
      BY <1>1, <2>6, <3>1 DEF Stores
    <3>2. CASE l \notin IDs(p.made)
      <4>1. p.made = NoIDs /\ l \in IDs(secret[p.name].ann)
        BY <2>6, <3>2 DEF Annotated
      <4>2. p.list = {} /\ p.item = {}
        BY <1>0, <1>1 DEF Stores, PassShape, Revoking, Applying, At
      <4>3. l \in IDs(p.existing) \cup lost
        BY <1>1, <4>1 DEF Stores, AllHeld, Held, ReadIsWhole, At
      <4>4. l \in IDs(p.existing) => lease[l] = "over"
        BY <1>1, <3>2, <4>2 DEF Stores, AllHeld, Held, RestIsRevoked, ItemLeases, At
      <4> QED BY <1>0, <4>1, <4>3, <4>4 DEF Onward
    <3> QED BY <3>1, <3>2
  <2> HIDE DEF s
  <2>4. \A n \in Name : secret'[n] = IF n = p.name THEN s ELSE secret[n]
    BY <1>0, <2>2 DEF TypeOK
  <2>5. ASSUME NEW n \in Name
        PROVE  LET x == secret'[n]
               IN /\ x.there /\ x.owner # NoCR /\ ~x.dead
                       => obj'[x.owner].fin /\ obj'[x.owner].name = n
                  /\ x.dead => \A l \in IDs(x.ann) : lease'[l] = "over" \/ l \in lost'
    <3>1. CASE n = p.name
      BY <2>1, <2>2, <2>3, <2>4, <2>6, <3>1
    <3>2. CASE n # p.name
      BY <1>0, <1>k, <1>t, <2>2, <2>4, <3>2 DEF SecretsAreHeld
    <3> QED BY <3>1, <3>2
  <2> QED BY <2>5 DEF SecretsAreHeld, IDs
<1>2. CASE LetsGo
  <2>1. p.cr \in CR /\ obj[p.cr].name = p.name
    BY <1>0, <1>2 DEF LetsGo, PassObject, At
  <2>2. \A l \in IDs(secret[p.name].ann) : lease'[l] = "over" \/ l \in lost'
    BY <1>0, <1>2, RevokedBefore DEF LetsGo, AllHeld, Held, Onward
  <2>3. \A n \in Name : secret[n].there /\ secret[n].owner = p.cr /\ ~secret[n].dead => n = p.name
    BY <1>0, <2>1 DEF SecretsAreHeld
  <2> QED BY <1>2, <1>b, <2>1, <2>2, <2>3 DEF LetsGo
<1>3. CASE PassStep /\ ~Stores /\ ~LetsGo
  <2>1. UNCHANGED obj
    BY <1>0, <1>3, PassStepOwner DEF LetsGo
  <2>2. UNCHANGED secret
    BY <1>0, <1>3, PassStepHands
       DEF ReadLeaseIDs, ReuseLease, RequestLease, EnvelopeRead, Drops, Keeps
  <2> QED BY <1>a, <2>1, <2>2
<1>4. ASSUME NEW c \in CR, Begin(c) PROVE SecretsAreHeld'
  <2>1. \A d \in CR : obj'[d].name = obj[d].name /\ (obj[d].fin => obj'[d].fin)
    BY <1>0, <1>4 DEF Begin, TypeOK, Object
  <2> QED BY <1>4, <1>a, <2>1 DEF Begin
<1>5. CASE Fail
  BY <1>5, <1>a DEF Fail
<1>6. ASSUME NEW c \in CR, CreateObject(c) PROVE SecretsAreHeld'
  <2>1. ~obj[c].fin
    BY <1>0, <1>6 DEF CreateObject, PassObject
  <2>2. \A d \in CR \ {c} : obj'[d] = obj[d]
    BY <1>0, <1>6 DEF CreateObject, TypeOK
  <2> QED BY <1>6, <1>a, <2>1, <2>2 DEF CreateObject
<1>7. ASSUME NEW c \in CR, DeleteObject(c) PROVE SecretsAreHeld'
  <2>1. CASE obj[c].fin
    <3>1. \A d \in CR : obj'[d].fin = obj[d].fin /\ obj'[d].name = obj[d].name
      BY <1>0, <1>7, <2>1 DEF DeleteObject, TypeOK, Object
    <3> QED BY <1>7, <1>a, <2>1, <3>1 DEF DeleteObject
  <2>2. CASE ~obj[c].fin
    <3>1. \A n \in Name : secret[n].there /\ secret[n].owner = c => secret[n].dead
      BY <1>0, <2>2 DEF SecretsAreHeld
    <3> QED BY <1>7, <1>b, <2>2, <3>1 DEF DeleteObject
  <2> QED BY <2>1, <2>2
<1>8. ASSUME NEW n \in Name, DropSecret(n) \/ Collect(n) PROVE SecretsAreHeld'
  <2>1. \A m \in Name : secret'[m] \in {secret[m], NoSecret}
    BY <1>0, <1>8 DEF DropSecret, Collect, TypeOK
  <2> QED BY <1>8, <1>a, <2>1 DEF DropSecret, Collect
<1>9. CASE (\E k \in Key : ChangeHints(k)) \/ \E l \in Lease : Expire(l)
  BY <1>9, <1>a DEF ChangeHints, Expire
<1>10. CASE \E c \in CR : Retarget(c)
  BY <1>10 DEF Retarget, Spend, Fixed
<1>12. ASSUME NEW c \in CR, OtherRevokes(c) PROVE SecretsAreHeld'
  <2>1. \A n \in Name : secret[n].there /\ secret[n].owner = c /\ ~secret[n].dead => n = obj[c].name
    BY <1>0 DEF SecretsAreHeld
  <2> QED BY <1>0, <1>12, <1>b, <2>1, OtherRevokesEffect
<1>13. ASSUME NEW c \in CR, NEW k \in Key, OtherMints(c, k) PROVE SecretsAreHeld'
  <2>1. PICK n \in Name :
          /\ n = obj[c].name /\ secret'[n].owner = c /\ ~secret'[n].dead
          /\ \A m \in Name \ {n} : secret'[m] = secret[m]
    BY <1>0, <1>13, OtherMintsEffect
  <2>2. UNCHANGED obj /\ obj[c].fin
    BY <1>0, <1>13, OtherMintsEffect
  <2>3. ASSUME NEW m \in Name
        PROVE  LET s == secret'[m]
               IN /\ s.there /\ s.owner # NoCR /\ ~s.dead
                       => obj'[s.owner].fin /\ obj'[s.owner].name = m
                  /\ s.dead => \A l \in IDs(s.ann) : lease'[l] = "over" \/ l \in lost'
    <3>1. CASE m = n
      BY <2>1, <2>2, <3>1
    <3>2. CASE m # n
      BY <1>0, <1>k, <1>t, <2>1, <2>2, <3>2 DEF SecretsAreHeld
    <3> QED BY <3>1, <3>2
  <2> QED BY <2>3 DEF SecretsAreHeld, IDs
<1>11. CASE UNCHANGED vars
  BY <1>11, <1>a DEF vars
<1> QED BY <1>1, <1>2, <1>3, <1>4, <1>5, <1>6, <1>7, <1>8, <1>9, <1>10, <1>11, <1>12, <1>13
        DEF Next, World

\* The whole inductive invariant, where nothing is retargeted.
LEMMA AllHeldInductive ==
  ASSUME Fixed
  PROVE  (Init => AllHeld) /\ (AllHeld /\ [Next]_vars => AllHeld')
<1>1. Init => AllHeld
  <2> SUFFICES ASSUME Init PROVE SecretsAreHeld /\ Accounted
    BY HeldInductive DEF AllHeld
  <2>1. \A n \in Name : secret[n].owner = NoCR /\ secret[n].dead = FALSE
    BY DEF Init, NoSecret
  <2>2. /\ \A l \in Lease : lease[l] = "free" /\ stray[l] = 0
        /\ p.work = {} /\ p.item = {} /\ p.existing = NoIDs
    BY DEF Init, NoPass
  <2>3. SecretsAreHeld
    BY <2>1 DEF SecretsAreHeld
  <2>4. Accounted
    BY <2>2, Values DEF Accounted, WantedHeld, LiveHeld, StraysHeld, ItemsHeld, ReadHeld
  <2> QED BY <2>3, <2>4
<1>2. AllHeld /\ [Next]_vars => AllHeld'
  <2> SUFFICES ASSUME AllHeld, [Next]_vars PROVE AllHeld'
    OBVIOUS
  <2>1. Held'
    BY HeldInductive DEF AllHeld
  <2>2. Accounted'
    BY StepWanted, StepLive, StepStrays, StepItems, StepRead DEF Accounted
  <2> QED BY <2>1, <2>2, StepSecrets DEF AllHeld
<1> QED BY <1>1, <1>2

\* The parts of LInv hold together, each under the assumption it needs: the
\* invariant the safety of the leases rests on (Reconcile, RevokeCRLeases).
THEOREM LeasesInductive == Spec => []LInv
<1>1. LInv <=> Held /\ (Fixed => AllHeld)
  BY DEF LInv, Held, AllHeld
<1>2. Init => LInv
  BY <1>1, InitTypes, HeldInductive, AllHeldInductive
<1>3. LInv /\ [Next]_vars => LInv'
  <2> SUFFICES ASSUME LInv, [Next]_vars PROVE LInv'
    OBVIOUS
  <2>1. Held'
    BY <1>1, HeldInductive
  <2>2. Fixed => AllHeld'
    BY <1>1, AllHeldInductive
  <2> QED BY <2>1, <2>2 DEF LInv, Held, AllHeld, Fixed
<1> QED BY <1>2, <1>3, PTL DEF Spec

\* Without an edit of spec.secretName every role is on record: on a Secret, in the
\* running pass, or in what a failure or another operator's overwritten annotation
\* has lost.
THEOREM NoLeaseIsForgotten == ASSUME Fixed PROVE Spec => []NoSilentLeak
<1>1. AllHeld => NoSilentLeak
  <2> SUFFICES ASSUME AllHeld, NEW l \in Lease,
                      lease[l] \in {"wanted", "active", "ending"} \/ stray[l] > 0,
                      l \notin lost
               PROVE  l \in Recorded \cup IDs(p.made)
    BY DEF NoSilentLeak, InHand
  <2>1. Requested \subseteq IDs(p.made) /\ WantedHeld /\ LiveHeld /\ StraysHeld /\ ItemsHeld
    BY RequestedMade DEF AllHeld, Held, Accounted
  <2>2. CASE lease[l] \in {"wanted", "active", "ending"}
    BY <2>1, <2>2 DEF WantedHeld, LiveHeld
  <2>3. CASE stray[l] > 0
    <3> DEFINE i == [lease |-> l, action |-> "create"]
    <3>1. i \in p.item /\ i.lease = l /\ i.action = "create"
      BY <2>1, <2>3 DEF StraysHeld
    <3> HIDE DEF i
    <3>2. l \in Requested
      BY <2>1, <3>1 DEF ItemsHeld
    <3> QED BY <2>1, <3>2
  <2> QED BY <2>2, <2>3
<1> QED BY <1>1, AllHeldInductive, PTL DEF Spec
=============================================================================
