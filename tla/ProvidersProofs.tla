-------------------------- MODULE ProvidersProofs --------------------------
(***************************************************************************)
(* The inductive invariant of Providers, and that its calls implement the  *)
(* contract of module Roles.                                               *)
(***************************************************************************)
EXTENDS Providers, TLAPS

\* A fixed name is that of no draw, and a name.
LEMMA FixedNames ==
  ASSUME NEW l \in Lease
  PROVE  FixedName(l) \in Name /\ FixedName(l) > MaxName
BY BoundAssumption, SMT DEF FixedName, Name

\* What an item is called (RenderUsername and Apply's EntityId).
LEMMA NameGiven ==
  ASSUME TypeOK, NEW l \in Lease, drawn < MaxName
  PROVE  /\ NameOf(l) \in Name
         /\ \/ entity[l] # NoName /\ NameOf(l) = entity[l]
            \/ entity[l] = NoName /\ l \in OwnName /\ NameOf(l) = drawn + 1
            \/ entity[l] = NoName /\ l \notin OwnName /\ NameOf(l) = FixedName(l)
BY FixedNames, BoundAssumption, SMT DEF NameOf, RenderUsername, OwnName, TypeOK, Name, NoName

\* Initially.
LEMMA InitHolds == Init => PInv
<1> SUFFICES ASSUME Init PROVE PInv
  OBVIOUS
<1>1. TypeOK
  BY BoundAssumption, SMT DEF Init, TypeOK, Name, NoName, LeaseState, Op, NoOp
<1>2. NamesApart /\ EntityKnown /\ ItemIsRight /\ CallsFit /\ DeliveredWorks
  BY BoundAssumption, FixedNames, SMT
  DEF Init, NamesApart, EntityKnown, ItemIsRight, CallsFit, DeliveredWorks, NamesOf,
      OwnName, Name, NoName, NoOp
<1>3. PartsFit /\ NoUnknownUser
  BY FixedNames, SMT DEF Init, PartsFit, NoUnknownUser, PartsOf, Name, NoName, NoOp
<1> QED
  BY <1>1, <1>2, <1>3 DEF PInv

\* An item is taken.
LEMMA TakeKeeps == ASSUME PInv, NEW l \in Lease, Take(l) PROVE PInv'
<1> USE DEF PInv
<1>1. PICK a \in Offered(l) :
        op' = [lease |-> l, action |-> a, at |-> First(l, a), name |-> NameOf(l)]
  BY DEF Take
<1>2. /\ op.at = "idle" /\ drawn < MaxName
      /\ UNCHANGED <<state, entity, user, failed, budget>>
      /\ drawn' = IF NameOf(l) = drawn + 1 THEN drawn + 1 ELSE drawn
  BY DEF Take, platform
<1>3. /\ NameOf(l) \in Name
      /\ \/ entity[l] # NoName /\ NameOf(l) = entity[l]
         \/ entity[l] = NoName /\ l \in OwnName /\ NameOf(l) = drawn + 1
         \/ entity[l] = NoName /\ l \notin OwnName /\ NameOf(l) = FixedName(l)
  BY <1>2, NameGiven
<1>4. /\ a \in {"create", "renew", "revoke"}
      /\ a = "create" => state[l] = "wanted"
      /\ a = "renew" => state[l] = "active"
      /\ a = "revoke" => state[l] = "ending"
  BY SMT DEF Offered
<1>5. /\ op'.lease = l /\ op'.action = a /\ op'.name = NameOf(l) /\ op'.at = First(l, a)
      /\ op'.at # "idle"
  BY <1>1 DEF First
<1>6. TypeOK'
  BY <1>1, <1>2, <1>3, <1>4, <1>5, BoundAssumption, SMT DEF TypeOK, Op, First, Calls, MintCall, RevokeCall
<1>7. NamesApart'
  <2>1. \A n \in drawn' + 1 .. MaxName : user'[n] = {}
    BY <1>2, SMT DEF NamesApart, TypeOK
  <2>2. \A k \in Lease : entity'[k] \in NamesOf(k)' \cup {NoName}
    BY <1>2, SMT DEF NamesApart, TypeOK, NamesOf, OwnName, FixedName
  <2>3. \A j \in OwnName, k \in Lease : j # k /\ entity'[j] # NoName => entity'[j] # entity'[k]
    BY <1>2 DEF NamesApart
  <2>4. op'.name \in NamesOf(l)'
    BY <1>2, <1>3, <1>5, <2>2, SMT DEF NamesOf, TypeOK, OwnName, FixedName
  <2>5. ASSUME NEW k \in Lease, {k, l} \cap OwnName # {}, k # l
        PROVE  entity[k] # op'.name
    <3>1. entity[k] \in NamesOf(k) \cup {NoName}
      BY DEF NamesApart
    <3>2. CASE entity[l] # NoName
      BY <1>3, <1>5, <2>5, <3>2 DEF NamesApart
    <3>3. CASE entity[l] = NoName
      BY <1>2, <1>3, <1>5, <2>5, <3>1, <3>3, FixedNames, BoundAssumption, SMT
      DEF NamesOf, TypeOK, NoName, Name, FixedName, OwnName
    <3> QED
      BY <3>2, <3>3
  <2> QED
    BY <1>2, <1>5, <2>1, <2>2, <2>3, <2>4, <2>5 DEF NamesApart, OwnName
<1>8. EntityKnown' /\ DeliveredWorks'
  BY <1>2 DEF EntityKnown, DeliveredWorks, OwnName, Whole
<1>9. ItemIsRight'
  BY <1>2, <1>3, <1>4, <1>5, SMT
  DEF ItemIsRight, EntityKnown, First, MintCall, RevokeCall
<1>10. PartsFit'
  <2>1. user[NameOf(l)] \subseteq PartsOf(l)
    BY <1>2, <1>3, BoundAssumption, SMT DEF PartsFit, NamesApart, TypeOK
  <2> QED
    BY <1>2, <1>5, <2>1 DEF PartsFit, PartsOf, OwnName, FixedName
<1>11. CallsFit'
  <2>1. First(l, a) \in CallsOf(l) \cup {"complete"}
    BY <1>4, KindAssumption, SMT DEF First, CallsOf, Calls, MintCall, RevokeCall, Kinds
  <2>2. l \in OwnName /\ a = "create" => user[NameOf(l)] = Made(l, First(l, a))
    <3>1. a = "create" => First(l, a) \in {"CREATE", "CreateUser"} /\ entity[l] = NoName
      BY <1>4 DEF First, EntityKnown
    <3>2. l \in OwnName /\ entity[l] = NoName => user[NameOf(l)] = {}
      BY <1>2, <1>3, BoundAssumption, SMT DEF NamesApart, TypeOK
    <3> QED
      BY <3>1, <3>2 DEF Made
  <2>3. a = "revoke" => First(l, a) # "complete"
    BY DEF First
  <2>4. l \in OwnName /\ a = "renew" => user[NameOf(l)] = Whole(l)
    BY <1>3, <1>4 DEF DeliveredWorks, EntityKnown
  <2> QED
    BY <1>2, <1>5, <2>1, <2>2, <2>3, <2>4 DEF CallsFit, OwnName, CallsOf, Made, Whole
<1>12. NoUnknownUser'
  BY <1>2, SMT DEF NoUnknownUser, ItemIsRight, NoOp, TypeOK, Name, NoName
<1> QED
  BY <1>6, <1>7, <1>8, <1>9, <1>10, <1>11, <1>12

-----------------------------------------------------------------------------
(* What a call does, or half does.                                         *)

\* The call is not made, or it is and has its effect.
MadeOrNot ==
  \/ UNCHANGED user
  \/ Granted(op.at) /\ user' = [user EXCEPT ![op.name] = Does(op.at, @)]

\* A call touches only the name of its item, leaves nothing without a user
\* there, and a revocation takes away while a renewal changes nothing.
LEMMA Effect ==
  ASSUME PInv, op.at \in Calls, MadeOrNot
  PROVE  /\ op.lease \in Lease /\ op.name \in Name
         /\ user' \in [Name -> SUBSET Part]
         /\ \A n \in Name : n # op.name => user'[n] = user[n]
         /\ user'[op.name] \subseteq PartsOf(op.lease)
         /\ user'[op.name] # {} => "user" \in user'[op.name]
         /\ op.action = "renew" => user' = user
         /\ op.action = "revoke" => user'[op.name] \subseteq user[op.name]
<1> USE DEF PInv
<1>1. op.at # "idle"
  BY DEF Calls, MintCall, RevokeCall
<1>2. op.lease \in Lease /\ op.name \in Name
  BY <1>1, FixedNames, BoundAssumption, SMT
  DEF ItemIsRight, NamesApart, NamesOf, TypeOK, Name
<1>3. CASE UNCHANGED user
  BY <1>1, <1>2, <1>3, SMT DEF TypeOK, PartsFit
<1>4. CASE Granted(op.at) /\ user' = [user EXCEPT ![op.name] = Does(op.at, @)]
  <2>1. user[op.name] \in SUBSET Part /\ user'[op.name] = Does(op.at, user[op.name])
    BY <1>2, <1>4 DEF TypeOK
  <2>2. op.at \in CallsOf(op.lease) \/ op.at = "complete"
    BY <1>1 DEF CallsFit
  <2>3. /\ user[op.name] # {} => "user" \in user[op.name]
        /\ user[op.name] \subseteq PartsOf(op.lease)
    BY <1>1, <1>2 DEF PartsFit
  <2>4. Does(op.at, user[op.name]) \in SUBSET Part
    BY <2>1, SMT DEF Does, Part
  <2>5. user' \in [Name -> SUBSET Part] /\ \A n \in Name : n # op.name => user'[n] = user[n]
    BY <1>2, <1>4, <2>4 DEF TypeOK
  <2>6. Kind[op.lease] = "script" <=> op.at \in {"CREATE", "GRANT", "ALTER", "REVOKE", "DROP"}
    BY <2>2, SMT DEF CallsOf, Calls, MintCall, RevokeCall
  <2>7. Does(op.at, user[op.name]) \subseteq PartsOf(op.lease)
    BY <2>3, <2>6, SMT DEF Does, PartsOf, Calls, MintCall, RevokeCall
  <2>8. Does(op.at, user[op.name]) # {} => "user" \in Does(op.at, user[op.name])
    BY <1>4, <2>3, <2>6, SMT
    DEF Does, PartsOf, Granted, Found, Needs, InTheWay, Calls, MintCall, RevokeCall
  <2>9. op.action = "renew" => user' = user
    <3> SUFFICES ASSUME op.action = "renew" PROVE user' = user
      OBVIOUS
    <3>1. op.at = "ALTER"
      BY <1>1, SMT DEF ItemIsRight, Calls, MintCall, RevokeCall
    <3>2. Does(op.at, user[op.name]) = user[op.name]
      BY <3>1, SMT DEF Does
    <3> QED
      BY <1>4, <3>2 DEF TypeOK
  <2>10. op.action = "revoke" => Does(op.at, user[op.name]) \subseteq user[op.name]
    BY <1>1, SMT DEF ItemIsRight, Does, Calls, MintCall, RevokeCall
  <2> QED
    BY <1>2, <2>1, <2>5, <2>7, <2>8, <2>9, <2>10
<1> QED
  BY <1>3, <1>4 DEF MadeOrNot

\* So it disturbs no lease but its own, and that one only if its role has to go.
LEMMA OthersKeep ==
  ASSUME PInv, op.at \in Calls, MadeOrNot, UNCHANGED <<entity, drawn>>,
         state' \in [Lease -> LeaseState],
         \A l \in Lease : state'[l] = "active" => state[l] = "active"
  PROVE  /\ \A n \in drawn + 1 .. MaxName : user'[n] = {}
         /\ \A n \in Name : user'[n] # {} => "user" \in user'[n]
         /\ \A l \in Lease : entity[l] # NoName => user'[entity[l]] \subseteq PartsOf(l)
         /\ \A l \in Lease \ OwnName : user'[FixedName(l)] \subseteq PartsOf(l)
         /\ DeliveredWorks'
<1> USE DEF PInv
<1>1. /\ op.lease \in Lease /\ op.name \in Name
      /\ \A n \in Name : n # op.name => user'[n] = user[n]
      /\ user'[op.name] \subseteq PartsOf(op.lease)
      /\ user'[op.name] # {} => "user" \in user'[op.name]
      /\ op.action = "renew" => user' = user
  BY Effect
<1>2. /\ op.at # "idle"
      /\ op.name \in NamesOf(op.lease)
      /\ \A l \in Lease :
           {l, op.lease} \cap OwnName # {} /\ l # op.lease => entity[l] # op.name
  BY DEF NamesApart, Calls, MintCall, RevokeCall
<1>3. \A n \in drawn + 1 .. MaxName : user'[n] = {}
  BY <1>1, <1>2, FixedNames, BoundAssumption, SMT DEF NamesApart, NamesOf, TypeOK, Name
<1>4. \A l \in Lease : entity[l] \in Name \cup {NoName}
  BY DEF TypeOK
<1>5. ASSUME NEW l \in Lease, op.name \in {entity[l], FixedName(l)}, l \notin OwnName
      PROVE  PartsOf(l) = PartsOf(op.lease)
  <2>1. op.name = FixedName(l)
    BY <1>1, <1>5, SMT DEF NamesApart, NamesOf, Name, NoName
  <2>2. op.lease \notin OwnName
    BY <1>2, <2>1, FixedNames, <1>5, BoundAssumption, SMT DEF NamesOf, TypeOK
  <2>3. FixedName(op.lease) = FixedName(l)
    BY <1>2, <2>1, <2>2 DEF NamesOf
  <2> QED
    BY <2>3, BoundAssumption, SMT DEF FixedName, PartsOf
<1>6. ASSUME NEW l \in Lease, entity[l] # NoName
      PROVE  user'[entity[l]] \subseteq PartsOf(l)
  <2>1. CASE entity[l] # op.name
    BY <1>1, <1>4, <1>6, <2>1 DEF PartsFit
  <2>2. CASE entity[l] = op.name
    BY <1>1, <1>2, <1>5, <2>2
  <2> QED
    BY <2>1, <2>2
<1>7. ASSUME NEW l \in Lease \ OwnName
      PROVE  user'[FixedName(l)] \subseteq PartsOf(l)
  BY <1>1, <1>5, <1>7, FixedNames DEF PartsFit
<1>8. DeliveredWorks'
  <2> SUFFICES ASSUME NEW l \in OwnName, state'[l] = "active"
               PROVE  user'[entity[l]] = Whole(l)
    BY DEF DeliveredWorks, OwnName, Whole
  <2>1. l \in Lease /\ state[l] = "active" /\ entity[l] # NoName
    BY DEF OwnName, EntityKnown
  <2>2. user[entity[l]] = Whole(l)
    BY <2>1 DEF DeliveredWorks
  <2>3. CASE entity[l] # op.name
    BY <1>1, <1>4, <2>1, <2>2, <2>3
  <2>4. CASE entity[l] = op.name
    <3>1. l = op.lease
      BY <1>2, <2>1, <2>4
    <3>2. op.action = "renew"
      BY <1>1, <1>2, <2>1, <2>4, <3>1, SMT DEF ItemIsRight, TypeOK, Op
    <3> QED
      BY <1>1, <2>2, <3>2
  <2> QED
    BY <2>3, <2>4
<1> QED
  BY <1>1, <1>3, <1>6, <1>7, <1>8 DEF PartsFit

\* Every user is still accounted for, whether the item goes on or is given up.
LEMMA StillKnown ==
  ASSUME PInv, op.at \in Calls, MadeOrNot, UNCHANGED entity,
         state' \in [Lease -> LeaseState],
         \A l \in Lease : state[l] \in {"active", "ending"} => state'[l] = state[l],
         failed \subseteq failed',
         op.action = "create" =>
           op.name \in failed' \/ (op'.action = "create" /\ op'.name = op.name)
  PROVE  NoUnknownUser'
<1> USE DEF PInv
<1> SUFFICES ASSUME NEW n \in Name, user'[n] # {}
             PROVE  \/ \E l \in Lease : entity[l] = n /\ state'[l] \in {"active", "ending"}
                    \/ op'.action = "create" /\ op'.name = n
                    \/ n \in failed'
  BY DEF NoUnknownUser
<1>1. /\ \A m \in Name : m # op.name => user'[m] = user[m]
      /\ op.action = "renew" => user' = user
      /\ op.action = "revoke" => user'[op.name] \subseteq user[op.name]
  BY Effect
<1>2. op.action \in {"create", "renew", "revoke"}
  BY DEF TypeOK, Op
<1>3. CASE op.action = "create" /\ n = op.name
  BY <1>3
<1>4. CASE ~(op.action = "create" /\ n = op.name)
  <2>1. user[n] # {}
    BY <1>1, <1>2, <1>4
  <2> QED
    BY <2>1, <1>4 DEF NoUnknownUser
<1> QED
  BY <1>3, <1>4

\* What a failed or forgotten item leaves behind.
Dropped ==
  /\ Forget
  /\ \/ UNCHANGED state
     \/ op.action = "create" /\ state[op.lease] = "wanted"
        /\ state' = [state EXCEPT ![op.lease] = "over"]
  /\ UNCHANGED <<entity, drawn>>
  /\ budget' \in 0 .. MaxTrouble

\* Nothing is worse for an item that is given up between two calls.
LEMMA DroppedKeeps == ASSUME PInv, op.at \in Calls, MadeOrNot, Dropped PROVE PInv'
<1> USE DEF PInv
<1>1. /\ op.at # "idle" /\ op' = NoOp /\ UNCHANGED <<entity, drawn>>
      /\ op.lease \in Lease /\ op.name \in Name
      /\ failed' = IF op.action = "create" THEN failed \cup {op.name} ELSE failed
  BY Effect DEF Dropped, Forget, Calls, MintCall, RevokeCall
<1>2. /\ state' \in [Lease -> LeaseState]
      /\ \A l \in Lease : state'[l] = state[l] \/ (state[l] = "wanted" /\ state'[l] = "over")
  BY <1>1, SMT DEF Dropped, TypeOK, LeaseState
<1>3. TypeOK'
  BY <1>1, <1>2, Effect DEF TypeOK, Dropped, NoOp, Op, NoName
<1>4. /\ \A n \in drawn + 1 .. MaxName : user'[n] = {}
      /\ \A n \in Name : user'[n] # {} => "user" \in user'[n]
      /\ \A l \in Lease : entity[l] # NoName => user'[entity[l]] \subseteq PartsOf(l)
      /\ \A l \in Lease \ OwnName : user'[FixedName(l)] \subseteq PartsOf(l)
      /\ DeliveredWorks'
  BY <1>1, <1>2, OthersKeep
<1>5. NamesApart'
  BY <1>1, <1>4 DEF NamesApart, NamesOf, OwnName, NoOp, FixedName
<1>6. EntityKnown' /\ ItemIsRight'
  BY <1>1, <1>2 DEF EntityKnown, ItemIsRight, NoOp
<1>7. PartsFit' /\ CallsFit'
  BY <1>1, <1>4 DEF PartsFit, CallsFit, NoOp, OwnName, PartsOf, FixedName
<1>8. NoUnknownUser'
  BY <1>1, <1>2, StillKnown
<1> QED
  BY <1>3, <1>4, <1>5, <1>6, <1>7, <1>8

\* The item goes on to its next call, or to its completion.
Onward ==
  /\ \E at \in Calls \cup {"complete"} : op' = [op EXCEPT !.at = at]
  /\ UNCHANGED <<platform, drawn, failed>>
  /\ budget' \in 0 .. MaxTrouble

\* An item that goes on with the right call keeps the invariant.
LEMMA OnwardKeeps ==
  ASSUME PInv, op.at \in Calls, MadeOrNot, Onward, ItemIsRight', CallsFit'
  PROVE  PInv'
<1> USE DEF PInv
<1>1. /\ op.at # "idle" /\ op'.at # "idle"
      /\ op'.lease = op.lease /\ op'.name = op.name /\ op'.action = op.action
      /\ op' \in Op
      /\ UNCHANGED <<state, entity, drawn, failed>>
      /\ op.lease \in Lease /\ op.name \in Name
  <2>1. PICK at \in Calls \cup {"complete"} : op' = [op EXCEPT !.at = at]
    BY DEF Onward
  <2> QED
    BY <2>1, Effect DEF Onward, platform, TypeOK, Op, Calls, MintCall, RevokeCall
<1>2. TypeOK'
  BY <1>1, Effect DEF TypeOK, Onward
<1>3. /\ \A n \in drawn + 1 .. MaxName : user'[n] = {}
      /\ \A n \in Name : user'[n] # {} => "user" \in user'[n]
      /\ \A l \in Lease : entity[l] # NoName => user'[entity[l]] \subseteq PartsOf(l)
      /\ \A l \in Lease \ OwnName : user'[FixedName(l)] \subseteq PartsOf(l)
      /\ DeliveredWorks'
  BY <1>1, OthersKeep DEF TypeOK
<1>4. NamesApart'
  BY <1>1, <1>3 DEF NamesApart, NamesOf, OwnName, FixedName
<1>5. EntityKnown'
  BY <1>1 DEF EntityKnown
<1>6. PartsFit'
  BY <1>1, <1>3, Effect DEF PartsFit, OwnName, PartsOf, FixedName
<1>7. NoUnknownUser'
  BY <1>1, StillKnown DEF TypeOK
<1> QED
  BY <1>2, <1>3, <1>4, <1>5, <1>6, <1>7

-----------------------------------------------------------------------------
(* The actions.                                                            *)

\* The next call is one of the same action and kind.
LEMMA NextFits ==
  ASSUME NEW l \in Lease, NEW c \in Calls, c \in CallsOf(l)
  PROVE  /\ NextCall(l, c) \in (CallsOf(l) \cap Calls) \cup {"complete"}
         /\ c \in MintCall => /\ NextCall(l, c) \in MintCall \cup {"complete"}
                              /\ Made(l, NextCall(l, c)) = Does(c, Made(l, c))
         /\ c \in RevokeCall => NextCall(l, c) \in RevokeCall \cup {"complete"}
         /\ c = "ALTER" => NextCall(l, c) = "complete"
         /\ c \in RevokeCall /\ NextCall(l, c) = "complete" => c \in {"DeleteUser", "DROP"}
<1>1. Kind[l] \in Kinds
  BY KindAssumption
<1>2. CASE c \in MintCall
  BY <1>1, <1>2, SMT
  DEF NextCall, CallsOf, Calls, MintCall, RevokeCall, Kinds, Made, Does, Whole
<1>3. CASE c \notin MintCall
  BY <1>1, <1>3, SMT DEF NextCall, CallsOf, Calls, MintCall, RevokeCall, Kinds
<1> QED
  BY <1>2, <1>3

\* What holds of an item that is between two calls.
LEMMA UnderWay ==
  ASSUME PInv, op.at \in Calls
  PROVE  /\ op.at # "idle" /\ op.lease \in Lease /\ op.name \in Name
         /\ op.at \in CallsOf(op.lease)
         /\ op.action = "create" => op.at \in MintCall
         /\ op.action = "renew" => op.at = "ALTER"
         /\ op.action = "revoke" => op.at \in RevokeCall
         /\ op.action \in {"create", "renew", "revoke"}
<1>2. op.at # "idle" /\ op.at # "complete"
  BY DEF Calls, MintCall, RevokeCall
<1>1. op.lease \in Lease /\ op.name \in Name
  BY <1>2, FixedNames, BoundAssumption, SMT
  DEF PInv, ItemIsRight, NamesApart, NamesOf, TypeOK, Name
<1> QED
  BY <1>1, <1>2, SMT
  DEF PInv, ItemIsRight, CallsFit, Calls, MintCall, RevokeCall, TypeOK, Op

\* The item goes on after a call that was made, or whose error is ignored.
LEMMA GoOnKeeps ==
  ASSUME PInv, op.at \in Calls, GoOn, MadeOrNot, UNCHANGED <<platform, failed, drawn>>,
         budget' \in 0 .. MaxTrouble,
         \/ Granted(op.at) /\ user' = [user EXCEPT ![op.name] = Does(op.at, @)]
         \/ Ignores(op.at)
  PROVE  PInv'
<1> USE DEF PInv
<1>0. /\ op.at # "idle" /\ op.lease \in Lease /\ op.name \in Name
      /\ op.at \in CallsOf(op.lease)
      /\ op.action = "create" => op.at \in MintCall
      /\ op.action = "renew" => op.at = "ALTER"
      /\ op.action = "revoke" => op.at \in RevokeCall
      /\ op.action \in {"create", "renew", "revoke"}
  BY UnderWay
<1> DEFINE next == NextCall(op.lease, op.at)
<1>1. /\ next \in (CallsOf(op.lease) \cap Calls) \cup {"complete"}
      /\ op.at \in MintCall => /\ next \in MintCall \cup {"complete"}
                               /\ Made(op.lease, next) = Does(op.at, Made(op.lease, op.at))
      /\ op.at \in RevokeCall => next \in RevokeCall \cup {"complete"}
      /\ op.at = "ALTER" => next = "complete"
      /\ op.at \in RevokeCall /\ next = "complete" => op.at \in {"DeleteUser", "DROP"}
  BY <1>0, NextFits
<1> HIDE DEF next
<1>2. op' = [op EXCEPT !.at = next]
  BY DEF GoOn, next
<1>3. /\ op'.lease = op.lease /\ op'.name = op.name /\ op'.action = op.action
      /\ op'.at = next /\ next # "idle"
  BY <1>1, <1>2 DEF TypeOK, Op, Calls, MintCall, RevokeCall
<1>4. Onward
  BY <1>1, <1>2 DEF Onward
<1>5. ItemIsRight'
  <2>1. op'.at \in CASE op.action = "create" -> MintCall \cup {"complete"}
                     [] op.action = "renew" -> {"ALTER", "complete"}
                     [] OTHER -> RevokeCall \cup {"complete"}
    BY <1>0, <1>1, <1>3
  <2> QED
    BY <1>0, <1>3, <2>1 DEF ItemIsRight, platform
<1>6. ASSUME op.lease \in OwnName, op.action = "create"
      PROVE  user'[op.name] = Made(op.lease, next)
  <2>1. Granted(op.at) /\ user' = [user EXCEPT ![op.name] = Does(op.at, @)]
    BY <1>0, <1>6, SMT DEF Ignores, MintCall
  <2>2. user[op.name] = Made(op.lease, op.at)
    BY <1>0, <1>6 DEF CallsFit
  <2> QED
    BY <1>0, <1>1, <1>6, <2>1, <2>2 DEF TypeOK
<1>7. ASSUME op.action = "revoke", next = "complete"
      PROVE  user'[op.name] = {}
  <2>1. op.at \in {"DeleteUser", "DROP"}
    BY <1>0, <1>1, <1>7
  <2>2. /\ Granted(op.at)
        /\ user'[op.name] = Does(op.at, user[op.name])
    BY <1>0, <2>1 DEF Ignores, TypeOK
  <2>3. user[op.name] \subseteq PartsOf(op.lease)
    BY <1>0 DEF PartsFit
  <2>4. Kind[op.lease] = "script" <=> op.at = "DROP"
    BY <1>0, <2>1, SMT DEF CallsOf, Calls, MintCall, RevokeCall
  <2>5. Does(op.at, user[op.name]) = {}
    BY <2>1, <2>2, <2>3, <2>4, SMT DEF Does, Granted, Found, Needs, InTheWay, PartsOf
  <2> QED
    BY <2>2, <2>5
<1>8. ASSUME op.lease \in OwnName, op.action = "renew"
      PROVE  user'[op.name] = Whole(op.lease)
  BY <1>0, <1>8, Effect DEF CallsFit
<1>9. CallsFit'
  BY <1>1, <1>3, <1>6, <1>7, <1>8 DEF CallsFit, OwnName, CallsOf, Made, Whole
<1> QED
  BY <1>4, <1>5, <1>9, OnwardKeeps

\* A call is made or refused.
LEMMA DoKeeps == ASSUME PInv, Do PROVE PInv'
<1>1. /\ op.at \in Calls /\ UNCHANGED <<drawn, budget>> /\ MadeOrNot
      /\ budget' \in 0 .. MaxTrouble
  BY DEF Do, MadeOrNot, PInv, TypeOK
<1>2. CASE GiveUp
  BY <1>1, <1>2, DroppedKeeps DEF GiveUp, Dropped
<1>3. CASE GoOn /\ UNCHANGED <<platform, failed>>
           /\ (\/ Granted(op.at) /\ user' = [user EXCEPT ![op.name] = Does(op.at, @)]
               \/ Ignores(op.at))
  BY <1>1, <1>3, GoOnKeeps
<1>4. CASE /\ op' = [op EXCEPT !.at = "complete"] /\ UNCHANGED <<platform, failed, user>>
           /\ ~Found(op.at) /\ EndsRevoke(op.at)
  <2>1. /\ op.at # "idle" /\ op.lease \in Lease /\ op.name \in Name
        /\ op.action = "revoke"
    BY <1>1, <1>4, UnderWay, SMT DEF EndsRevoke, MintCall
  <2>2. user[op.name] = {}
    BY <1>4, <2>1, SMT DEF EndsRevoke, Found, Needs, PInv, PartsFit
  <2>3. Onward
    BY <1>1, <1>4 DEF Onward
  <2>4. /\ op'.lease = op.lease /\ op'.name = op.name /\ op'.action = op.action
        /\ op'.at = "complete"
    BY <1>4 DEF PInv, TypeOK, Op
  <2>5. ItemIsRight' /\ CallsFit'
    BY <1>4, <2>1, <2>2, <2>4 DEF PInv, ItemIsRight, CallsFit, platform
  <2> QED
    BY <1>1, <2>3, <2>5, OnwardKeeps
<1> QED
  BY <1>2, <1>3, <1>4 DEF Do

\* A call fails.
LEMMA BreakKeeps == ASSUME PInv, Break PROVE PInv'
<1>1. /\ op.at \in Calls /\ UNCHANGED drawn /\ MadeOrNot
      /\ budget' \in 0 .. MaxTrouble
  BY BoundAssumption, SMT DEF Break, MadeOrNot, PInv, TypeOK
<1>2. CASE GiveUp
  BY <1>1, <1>2, DroppedKeeps DEF GiveUp, Dropped
<1>3. CASE Ignores(op.at) /\ GoOn /\ UNCHANGED <<platform, failed>>
  BY <1>1, <1>3, GoOnKeeps
<1> QED
  BY <1>2, <1>3 DEF Break

\* The process dies, or the platform refuses the completion.
LEMMA ForgetKeeps ==
  ASSUME PInv, op.at # "idle", Forget, UNCHANGED <<platform, user, drawn>>,
         budget' \in 0 .. MaxTrouble
  PROVE  PInv'
<1> USE DEF PInv
<1>1. /\ op' = NoOp /\ UNCHANGED <<state, entity, user, drawn>>
      /\ failed' = IF op.action = "create" THEN failed \cup {op.name} ELSE failed
  BY DEF Forget, platform
<1>2. TypeOK'
  BY <1>1 DEF TypeOK, NoOp, Op, NoName
<1>3. NamesApart'
  BY <1>1 DEF NamesApart, NamesOf, OwnName, NoOp, FixedName
<1>4. EntityKnown' /\ ItemIsRight' /\ DeliveredWorks'
  BY <1>1 DEF EntityKnown, ItemIsRight, NoOp, DeliveredWorks, OwnName, Whole
<1>5. PartsFit' /\ CallsFit'
  BY <1>1 DEF PartsFit, CallsFit, NoOp, OwnName, PartsOf, FixedName
<1>6. NoUnknownUser'
  BY <1>1 DEF NoUnknownUser, NoOp
<1> QED
  BY <1>2, <1>3, <1>4, <1>5, <1>6

\* The platform learns the outcome.
LEMMA CompleteKeeps == ASSUME PInv, Complete PROVE PInv'
<1> USE DEF PInv
<1>0. /\ op.at = "complete" /\ op.at # "idle" /\ UNCHANGED <<user, drawn, budget>>
      /\ op.lease \in Lease
      /\ op.action \in {"create", "renew", "revoke"}
  BY SMT DEF Complete, ItemIsRight, TypeOK, Op
<1>1. CASE Forget /\ UNCHANGED platform
  BY <1>0, <1>1, ForgetKeeps DEF TypeOK
<1>2. CASE /\ op.action \in Offered(op.lease) /\ op' = NoOp
           /\ state' = [state EXCEPT ![op.lease] =
                          IF op.action = "revoke" THEN "over" ELSE "active"]
           /\ entity' = [entity EXCEPT ![op.lease] = op.name]
           /\ UNCHANGED failed
  <2>1. /\ op.name \in NamesOf(op.lease)
        /\ \A l \in Lease :
             {l, op.lease} \cap OwnName # {} /\ l # op.lease => entity[l] # op.name
    BY <1>0 DEF NamesApart
  <2>2. op.name \in Name /\ op.name # NoName
    BY <1>0, <2>1, FixedNames, BoundAssumption, SMT DEF NamesOf, TypeOK, Name, NoName
  <2>3. /\ op.action = "create" => state[op.lease] = "wanted"
        /\ op.action = "renew" => state[op.lease] = "active" /\ entity[op.lease] = op.name
        /\ op.action = "revoke" => /\ state[op.lease] = "ending"
                                   /\ entity[op.lease] \in {NoName, op.name}
    BY <1>0, <1>2, SMT DEF Offered, ItemIsRight
  <2>4. TypeOK'
    BY <1>0, <1>2, <2>2, SMT DEF TypeOK, NoOp, Op, NoName, LeaseState
  <2>5. NamesApart'
    <3>1. \A l \in Lease : entity'[l] = IF l = op.lease THEN op.name ELSE entity[l]
      BY <1>0, <1>2 DEF TypeOK
    <3>2. \A l \in Lease : entity'[l] \in NamesOf(l) \cup {NoName}
      BY <2>1, <3>1 DEF NamesApart
    <3>3. ASSUME NEW j \in OwnName, NEW k \in Lease, j # k, entity'[j] # NoName
          PROVE  entity'[j] # entity'[k]
      <4>1. j \in Lease
        BY DEF OwnName
      <4> QED
        BY <2>1, <3>1, <3>3, <4>1 DEF NamesApart
    <3> QED
      BY <1>0, <1>2, <3>2, <3>3 DEF NamesApart, NamesOf, OwnName, NoOp, FixedName
  <2>6. EntityKnown'
    BY <1>0, <1>2, <2>2, SMT DEF EntityKnown, TypeOK
  <2>7. ItemIsRight' /\ CallsFit'
    BY <1>2 DEF ItemIsRight, CallsFit, NoOp
  <2>8. PartsFit'
    <3>1. user[op.name] \subseteq PartsOf(op.lease)
      BY <1>0 DEF PartsFit
    <3>2. \A l \in Lease : entity'[l] # NoName => user[entity'[l]] \subseteq PartsOf(l)
      BY <1>0, <1>2, <3>1 DEF PartsFit, TypeOK
    <3> QED
      BY <1>0, <1>2, <3>2 DEF PartsFit, OwnName, PartsOf, FixedName, NoOp
  <2>9. DeliveredWorks'
    <3> SUFFICES ASSUME NEW l \in OwnName, state'[l] = "active"
                 PROVE  user[entity'[l]] = Whole(l)
      BY <1>0 DEF DeliveredWorks, OwnName, Whole
    <3>0. l \in Lease
      BY DEF OwnName
    <3>1. CASE l # op.lease
      BY <1>0, <1>2, <3>0, <3>1 DEF DeliveredWorks, TypeOK
    <3>2. CASE l = op.lease
      <4>1. entity'[l] = op.name
        BY <1>0, <1>2, <3>2 DEF TypeOK
      <4>2. op.action # "revoke"
        BY <1>0, <1>2, <3>2 DEF TypeOK
      <4>3. CASE op.action = "create"
        BY <1>0, <3>2, <4>1, <4>3, KindAssumption, SMT DEF CallsFit, Made
      <4>4. CASE op.action = "renew"
        BY <1>0, <2>3, <3>2, <4>1, <4>4 DEF DeliveredWorks
      <4> QED
        BY <1>0, <4>2, <4>3, <4>4
    <3> QED
      BY <3>1, <3>2
  <2>10. NoUnknownUser'
    <3> SUFFICES ASSUME NEW n \in Name, user[n] # {}
                 PROVE  \/ \E l \in Lease : entity'[l] = n /\ state'[l] \in {"active", "ending"}
                        \/ n \in failed'
      BY <1>0 DEF NoUnknownUser
    <3>1. \A l \in Lease : l # op.lease => entity'[l] = entity[l] /\ state'[l] = state[l]
      BY <1>0, <1>2 DEF TypeOK
    <3>2. /\ entity'[op.lease] = op.name
          /\ op.action # "revoke" => state'[op.lease] = "active"
      BY <1>0, <1>2 DEF TypeOK
    <3>3. CASE op.name = n
      <4>1. op.action # "revoke"
        BY <1>0, <3>3 DEF CallsFit
      <4> QED
        BY <1>0, <3>2, <3>3, <4>1
    <3>4. CASE op.name # n
      <4>1. \/ \E l \in Lease : entity[l] = n /\ state[l] \in {"active", "ending"}
            \/ n \in failed
        BY <3>4 DEF NoUnknownUser
      <4>2. entity[op.lease] # n
        BY <2>2, <2>3, <3>4, <1>0, SMT DEF EntityKnown, Name, NoName
      <4> QED
        BY <1>2, <3>1, <4>1, <4>2
    <3> QED
      BY <3>3, <3>4
  <2> QED
    BY <2>4, <2>5, <2>6, <2>7, <2>8, <2>9, <2>10
<1> QED
  BY <1>1, <1>2 DEF Complete

\* The platform requests or ends a lease.
LEMMA PlatformKeeps ==
  ASSUME PInv, NEW l \in Lease, Request(l) \/ End(l)
  PROVE  PInv'
<1> USE DEF PInv
<1>1. /\ UNCHANGED <<entity, user, op, drawn, failed, budget>>
      /\ \E s \in LeaseState :
           /\ state' = [state EXCEPT ![l] = s]
           /\ <<state[l], s>> \in {<<"free", "wanted">>, <<"wanted", "ending">>,
                                  <<"active", "ending">>, <<"wanted", "over">>}
  BY SMT DEF Request, End, LeaseState
<1>2. TypeOK'
  BY <1>1 DEF TypeOK
<1>3. NamesApart' /\ PartsFit' /\ CallsFit'
  BY <1>1 DEF NamesApart, PartsFit, CallsFit, NamesOf, OwnName, FixedName, PartsOf,
              CallsOf, Made, Whole
<1>4. EntityKnown' /\ DeliveredWorks'
  BY <1>1 DEF EntityKnown, DeliveredWorks, OwnName, Whole, TypeOK
<1>5. ItemIsRight'
  BY <1>1 DEF ItemIsRight, NoOp, TypeOK
<1>6. NoUnknownUser'
  <2>1. \A k \in Lease : state[k] \in {"active", "ending"} => state'[k] \in {"active", "ending"}
    BY <1>1 DEF TypeOK
  <2> QED
    BY <1>1, <2>1 DEF NoUnknownUser
<1> QED
  BY <1>2, <1>3, <1>4, <1>5, <1>6

-----------------------------------------------------------------------------
(* The theorems.                                                           *)

\* The inductive invariant of the providers.
THEOREM ProvidersInductive == Spec => []PInv
<1>1. ASSUME PInv, [Next]_vars PROVE PInv'
  <2>1. ASSUME NEW l \in Lease, Take(l) PROVE PInv'
    BY <1>1, <2>1, TakeKeeps
  <2>2. ASSUME NEW l \in Lease, Request(l) \/ End(l) PROVE PInv'
    BY <1>1, <2>2, PlatformKeeps
  <2>3. CASE Crash
    BY <1>1, <2>3, ForgetKeeps, BoundAssumption, SMT DEF Crash, PInv, TypeOK
  <2>4. CASE UNCHANGED vars
    BY <1>1, <2>4
    DEF vars, platform, PInv, TypeOK, NamesApart, NamesOf, OwnName, FixedName,
        EntityKnown, ItemIsRight, PartsFit, PartsOf, CallsFit, CallsOf, Made, Whole,
        DeliveredWorks, NoUnknownUser
  <2> QED
    BY <1>1, <2>1, <2>2, <2>3, <2>4, DoKeeps, BreakKeeps, CompleteKeeps DEF Next
<1> QED
  BY <1>1, InitHolds, PTL DEF Spec

\* The user of an active lease is there, whole, whatever fails elsewhere.
THEOREM DeliveredLeasesWork == Spec => []DeliveredWorks
<1>1. PInv => DeliveredWorks
  BY DEF PInv
<1> QED
  BY <1>1, ProvidersInductive, PTL

\* No user is left behind but by a mint that failed.
THEOREM UsersAreKnown == Spec => []NoUnknownUser
<1>1. PInv => NoUnknownUser
  BY DEF PInv
<1> QED
  BY <1>1, ProvidersInductive, PTL

-----------------------------------------------------------------------------
(* Attempts without a fault.                                               *)

\* A call of such an attempt is made, its error is thrown away because there is
\* nothing to remove, or it is told that the user is gone.
LEMMA NotRefused ==
  ASSUME PInv, op.at \in Calls, ~Doomed, ~Granted(op.at),
         op.action = "revoke" \/ op.lease \in OwnName
  PROVE  Ignores(op.at) \/ (~Found(op.at) /\ EndsRevoke(op.at))
<1> USE DEF PInv
<1>1. /\ op.at # "idle" /\ op.lease \in Lease /\ op.name \in Name
      /\ op.at \in CallsOf(op.lease)
      /\ op.action = "create" => op.at \in MintCall
      /\ op.action = "renew" => op.at = "ALTER"
      /\ op.action = "revoke" => op.at \in RevokeCall
      /\ op.action \in {"create", "renew", "revoke"}
  BY UnderWay
<1>2. CASE op.action = "create"
  <2>1. user[op.name] = Made(op.lease, op.at)
    BY <1>1, <1>2 DEF CallsFit
  <2> QED
    BY <1>1, <1>2, <2>1, SMT DEF Granted, Found, Needs, InTheWay, Made, Whole, MintCall
<1>3. CASE op.action = "renew"
  <2>1. user[op.name] = Whole(op.lease)
    BY <1>1, <1>3 DEF CallsFit
  <2> QED
    BY <1>1, <1>3, <2>1, SMT DEF Granted, Found, Needs, InTheWay, Whole
<1>4. CASE op.action = "revoke"
  <2>1. user[op.name] \cap Removed(op.at) = {}
    BY <1>4 DEF Doomed
  <2> QED
    BY <1>1, <1>4, <2>1, SMT
    DEF Granted, Found, Needs, InTheWay, Removed, Ignores, EndsRevoke, RevokeCall
<1> QED
  BY <1>1, <1>2, <1>3, <1>4

\* It leaves nothing that a later call of it would find in its way.
LEMMA StaysClear ==
  ASSUME PInv, Do, ~Doomed
  PROVE  ~Doomed'
<1> USE DEF PInv
<1>1. /\ op.at # "idle" /\ op.lease \in Lease /\ op.name \in Name
      /\ op.at \in CallsOf(op.lease) /\ op.at \in Calls
      /\ op.action = "revoke" => op.at \in RevokeCall
  BY UnderWay DEF Do
<1>2. CASE GiveUp
  BY <1>2 DEF GiveUp, Forget, NoOp, Doomed
<1>3. CASE op' = [op EXCEPT !.at = "complete"]
  BY <1>3, SMT DEF Doomed, Removed, TypeOK, Op
<1>4. CASE GoOn
  <2> SUFFICES ASSUME op.action = "revoke"
               PROVE  user'[op.name] \cap Removed(NextCall(op.lease, op.at)) = {}
    BY <1>4 DEF GoOn, Doomed, TypeOK, Op
  <2>1. user[op.name] \cap Removed(op.at) = {}
    BY DEF Doomed
  <2>2. user[op.name] # {} => "user" \in user[op.name]
    BY <1>1 DEF PartsFit
  <2>3. CASE Granted(op.at) /\ user' = [user EXCEPT ![op.name] = Does(op.at, @)]
    <3>1. user'[op.name] = Does(op.at, user[op.name])
      BY <1>1, <2>3 DEF TypeOK
    <3> QED
      BY <1>1, <2>1, <3>1, SMT DEF Removed, NextCall, Does, RevokeCall
  <2>4. CASE ~Granted(op.at) /\ UNCHANGED user
    <3>1. Ignores(op.at) \/ (~Found(op.at) /\ EndsRevoke(op.at))
      BY <1>1, <2>4, NotRefused
    <3> QED
      BY <1>1, <2>1, <2>2, <2>4, <3>1, SMT
      DEF Removed, NextCall, Granted, Found, Needs, InTheWay, Ignores, EndsRevoke, RevokeCall
  <2> QED
    BY <2>3, <2>4 DEF Do
<1> QED
  BY <1>2, <1>3, <1>4 DEF Do

\* Nothing that earlier attempts left half done makes a provider refuse one in
\* which no call fails (awsiam.go 115-191, sql.go 15-30).
THEOREM FaultlessAttemptsGoThrough == Spec => AttemptsGoThrough
<1> DEFINE Step == op' # op /\ budget' = budget /\ ~Doomed
                   => /\ ~Doomed'
                      /\ op'.at = "idle" => \/ op.at = "complete"
                                            \/ op.action # "revoke" /\ op.lease \notin OwnName
<1>1. ASSUME PInv, [Next]_vars PROVE [Step]_vars
  <2> USE <1>1 DEF PInv
  <2>1. CASE Do
    <3>1. op.at \in Calls /\ op.at # "complete"
      BY <2>1 DEF Do, Calls, MintCall, RevokeCall
    <3>2. ASSUME ~Doomed, op.action = "revoke" \/ op.lease \in OwnName
          PROVE  op'.at # "idle"
      <4>1. GoOn \/ op' = [op EXCEPT !.at = "complete"]
        BY <2>1, <3>1, <3>2, NotRefused DEF Do
      <4>2. NextCall(op.lease, op.at) # "idle"
        BY SMT DEF NextCall
      <4> QED
        BY <4>1, <4>2 DEF GoOn, TypeOK, Op
    <3> QED
      BY <2>1, <3>2, StaysClear
  <2>2. CASE Break \/ Crash
    BY <2>2, SMT DEF Break, Crash, TypeOK
  <2>3. CASE Complete
    <3>1. op.at = "complete" /\ op' = NoOp
      BY <2>3 DEF Complete, Forget
    <3> QED
      BY <3>1 DEF Doomed, NoOp
  <2>4. ASSUME NEW l \in Lease, Take(l) PROVE Step
    <3>1. PICK a \in Offered(l) :
            op' = [lease |-> l, action |-> a, at |-> First(l, a), name |-> NameOf(l)]
      BY <2>4 DEF Take
    <3>2. First(l, a) # "idle" /\ Removed(First(l, a)) = {}
      BY SMT DEF First, Removed
    <3> QED
      BY <3>1, <3>2 DEF Doomed
  <2>5. ASSUME NEW l \in Lease, Request(l) \/ End(l) PROVE Step
    BY <2>5 DEF Request, End
  <2> QED
    BY <2>1, <2>2, <2>3, <2>4, <2>5 DEF Next
<1> QED
  BY <1>1, ProvidersInductive, PTL DEF Spec, AttemptsGoThrough

-----------------------------------------------------------------------------
(* The refinement.                                                         *)

\* The role on record of a lease.
RoleOf(l) == entity[l] # NoName /\ user[entity[l]] # {}

\* A step that changes neither the states nor the roles is no step of Roles.
LEMMA RolesStutter ==
  ASSUME \A l \in OwnName : state'[l] = state[l] /\ (RoleOf(l)' <=> RoleOf(l))
  PROVE  UNCHANGED R!vars
<1>1. OwnName' = OwnName
  BY DEF OwnName
<1>2. [l \in OwnName |-> state'[l]] = [l \in OwnName |-> state[l]]
  OBVIOUS
<1>3. [l \in OwnName |-> entity'[l] # NoName /\ user'[entity'[l]] # {}]
      = [l \in OwnName |-> entity[l] # NoName /\ user[entity[l]] # {}]
  BY DEF RoleOf
<1> QED
  BY <1>1, <1>2, <1>3 DEF R!vars, OwnName

\* The steps of Roles, told by the state and the role of the lease they are for.
RoleMove(l) ==
  \/ /\ (RoleOf(l)' <=> RoleOf(l))
     /\ <<state[l], state'[l]>> \in {<<"free", "wanted">>, <<"wanted", "over">>,
                                     <<"wanted", "ending">>, <<"active", "ending">>}
  \/ RoleOf(l)' /\ state[l] = "wanted" /\ state'[l] = "active"
  \/ ~RoleOf(l)' /\ state[l] = "ending" /\ state'[l] = "ending"
  \/ /\ ~RoleOf(l) /\ ~RoleOf(l)'
     /\ state[l] = "ending" /\ state'[l] = "over"

\* Such a step of one lease, the others as they were, is a step of Roles.
LEMMA RolesStep ==
  ASSUME NEW l \in OwnName, RoleMove(l),
         \A k \in OwnName : k # l => state'[k] = state[k] /\ (RoleOf(k)' <=> RoleOf(k))
  PROVE  R!Next
<1> DEFINE st == [k \in OwnName |-> state[k]]
           stn == [k \in OwnName |-> state'[k]]
           ro == [k \in OwnName |-> entity[k] # NoName /\ user[entity[k]] # {}]
           ron == [k \in OwnName |-> entity'[k] # NoName /\ user'[entity'[k]] # {}]
<1>1. OwnName' = OwnName
  BY DEF OwnName
<1>2. stn = [st EXCEPT ![l] = state'[l]] /\ st[l] = state[l]
  OBVIOUS
<1>3. ron = [ro EXCEPT ![l] = RoleOf(l)'] /\ ro[l] = RoleOf(l)
  BY DEF RoleOf
<1>4. (RoleOf(l)' <=> RoleOf(l)) => ron = ro
  BY DEF RoleOf
<1>5. state'[l] = state[l] => stn = st
  OBVIOUS
<1>11. RoleOf(l)' \in BOOLEAN /\ RoleOf(l) \in BOOLEAN
  BY DEF RoleOf
<1> HIDE DEF st, stn, ro, ron
<1>6. /\ R!Request(l) <=> st[l] = "free" /\ stn = [st EXCEPT ![l] = "wanted"] /\ ron = ro
      /\ R!Adopt(l) <=> /\ st[l] = "wanted" /\ stn = [st EXCEPT ![l] = "active"]
                        /\ ron = [ro EXCEPT ![l] = TRUE]
      /\ R!Withdraw(l) <=> st[l] = "wanted" /\ stn = [st EXCEPT ![l] = "over"] /\ ron = ro
      /\ R!End(l) <=> /\ st[l] \in {"wanted", "active"}
                      /\ stn = [st EXCEPT ![l] = "ending"] /\ ron = ro
      /\ R!Drop(l) <=> /\ st[l] \in {"ending", "over"} /\ stn = st
                       /\ ron = [ro EXCEPT ![l] = FALSE]
      /\ R!Close(l) <=> /\ ~ro[l] /\ st[l] = "ending"
                        /\ stn = [st EXCEPT ![l] = "over"] /\ ron = ro
  BY <1>1 DEF R!Request, R!Adopt, R!Withdraw, R!End, R!Drop, R!Close, R!Move,
              st, stn, ro, ron
<1>7. CASE (RoleOf(l)' <=> RoleOf(l))
           /\ <<state[l], state'[l]>> \in {<<"free", "wanted">>, <<"wanted", "over">>,
                                          <<"wanted", "ending">>, <<"active", "ending">>}
  <2>1. R!Request(l) \/ R!Withdraw(l) \/ R!End(l)
    BY <1>2, <1>4, <1>6, <1>7
  <2> QED
    BY <2>1 DEF R!Next
<1>8. CASE RoleOf(l)' /\ state[l] = "wanted" /\ state'[l] = "active"
  <2>1. R!Adopt(l)
    BY <1>2, <1>3, <1>6, <1>8, <1>11
  <2> QED
    BY <2>1 DEF R!Next
<1>9. CASE ~RoleOf(l)' /\ state[l] = "ending" /\ state'[l] = "ending"
  <2>1. R!Drop(l)
    BY <1>2, <1>3, <1>5, <1>6, <1>9, <1>11
  <2> QED
    BY <2>1 DEF R!Next
<1>10. CASE /\ ~RoleOf(l) /\ ~RoleOf(l)'
            /\ state[l] = "ending" /\ state'[l] = "over"
  <2>1. R!Close(l)
    BY <1>2, <1>3, <1>4, <1>6, <1>10, <1>11
  <2> QED
    BY <2>1 DEF R!Next
<1> QED
  BY <1>7, <1>8, <1>9, <1>10 DEF RoleMove

\* A call is one of Roles' steps for the lease of its item, or none.
LEMMA CallMaps ==
  ASSUME PInv, op.at \in Calls, MadeOrNot, UNCHANGED entity,
         \/ UNCHANGED state
         \/ op.action = "create" /\ state[op.lease] = "wanted"
            /\ state' = [state EXCEPT ![op.lease] = "over"]
  PROVE  [R!Next]_(R!vars)
<1> USE DEF PInv
<1>1. /\ op.at # "idle" /\ op.lease \in Lease /\ op.name \in Name
      /\ op.action \in {"create", "renew", "revoke"}
      /\ \A n \in Name : n # op.name => user'[n] = user[n]
      /\ op.action = "renew" => user' = user
      /\ op.action = "revoke" => user'[op.name] \subseteq user[op.name]
  BY Effect, UnderWay
<1>2. \A k \in OwnName :
        k # op.lease => state'[k] = state[k] /\ (RoleOf(k)' <=> RoleOf(k))
  <2> SUFFICES ASSUME NEW k \in OwnName, k # op.lease
               PROVE  state'[k] = state[k] /\ (RoleOf(k)' <=> RoleOf(k))
    OBVIOUS
  <2>1. k \in Lease
    BY DEF OwnName
  <2>2. state'[k] = state[k]
    BY <1>1, <2>1 DEF TypeOK
  <2>3. entity[k] # op.name /\ entity[k] \in Name \cup {NoName}
    BY <1>1, <2>1 DEF NamesApart, TypeOK
  <2> QED
    BY <1>1, <2>2, <2>3 DEF RoleOf
<1>3. CASE op.lease \notin OwnName
  BY <1>2, <1>3, RolesStutter
<1>4. ASSUME NEW l \in OwnName, l = op.lease, op.action = "create"
      PROVE  [R!Next]_(R!vars)
  <2>1. ~RoleOf(l) /\ ~RoleOf(l)'
    BY <1>1, <1>4 DEF ItemIsRight, RoleOf
  <2>2. CASE UNCHANGED state
    BY <1>2, <1>4, <2>1, <2>2, RolesStutter
  <2>3. CASE state[op.lease] = "wanted" /\ state' = [state EXCEPT ![op.lease] = "over"]
    <3>1. RoleMove(l)
      BY <1>1, <1>4, <2>1, <2>3 DEF RoleMove, TypeOK
    <3> QED
      BY <1>2, <1>4, <3>1, RolesStep
  <2> QED
    BY <2>2, <2>3
<1>5. CASE op.action = "renew"
  <2>1. user' = user /\ state' = state
    BY <1>1, <1>5
  <2> QED
    BY <2>1, RolesStutter DEF RoleOf
<1>6. ASSUME NEW l \in OwnName, l = op.lease, op.action = "revoke"
      PROVE  [R!Next]_(R!vars)
  <2>1. state' = state /\ state[op.lease] = "ending"
    BY <1>1, <1>6 DEF ItemIsRight
  <2>2. entity[op.lease] \in {NoName, op.name}
    BY <1>1, <1>6 DEF ItemIsRight
  <2>3. CASE (RoleOf(l)' <=> RoleOf(l))
    BY <1>2, <1>6, <2>1, <2>3, RolesStutter
  <2>4. CASE ~(RoleOf(l)' <=> RoleOf(l))
    <3>1. ~RoleOf(l)'
      BY <1>1, <1>6, <2>2, <2>4 DEF RoleOf
    <3>2. RoleMove(l)
      BY <1>6, <2>1, <3>1 DEF RoleMove
    <3> QED
      BY <1>2, <1>6, <3>2, RolesStep
  <2> QED
    BY <2>3, <2>4
<1> QED
  BY <1>1, <1>3, <1>4, <1>5, <1>6

\* So is the completion of an item.
LEMMA CompleteMaps == ASSUME PInv, Complete PROVE [R!Next]_(R!vars)
<1> USE DEF PInv
<1>0. /\ op.at = "complete" /\ op.at # "idle" /\ UNCHANGED user
      /\ op.lease \in Lease
      /\ op.action \in {"create", "renew", "revoke"}
  BY SMT DEF Complete, ItemIsRight, TypeOK, Op
<1>1. CASE UNCHANGED platform
  BY <1>0, <1>1, RolesStutter DEF platform, RoleOf
<1>2. CASE /\ op.action \in Offered(op.lease)
           /\ state' = [state EXCEPT ![op.lease] =
                          IF op.action = "revoke" THEN "over" ELSE "active"]
           /\ entity' = [entity EXCEPT ![op.lease] = op.name]
  <2>1. /\ \A k \in Lease : k # op.lease => state'[k] = state[k] /\ entity'[k] = entity[k]
        /\ state'[op.lease] = IF op.action = "revoke" THEN "over" ELSE "active"
        /\ entity'[op.lease] = op.name
    BY <1>0, <1>2 DEF TypeOK
  <2>2. \A k \in OwnName :
          k # op.lease => state'[k] = state[k] /\ (RoleOf(k)' <=> RoleOf(k))
    BY <1>0, <2>1 DEF RoleOf, OwnName
  <2>3. CASE op.lease \notin OwnName
    BY <2>2, <2>3, RolesStutter
  <2>4. ASSUME NEW l \in OwnName, l = op.lease, op.action = "create"
      PROVE  [R!Next]_(R!vars)
    <3>1. state[op.lease] = "wanted"
      BY <1>2, <2>4, SMT DEF Offered
    <3>2. op.name # NoName
      BY <1>0, <2>4, SMT DEF NamesApart, NamesOf, NoName, TypeOK
    <3>3. user[op.name] # {}
      BY <1>0, <2>4, SMT DEF CallsFit, Made, Whole
    <3>4. RoleOf(l)'
      BY <1>0, <2>1, <2>4, <3>2, <3>3 DEF RoleOf
    <3>5. RoleMove(l)
      BY <2>1, <2>4, <3>1, <3>4 DEF RoleMove
    <3> QED
      BY <2>2, <2>4, <3>5, RolesStep
  <2>5. ASSUME NEW l \in OwnName, l = op.lease, op.action = "renew"
      PROVE  [R!Next]_(R!vars)
    <3>1. state[op.lease] = "active" /\ entity[op.lease] = op.name
      BY <1>0, <1>2, <2>5, SMT DEF Offered, ItemIsRight
    <3>2. state'[op.lease] = state[op.lease] /\ (RoleOf(l)' <=> RoleOf(l))
      BY <1>0, <2>1, <2>5, <3>1 DEF RoleOf
    <3> QED
      BY <2>2, <2>5, <3>2, RolesStutter
  <2>6. ASSUME NEW l \in OwnName, l = op.lease, op.action = "revoke"
      PROVE  [R!Next]_(R!vars)
    <3>1. state[op.lease] = "ending" /\ entity[op.lease] \in {NoName, op.name}
      BY <1>0, <2>6 DEF ItemIsRight
    <3>2. user[op.name] = {}
      BY <1>0, <2>6 DEF CallsFit
    <3>3. ~RoleOf(l) /\ ~RoleOf(l)'
      BY <1>0, <2>1, <2>6, <3>1, <3>2 DEF RoleOf
    <3>4. RoleMove(l)
      BY <2>1, <2>6, <3>1, <3>3 DEF RoleMove
    <3> QED
      BY <2>2, <2>6, <3>4, RolesStep
  <2> QED
    BY <1>0, <2>3, <2>4, <2>5, <2>6
<1> QED
  BY <1>1, <1>2 DEF Complete

\* For leases whose template draws a name, the calls and statements of Apply,
\* in any order with failures, lost answers and crashes, keep Roles.
THEOREM CallsImplementRoles == Spec => ImplementsRoles
<1>1. Init => R!Init
  <2> SUFFICES ASSUME Init PROVE R!Init
    OBVIOUS
  <2>1. /\ [l \in OwnName |-> state[l]] = [l \in OwnName |-> "free"]
        /\ [l \in OwnName |-> entity[l] # NoName /\ user[entity[l]] # {}]
           = [l \in OwnName |-> FALSE]
    BY DEF Init, OwnName
  <2> QED
    BY <2>1 DEF R!Init
<1>2. ASSUME PInv, [Next]_vars PROVE [R!Next]_(R!vars)
  <2>1. ASSUME UNCHANGED <<state, entity, user>> PROVE [R!Next]_(R!vars)
    BY <2>1, RolesStutter DEF RoleOf
  <2>2. CASE Do
    BY <1>2, <2>2, CallMaps DEF Do, GiveUp, MadeOrNot, platform
  <2>3. CASE Break
    BY <1>2, <2>3, CallMaps DEF Break, GiveUp, MadeOrNot, platform
  <2>4. CASE Complete
    BY <1>2, <2>4, CompleteMaps
  <2>5. CASE Crash \/ UNCHANGED vars \/ \E l \in Lease : Take(l)
    BY <2>1, <2>5 DEF Crash, vars, platform, Take
  <2>6. ASSUME NEW l \in Lease, Request(l) \/ End(l)
        PROVE  [R!Next]_(R!vars)
    <3>1. \A k \in Lease : k # l => state'[k] = state[k] /\ (RoleOf(k)' <=> RoleOf(k))
      BY <1>2, <2>6 DEF Request, End, PInv, TypeOK, RoleOf
    <3>2. l \in OwnName => RoleMove(l)
      BY <1>2, <2>6 DEF Request, End, PInv, TypeOK, RoleOf, RoleMove
    <3>3. CASE l \in OwnName
      BY <3>1, <3>2, <3>3, RolesStep DEF OwnName
    <3>4. CASE l \notin OwnName
      BY <3>1, <3>4, RolesStutter DEF OwnName
    <3> QED
      BY <3>3, <3>4
  <2> QED
    BY <1>2, <2>2, <2>3, <2>4, <2>5, <2>6 DEF Next
<1> QED
  BY <1>1, <1>2, ProvidersInductive, PTL DEF Spec, ImplementsRoles, R!Spec
=============================================================================
