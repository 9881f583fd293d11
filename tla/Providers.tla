----------------------------- MODULE Providers -----------------------------
(***************************************************************************)
(* internal/dynsecret: Apply and the providers behind it, call by call.    *)
(* AWS IAM makes and removes a user with several calls (awsiam.go); SQL,   *)
(* Oracle, Cassandra and Redis run the statements of a script one by one   *)
(* and stop at the first error, without a transaction (sql.go).  A call    *)
(* can be refused, fail, or be made and its answer lost; the process can   *)
(* die between two of them.  An item is applied again until the platform   *)
(* withdraws it.  The platform, IAM and the databases are external.        *)
(*                                                                         *)
(* The statements of a script are the administrator's: these are the ones  *)
(* of a role with a grant, and a revocation that says IF EXISTS.  Sessions *)
(* of AWS STS leave no user behind and are not in this module.             *)
(***************************************************************************)
EXTENDS Integers, Sequences

CONSTANTS Lease,     \* the leases the platform can hand out
          NoLease,   \* the worker's lease while it applies no item
          Kind,      \* the provider of each lease
          Template,  \* the user name template of each lease
          MaxName,   \* bound: the names that can be drawn
          MaxTrouble \* bound: faults

Kinds == {"iam", "bare", "script"}  \* "bare": IAM without a policy document

\* A token of a template, and whether truncate leaves any of it.
Token == [random : BOOLEAN, kept : BOOLEAN]

ASSUME LeaseAssumption == NoLease \notin Lease
ASSUME KindAssumption == Kind \in [Lease -> Kinds]
ASSUME TemplateAssumption == Template \in [Lease -> Seq(Token)]
ASSUME BoundAssumption == MaxName \in Nat /\ MaxTrouble \in Nat

VARIABLES state,   \* the platform: the state of each lease
          entity,  \* the platform: the EntityId of each, once it was minted
          user,    \* the providers: what there is under each name
          op,      \* the item the operator is applying
          drawn,   \* the names drawn so far are 1 .. drawn
          failed,  \* history: names of mints that did not complete
          budget   \* faults left

platform == <<state, entity>>
vars == <<platform, user, op, drawn, failed, budget>>

\* Behind the drawn names, at IAM and at the database, the name that a
\* template without a random token renders.
NoName == 0
Name == 1 .. MaxName + 2
FixedName(l) == IF Kind[l] = "script" THEN MaxName + 1 ELSE MaxName + 2

LeaseState == {"free", "wanted", "active", "ending", "over"}
Part == {"user", "policy", "key", "grant"}

MintCall == {"CreateUser", "PutUserPolicy", "CreateAccessKey", "CREATE", "GRANT"}
RevokeCall == {"ListAccessKeys", "DeleteAccessKey", "DeleteUserPolicy", "DeleteUser",
               "REVOKE", "DROP"}
Calls == MintCall \cup RevokeCall \cup {"ALTER"}

\* at: the next call; after the last one the item is completed.
Op == [lease : Lease \cup {NoLease}, action : {"create", "renew", "revoke"},
       name : Name \cup {NoName}, at : Calls \cup {"idle", "complete"}]
NoOp == [lease |-> NoLease, action |-> "create", name |-> NoName, at |-> "idle"]

Init ==
  /\ state = [l \in Lease |-> "free"]
  /\ entity = [l \in Lease |-> NoName]
  /\ user = [n \in Name |-> {}]
  /\ op = NoOp
  /\ drawn = 0
  /\ failed = {}
  /\ budget = MaxTrouble

-----------------------------------------------------------------------------
(* The servers: what a call needs, what stands in its way, what it does.   *)

Needs(c) ==
  CASE c \in {"CreateUser", "CREATE", "REVOKE", "DROP"} -> {}
    [] c = "DeleteAccessKey" -> {"user", "key"}
    [] c = "DeleteUserPolicy" -> {"user", "policy"}
    [] OTHER -> {"user"}

InTheWay(c) ==
  CASE c \in {"CreateUser", "CREATE"} -> {"user"}
    [] c = "DeleteUser" -> {"policy", "key"}
    [] c = "DROP" -> {"grant"}
    [] OTHER -> {}

Does(c, parts) ==
  CASE c \in {"CreateUser", "CREATE"} -> parts \cup {"user"}
    [] c = "PutUserPolicy" -> parts \cup {"policy"}
    [] c = "CreateAccessKey" -> parts \cup {"key"}
    [] c = "GRANT" -> parts \cup {"grant"}
    [] c = "DeleteAccessKey" -> parts \ {"key"}
    [] c = "DeleteUserPolicy" -> parts \ {"policy"}
    [] c \in {"DeleteUser", "DROP"} -> parts \ {"user"}
    [] c = "REVOKE" -> parts \ {"grant"}
    [] OTHER -> parts

Found(c) == Needs(c) \subseteq user[op.name]
Granted(c) == Found(c) /\ InTheWay(c) \cap user[op.name] = {}

-----------------------------------------------------------------------------
(* The code: which call is next, and what an error means.                  *)

First(l, action) ==
  CASE action = "create" -> IF Kind[l] = "script" THEN "CREATE" ELSE "CreateUser"
    [] action = "renew"  -> IF Kind[l] = "script" THEN "ALTER" ELSE "complete"
    [] OTHER             -> IF Kind[l] = "script" THEN "REVOKE" ELSE "ListAccessKeys"

NextCall(l, c) ==
  CASE c = "CreateUser" -> IF Kind[l] = "bare" THEN "CreateAccessKey" ELSE "PutUserPolicy"
    [] c = "PutUserPolicy" -> "CreateAccessKey"
    [] c = "CREATE" -> "GRANT"
    [] c = "ListAccessKeys" -> "DeleteAccessKey"
    [] c = "DeleteAccessKey" -> "DeleteUserPolicy"
    [] c = "DeleteUserPolicy" -> "DeleteUser"
    [] c = "REVOKE" -> "DROP"
    [] OTHER -> "complete"

\* Seeded fault: a user that is not there cannot be revoked.
NeverGone(c) == FALSE

\* NoSuchEntity means that there is nothing left to revoke.
EndsRevoke(c) == c \in {"ListAccessKeys", "DeleteUser"}

\* Seeded fault: DeleteUser's errors are ignored like those before it.
IgnoresDeleteUser(c) == c \in {"DeleteAccessKey", "DeleteUserPolicy", "DeleteUser"}

\* Every error of a call is thrown away.
Ignores(c) == c \in {"DeleteAccessKey", "DeleteUserPolicy"}

\* RenderUsername.  What truncate leaves nothing of is not in the name, and an
\* empty name is replaced by a random one.  Two draws are never the same.
Unique(template) ==
  LET kept == {i \in DOMAIN template : template[i].kept}
  IN kept = {} \/ \E i \in kept : template[i].random

\* Seeded fault: no template draws a name.
RenderPerProvider(l) == IF Kind[l] = "script" THEN 1 ELSE 2

RenderUsername(l) == IF Unique(Template[l]) THEN drawn + 1 ELSE FixedName(l)

-----------------------------------------------------------------------------
(* Apply.                                                                  *)

Offered(l) ==
  CASE state[l] = "wanted" -> {"create"}
    [] state[l] = "active" -> {"renew"}
    [] state[l] = "ending" -> {"revoke"}
    [] OTHER -> {}

\* Seeded fault: a revocation does not use the name the mint had.
NameOfDrawn(l) == RenderUsername(l)

\* An item without an EntityId gets a new name, at each attempt.
NameOf(l) == IF entity[l] # NoName THEN entity[l] ELSE RenderUsername(l)

Take(l) ==
  /\ op.at = "idle"
  /\ drawn < MaxName
  /\ \E a \in Offered(l) :
       op' = [lease |-> l, action |-> a, at |-> First(l, a), name |-> NameOf(l)]
  /\ drawn' = IF NameOf(l) = drawn + 1 THEN drawn + 1 ELSE drawn
  /\ UNCHANGED <<platform, user, failed, budget>>

GoOn == op' = [op EXCEPT !.at = NextCall(op.lease, op.at)]

\* The item is given up.
Forget ==
  /\ op' = NoOp
  /\ failed' = IF op.action = "create" THEN failed \cup {op.name} ELSE failed

\* Apply reports a failure, and the platform may drop a lease it only wanted.
GiveUp ==
  /\ Forget
  /\ \/ UNCHANGED state
     \/ op.action = "create" /\ state[op.lease] = "wanted"
        /\ state' = [state EXCEPT ![op.lease] = "over"]
  /\ UNCHANGED entity

\* One call, made or refused.
Do ==
  /\ op.at \in Calls
  /\ \/ /\ Granted(op.at)
        /\ user' = [user EXCEPT ![op.name] = Does(op.at, @)]
        /\ GoOn
        /\ UNCHANGED <<platform, failed>>
     \/ /\ ~Granted(op.at)
        /\ UNCHANGED user
        /\ IF Ignores(op.at) THEN GoOn /\ UNCHANGED <<platform, failed>>
           ELSE IF ~Found(op.at) /\ EndsRevoke(op.at)
           THEN op' = [op EXCEPT !.at = "complete"] /\ UNCHANGED <<platform, failed>>
           ELSE GiveUp
  /\ UNCHANGED <<drawn, budget>>

\* A call fails before it is made, or after.
Break ==
  /\ op.at \in Calls
  /\ budget > 0 /\ budget' = budget - 1
  /\ \/ UNCHANGED user
     \/ Granted(op.at) /\ user' = [user EXCEPT ![op.name] = Does(op.at, @)]
  /\ IF Ignores(op.at) THEN GoOn /\ UNCHANGED <<platform, failed>> ELSE GiveUp
  /\ UNCHANGED drawn

\* The platform refuses to complete what it no longer offers.
Complete ==
  /\ op.at = "complete"
  /\ IF op.action \notin Offered(op.lease)
     THEN Forget /\ UNCHANGED platform
     ELSE /\ op' = NoOp
          /\ state' = [state EXCEPT ![op.lease] =
                         IF op.action = "revoke" THEN "over" ELSE "active"]
          /\ entity' = [entity EXCEPT ![op.lease] = op.name]
          /\ UNCHANGED failed
  /\ UNCHANGED <<user, drawn, budget>>

Crash ==
  /\ op.at # "idle"
  /\ budget > 0 /\ budget' = budget - 1
  /\ Forget
  /\ UNCHANGED <<platform, user, drawn>>

-----------------------------------------------------------------------------
(* The platform.                                                           *)

Request(l) ==
  /\ state[l] = "free"
  /\ state' = [state EXCEPT ![l] = "wanted"]
  /\ UNCHANGED <<entity, user, op, drawn, failed, budget>>

\* A lease runs out or is revoked; one without a role may just be closed.
End(l) ==
  /\ \/ state[l] \in {"wanted", "active"} /\ state' = [state EXCEPT ![l] = "ending"]
     \/ state[l] = "wanted" /\ state' = [state EXCEPT ![l] = "over"]
  /\ UNCHANGED <<entity, user, op, drawn, failed, budget>>

Next ==
  \/ Do \/ Break \/ Complete \/ Crash
  \/ \E l \in Lease : Take(l) \/ Request(l) \/ End(l)

Spec == Init /\ [][Next]_vars

\* Every call returns, and no item waits for ever behind the others.
Fairness == WF_vars(Do \/ Complete) /\ \A l \in Lease : SF_vars(Take(l))

LiveSpec == Spec /\ Fairness

-----------------------------------------------------------------------------
(* Properties.                                                             *)

Whole(l) ==
  CASE Kind[l] = "iam" -> {"user", "policy", "key"}
    [] Kind[l] = "bare" -> {"user", "key"}
    [] OTHER -> {"user", "grant"}

\* The leases whose template draws a name of its own for each item.
OwnName == {l \in Lease : Unique(Template[l])}

\* What the platform has handed out works: the user of an active lease is
\* there with everything its mint gave it, whatever half-made mints, retries
\* and revocations of other leases do (apply.go 74-77, username.go 14-42).
DeliveredWorks ==
  \A l \in OwnName : state[l] = "active" => user[entity[l]] = Whole(l)

\* A user at a provider can be accounted for: it is of a lease that is not
\* over, of the mint under way, or of a mint that failed.  A revocation
\* is completed only when nothing is left under its name (awsiam.go 164-191).
NoUnknownUser ==
  \A n \in Name :
    user[n] # {} => \/ \E l \in Lease : entity[l] = n /\ state[l] \in {"active", "ending"}
                    \/ op.action = "create" /\ op.name = n
                    \/ n \in failed

\* The calls of a mint and of a revocation together are the one step that
\* module Leases makes of them.
R == INSTANCE Roles WITH
  Lease <- OwnName,
  state <- [l \in OwnName |-> state[l]],
  role <- [l \in OwnName |-> entity[l] # NoName /\ user[entity[l]] # {}]

ImplementsRoles == R!Spec

\* What the calls before this one of a revocation were to remove.
Removed(c) ==
  CASE c = "DeleteUserPolicy" -> {"key"}
    [] c = "DeleteUser" -> {"policy", "key"}
    [] c = "DROP" -> {"grant"}
    [] OTHER -> {}

\* The error of a call was thrown away, and what it left will be in the way.
Doomed == op.action = "revoke" /\ user[op.name] \cap Removed(op.at) # {}

\* What earlier attempts left half done is in nobody's way: an attempt in which
\* no call fails is never refused, but comes to its completion; only a mint or a
\* renewal under a name that other leases have too may find that name taken, or
\* gone (awsiam.go mintIAMUser and Revoke, sql.go runSQL, apply.go 74-77).
AttemptsGoThrough ==
  [][op' # op /\ budget' = budget /\ ~Doomed
       => /\ ~Doomed'
          /\ op'.at = "idle" => \/ op.at = "complete"
                                \/ op.action # "revoke" /\ op.lease \notin OwnName]_vars

\* Revocations end however often their calls failed half way: in the end no
\* lease is left whose role has to go (awsiam.go Revoke: DeleteUser refuses
\* while a key or the lease policy is there).
RevocationsEnd == <>[](\A l \in Lease : state[l] # "ending")

\* The remains of a mint that failed do not keep the next attempt from
\* succeeding: in the end no lease waits for its role (awsiam.go mintIAMUser,
\* sql.go runSQL).
MintsEnd == <>[](\A l \in OwnName : state[l] # "wanted")
-----------------------------------------------------------------------------
(* Why they hold: the parts of an inductive invariant.                     *)

TypeOK ==
  /\ state \in [Lease -> LeaseState]
  /\ entity \in [Lease -> Name \cup {NoName}]
  /\ user \in [Name -> SUBSET Part]
  /\ op \in Op
  /\ drawn \in 0 .. MaxName
  /\ failed \in SUBSET (Name \cup {NoName})
  /\ budget \in 0 .. MaxTrouble

\* The names a lease can have got so far.
NamesOf(l) == IF l \in OwnName THEN 1 .. drawn ELSE {FixedName(l)}

\* Nothing is where no name was drawn, and a name drawn for one lease is not
\* that of another.
NamesApart ==
  /\ \A n \in drawn + 1 .. MaxName : user[n] = {}
  /\ \A l \in Lease : entity[l] \in NamesOf(l) \cup {NoName}
  /\ \A l \in OwnName, k \in Lease : l # k /\ entity[l] # NoName => entity[l] # entity[k]
  /\ op.at # "idle" =>
       /\ op.name \in NamesOf(op.lease)
       /\ \A l \in Lease :
            {l, op.lease} \cap OwnName # {} /\ l # op.lease => entity[l] # op.name

\* The platform knows a name from the completion of the mint on.
EntityKnown ==
  \A l \in Lease : /\ state[l] \in {"free", "wanted"} => entity[l] = NoName
                   /\ state[l] = "active" => entity[l] # NoName

\* The item is the platform's, and its calls are those of its action.
ItemIsRight ==
  IF op.at = "idle" THEN op = NoOp
  ELSE /\ op.lease \in Lease
       /\ op.at \in CASE op.action = "create" -> MintCall \cup {"complete"}
                      [] op.action = "renew" -> {"ALTER", "complete"}
                      [] OTHER -> RevokeCall \cup {"complete"}
       /\ op.action = "create" => entity[op.lease] = NoName
       /\ op.action = "renew" => entity[op.lease] = op.name
       /\ op.action = "revoke" => /\ state[op.lease] = "ending"
                                  /\ entity[op.lease] \in {NoName, op.name}

\* What a mint that has come to a call has made.
Made(l, at) ==
  CASE at \in {"CreateUser", "CREATE"} -> {}
    [] at \in {"PutUserPolicy", "GRANT"} -> {"user"}
    [] at = "CreateAccessKey" -> Whole(l) \ {"key"}
    [] OTHER -> Whole(l)

\* The calls of the kind of the lease.
CallsOf(l) ==
  CASE Kind[l] = "script" -> {"CREATE", "GRANT", "ALTER", "REVOKE", "DROP"}
    [] Kind[l] = "bare" -> Calls \ {"CREATE", "GRANT", "ALTER", "REVOKE", "DROP",
                                    "PutUserPolicy"}
    [] OTHER -> Calls \ {"CREATE", "GRANT", "ALTER", "REVOKE", "DROP"}

\* Nothing of another kind is under a name, and nothing without its user.
PartsOf(l) == IF Kind[l] = "script" THEN {"user", "grant"} ELSE {"user", "policy", "key"}
PartsFit ==
  /\ \A n \in Name : user[n] # {} => "user" \in user[n]
  /\ op.at # "idle" => user[op.name] \subseteq PartsOf(op.lease)
  /\ \A l \in Lease : entity[l] # NoName => user[entity[l]] \subseteq PartsOf(l)
  /\ \A l \in Lease \ OwnName : user[FixedName(l)] \subseteq PartsOf(l)

CallsFit ==
  op.at # "idle" =>
    /\ op.at \in CallsOf(op.lease) \cup {"complete"}
    /\ op.lease \in OwnName /\ op.action = "create" =>
         user[op.name] = Made(op.lease, op.at)
    /\ op.lease \in OwnName /\ op.action = "renew" => user[op.name] = Whole(op.lease)
    /\ op.action = "revoke" /\ op.at = "complete" => user[op.name] = {}

PInv ==
  /\ TypeOK /\ NamesApart /\ EntityKnown /\ ItemIsRight /\ PartsFit /\ CallsFit
  /\ DeliveredWorks /\ NoUnknownUser
=============================================================================
