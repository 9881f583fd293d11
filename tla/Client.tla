------------------------------- MODULE Client -------------------------------
(***************************************************************************)
(* The identity of a pass: the credentials of an object, the token cache,  *)
(* the unwrap-key cache and the calls of internal/krypticapi/client.go,    *)
(* and what Reconcile (internal/controller/reconcile.go) makes of their    *)
(* failures.  All objects use one client id, so they share the cache       *)
(* entry; entries of other client ids are untouched.                       *)
(*                                                                         *)
(* Passes run one at a time.  Time is counted in any unit: what matters is *)
(* how Margin, Timeout and Life compare.  A client secret is a number: the *)
(* version of the identity, of its secret and salt alike.                  *)
(***************************************************************************)
EXTENDS Integers

CONSTANTS CR,          \* the KrypticSecrets
          Timeout,     \* how long one HTTP call can take
          Margin,      \* a cached token must live longer than this to be used
          Life,        \* expiresInSeconds of a token
          MaxVersion,  \* bound: the versions of the identity
          Listed,      \* KRYPTIC_CLUSTER_NAMESPACES: the objects in a listed namespace
          MaxCalls,    \* bound: the calls of one SyncDynamic
          MaxTrouble   \* bound: what goes wrong or is changed

ASSUME TimeoutAssumption == Timeout \in Nat
ASSUME MarginAssumption == Margin \in Nat /\ Margin >= 2 * Timeout
ASSUME LifeAssumption == Life \in Nat /\ Life > 2 * Timeout
ASSUME ListedAssumption == Listed \subseteq CR
ASSUME BoundAssumption ==
  /\ MaxVersion \in Nat \ {0} /\ MaxCalls \in Nat /\ MaxTrouble \in Nat

VARIABLES current,   \* the platform: the version of the identity it accepts
          given,     \* what each object has in its spec.auth: a Secret or nothing
          env,       \* the cluster credentials this process was started with
          known,     \* the platform: whether the object's project exists
          up,        \* the platform answers
          cache,     \* Client.tokens[clientId]
          unwrap,    \* Client.unwrapKey: the versions it has a key of
          p,         \* the pass
          budget     \* changes and faults left

world == <<current, given, env, known, up>>
vars == <<world, cache, unwrap, p, budget>>

Version == 1 .. MaxVersion
Missing == 0    \* no usable credentials: absent, incomplete, or a url not allowed
Unnamed == -1   \* spec.auth names no Secret
Auth == Version \cup {Missing, Unnamed}

\* left: its life as expiresAt has it; real: its life at the platform;
\* good: the platform has not withdrawn it; refused: it was answered 401.
Token == [there : BOOLEAN, left : Int, real : Int, good : BOOLEAN, refused : BOOLEAN]
NoToken == [there |-> FALSE, left |-> 0, real |-> 0, good |-> FALSE, refused |-> FALSE]

Outcome == {"none", "synced", "auth", "permanent", "fetch", "write"}

\* stage: inside Fetch or inside SyncDynamic; n: the calls made in it.
Pass == [pc : {"idle", "credentials", "token", "call", "decrypt", "store"},
         cr : CR, version : Version \cup {Missing}, token : Token,
         stage : {"fetch", "dynamic"}, n : Nat, outcome : Outcome]

NewPass(c) == [pc |-> "credentials", cr |-> c, version |-> Missing, token |-> NoToken,
               stage |-> "fetch", n |-> 0, outcome |-> "none"]

Init ==
  /\ current = 1
  /\ given \in [CR -> {1, Missing, Unnamed}]
  /\ env \in {1, Missing}
  /\ known \in [CR -> BOOLEAN]
  /\ up = TRUE
  /\ cache = NoToken
  /\ unwrap = {}
  /\ \E c \in CR : p = [NewPass(c) EXCEPT !.pc = "idle"]
  /\ budget = MaxTrouble

At(pc) == p.pc = pc

\* d units of time pass for a token; what is over stays over.
Less(x, d) == IF x > d THEN x - d ELSE 0
Aged(t, d) == [t EXCEPT !.left = Less(t.left, d), !.real = Less(t.real, d)]

Finish(outcome) == p' = [p EXCEPT !.pc = "idle", !.outcome = outcome, !.token = NoToken]

-----------------------------------------------------------------------------
(* A pass.                                                                 *)

Begin(c) ==
  /\ At("idle")
  /\ p' = NewPass(c)
  /\ UNCHANGED <<world, cache, unwrap, budget>>

\* ClusterCredentials are lent to the namespaces the admin listed.
Lent(c) == IF c \in Listed THEN env ELSE Missing

\* A Secret the object names always wins: if it is of no use, there is no
\* falling back on the cluster's identity.
Identity(c) == IF given[c] = Unnamed THEN Lent(c) ELSE given[c]

Credentials ==
  /\ At("credentials")
  /\ IF Identity(p.cr) = Missing THEN Finish("auth")
     ELSE p' = [p EXCEPT !.pc = "token", !.version = Identity(p.cr)]
  /\ UNCHANGED <<world, cache, unwrap, budget>>

\* Seeded fault: any token that is not known to be over is used.
UsableAny(t) == t.there /\ t.left > 0

Usable(t) == t.there /\ t.left > Margin

ReuseToken ==
  /\ At("token")
  /\ Usable(cache)
  /\ p' = [p EXCEPT !.pc = "call", !.token = cache]
  /\ UNCHANGED <<world, cache, unwrap, budget>>

\* POST /api/token.  Its life is counted from the answer, which is late.
RequestToken ==
  /\ At("token")
  /\ ~Usable(cache)
  /\ IF up /\ p.version = current
     THEN \E d \in 0 .. Timeout :
            LET t == [there |-> TRUE, left |-> Life, real |-> Life - d,
                      good |-> TRUE, refused |-> FALSE]
            IN cache' = t /\ p' = [p EXCEPT !.pc = "call", !.token = t]
     ELSE Finish(IF up THEN "permanent" ELSE "fetch") /\ UNCHANGED cache
  /\ UNCHANGED <<world, unwrap, budget>>

Accepted(t) == t.real > 0 /\ t.good

\* Seeded fault: a 401 leaves the token in the cache.
InvalidateNever(t) == t

Invalidate(t) == NoToken

Answer401 ==
  cache' = IF cache.there THEN Invalidate([cache EXCEPT !.refused = TRUE]) ELSE cache

\* get and do: one call, which may be answered 401.
Refused ==
  /\ At("call")
  /\ up /\ ~Accepted(p.token)
  /\ Answer401
  /\ Finish("permanent")
  /\ UNCHANGED <<world, unwrap, budget>>

\* readMinted takes an error, even a 401, for an envelope it cannot read.
RefusedEnvelope ==
  /\ At("call")
  /\ p.stage = "dynamic" /\ 2 <= p.n /\ p.n < MaxCalls
  /\ up /\ ~Accepted(p.token)
  /\ Answer401
  /\ p' = [p EXCEPT !.n = @ + 1, !.token.refused = TRUE]
  /\ UNCHANGED <<world, unwrap, budget>>

\* The second call of each stage, the bundle, needs the project.
Answered ==
  /\ At("call")
  /\ up /\ Accepted(p.token)
  /\ p.n < (IF p.stage = "fetch" THEN 2 ELSE MaxCalls)
  /\ \E d \in 0 .. Timeout :
       /\ cache' = Aged(cache, d)
       /\ IF p.n = 1 /\ ~known[p.cr]
          THEN Finish("permanent")
          ELSE p' = [p EXCEPT !.n = @ + 1, !.token = Aged(@, d),
                              !.pc = IF p.stage = "fetch" /\ p.n = 1 THEN "decrypt" ELSE "call"]
  /\ UNCHANGED <<world, unwrap, budget>>

Unanswered ==
  /\ At("call")
  /\ ~up
  /\ Finish("fetch")
  /\ UNCHANGED <<world, cache, unwrap, budget>>

\* Seeded faults: the cache has one unwrap key for the client id; or what the
\* lookup returns is used though it found none.
UnwrapKeyOfId(v) == IF unwrap = {} THEN v ELSE CHOOSE x \in unwrap : TRUE
UnwrapKeyUnchecked(v) == IF v \in unwrap THEN v ELSE Missing

\* deriveUnwrapKey: the cached key of this secret and salt, or a fresh one.
UnwrapKey(v) == v

\* decrypt: the key must open what the platform wrapped; then SyncDynamic.
Decrypt ==
  /\ At("decrypt")
  /\ unwrap' = unwrap \cup {UnwrapKey(p.version)}
  /\ IF UnwrapKey(p.version) = current
     THEN p' = [p EXCEPT !.pc = "token", !.stage = "dynamic", !.n = 0]
     ELSE Finish("fetch")
  /\ UNCHANGED <<world, cache, budget>>

SyncedDynamic ==
  /\ At("call")
  /\ p.stage = "dynamic" /\ p.n >= 2
  /\ p' = [p EXCEPT !.pc = "store"]
  /\ UNCHANGED <<world, cache, unwrap, budget>>

ApplySecret ==
  /\ At("store")
  /\ \/ Finish("synced") /\ UNCHANGED budget
     \/ budget > 0 /\ budget' = budget - 1 /\ Finish("write")
  /\ UNCHANGED <<world, cache, unwrap>>

PassStep ==
  \/ Credentials \/ ReuseToken \/ RequestToken \/ Refused \/ RefusedEnvelope
  \/ Answered \/ Unanswered \/ Decrypt \/ SyncedDynamic \/ ApplySecret

-----------------------------------------------------------------------------
(* The rest of the world.                                                  *)

Spend == budget > 0 /\ budget' = budget - 1

\* The identity is rotated; its tokens may or may not be withdrawn.
Rotate ==
  /\ Spend
  /\ current < MaxVersion
  /\ current' = current + 1
  /\ \E b \in BOOLEAN : cache' = [cache EXCEPT !.good = @ /\ b]
                        /\ p' = [p EXCEPT !.token.good = @ /\ b]
  /\ UNCHANGED <<given, env, known, up, unwrap>>

\* The platform withdraws the tokens it issued.
Withdraw ==
  /\ Spend
  /\ cache' = [cache EXCEPT !.good = FALSE]
  /\ p' = [p EXCEPT !.token.good = FALSE]
  /\ UNCHANGED <<world, unwrap>>

EditCredentials(c) ==
  /\ Spend
  /\ \E a \in {current, Missing, Unnamed} : given' = [given EXCEPT ![c] = a]
  /\ UNCHANGED <<current, env, known, up, cache, unwrap, p>>

EditProject(c) ==
  /\ Spend
  /\ known' = [known EXCEPT ![c] = ~@]
  /\ UNCHANGED <<current, given, env, up, cache, unwrap, p>>

Outage ==
  /\ Spend
  /\ up' = ~up
  /\ UNCHANGED <<current, given, env, known, cache, unwrap, p>>

\* The process dies, in the middle of a pass or not, and the next one starts
\* with empty caches and the credentials the Deployment has by then.
Restart ==
  /\ Spend
  /\ cache' = NoToken /\ unwrap' = {}
  /\ p' = [p EXCEPT !.pc = "idle", !.token = NoToken, !.outcome = "none"]
  /\ env' \in {env, current}
  /\ UNCHANGED <<current, given, known, up>>

\* Time passes between two passes.
Sleep ==
  /\ At("idle")
  /\ cache.there
  /\ \E d \in 1 .. Life : cache' = Aged(cache, d)
  /\ UNCHANGED <<world, unwrap, p, budget>>

World ==
  \/ Rotate \/ Withdraw \/ Outage \/ Restart \/ Sleep
  \/ \E c \in CR : EditCredentials(c) \/ EditProject(c)

Next == (\E c \in CR : Begin(c)) \/ PassStep \/ World

Spec == Init /\ [][Next]_vars

\* Calls end, by an answer or by their timeout, and every object has its turn.
Fairness ==
  /\ WF_vars(PassStep)
  /\ \A c \in CR : SF_vars(Begin(c))

LiveSpec == Spec /\ Fairness

-----------------------------------------------------------------------------
(* Properties.                                                             *)

TypeOK ==
  /\ current \in Version
  /\ given \in [CR -> Auth]
  /\ env \in Version \cup {Missing}
  /\ known \in [CR -> BOOLEAN]
  /\ up \in BOOLEAN
  /\ cache \in Token
  /\ unwrap \in SUBSET Version
  /\ p \in Pass
  /\ budget \in 0 .. MaxTrouble

\* The one-minute margin is enough for a Fetch: no call of it is sent with a
\* token that has run out, though the token's life is counted from a late
\* answer and the first call may take as long as it can (client.go 268, 78-83).
FetchTokenLives == At("call") /\ p.stage = "fetch" => p.token.real > 0

\* A token that was answered 401 is not used by a later pass (client.go
\* 251-252).
NextPassReauthenticates == At("call") /\ p.stage = "fetch" => ~p.token.refused

Configured(c) == Identity(c) = current /\ known[c]

\* An object whose credentials, its own or the cluster's, project and platform
\* are in order again is synced again, whatever the caches hold and whatever
\* the objects it shares them with do (client.go 206-208, 251-254).
Recovers ==
  \A c \in CR : <>[](Configured(c) /\ up) => []<>(p.cr = c /\ p.outcome = "synced")
=============================================================================
