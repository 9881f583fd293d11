---------------------------- MODULE ClientProofs ----------------------------
(***************************************************************************)
(* Why the one-minute margin of the token cache is enough for a Fetch, for *)
(* any timeout, any margin of at least two timeouts and any token life     *)
(* above two timeouts.                                                     *)
(***************************************************************************)
EXTENDS Client, TLAPS

\* The life a token has at the platform is shorter than the life the cache
\* counts by no more than the time its answer took.
CacheClock == cache.left <= cache.real + Timeout /\ 0 <= cache.real

\* Before the first call of a Fetch the token outlives that call.  The version
\* that is unwrapped with is one of an identity.
FetchClock ==
  /\ p.pc \notin {"idle", "credentials"} => p.version \in Version
  /\ p.pc \in {"credentials", "token"} => p.n = 0
  /\ p.pc = "credentials" => p.stage = "fetch"
  /\ p.pc = "call" /\ p.stage = "fetch" =>
       /\ p.n \in {0, 1}
       /\ p.n = 0 => p.token.real > Timeout
       /\ p.n = 1 => p.token.real > 0

\* A token that was refused has left the cache, and a pass that still carries
\* it is past its Fetch: only readMinted goes on after a 401.
CacheUnrefused == ~cache.refused
PassUnrefused == p.stage = "fetch" => ~p.token.refused

ClientInv == TypeOK /\ CacheClock /\ FetchClock /\ CacheUnrefused /\ PassUnrefused

USE TimeoutAssumption, MarginAssumption, LifeAssumption, BoundAssumption

\* What ageing makes of a token.
LEMMA AgedToken ==
  ASSUME NEW t \in Token, NEW d \in Nat
  PROVE  /\ Aged(t, d) \in Token
         /\ Aged(t, d).left = Less(t.left, d)
         /\ Aged(t, d).real = Less(t.real, d)
         /\ Aged(t, d).refused = t.refused
<1>1. t.left \in Int /\ t.real \in Int
  BY DEF Token
<1>2. Less(t.left, d) \in Int /\ Less(t.real, d) \in Int
  BY <1>1 DEF Less
<1> QED BY <1>1, <1>2 DEF Aged, Token

\* Ageing keeps the two clocks of a token at most a timeout apart.
LEMMA AgedClock ==
  ASSUME NEW t \in Token, NEW d \in Nat,
         t.left <= t.real + Timeout, 0 <= t.real
  PROVE  /\ Aged(t, d).left <= Aged(t, d).real + Timeout
         /\ 0 <= Aged(t, d).real
<1>1. t.left \in Int /\ t.real \in Int
  BY DEF Token
<1>2. Less(t.left, d) <= Less(t.real, d) + Timeout /\ 0 <= Less(t.real, d)
  BY <1>1 DEF Less
<1> QED BY <1>2, AgedToken

\* The invariant holds initially.
LEMMA ClientInit == ASSUME Init PROVE ClientInv
<1>1. NoToken \in Token
  BY DEF NoToken, Token
<1>2. TypeOK
  BY <1>1 DEF Init, TypeOK, Version, Auth, Missing, NewPass, Pass, Outcome
<1>3. CacheClock /\ CacheUnrefused
  BY DEF Init, CacheClock, CacheUnrefused, NoToken
<1>4. FetchClock /\ PassUnrefused
  BY DEF Init, FetchClock, PassUnrefused, NewPass, NoToken
<1> QED BY <1>2, <1>3, <1>4 DEF ClientInv

\* A pass that ends keeps the facts about the pass.
LEMMA FinishKeeps ==
  ASSUME TypeOK, NEW o \in Outcome, Finish(o)
  PROVE  p' \in Pass /\ FetchClock' /\ PassUnrefused'
<1>1. NoToken \in Token /\ ~NoToken.refused
  BY DEF NoToken, Token
<1> QED BY <1>1 DEF TypeOK, Finish, Pass, FetchClock, PassUnrefused

\* Begin keeps the invariant.
LEMMA BeginKeeps ==
  ASSUME ClientInv, NEW c \in CR, Begin(c)
  PROVE  ClientInv'
<1>1. p' \in Pass /\ p'.pc = "credentials" /\ p'.n = 0 /\ p'.stage = "fetch"
      /\ ~p'.token.refused
  BY DEF Begin, NewPass, Pass, NoToken, Token, Version, Missing, Outcome
<1>2. TypeOK'
  BY <1>1 DEF ClientInv, TypeOK, Begin, world
<1>3. CacheClock' /\ FetchClock' /\ CacheUnrefused' /\ PassUnrefused'
  BY <1>1 DEF ClientInv, CacheClock, FetchClock, CacheUnrefused, PassUnrefused, Begin
<1> QED BY <1>2, <1>3 DEF ClientInv

\* Credentials keeps the invariant.
LEMMA CredentialsKeeps == ASSUME ClientInv, Credentials PROVE ClientInv'
<1>1. p' \in Pass /\ FetchClock' /\ PassUnrefused'
  <2>1. CASE Identity(p.cr) = Missing
    BY <2>1, FinishKeeps DEF Credentials, ClientInv, Outcome
  <2>2. CASE Identity(p.cr) # Missing
    <3>1. p.cr \in CR /\ given[p.cr] \in Auth
      BY DEF ClientInv, TypeOK, Pass
    <3>2. Identity(p.cr) \in Version
      BY <2>2, <3>1 DEF Identity, Lent, ClientInv, TypeOK, Auth
    <3> QED BY <2>2, <3>2 DEF Credentials, ClientInv, TypeOK, Pass, FetchClock,
                              PassUnrefused, At
  <2> QED BY <2>1, <2>2
<1>2. TypeOK' /\ CacheClock' /\ CacheUnrefused'
  BY <1>1 DEF ClientInv, TypeOK, CacheClock, CacheUnrefused, Credentials, world
<1> QED BY <1>1, <1>2 DEF ClientInv

\* ReuseToken keeps the invariant.
LEMMA ReuseTokenKeeps == ASSUME ClientInv, ReuseToken PROVE ClientInv'
<1>1. p' \in Pass /\ p'.n = 0 /\ p'.token = cache /\ p'.pc = "call" /\ p'.version \in Version
  BY DEF ReuseToken, ClientInv, TypeOK, Pass, FetchClock, At
<1>2. cache.real > Timeout
  BY DEF ReuseToken, Usable, ClientInv, CacheClock, TypeOK, Token
<1>3. TypeOK' /\ CacheClock' /\ CacheUnrefused'
  BY <1>1 DEF ClientInv, TypeOK, CacheClock, CacheUnrefused, ReuseToken, world
<1>4. FetchClock' /\ PassUnrefused'
  <2>1. cache.real \in Int
    BY DEF ClientInv, TypeOK, Token
  <2> QED BY <1>1, <1>2, <2>1 DEF FetchClock, PassUnrefused, ClientInv, CacheUnrefused
<1> QED BY <1>3, <1>4 DEF ClientInv

\* RequestToken keeps the invariant.
LEMMA RequestTokenKeeps == ASSUME ClientInv, RequestToken PROVE ClientInv'
<1>1. CASE up /\ p.version = current
  <2>1. PICK d \in 0 .. Timeout :
          LET t == [there |-> TRUE, left |-> Life, real |-> Life - d,
                    good |-> TRUE, refused |-> FALSE]
          IN cache' = t /\ p' = [p EXCEPT !.pc = "call", !.token = t]
    BY <1>1 DEF RequestToken
  <2> DEFINE t == [there |-> TRUE, left |-> Life, real |-> Life - d,
                   good |-> TRUE, refused |-> FALSE]
  <2>2. t \in Token /\ t.left <= t.real + Timeout /\ t.real > Timeout /\ ~t.refused
    BY DEF Token
  <2>3. cache' = t /\ p' = [p EXCEPT !.pc = "call", !.token = t]
    BY <2>1
  <2> HIDE DEF t
  <2>4. p' \in Pass /\ p'.n = 0 /\ p'.token = t /\ p'.pc = "call" /\ p'.version \in Version
    BY <2>2, <2>3 DEF RequestToken, ClientInv, TypeOK, Pass, FetchClock, At
  <2>5. TypeOK'
    BY <2>2, <2>3, <2>4 DEF ClientInv, TypeOK, RequestToken, world
  <2>6. t.real \in Int /\ t.left \in Int
    BY <2>2 DEF Token
  <2>7. CacheClock' /\ CacheUnrefused'
    BY <2>2, <2>3, <2>6 DEF CacheClock, CacheUnrefused
  <2>8. FetchClock' /\ PassUnrefused'
    BY <2>2, <2>4, <2>6 DEF FetchClock, PassUnrefused
  <2> QED BY <2>5, <2>7, <2>8 DEF ClientInv
<1>2. CASE ~(up /\ p.version = current)
  <2>1. Finish(IF up THEN "permanent" ELSE "fetch") /\ UNCHANGED cache
    BY <1>2 DEF RequestToken
  <2>2. p' \in Pass /\ FetchClock' /\ PassUnrefused'
    BY <2>1, FinishKeeps DEF ClientInv, Outcome
  <2>3. TypeOK' /\ CacheClock' /\ CacheUnrefused'
    BY <2>1, <2>2 DEF ClientInv, TypeOK, CacheClock, CacheUnrefused, RequestToken, world
  <2> QED BY <2>2, <2>3 DEF ClientInv
<1> QED BY <1>1, <1>2

\* A 401 empties the cache entry or finds it empty.
LEMMA Answer401Keeps ==
  ASSUME ClientInv, Answer401
  PROVE  cache' \in Token /\ CacheClock' /\ CacheUnrefused'
<1>1. cache' = NoToken \/ cache' = cache
  BY DEF Answer401, Invalidate
<1>2. CASE cache' = NoToken
  BY <1>2 DEF CacheClock, CacheUnrefused, NoToken, Token
<1>3. CASE cache' = cache
  BY <1>3 DEF ClientInv, TypeOK, CacheClock, CacheUnrefused
<1> QED BY <1>1, <1>2, <1>3

\* Refused keeps the invariant.
LEMMA RefusedKeeps == ASSUME ClientInv, Refused PROVE ClientInv'
<1>1. p' \in Pass /\ FetchClock' /\ PassUnrefused'
  BY FinishKeeps DEF Refused, ClientInv, Outcome
<1>2. cache' \in Token /\ CacheClock' /\ CacheUnrefused'
  BY Answer401Keeps DEF Refused
<1>3. TypeOK'
  BY <1>1, <1>2 DEF ClientInv, TypeOK, Refused, world
<1> QED BY <1>1, <1>2, <1>3 DEF ClientInv

\* RefusedEnvelope keeps the invariant.
LEMMA RefusedEnvelopeKeeps == ASSUME ClientInv, RefusedEnvelope PROVE ClientInv'
<1>1. cache' \in Token /\ CacheClock' /\ CacheUnrefused'
  BY Answer401Keeps DEF RefusedEnvelope
<1>2. p' \in Pass
  <2> DEFINE t == [p.token EXCEPT !.refused = TRUE]
  <2>1. p \in Pass /\ p.token \in Token /\ p.n + 1 \in Nat
    BY DEF ClientInv, TypeOK, Pass
  <2>2. t \in Token
    BY <2>1 DEF Token
  <2>3. p' = [p EXCEPT !.n = p.n + 1, !.token = t]
    BY <2>1 DEF RefusedEnvelope, Pass
  <2> HIDE DEF t
  <2> QED BY <2>1, <2>2, <2>3 DEF Pass
<1>3. FetchClock' /\ PassUnrefused'
  BY DEF RefusedEnvelope, FetchClock, PassUnrefused, ClientInv, TypeOK, Pass, At
<1>4. TypeOK'
  BY <1>1, <1>2 DEF ClientInv, TypeOK, RefusedEnvelope, world
<1> QED BY <1>1, <1>3, <1>4 DEF ClientInv

\* Answered keeps the invariant.
LEMMA AnsweredKeeps == ASSUME ClientInv, Answered PROVE ClientInv'
<1>1. PICK d \in 0 .. Timeout :
        /\ cache' = Aged(cache, d)
        /\ IF p.n = 1 /\ ~known[p.cr]
           THEN Finish("permanent")
           ELSE p' = [p EXCEPT !.n = @ + 1, !.token = Aged(@, d),
                               !.pc = IF p.stage = "fetch" /\ p.n = 1 THEN "decrypt" ELSE "call"]
  BY DEF Answered
<1>2. d \in Nat /\ d <= Timeout
  OBVIOUS
<1>3. cache' \in Token /\ CacheClock' /\ CacheUnrefused'
  BY <1>1, <1>2, AgedToken, AgedClock DEF ClientInv, TypeOK, CacheClock, CacheUnrefused
<1>4. p' \in Pass /\ FetchClock' /\ PassUnrefused'
  <2>1. CASE p.n = 1 /\ ~known[p.cr]
    BY <1>1, <2>1, FinishKeeps DEF ClientInv, Outcome
  <2>2. CASE ~(p.n = 1 /\ ~known[p.cr])
    <3>1. p.token \in Token /\ p.n \in Nat /\ p \in Pass
      BY DEF ClientInv, TypeOK, Pass
    <3>2. Aged(p.token, d) \in Token
      BY <3>1, <1>2, AgedToken
    <3> DEFINE t == Aged(p.token, d)
               pc == IF p.stage = "fetch" /\ p.n = 1 THEN "decrypt" ELSE "call"
    <3>3. p' = [p EXCEPT !.n = p.n + 1, !.token = t, !.pc = pc]
      BY <1>1, <2>2, <3>1 DEF Pass
    <3>4. pc \in {"call", "decrypt"} /\ p.n + 1 \in Nat
      BY <3>1
    <3>5. t \in Token
      BY <3>2
    <3>6. p' \in Pass
      <4> HIDE DEF t, pc
      <4> QED BY <3>1, <3>3, <3>4, <3>5 DEF Pass
    <3>7. p'.token = Aged(p.token, d) /\ p'.n = p.n + 1 /\ p'.stage = p.stage
          /\ p'.pc = IF p.stage = "fetch" /\ p.n = 1 THEN "decrypt" ELSE "call"
      BY <1>1, <2>2, <3>1 DEF Pass
    <3>8. p.token.real > d => Aged(p.token, d).real = p.token.real - d
      BY <3>1, <1>2, AgedToken DEF Less, Token
    <3>9. p'.version \in Version /\ p.pc = "call"
      BY <3>1, <3>3 DEF Answered, At, ClientInv, FetchClock, Pass
    <3>10. p'.pc = "call" /\ p'.stage = "fetch" => p'.n = 1 /\ p'.token.real > 0
      <4> SUFFICES ASSUME p'.pc = "call", p'.stage = "fetch" PROVE p'.n = 1 /\ p'.token.real > 0
        OBVIOUS
      <4>1. p.stage = "fetch" /\ p.n # 1
        BY <3>7
      <4>2. p.n = 0 /\ p.token.real > Timeout
        BY <4>1, <3>9 DEF ClientInv, FetchClock
      <4>3. p.token.real \in Int
        BY <3>1 DEF Token
      <4> QED BY <4>2, <4>3, <3>7, <3>8, <1>2
    <3>11. FetchClock'
      BY <3>7, <3>9, <3>10 DEF FetchClock
    <3>12. PassUnrefused'
      <4>1. Aged(p.token, d).refused = p.token.refused
        BY <3>1, <1>2, AgedToken
      <4>2. PassUnrefused
        BY DEF ClientInv
      <4> QED BY <4>1, <4>2, <3>7 DEF PassUnrefused
    <3> QED BY <3>6, <3>11, <3>12
  <2> QED BY <2>1, <2>2
<1>5. TypeOK'
  BY <1>3, <1>4 DEF ClientInv, TypeOK, Answered, world
<1> QED BY <1>3, <1>4, <1>5 DEF ClientInv

\* Unanswered keeps the invariant.
LEMMA UnansweredKeeps == ASSUME ClientInv, Unanswered PROVE ClientInv'
<1>1. p' \in Pass /\ FetchClock' /\ PassUnrefused'
  BY FinishKeeps DEF Unanswered, ClientInv, Outcome
<1>2. TypeOK' /\ CacheClock' /\ CacheUnrefused'
  BY <1>1 DEF ClientInv, TypeOK, CacheClock, CacheUnrefused, Unanswered, world
<1> QED BY <1>1, <1>2 DEF ClientInv

\* Decrypt keeps the invariant.
LEMMA DecryptKeeps == ASSUME ClientInv, Decrypt PROVE ClientInv'
<1>1. p' \in Pass /\ FetchClock' /\ PassUnrefused'
  <2>1. CASE UnwrapKey(p.version) = current
    <3>1. p' = [p EXCEPT !.pc = "token", !.stage = "dynamic", !.n = 0]
      BY <2>1 DEF Decrypt
    <3>2. p \in Pass
      BY DEF ClientInv, TypeOK
    <3>3. p' \in Pass /\ p'.pc = "token" /\ p'.n = 0 /\ p'.version = p.version
          /\ p'.stage = "dynamic"
      BY <3>1, <3>2 DEF Pass
    <3>4. p.version \in Version
      BY DEF Decrypt, At, ClientInv, FetchClock
    <3> QED BY <3>3, <3>4 DEF FetchClock, PassUnrefused
  <2>2. CASE UnwrapKey(p.version) # current
    BY <2>2, FinishKeeps DEF Decrypt, ClientInv, Outcome
  <2> QED BY <2>1, <2>2
<1>2. unwrap' \in SUBSET Version
  BY DEF Decrypt, At, UnwrapKey, ClientInv, TypeOK, FetchClock
<1>3. TypeOK' /\ CacheClock' /\ CacheUnrefused'
  BY <1>1, <1>2 DEF ClientInv, TypeOK, CacheClock, CacheUnrefused, Decrypt, world
<1> QED BY <1>1, <1>3 DEF ClientInv

\* SyncedDynamic keeps the invariant.
LEMMA SyncedDynamicKeeps == ASSUME ClientInv, SyncedDynamic PROVE ClientInv'
<1>1. p' \in Pass /\ FetchClock' /\ PassUnrefused'
  BY DEF SyncedDynamic, ClientInv, TypeOK, Pass, FetchClock, PassUnrefused, At
<1>2. TypeOK' /\ CacheClock' /\ CacheUnrefused'
  BY <1>1 DEF ClientInv, TypeOK, CacheClock, CacheUnrefused, SyncedDynamic, world
<1> QED BY <1>1, <1>2 DEF ClientInv

\* ApplySecret keeps the invariant.
LEMMA ApplySecretKeeps == ASSUME ClientInv, ApplySecret PROVE ClientInv'
<1>1. p' \in Pass /\ FetchClock' /\ PassUnrefused'
  BY FinishKeeps DEF ApplySecret, ClientInv, Outcome
<1>2. TypeOK' /\ CacheClock' /\ CacheUnrefused'
  BY <1>1 DEF ClientInv, TypeOK, CacheClock, CacheUnrefused, ApplySecret, world
<1> QED BY <1>1, <1>2 DEF ClientInv

\* Withdrawing a token changes none of its clocks.
LEMMA WithdrawKeeps ==
  ASSUME ClientInv, NEW b \in BOOLEAN,
         cache' = [cache EXCEPT !.good = b],
         p' = [p EXCEPT !.token.good = b]
  PROVE  /\ cache' \in Token /\ p' \in Pass
         /\ CacheClock' /\ CacheUnrefused' /\ FetchClock' /\ PassUnrefused'
<1>1. cache' \in Token /\ CacheClock' /\ CacheUnrefused'
  BY DEF ClientInv, TypeOK, Token, CacheClock, CacheUnrefused
<1>2. p.token \in Token /\ p \in Pass
  BY DEF ClientInv, TypeOK, Pass
<1>3. [p.token EXCEPT !.good = b] \in Token
  BY <1>2 DEF Token
<1>4. p' = [p EXCEPT !.token = [p.token EXCEPT !.good = b]]
  BY <1>2 DEF Pass, Token
<1>5. p' \in Pass
  BY <1>2, <1>3, <1>4 DEF Pass
<1>6. p'.pc = p.pc /\ p'.n = p.n /\ p'.stage = p.stage /\ p'.version = p.version
      /\ p'.token.real = p.token.real /\ p'.token.refused = p.token.refused
  BY <1>2, <1>4 DEF Pass, Token
<1>7. FetchClock' /\ PassUnrefused'
  BY <1>6 DEF FetchClock, PassUnrefused, ClientInv
<1> QED BY <1>1, <1>5, <1>7

\* World keeps the invariant.
LEMMA WorldKeeps == ASSUME ClientInv, World PROVE ClientInv'
<1>1. CASE Rotate
  <2>1. PICK b \in BOOLEAN : /\ cache' = [cache EXCEPT !.good = @ /\ b]
                             /\ p' = [p EXCEPT !.token.good = @ /\ b]
    BY <1>1 DEF Rotate
  <2>2. cache.good \in BOOLEAN /\ p.token.good \in BOOLEAN
    BY DEF ClientInv, TypeOK, Token, Pass
  <2>3. cache' \in Token /\ CacheClock' /\ CacheUnrefused'
    BY <2>1, <2>2 DEF ClientInv, TypeOK, Token, CacheClock, CacheUnrefused
  <2>4. p' \in Pass /\ FetchClock' /\ PassUnrefused'
    <3> DEFINE g == p.token.good /\ b
    <3>1. g \in BOOLEAN
      BY <2>2
    <3>2. p.token \in Token /\ p \in Pass
      BY DEF ClientInv, TypeOK, Pass
    <3>3. p' = [p EXCEPT !.token = [p.token EXCEPT !.good = g]]
      BY <2>1, <3>2 DEF Pass, Token
    <3> HIDE DEF g
    <3>4. [p.token EXCEPT !.good = g] \in Token
      BY <3>1, <3>2 DEF Token
    <3>5. p' \in Pass
      BY <3>2, <3>3, <3>4 DEF Pass
    <3>6. p'.pc = p.pc /\ p'.n = p.n /\ p'.stage = p.stage /\ p'.version = p.version
          /\ p'.token.real = p.token.real /\ p'.token.refused = p.token.refused
      BY <3>2, <3>3 DEF Pass, Token
    <3>7. FetchClock' /\ PassUnrefused'
      BY <3>6 DEF FetchClock, PassUnrefused, ClientInv
    <3> QED BY <3>5, <3>7
  <2>5. TypeOK'
    BY <1>1, <2>3, <2>4 DEF ClientInv, TypeOK, Rotate, Spend, Version
  <2> QED BY <2>3, <2>4, <2>5 DEF ClientInv
<1>2. CASE Withdraw
  <2>1. /\ cache' \in Token /\ p' \in Pass
        /\ CacheClock' /\ CacheUnrefused' /\ FetchClock' /\ PassUnrefused'
    BY <1>2, WithdrawKeeps DEF Withdraw
  <2>2. TypeOK'
    BY <1>2, <2>1 DEF ClientInv, TypeOK, Withdraw, Spend, world
  <2> QED BY <2>1, <2>2 DEF ClientInv
<1>3. CASE Outage
  BY <1>3 DEF Outage, Spend, ClientInv, TypeOK, CacheClock, FetchClock, CacheUnrefused,
              PassUnrefused
<1>4. CASE Sleep
  <2>1. PICK d \in 1 .. Life : cache' = Aged(cache, d)
    BY <1>4 DEF Sleep
  <2>2. cache' \in Token /\ CacheClock' /\ CacheUnrefused'
    BY <2>1, AgedToken, AgedClock DEF ClientInv, TypeOK, CacheClock, CacheUnrefused
  <2>3. TypeOK' /\ FetchClock' /\ PassUnrefused'
    BY <1>4, <2>2 DEF ClientInv, TypeOK, FetchClock, PassUnrefused, Sleep, world
  <2> QED BY <2>2, <2>3 DEF ClientInv
<1>5. ASSUME NEW c \in CR, EditCredentials(c) PROVE ClientInv'
  <2>1. given' \in [CR -> Auth]
    BY <1>5 DEF EditCredentials, ClientInv, TypeOK, Auth
  <2> QED BY <1>5, <2>1 DEF EditCredentials, Spend, ClientInv, TypeOK, CacheClock,
                            FetchClock, CacheUnrefused, PassUnrefused
<1>6. ASSUME NEW c \in CR, EditProject(c) PROVE ClientInv'
  BY <1>6 DEF EditProject, Spend, ClientInv, TypeOK, CacheClock, FetchClock, CacheUnrefused,
              PassUnrefused
<1>7. CASE Restart
  <2>1. NoToken \in Token /\ ~NoToken.refused /\ NoToken.left = 0 /\ NoToken.real = 0
    BY DEF NoToken, Token
  <2>2. p' \in Pass /\ p'.pc = "idle" /\ p'.token = NoToken
    BY <1>7, <2>1 DEF Restart, ClientInv, TypeOK, Pass, Outcome
  <2>3. TypeOK'
    BY <1>7, <2>1, <2>2 DEF Restart, Spend, ClientInv, TypeOK
  <2>4. CacheClock' /\ CacheUnrefused' /\ FetchClock' /\ PassUnrefused'
    BY <1>7, <2>1, <2>2 DEF Restart, CacheClock, CacheUnrefused, FetchClock, PassUnrefused
  <2> QED BY <2>3, <2>4 DEF ClientInv
<1> QED BY <1>1, <1>2, <1>3, <1>4, <1>5, <1>6, <1>7 DEF World

\* The invariant is inductive, for all constants the assumptions admit.
THEOREM ClientInductive == Spec => []ClientInv
<1>1. ASSUME ClientInv, [Next]_vars PROVE ClientInv'
  <2>1. ASSUME NEW c \in CR, Begin(c) PROVE ClientInv'
    BY <1>1, <2>1, BeginKeeps
  <2>2. CASE PassStep
    BY <1>1, <2>2, CredentialsKeeps, ReuseTokenKeeps, RequestTokenKeeps, RefusedKeeps,
       RefusedEnvelopeKeeps, AnsweredKeeps, UnansweredKeeps, DecryptKeeps,
       SyncedDynamicKeeps, ApplySecretKeeps
       DEF PassStep
  <2>3. CASE World
    BY <1>1, <2>3, WorldKeeps
  <2>4. CASE UNCHANGED vars
    BY <1>1, <2>4 DEF vars, world, ClientInv, TypeOK, CacheClock, FetchClock,
                      CacheUnrefused, PassUnrefused
  <2> QED BY <1>1, <2>1, <2>2, <2>3, <2>4 DEF Next
<1> QED BY <1>1, ClientInit, PTL DEF Spec

\* No call of a Fetch is sent with a token that has run out (client.go 268 and
\* 78-83): the margin covers the late answer and the first call.
THEOREM TokenOutlivesFetch == Spec => []FetchTokenLives
<1>1. ClientInv => FetchTokenLives
  BY DEF ClientInv, FetchClock, FetchTokenLives, At, TypeOK, Pass, Token
<1> QED BY <1>1, ClientInductive, PTL

\* No call of a Fetch is made with a token that a call was answered 401 for: the
\* 401 empties the entry that all objects with the client id share, and the only
\* pass that outlives the answer is past its Fetch (client.go 250-258).
THEOREM RefusedTokensAreDropped == Spec => []NextPassReauthenticates
<1>1. ClientInv => NextPassReauthenticates
  BY DEF ClientInv, PassUnrefused, NextPassReauthenticates
<1> QED BY <1>1, ClientInductive, PTL

\* The variables keep their types; in particular the unwrap-key cache holds
\* keys of versions of the identity only (client.go deriveUnwrapKey).
THEOREM ClientTypes == Spec => []TypeOK
<1>1. ClientInv => TypeOK
  BY DEF ClientInv
<1> QED BY <1>1, ClientInductive, PTL
=============================================================================
