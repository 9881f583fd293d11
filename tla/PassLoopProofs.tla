--------------------------- MODULE PassLoopProofs ---------------------------
(* What PassLoop promises, proved. *)
EXTENDS PassLoop, TLAPS

\* An object that is being synced holds the finalizer, and one that holds it
\* exists (reconcileOne): the contract is worth keeping.
THEOREM LoopGuards == Spec => []SyncIsGuarded
<1>1. Init => SyncIsGuarded
  BY DEF Init, SyncIsGuarded, State
<1>2. ASSUME SyncIsGuarded, [Next]_vars PROVE SyncIsGuarded'
  <2> USE DEF SyncIsGuarded, State, Pass, NoPass
  <2>1. CASE Revoked \/ End
    BY <1>2, <2>1 DEF Revoked, End
  <2>2. ASSUME NEW c \in CR, Sync(c) \/ HoldOnly(c) PROVE SyncIsGuarded'
    BY <1>2, <2>2 DEF Sync, HoldOnly, Hold
  <2>3. ASSUME NEW c \in CR, Revoke(c) PROVE SyncIsGuarded'
    BY <1>2, <2>3 DEF Revoke
  <2>4. ASSUME NEW c \in CR, LetGo(c) PROVE SyncIsGuarded'
    BY <1>2, <2>4 DEF LetGo
  <2>5. ASSUME NEW c \in CR, Client(c) PROVE SyncIsGuarded'
    BY <1>2, <2>5 DEF Client
  <2>6. CASE UNCHANGED vars
    BY <1>2, <2>6 DEF vars
  <2> QED BY <1>2, <2>1, <2>2, <2>3, <2>4, <2>5, <2>6 DEF Next
<1> QED BY <1>1, <1>2, PTL DEF Spec
=============================================================================
