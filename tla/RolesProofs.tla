---------------------------- MODULE RolesProofs ----------------------------
(* What Roles promises, proved. *)
EXTENDS Roles, TLAPS

\* A lease that is handed out has its role, and no role is left of one that has
\* not been minted or is over (apply.go): the contract is worth keeping.
THEOREM Contract == Spec => []Kept
<1> DEFINE Types == state \in [Lease -> State] /\ role \in [Lease -> BOOLEAN]
<1>1. Init => Types /\ Kept
  BY DEF Init, Kept, State
<1>2. ASSUME Types, Kept, [Next]_vars PROVE Types' /\ Kept'
  <2> USE DEF Kept, State, Move
  <2>1. ASSUME NEW l \in Lease, Request(l) \/ Adopt(l) \/ Withdraw(l) \/ End(l)
        PROVE  Types' /\ Kept'
    BY <1>2, <2>1 DEF Request, Adopt, Withdraw, End
  <2>2. ASSUME NEW l \in Lease, Drop(l) \/ Close(l) PROVE Types' /\ Kept'
    BY <1>2, <2>2 DEF Drop, Close
  <2>3. CASE UNCHANGED vars
    BY <1>2, <2>3 DEF vars
  <2> QED BY <1>2, <2>1, <2>2, <2>3 DEF Next
<1> QED BY <1>1, <1>2, PTL DEF Spec
=============================================================================
