------------------------------- MODULE Roles -------------------------------
(***************************************************************************)
(* What a lease of a dynamic secret promises, whoever keeps it: a role at  *)
(* the provider lives from the moment the platform hands the lease out     *)
(* until its revocation, and is gone before the platform is told that the  *)
(* lease is over.  Leases keeps it with one step for every run of Apply;   *)
(* Providers keeps it with the calls and statements Apply is made of.      *)
(***************************************************************************)
CONSTANT Lease

VARIABLES state,  \* the platform: the state of each lease
          role    \* the provider: the role on record lives

vars == <<state, role>>

State == {"free", "wanted", "active", "ending", "over"}

Init ==
  /\ state = [l \in Lease |-> "free"]
  /\ role = [l \in Lease |-> FALSE]

Move(l, from, to) == state[l] \in from /\ state' = [state EXCEPT ![l] = to]

Request(l) == Move(l, {"free"}, "wanted") /\ UNCHANGED role

\* The platform takes the name of a role that lives.
Adopt(l) == Move(l, {"wanted"}, "active") /\ role' = [role EXCEPT ![l] = TRUE]

\* A request is withdrawn; a lease runs out or is revoked.
Withdraw(l) == Move(l, {"wanted"}, "over") /\ UNCHANGED role
End(l) == Move(l, {"wanted", "active"}, "ending") /\ UNCHANGED role

Drop(l) ==
  /\ state[l] \in {"ending", "over"}
  /\ role' = [role EXCEPT ![l] = FALSE]
  /\ UNCHANGED state

Close(l) == ~role[l] /\ Move(l, {"ending"}, "over") /\ UNCHANGED role

Next ==
  \E l \in Lease :
    Request(l) \/ Adopt(l) \/ Withdraw(l) \/ End(l) \/ Drop(l) \/ Close(l)

Spec == Init /\ [][Next]_vars

\* A lease that is handed out has its role, and none is left of a lease that
\* has not been minted or is over (apply.go: complete only after the provider).
Kept ==
  \A l \in Lease :
    /\ state[l] \in State /\ role[l] \in BOOLEAN
    /\ state[l] = "active" => role[l]
    /\ state[l] \in {"free", "wanted", "over"} => ~role[l]
=============================================================================
