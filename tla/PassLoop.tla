------------------------------ MODULE PassLoop ------------------------------
(***************************************************************************)
(* What one worker promises the KrypticSecrets, whatever the queue, the    *)
(* watch and the API server do to it: one pass at a time; an object is     *)
(* synced while it holds the operator's finalizer; the finalizer goes in a *)
(* pass that has revoked the leases of the deleted object.  Manager keeps  *)
(* it with the calls of reconcileOne; Leases starts from it.               *)
(***************************************************************************)
CONSTANTS CR,     \* the KrypticSecrets
          NoItem  \* what is being passed over while nothing is

VARIABLES state,  \* "none", "live" or "deleting"
          fin,    \* the operator's finalizer
          item,   \* the object of the pass
          doing   \* how far the pass is

vars == <<state, fin, item, doing>>

State == {"none", "live", "deleting"}

Init ==
  /\ state \in [CR -> {"none", "live"}]
  /\ fin = [c \in CR |-> FALSE]
  /\ item = NoItem
  /\ doing = "nothing"

-----------------------------------------------------------------------------
(* The pass.                                                               *)

Pass(c, d) == item' = c /\ doing' = d
NoPass == Pass(NoItem, "nothing")

\* The finalizer is stored, or is there already.
Hold(c) ==
  /\ doing = "nothing"
  /\ state[c] = "live"
  /\ fin' = [fin EXCEPT ![c] = TRUE]
  /\ UNCHANGED state

Sync(c) == Hold(c) /\ Pass(c, "syncing")

\* The answer to the update that stored it is lost.
HoldOnly(c) == Hold(c) /\ NoPass

Revoke(c) ==
  /\ doing = "nothing"
  /\ state[c] = "deleting"
  /\ Pass(c, "revoking")
  /\ UNCHANGED <<state, fin>>

Revoked ==
  /\ doing = "revoking"
  /\ Pass(item, "revoked")
  /\ UNCHANGED <<state, fin>>

\* Somebody else's finalizer may keep the object.
LetGo(c) ==
  /\ doing = "revoked" /\ item = c
  /\ state[c] = "deleting" /\ fin[c]
  /\ fin' = [fin EXCEPT ![c] = FALSE]
  /\ \E s \in {"none", "deleting"} : state' = [state EXCEPT ![c] = s]
  /\ NoPass

\* A pass ends: its work is done, a call failed, or the process died.
End == NoPass /\ UNCHANGED <<state, fin>>

-----------------------------------------------------------------------------
(* The clients of the API server.                                          *)

Client(c) ==
  /\ \/ /\ state[c] = "none"
        /\ state' = [state EXCEPT ![c] = "live"]
     \/ /\ state[c] = "live"
        /\ state' = [state EXCEPT ![c] = "deleting"]
     \/ /\ state[c] \in {"live", "deleting"} /\ ~fin[c]
        /\ state' = [state EXCEPT ![c] = "none"]
  /\ UNCHANGED <<fin, item, doing>>

Next ==
  \/ Revoked \/ End
  \/ \E c \in CR : Sync(c) \/ HoldOnly(c) \/ Revoke(c) \/ LetGo(c) \/ Client(c)

Spec == Init /\ [][Next]_vars

-----------------------------------------------------------------------------
(* What follows from it.                                                   *)

\* An object that is being synced exists and holds the finalizer (reconcileOne).
SyncIsGuarded ==
  /\ state \in [CR -> State] /\ fin \in [CR -> BOOLEAN]
  /\ \A c \in CR : fin[c] => state[c] # "none"
  /\ doing = "syncing" => item \in CR /\ fin[item]
=============================================================================
