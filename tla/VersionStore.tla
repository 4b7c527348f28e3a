---------------------------- MODULE VersionStore ----------------------------
(***************************************************************************)
(* What the dataset registry promises to the stages that mount from it: a  *)
(* version is not there, then all of it is there at once, and from then on *)
(* it is the same for ever.  A version of which two ingests were under way *)
(* at once is disputed, and nothing is promised of it.                     *)
(***************************************************************************)
CONSTANTS Versions, Digests

VARIABLE store      \* what each version resolves to

Init == store = [v \in Versions |-> "not installed"]

Install(v) ==
  /\ store[v] = "not installed"
  /\ \E d \in Digests : store' = [store EXCEPT ![v] = d]

Dispute(v) == store' = [store EXCEPT ![v] = "disputed"]

Next == \E v \in Versions : Install(v) \/ Dispute(v)

Spec == Init /\ [][Next]_store
=============================================================================
