--------------------------- MODULE TaskLifecycle ---------------------------
(***************************************************************************)
(* What the CollectTask rows promise whoever reads them: a batch of rows   *)
(* appears as a whole, all of it pending, and from then on every row moves *)
(* along the transition table and no other way.                            *)
(***************************************************************************)
EXTENDS TaskStates

CONSTANT Tasks
VARIABLE status

Init == status = [t \in Tasks |-> "absent"]

Create ==
  /\ status = [t \in Tasks |-> "absent"]
  /\ status' = [t \in Tasks |-> "pending"]

Move(t) ==
  \E a \in Actions, to \in Status :
    /\ Resolves(status[t], a, to)
    /\ status' = [status EXCEPT ![t] = to]

Next == Create \/ \E t \in Tasks : Move(t)

Spec == Init /\ [][Next]_status
=============================================================================
