----------------------------- MODULE TaskStates -----------------------------
(***************************************************************************)
(* The life cycle of a CollectTask row: the transition table of            *)
(* scheduler/state_machine.py, which the PATCH /tasks/{id} handler         *)
(* consults before it acts.                                                *)
(***************************************************************************)

Status == {"pending", "running", "paused", "success", "failed", "cancelled"}

Actions == {"start", "complete", "fail", "pause", "resume", "cancel",
            "timeout", "retry"}

\* One record per entry of _TRANSITIONS.
Transitions ==
  { [from |-> "pending", action |-> "start",    to |-> "running"],
    [from |-> "running", action |-> "complete", to |-> "success"],
    [from |-> "running", action |-> "fail",     to |-> "failed"],
    [from |-> "running", action |-> "pause",    to |-> "paused"],
    [from |-> "running", action |-> "timeout",  to |-> "failed"],
    [from |-> "paused",  action |-> "resume",   to |-> "running"],
    [from |-> "pending", action |-> "cancel",   to |-> "cancelled"],
    [from |-> "running", action |-> "cancel",   to |-> "cancelled"],
    [from |-> "paused",  action |-> "cancel",   to |-> "cancelled"],
    [from |-> "failed",  action |-> "retry",    to |-> "pending"] }

\* resolve_transition(s, a) returns t; when no t qualifies it raises.
Resolves(s, a, t) == [from |-> s, action |-> a, to |-> t] \in Transitions
=============================================================================
