----------------------------- MODULE ToolCalls -----------------------------
(***************************************************************************)
(* What a chat turn promises of its tool calls to the LLM, to the client   *)
(* and to the person who confirms them: each call has an id of its own and *)
(* comes to one thing, which is never taken back or changed, and the LLM   *)
(* asks for more only when all it asked for have come to something.        *)
(***************************************************************************)

VARIABLES
  open,     \* the calls whose tools run: [id, tool]
  settled   \* what the others came to: [id, tool, status]

vars == <<open, settled>>

Gates    == {"denied", "preview", "pending", "unknown"}
Outcomes == {"ok", "error"}

Ids(some) == {c.id : c \in some}

Init == open = {} /\ settled = {}

\* A call that a person confirmed is settled before the LLM is asked anything:
\* it runs alone, or its tool is gone, or forbidden by now.
Confirmed ==
  /\ open = {} /\ UNCHANGED open
  /\ \E c \in settled' :
       /\ c.id \notin Ids(settled)
       /\ c.status \in Outcomes \union {"unknown", "refused"}
       /\ settled' = settled \union {c}

\* The LLM asks for tools: a call is settled by its gate at once, or runs.
Ask ==
  /\ open = {}
  /\ settled \subseteq settled'
  /\ LET gated == settled' \ settled
         asked == open' \union gated
     IN  /\ \A c \in gated : c.status \in Gates
         /\ \A c \in asked : /\ c.id \notin Ids(settled)
                             /\ \A d \in asked : c.id = d.id => c = d

\* A tool returns, fails or times out, whatever the others do.
Settle ==
  \E c \in open, status \in Outcomes :
    /\ open' = open \ {c}
    /\ settled' = settled \union {[id |-> c.id, tool |-> c.tool, status |-> status]}

Next == Confirmed \/ Ask \/ Settle

Spec == Init /\ [][Next]_vars
=============================================================================
