---------------------------- MODULE MCAgentLoop ----------------------------
(* AgentLoop as the .cfg file of its run instantiates it. *)
EXTENDS AgentLoop

CONSTANTS search, distribute, danger, ghost

Levels == [t \in Tools |-> CASE t = distribute -> "confirm"
                             [] t = danger     -> "deny"
                             [] OTHER          -> "auto"]

\* What a confirm token carries; danger was confirmed before it was forbidden.
Confirmed  == {<<>>, <<distribute, ghost>>, <<danger>>}

StoredPast == {<<>>, <<"summary", "user", "text">>,
               <<"user", "calls", "tool", "text">>}
=============================================================================
