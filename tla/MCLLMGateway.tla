---------------------------- MODULE MCLLMGateway ----------------------------
(* LLMGateway as the .cfg file of its run instantiates it. *)
EXTENDS LLMGateway

CONSTANTS api, worker

\* The API answers chats, the worker processes and embeds content.
Uses   == [c \in Callers |-> IF c = api THEN {"chat", "stream"}
                                        ELSE {"complete", "embed"}]
Models == [k \in Kinds |-> IF k \in {"complete", "chat"} THEN 2 ELSE 1]
=============================================================================
