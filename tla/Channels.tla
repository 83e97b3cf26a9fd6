------------------------------ MODULE Channels ------------------------------
(***************************************************************************)
(* The access token of the WeChat channel (distributor/token_cache.py,     *)
(* channels/wechat.py).  Every worker, and the API for its replies, keeps  *)
(* it under one key of Redis, and fetches a new one when the key is gone;  *)
(* the platform then refuses the token it issued before.  GET, the fetch   *)
(* and SET are separate calls.  No channel drops a token that is refused.  *)
(***************************************************************************)
EXTENDS Naturals, FiniteSets

CONSTANT Runs        \* processes that send to the channel

VARIABLES
  token,        \* the value of wechat:access_token: "none", "live" or "dead"
  held,         \* held[r]: the token r has fetched and not stored, or "none"
  fetching,     \* the processes between a miss and the end of the store
  raced         \* history: two processes have been there at once

tokenVars == <<token, held, fetching, raced>>

Tokens == {"none", "live", "dead"}

InitTokens ==
  /\ token = "none"
  /\ held = [r \in Runs |-> "none"]
  /\ fetching = {}
  /\ raced = FALSE

Killed(t) == IF t = "live" THEN "dead" ELSE t

\* Mutant of Miss: a cached token is not looked at.
MissAlways(r) ==
  /\ fetching' = fetching \union {r}
  /\ raced' = (raced \/ fetching \ {r} # {})
  /\ UNCHANGED <<token, held>>

\* TokenCache.get: the key is not there.
Miss(r) ==
  /\ token = "none"
  /\ fetching' = fetching \union {r}
  /\ raced' = (raced \/ fetching \ {r} # {})
  /\ UNCHANGED <<token, held>>

\* The token endpoint answers: what it issued before is dead.
Issue(r) ==
  /\ held' = [q \in Runs |-> IF q = r THEN "live" ELSE Killed(held[q])]
  /\ token' = Killed(token)
  /\ UNCHANGED <<fetching, raced>>

\* SET with an expiry, in one call.
Store(r) ==
  /\ token' = held[r]
  /\ held' = [held EXCEPT ![r] = "none"]
  /\ fetching' = fetching \ {r}
  /\ UNCHANGED raced

\* The fetch fails, or the process dies before the store.
Forget(r) ==
  /\ held' = [held EXCEPT ![r] = "none"]
  /\ fetching' = fetching \ {r}
  /\ UNCHANGED <<token, raced>>

\* The key expires before the platform would expire the token.
ExpireToken ==
  /\ token # "none"
  /\ token' = "none"
  /\ UNCHANGED <<held, fetching, raced>>

TokensOK ==
  /\ token \in Tokens
  /\ held \in [Runs -> Tokens]
  /\ fetching \subseteq Runs
  /\ raced \in BOOLEAN
=============================================================================
