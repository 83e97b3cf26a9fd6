-------------------------------- MODULE Chat --------------------------------
(***************************************************************************)
(* Conversations with the agent: messages pushed by WeChat and WeWork      *)
(* (api/routers/webhooks.py) and chat requests of the API                  *)
(* (api/routers/agent.py, api/routers/search.py, api/chat_sessions.py),    *)
(* all kept in the table chat_sessions.  A turn loads the stored history,  *)
(* runs the agent on it, and writes the history back with the question and *)
(* the answer added; several turns of one conversation may be under way.   *)
(***************************************************************************)
EXTENDS Naturals, Sequences, SequencesExt

CONSTANTS
  WechatUsers,  \* users of the WeChat account
  WeworkUsers,  \* users of the WeWork application
  Api,          \* the clients of the API, who name a session by its id
  Budget,       \* chat_compact_token_budget, a message being one token
  ReplayCs,     \* MAX_HISTORY_TURNS * 2 messages, webhooks
  ReplayApi,    \* MAX_HISTORY_TURNS messages, API
  MaxTurns      \* bound on the turns

\* The channel users, told apart by channel and openid.
Users == WechatUsers \union WeworkUsers

ASSUME ChatAssumption ==
  /\ WechatUsers \intersect WeworkUsers = {}
  /\ Api \notin Users
  /\ Budget \in Nat \ {0} /\ ReplayCs \in Nat \ {0} /\ ReplayApi \in Nat \ {0}
  /\ MaxTurns \in Nat

VARIABLES
  rows,    \* chat_sessions: row id -> row
  turns    \* the turns so far, in the order they came

chatVars == <<rows, turns>>

Turns == 1 .. MaxTurns
NoRow == 0

\* A message of a stored history: the question or the answer of a turn, or the
\* summary that compaction writes.
Question(t) == [role |-> "user", turn |-> t]
Reply(t)    == [role |-> "assistant", turn |-> t]
Summary     == [role |-> "system", turn |-> 0]

\* A row: whose conversation it is (an API session belongs to its own id), its
\* messages, and whether last_active_at is set: only an update sets it.
Row(user, msgs) == [user |-> user, msgs |-> msgs, touched |-> FALSE]

\* A turn.  given: the session id the client sent; own: the client sent messages
\* of its own; base: the history that will be extended; seen: what the agent is
\* given; sends: the texts sent to a channel user and whether the platform took
\* them.
NewTurn(user, given, own) ==
  [user |-> user, given |-> given, own |-> own, pc |-> "load", row |-> NoRow,
   base |-> <<>>, seen |-> <<>>, sends |-> <<>>]

Live(t) == turns[t].pc \in {"load", "run", "persist", "send", "fallback"}

\* The id under which an API turn is stored and which its response carries.
SessionId(t) ==
  CASE turns[t].row # NoRow -> turns[t].row
    [] turns[t].row = NoRow /\ turns[t].given # NoRow -> turns[t].given
    [] OTHER -> t

ChatInit == rows = <<>> /\ turns = <<>>

Goes(t, pc) == turns' = [turns EXCEPT ![t].pc = pc]

\* A turn that stores nothing any more has no use for its history.
Leaves(t, pc) == turns' = [turns EXCEPT ![t].pc = pc, ![t].base = <<>>]
Dropped(turn, pc) == [turn EXCEPT !.pc = pc, !.base = <<>>, !.row = NoRow]

-----------------------------------------------------------------------------
(* Histories. *)

LastOf(h, n) == IF Len(h) <= n THEN h ELSE SubSeq(h, Len(h) - n + 1, Len(h))

\* compact_messages: a summary and the latest messages that fit beside it.
Summarised(h) == {<<Summary>> \o LastOf(h, n) : n \in 0 .. Budget - 1}

\* Without an LLM, or when it fails: the latest messages alone.
Truncated(h) == {LastOf(h, n) : n \in 1 .. Budget}

\* compact_messages_for_chat; the tokenizer may count less than four characters
\* a token, and then nothing is done.
CompactedForChat(h) ==
  IF Len(h) <= Budget THEN {h} ELSE {h} \union Summarised(h) \union Truncated(h)

\* What is stored: _bounded_history of the extended one.
Bounded(h) == CompactedForChat(h)

\* What is replayed: the end of compact_history, which may fail and is then raw.
Replayed(h) == {LastOf(c, ReplayApi) : c \in CompactedForChat(h)}

\* _session_messages: what of a session the loop puts before the question, the
\* messages but those of the system.
Talk(h) ==
  LET talk[n \in 0 .. Len(h)] ==
        CASE n = 0 -> <<>>
          [] n # 0 /\ h[n].role = "system" -> talk[n - 1]
          [] OTHER -> Append(talk[n - 1], h[n])
  IN  talk[Len(h)]

\* Mutant of RowsOf: whoever the user.
RowsOfAll(user) == DOMAIN rows

\* find_by_channel_user finds the rows of a channel user.
RowsOf(user) == {i \in DOMAIN rows : rows[i].user = user}

-----------------------------------------------------------------------------
(* A message of a channel user.  The webhook acknowledges it and leaves the *)
(* rest, _dispatch_chat_reply, to a background task.                        *)

Receive(user) ==
  /\ Len(turns) < MaxTurns
  /\ turns' = Append(turns, NewTurn(user, NoRow, FALSE))
  /\ UNCHANGED rows

\* The two endpoints, once signature or encryption are checked and the message
\* is a text; any other message is acknowledged or refused and leaves no trace.
ReceiveWechat == \E user \in WechatUsers : Receive(user)
ReceiveWework == \E user \in WeworkUsers : Receive(user)

\* _load_cs_session: a failed query, and a user with several rows, count as a
\* user without history.
LoadUser(t) ==
  /\ turns[t].pc = "load" /\ turns[t].user \in Users
  /\ \/ \E i \in RowsOf(turns[t].user) :
          /\ RowsOf(turns[t].user) = {i}
          /\ LET prior == LastOf(rows[i].msgs, ReplayCs)
             IN  turns' = [turns EXCEPT ![t] = [@ EXCEPT
                              !.pc = "run", !.row = i, !.base = prior,
                              !.seen = Talk(prior)]]
     \/ Goes(t, "run")
  /\ UNCHANGED rows

\* Mutant of RunRaises: the exception ends the task.
RunRaisesSilently(t) ==
  /\ turns[t].pc = "run" /\ turns[t].user \in Users
  /\ Leaves(t, "over")
  /\ UNCHANGED rows

\* The pipeline cannot be read or the run raises: no turn is stored, and the
\* user gets the fallback text.
RunRaises(t) ==
  /\ turns[t].pc = "run" /\ turns[t].user \in Users
  /\ Leaves(t, "fallback")
  /\ UNCHANGED rows

\* The run ends, with an answer or with none, which the fallback text replaces.
RunUser(t) ==
  /\ turns[t].pc = "run" /\ turns[t].user \in Users
  /\ Goes(t, "persist")
  /\ UNCHANGED rows

\* What a turn of a channel user leaves in chat_sessions: the history it
\* loaded with the turn added, over whatever the row holds by now.  Nothing, if
\* the row has been removed.
StoredUser(t, msgs) ==
  LET i == turns[t].row
  IN  CASE i = NoRow -> [k \in DOMAIN rows \union {t} |->
                           IF k = t THEN Row(turns[t].user, msgs)
                           ELSE rows[k]]
        [] i \in DOMAIN rows -> [rows EXCEPT ![i].msgs = msgs, ![i].touched = TRUE]
        [] OTHER -> rows

Extended(t) == turns[t].base \o <<Question(t), Reply(t)>>

\* _persist_cs_turn; what the database refuses is logged and forgotten.
PersistUser(t) ==
  /\ turns[t].pc = "persist" /\ turns[t].user \in Users
  /\ \E msgs \in Bounded(Extended(t)) : rows' = StoredUser(t, msgs)
  /\ Leaves(t, "send")

PersistUserFails(t) ==
  /\ turns[t].pc = "persist" /\ turns[t].user \in Users
  /\ \/ Leaves(t, "send")
     \* The prompt of the summary is missing: this one is not caught.
     \/ Len(Extended(t)) > Budget /\ Leaves(t, "fallback")
  /\ UNCHANGED rows

\* send_text succeeds, or is reported as failed (the text may have arrived all the
\* same).  A failure of the answer is followed by the fallback text, one of the
\* fallback text by nothing.
AfterSend(step, sent) == IF sent = "ok" \/ step = "fallback" THEN "over" ELSE "fallback"

Send(t) ==
  /\ turns[t].pc \in {"send", "fallback"}
  /\ \E sent \in {"ok", "failed"} :
       turns' = [turns EXCEPT
         ![t].pc = AfterSend(@, sent),
         ![t].sends = Append(@, [fallback |-> turns[t].pc = "fallback", sent |-> sent])]
  /\ UNCHANGED rows

-----------------------------------------------------------------------------
(* A chat request of the API, streamed or not. *)

\* The session ids that responses have carried.
Known == {SessionId(t) : t \in {u \in DOMAIN turns : turns[u].user = Api /\ turns[u].pc = "over"}}

Ask ==
  \E given \in Known \union {NoRow}, own \in BOOLEAN :
    /\ Len(turns) < MaxTurns
    /\ turns' = Append(turns, NewTurn(Api, given, own))
    /\ UNCHANGED rows

\* prepare_session: the last messages of the compacted history, unless the
\* client brings its own.  A failed query counts as no row.
LoadApi(t) ==
  /\ turns[t].pc = "load" /\ turns[t].user = Api
  /\ \/ /\ turns[t].given \in DOMAIN rows
        /\ LET msgs == rows[turns[t].given].msgs
           IN  \E replay \in Replayed(msgs) :
                 turns' = [turns EXCEPT ![t] = [@ EXCEPT
                   !.pc = "run", !.row = turns[t].given, !.base = msgs,
                   !.seen = IF turns[t].own THEN <<>> ELSE Talk(replay)]]
     \/ Goes(t, "run")
  /\ UNCHANGED rows

\* The run ends with its answer.
AnswerApi(t) ==
  /\ turns[t].pc = "run" /\ turns[t].user = Api
  /\ Goes(t, "persist")
  /\ UNCHANGED rows

\* The run raises, or the client of a stream has left when the next event comes:
\* nothing is stored.
AbandonApi(t) ==
  /\ turns[t].pc = "run" /\ turns[t].user = Api
  /\ turns' = [turns EXCEPT ![t] = Dropped(@, "gone")]
  /\ UNCHANGED rows

\* What a turn of the API leaves: a row is created under the session id, which
\* fails when there is one by now, or the loaded row is overwritten.
StoredApi(t, msgs) ==
  LET i == SessionId(t)
  IN  CASE turns[t].row = NoRow /\ i \notin DOMAIN rows ->
             [k \in DOMAIN rows \union {i} |->
                IF k = i THEN Row(Api, <<Question(t), Reply(t)>>) ELSE rows[k]]
        [] turns[t].row # NoRow /\ i \in DOMAIN rows ->
             [rows EXCEPT ![i].msgs = msgs, ![i].touched = TRUE]
        [] OTHER -> rows

\* persist_turn; whatever fails is logged, and the response carries the id.
PersistApi(t) ==
  /\ turns[t].pc = "persist" /\ turns[t].user = Api
  /\ \/ \E msgs \in Bounded(Extended(t)) : rows' = StoredApi(t, msgs)
     \/ UNCHANGED rows
  /\ Leaves(t, "over")

-----------------------------------------------------------------------------
(* The environment. *)

\* The periodic task cleanup_chat_sessions: any row may have been left alone for
\* longer than the TTL, but one that was never updated has no last_active_at to
\* compare, and stays.
Cleanup ==
  \E old \in SUBSET {i \in DOMAIN rows : rows[i].touched} \ {{}} :
    /\ rows' = [i \in DOMAIN rows \ old |-> rows[i]]
    /\ UNCHANGED turns

\* The API process dies, and the turns under way with it.
Crash ==
  /\ \E t \in DOMAIN turns : Live(t)
  /\ turns' = [t \in DOMAIN turns |->
                 IF Live(t) THEN Dropped(turns[t], "lost") ELSE turns[t]]
  /\ UNCHANGED rows

Dispatch(t) ==
  \/ LoadUser(t) \/ RunRaises(t) \/ RunUser(t)
  \/ PersistUser(t) \/ PersistUserFails(t) \/ Send(t)

Serve(t) == LoadApi(t) \/ AnswerApi(t) \/ AbandonApi(t) \/ PersistApi(t)

ChatNext ==
  \/ ReceiveWechat \/ ReceiveWework \/ Ask \/ Cleanup \/ Crash
  \/ \E t \in DOMAIN turns : Dispatch(t) \/ Serve(t)

\* A background task and a request handler are run by the event loop of the API.
ChatSpec ==
  /\ ChatInit /\ [][ChatNext]_chatVars
  /\ \A t \in Turns : WF_chatVars(t \in DOMAIN turns /\ Dispatch(t))

-----------------------------------------------------------------------------
(* What the stored conversations and the replies are worth. *)

\* A stored history is a conversation that took place: each question is stored
\* once, under its own user, with its own answer next to it, and what stands
\* before it is what the agent was given when it answered, as far back as both
\* reach.  Concurrent turns overwrite each other (a turn may be lost) but are
\* never spliced, whatever is compacted, cleaned up or refused in between.
HistoriesAreReal ==
  \A i \in DOMAIN rows :
    LET msgs == rows[i].msgs
    IN  \A n \in DOMAIN msgs : msgs[n].role = "user" =>
          LET t      == msgs[n].turn
              before == Talk(SubSeq(msgs, 1, n - 1))
          IN  /\ turns[t].user = rows[i].user
              /\ n < Len(msgs) /\ msgs[n + 1] = Reply(t)
              /\ \A k \in DOMAIN msgs \ {n} : msgs[k] # Question(t)
              /\ \/ turns[t].own
                 \/ IsSuffix(before, turns[t].seen) \/ IsSuffix(turns[t].seen, before)

\* A channel user whose message was acknowledged is sent one text that the
\* platform takes, the answer or the fallback text, unless the process dies or the
\* platform refuses the fallback text as well (a dead token, an outage): then the
\* message stays without a reply.  Nothing is sent after a text that was taken.
Received(t) == t \in DOMAIN turns /\ turns[t].user \in Users

Replied(t) ==
  /\ Received(t) /\ turns[t].pc = "over" /\ turns[t].sends # <<>>
  /\ LET end == Last(turns[t].sends)
     IN  end.sent = "ok" \/ end.fallback
  /\ \A n \in DOMAIN Front(turns[t].sends) : turns[t].sends[n].sent = "failed"

RepliedOrRefused ==
  \A t \in Turns :
    Received(t) ~> (Replied(t) \/ (Received(t) /\ turns[t].pc = "lost"))

-----------------------------------------------------------------------------
(* What documents say of it, and the code does not do. *)

\* The periodic task is run again and again, and a conversation that nobody
\* continues is old one day.
Cleans(i) == i \in DOMAIN rows /\ Cleanup /\ i \notin DOMAIN rows'
BeatSpec  == ChatSpec /\ \A i \in Turns : WF_chatVars(Cleans(i))

\* E-011 of the data model: sessions that have been inactive for longer than the
\* TTL are cleaned up.
InactiveSessionsGo ==
  \A i \in Turns : i \in DOMAIN rows ~> i \notin DOMAIN rows
=============================================================================
