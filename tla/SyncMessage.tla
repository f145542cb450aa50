----------------------------- MODULE SyncMessage -----------------------------
(***************************************************************************)
(* A /v1/messages request (src/src/handlers/messages.rs): one that asks for *)
(* a stream is StreamMessage; any other one is answered as a whole, by the *)
(* same turns over an upstream that is read to its end                     *)
(* (src/src/opencode/forward/sync.rs).  The counters are the stream's; the *)
(* client sees nothing before the answer.                                  *)
(***************************************************************************)
EXTENDS StreamMessage

MaxSyncRetries == 2

SyncTurnLimit == MaxSearch + 3

SyncKeeps == UNCHANGED <<reads, started, base, ctx, ending, dead, message>>

\* forward_to_llm_sync returns a response or an error.
Returns(result) == stage' = "done" /\ verdict' = result

SyncBegin ==
  /\ stage = "sync"
  /\ turns' = turns + 1
  /\ IF turns + 1 > SyncTurnLimit
     THEN Returns("success") /\ notice' = "turn_limit"
     ELSE stage' = "upstream_sync" /\ UNCHANGED <<notice, verdict>>
  /\ SyncKeeps /\ UNCHANGED <<searches, synthesis, compat>>

Answered == stage = "upstream_sync" /\ SyncKeeps /\ UNCHANGED turns

\* The retry loop gave up, the body could not be read, or it is not a
\* successful completion with a choice.
SyncFails ==
  /\ Answered /\ Returns("failed")
  /\ UNCHANGED <<searches, synthesis, compat, notice>>

\* The handler's future is dropped with the connection.
SyncCancelled ==
  /\ Answered /\ Returns("cancelled")
  /\ UNCHANGED <<searches, synthesis, compat, notice>>

\* Without native calls, an encoded one that names a tool the request does not
\* offer is answered by a remark.
SyncRejected ==
  /\ Answered /\ Returns("success") /\ notice' = "rejected"
  /\ UNCHANGED <<searches, synthesis, compat>>

\* A marker that cannot be parsed, or a batch that classify_sync_tool_batch
\* refuses.
SyncMalformed ==
  /\ Answered
  /\ \/ /\ compat < MaxSyncRetries
        /\ compat' = compat + 1 /\ stage' = "sync" /\ UNCHANGED verdict
     \/ /\ compat >= MaxSyncRetries
        /\ Returns("failed") /\ UNCHANGED compat
  /\ UNCHANGED <<searches, synthesis, notice>>

SyncSearch ==
  /\ Answered /\ ~synthesis
  /\ SearchWeb
  /\ stage' = "sync"
  /\ UNCHANGED <<compat, notice, verdict>>

SyncCompletes ==
  /\ Answered /\ Returns("success")
  /\ UNCHANGED <<searches, synthesis, compat, notice>>

MessagesInit == InitAt("turn") \/ InitAt("sync")

SyncNext ==
  \/ SyncBegin \/ SyncFails \/ SyncCancelled \/ SyncRejected \/ SyncMalformed
  \/ SyncSearch \/ SyncCompletes

MessagesNext == StreamNext \/ SyncNext

Messages == MessagesInit /\ [][MessagesNext]_streamVars

\* The tasks are scheduled, a send is taken or times out, and an upstream
\* stream ends: the HTTP client gives it 600 s in all (state.rs:125).
MessagesSpec ==
  Messages /\ WF_streamVars(MessagesNext) /\ []<>(stage # "read")

\* Every request comes to an end that is recorded, with everything it had to
\* say sent or given up.
EveryMessageEnds == <>(verdict # "none" /\ Idle)

=============================================================================
