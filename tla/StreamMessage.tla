---------------------------- MODULE StreamMessage ----------------------------
(***************************************************************************)
(* One streamed answer (src/src/opencode/forward/stream/execute.rs and     *)
(* context.rs, src/src/stream_tracker.rs): the task reads one upstream     *)
(* stream per turn, translates its lines into content blocks of a single   *)
(* message, and at the end of each decides whether to finish, to search    *)
(* the web and go on, to replay the request, or to give up.                *)
(*                                                                         *)
(* A handler appends the events it emits to ctx.out, and Deliver hands     *)
(* them to the channel one at a time: the task suspends at each of them.   *)
(* An upstream line that carries several parts is several lines with one   *)
(* part each, in the order in which process_openai_sse_line takes them.    *)
(* Text is kept only as what the parsers make of it: shown at once, or     *)
(* held back because it may be a tool call.  end_turn stands for every     *)
(* stop reason but tool_use.  A request offers one tool of the client      *)
(* besides the web search, which the last search takes from it             *)
(* (prepare_final_search_synthesis): no call can ask for one after that.   *)
(***************************************************************************)
EXTENDS Integers, Sequences

CONSTANTS
  MaxSearch, \* max_search_loops, at least 1 (management/dto.rs)
  PerAttempt \* bound: blocks one upstream stream may open while it is read

ASSUME StreamAssumption == MaxSearch \in Nat \ {0}

MaxCompatRetries == 2
MaxNativeRetries == 1
MaxReadRetries == 2
TurnLimit == MaxSearch + MaxCompatRetries + MaxNativeRetries + MaxReadRetries + 3

VARIABLES
  stage,     \* where the task is
  turns,     \* upstream_turns
  searches,  \* completed_searches
  synthesis, \* synthesis_only
  compat,    \* compat_tool_retries
  reads,     \* stream_read_retries
  started,   \* message_emitted
  base,      \* attempt_start_allocated
  ctx,       \* the StreamContext of the attempt and the block tracker
  dead,      \* send_failed
  notice,    \* the text the bridge ended the message with, or "none"
  ending,    \* what the capture will record once the end was delivered
  verdict,   \* what it recorded
  phase, at, open, tools, reason \* the message as the client has it

task == <<stage, turns, searches, synthesis, compat, reads, started, base, ctx,
          notice, ending, verdict>>
message == <<phase, at, open, tools, reason>>
streamVars == <<task, dead, message>>

Message == INSTANCE AssistantMessage

\* An event names the block it is about, and its kind; a block opens with the
\* first piece of its content.
Event == [type : {"start", "open", "delta", "close", "reason", "stop", "error"},
          kind : {"thinking", "text", "tool_use", "end_turn", "none"},
          index : Int]

Ev(type, kind, index) == [type |-> type, kind |-> kind, index |-> index]
MessageStart == Ev("start", "none", -1)
ApiError == Ev("error", "none", -1)

Retained == {"none", "tail", "marker", "dsml"}

\* What an attempt starts with; the tracker outlives it.
Fresh(next, active) ==
  [out |-> <<>>, next |-> next, active |-> active,
   pending |-> FALSE, reasoning |-> "none", text |-> "none",
   visible |-> FALSE, intercepting |-> FALSE, retry |-> FALSE,
   rejected |-> FALSE, toolUse |-> FALSE, stop |-> "end_turn"]

InitAt(where) ==
  /\ stage = where /\ turns = 0 /\ searches = 0 /\ synthesis = FALSE
  /\ compat = 0 /\ reads = 0 /\ started = FALSE /\ base = 0
  /\ ctx = Fresh(0, "none")
  /\ dead = FALSE
  /\ notice = "none" /\ ending = "none" /\ verdict = "none"
  /\ Message!Init

StreamInit == InitAt("turn")

-----------------------------------------------------------------------------
(* Emitting blocks.                                                        *)

Emit(c, events) == [c EXCEPT !.out = @ \o events]

\* The block that is open is the latest one: tool_use blocks close at once.
CloseActive(c) ==
  IF c.active = "none" THEN c
  ELSE [Emit(c, <<Ev("close", c.active, c.next - 1)>>) EXCEPT !.active = "none"]

OpenBlock(c, kind) ==
  [Emit(CloseActive(c), <<Ev("open", kind, c.next)>>)
     EXCEPT !.next = @ + 1, !.active = kind]

\* emit_thinking_fragment and emit_text_fragment: the pieces of a fragment go
\* into the open block of its kind, or into a new one.
Fragment(c, kind) ==
  LET b == IF c.intercepting THEN c
           ELSE IF c.active = kind THEN Emit(c, <<Ev("delta", kind, c.next - 1)>>)
           ELSE OpenBlock(c, kind)
  IN  [b EXCEPT !.visible = TRUE]

\* A block that is sent whole.
Block(c, kind) == CloseActive(OpenBlock(c, kind))

ToolUse(c) == [Block(c, "tool_use") EXCEPT !.toolUse = TRUE, !.stop = "tool_use"]

\* A call that must not run asks for a replay, unless a tool already runs.
Malformed(c) == IF c.toolUse THEN c ELSE [c EXCEPT !.retry = TRUE]

-----------------------------------------------------------------------------
(* Tool calls.                                                             *)

\* emit_compat_tool_calls: the calls of an encoded marker or DSML block.
EncodedCalls(c, calls) ==
  CASE calls = "malformed" -> Malformed(c)
    [] calls = "search" -> [c EXCEPT !.intercepting = TRUE]
    [] calls = "tools" -> ToolUse(c)
    [] calls = "duplicate" -> c

\* finalize_pending_native_tool_calls: a batch with tools drops its searches.
Finalize(c, calls) ==
  LET d == [c EXCEPT !.pending = FALSE]
  IN  IF ~c.pending \/ c.retry THEN c
      ELSE CASE calls = "malformed" ->
                  IF c.toolUse THEN d
                  ELSE [d EXCEPT !.retry = TRUE, !.stop = "end_turn"]
             [] calls = "search" ->
                  [d EXCEPT !.intercepting = TRUE, !.rejected = FALSE,
                            !.stop = "tool_use"]
             [] calls = "tools" -> ToolUse([d EXCEPT !.rejected = FALSE])
             [] calls = "duplicate" -> d

\* A request that offers no tools makes every call malformed; calls repeat only
\* what this attempt has already emitted.
Calls(c, offers) ==
  {"malformed"} \cup (IF offers THEN {"tools"} ELSE {})
    \cup (IF offers /\ ~synthesis THEN {"search"} ELSE {})
    \cup (IF offers /\ (c.toolUse \/ c.intercepting) THEN {"duplicate"} ELSE {})

\* Retained text, once native calls are settled (classify_encoded_tool_intent):
\* shown as text, taken as calls, or rejected for naming a tool the request
\* does not offer.
Release(c, held, kind, how) ==
  CASE held = "none" -> c
    [] OTHER -> CASE how = "pass" -> Fragment(c, kind)
                  [] how = "reject" -> [c EXCEPT !.rejected = TRUE]
                  [] OTHER -> EncodedCalls(c, how)

\* What may become of it.  Once a replay is due or a candidate was rejected the
\* classification is passed over: a marker left is parsed, or found malformed.
Releases(c, held, offers) ==
  CASE held \in {"none", "tail"} -> {"pass"}
    [] held = "marker" /\ (c.retry \/ c.rejected) -> Calls(c, offers)
    [] OTHER -> Calls(c, offers) \cup {"pass"}
                  \cup (IF c.visible THEN {} ELSE {"reject"})

\* flush_remaining: the native calls, and unless they settle the attempt the
\* reasoning channel and then the text channel with what each still holds.
Settled(c) == c.intercepting \/ c.toolUse \/ c.retry \/ c.rejected

FlushNative(c, offers) ==
  IF c.pending /\ ~c.retry THEN {Finalize(c, calls) : calls \in Calls(c, offers)} ELSE {c}

FlushReasoning(c, offers) ==
  {[Release(c, c.reasoning, "thinking", how) EXCEPT !.reasoning = "none"] :
     how \in Releases(c, c.reasoning, offers)}

FlushText(c, offers) ==
  IF c.intercepting THEN {c}
  ELSE {[Release(c, c.text, "text", how) EXCEPT !.text = "none"] :
          how \in Releases(c, c.text, offers)}

Flush(c, offers) ==
  UNION {IF Settled(n) THEN {n}
         ELSE UNION {FlushText(r, offers) : r \in FlushReasoning(n, offers)} :
           n \in FlushNative(c, offers)}

-----------------------------------------------------------------------------
(* Between the task and the client.                                        *)

\* The client takes an event as it comes, in whatever state its message is.
Receive(e) ==
  /\ phase' = CASE e.type = "start" -> "streaming"
                [] e.type = "reason" -> "closing"
                [] e.type = "stop" -> "stopped"
                [] e.type = "error" -> "failed"
                [] OTHER -> phase
  /\ at' = IF e.type \in {"open", "delta", "close"} THEN e.index ELSE at
  /\ open' = CASE e.type \in {"open", "delta"} -> e.kind
               [] e.type = "close" -> "none"
               [] OTHER -> open
  /\ tools' = (tools \/ (e.type = "open" /\ e.kind = "tool_use"))
  /\ reason' = IF e.type = "reason" THEN e.kind ELSE reason

Idle == ctx.out = <<>>

\* The StreamContext is dropped with its attempt; the tracker and what is on
\* its way remain.
Dropped(c) == [Fresh(c.next, c.active) EXCEPT !.out = c.out]

Deliver ==
  /\ ~Idle /\ ~dead
  /\ Receive(Head(ctx.out))
  /\ ctx' = [ctx EXCEPT !.out = Tail(@)]
  /\ UNCHANGED <<stage, turns, searches, synthesis, compat, reads, started, base,
                 notice, ending, verdict, dead>>

\* send_tracked: the receiver is gone, or the channel stayed full for 5 s ; nothing
\* is sent after that.
SendFails ==
  /\ ~Idle
  /\ dead' = TRUE
  /\ ctx' = [ctx EXCEPT !.out = <<>>]
  /\ UNCHANGED <<stage, turns, searches, synthesis, compat, reads, started, base,
                 notice, ending, verdict, message>>

-----------------------------------------------------------------------------
(* A turn: ask upstream, read its stream.                                  *)

Steps == UNCHANGED <<dead, message>>
Keeps == Steps /\ UNCHANGED <<turns, searches, synthesis, compat, reads, started, base>>

Finish(c, result) ==
  /\ stage' = "done" /\ verdict' = result /\ ctx' = Dropped(c)
  /\ UNCHANGED <<notice, ending>>

\* finalize_stream_with_text, with what the capture records once it is out.
FinalText(c, why, result) ==
  /\ stage' = "closing" /\ notice' = why /\ ending' = result
  /\ ctx' = Dropped(Emit(Block(c, "text"),
                         <<Ev("reason", "end_turn", -1), Ev("stop", "none", -1)>>))
  /\ UNCHANGED verdict

\* The client may leave, and the server stop, at any time: both cancel the
\* token, which the task looks at before a turn and while it reads.
TurnCancelled ==
  /\ stage = "turn" /\ Idle
  /\ Finish(ctx, "cancelled") /\ Keeps

BeginTurn ==
  /\ stage = "turn" /\ Idle
  /\ turns' = turns + 1
  /\ \/ /\ turns + 1 <= TurnLimit
        /\ stage' = "upstream" /\ base' = ctx.next
        /\ UNCHANGED <<ctx, notice, ending, verdict>>
     \/ /\ turns + 1 > TurnLimit
        /\ FinalText(Fresh(ctx.next, ctx.active), "turn_limit", "success")
        /\ UNCHANGED base
  /\ Steps /\ UNCHANGED <<searches, synthesis, compat, reads, started>>

\* execute_with_warp_retry gave up, or its answer is not a success.
UpstreamRefuses ==
  /\ stage = "upstream"
  /\ Finish(Emit(ctx, (IF started THEN <<>> ELSE <<MessageStart>>) \o <<ApiError>>), "failed")
  /\ Keeps

\* Mutant: every attempt numbers its blocks from zero.
RestartIndices ==
  /\ stage = "upstream"
  /\ stage' = "read" /\ started' = TRUE
  /\ ctx' = Emit(Fresh(0, "none"), IF turns = 1 THEN <<MessageStart>> ELSE <<>>)
  /\ Steps
  /\ UNCHANGED <<turns, searches, synthesis, compat, reads, base, notice, ending, verdict>>

UpstreamAnswers ==
  /\ stage = "upstream"
  /\ stage' = "read" /\ started' = TRUE
  /\ ctx' = Emit(Fresh(ctx.next, ctx.active),
                 IF turns = 1 THEN <<MessageStart>> ELSE <<>>)
  /\ Steps
  /\ UNCHANGED <<turns, searches, synthesis, compat, reads, base, notice, ending, verdict>>

\* Mutant: a client that left while a replay was prepared goes unnoticed.
TakedownAtTheEnd ==
  /\ stage \in {"read", "errored", "closing"} /\ Idle /\ dead
  /\ Finish(ctx, "cancelled") /\ Keeps

\* dead_consumer_takedown, where the task looks at it.
Takedown ==
  /\ stage \in {"read", "errored", "closing", "again"} /\ Idle /\ dead
  /\ Finish(ctx, "cancelled") /\ Keeps

\* process_openai_sse_line.
Line(c) ==
  /\ stage = "read" /\ Idle /\ ~dead
  /\ ctx' = c
  /\ Keeps /\ UNCHANGED <<stage, notice, ending, verdict>>

Room(kind) == ctx.active = kind \/ ctx.next < base + PerAttempt
Accepts == ~ctx.intercepting /\ ~ctx.retry /\ ~ctx.rejected

\* Text the client may see is shown; what may become a marker is retained.  A
\* thinking block is closed after THINKING_RENDER_CHUNK_BYTES.
ReasoningLine ==
  /\ Accepts /\ ctx.reasoning \in {"none", "tail"}
  /\ \E hold \in {"none", "tail", "marker"} :
       LET c == [ctx EXCEPT !.reasoning = hold]
       IN  \/ Line(c)
           \/ Room("thinking") /\ Line(Fragment(c, "thinking"))
           \/ Room("thinking") /\ Line(CloseActive(Fragment(c, "thinking")))

ContentLine ==
  /\ Accepts /\ ctx.text \in {"none", "tail"}
  /\ \E hold \in {"none", "tail", "marker", "dsml"} :
       LET c == [ctx EXCEPT !.text = hold]
       IN  \/ Line(c)
           \/ Room("text") /\ Line(Fragment(c, "text"))

\* A preamble announces a tool the request does not offer.
PreambleRejected ==
  /\ Accepts /\ ctx.text \in {"none", "tail"} /\ ~ctx.visible /\ ~ctx.toolUse
  /\ Line([ctx EXCEPT !.rejected = TRUE, !.text = "none"])

\* A retained marker outgrows its buffer, and is replaced by a remark.
Oversized ==
  /\ Accepts
  /\ \/ /\ ctx.reasoning = "marker" /\ Room("thinking")
        /\ Line(Fragment([ctx EXCEPT !.reasoning = "none"], "thinking"))
     \/ /\ ctx.text = "marker" /\ Room("text")
        /\ Line(Fragment([ctx EXCEPT !.text = "none"], "text"))
     \/ /\ ctx.text = "dsml"
        /\ Line(Malformed([ctx EXCEPT !.text = "none"]))

\* Fragments of native calls are put together until a finish_reason.
ToolCallLine ==
  /\ ~ctx.pending /\ ~ctx.retry
  /\ Line([ctx EXCEPT !.pending = TRUE])

\* update_stop_reason: no tool_use unless there is one.
StopFor(c, finish) ==
  CASE finish = "tool_calls" -> IF c.toolUse \/ c.intercepting THEN "tool_use" ELSE "end_turn"
    [] OTHER -> "end_turn"

FinishLine ==
  \E finish \in {"stop", "tool_calls"}, native \in Calls(ctx, TRUE) :
    /\ IF ctx.pending THEN native = "tools" => Room("tool_use")
       ELSE native = "malformed"
    /\ Line(Finalize([ctx EXCEPT !.stop = StopFor(ctx, finish)], native))

\* An error payload in the stream, or a line beyond max_sse_line_bytes: the
\* message ends there.
ErrorLine ==
  /\ stage = "read" /\ Idle /\ ~dead
  /\ stage' = "errored" /\ ctx' = Dropped(Emit(ctx, <<ApiError>>))
  /\ Keeps /\ UNCHANGED <<notice, ending, verdict>>

ErrorEnds ==
  /\ stage = "errored" /\ Idle
  /\ Finish(ctx, "failed") /\ Keeps

ReadCancelled ==
  /\ stage = "read" /\ Idle /\ ~dead
  /\ Finish(ctx, "cancelled") /\ Keeps

-----------------------------------------------------------------------------
(* The end of an upstream stream.                                          *)

\* No content block was allocated by this attempt.
Unseen == ctx.next = base

\* The stream ends with [DONE], by itself or with a read error.  Nobody looks
\* whether the client is still there once the unfinished last line was
\* processed.
StreamEnds == stage = "read" /\ Idle

ReplayRead ==
  /\ StreamEnds
  /\ Unseen /\ reads < MaxReadRetries
  /\ reads' = reads + 1 /\ stage' = "turn" /\ ctx' = Dropped(ctx)
  /\ Steps
  /\ UNCHANGED <<turns, searches, synthesis, compat, started, base, notice,
                 ending, verdict>>

\* finalize_stream: what is retained is flushed against a request without
\* tools, and the message fails.
ReadFails ==
  /\ StreamEnds
  /\ ~(Unseen /\ reads < MaxReadRetries)
  /\ \E c \in Flush(ctx, FALSE) : Finish(Emit(CloseActive(c), <<ApiError>>), "failed")
  /\ Keeps

\* A query already answered costs no search, but like the last one of the
\* budget it makes the next turns do without.
SearchWeb ==
  \/ /\ searches > 0
     /\ synthesis' = TRUE /\ UNCHANGED searches
  \/ /\ searches' = searches + 1
     /\ synthesis' = (searches + 1 >= MaxSearch)

Rejected(c) ==
  /\ c.rejected
  /\ FinalText(c, "rejected", "failed")
  /\ UNCHANGED <<searches, synthesis, compat>>

Search(c) ==
  /\ ~c.rejected /\ c.intercepting /\ ~c.retry
  /\ SearchWeb
  /\ stage' = "again" /\ ctx' = Dropped(CloseActive(c))
  /\ UNCHANGED <<compat, notice, ending, verdict>>

\* Mutant: what the client has seen does not matter.
ReplayAnyway(c) ==
  /\ ~c.rejected /\ c.retry
  /\ compat < MaxCompatRetries
  /\ compat' = compat + 1 /\ stage' = "again" /\ ctx' = Dropped(CloseActive(c))
  /\ UNCHANGED <<searches, synthesis, notice, ending, verdict>>

ReplayMalformed(c) ==
  /\ ~c.rejected /\ c.retry
  /\ c.next = base /\ compat < MaxCompatRetries
  /\ compat' = compat + 1 /\ stage' = "again" /\ ctx' = Dropped(CloseActive(c))
  /\ UNCHANGED <<searches, synthesis, notice, ending, verdict>>

MalformedEnds(c) ==
  /\ ~c.rejected /\ c.retry
  /\ ~(c.next = base /\ compat < MaxCompatRetries)
  /\ FinalText(c, "malformed", "failed")
  /\ UNCHANGED <<searches, synthesis, compat>>

Plain(c) == ~c.rejected /\ ~c.intercepting /\ ~c.retry

\* Nothing was opened in the whole message.
EmptyEnds(c) ==
  /\ Plain(c) /\ c.next = 0
  /\ Finish(Emit(c, <<ApiError>>), "failed")
  /\ UNCHANGED <<searches, synthesis, compat>>

Complete(c) ==
  /\ Plain(c) /\ c.next > 0
  /\ stage' = "closing" /\ ending' = "success"
  /\ ctx' = Dropped(Emit(CloseActive(c),
                         <<Ev("reason", IF c.toolUse THEN "tool_use" ELSE c.stop, -1),
                           Ev("stop", "none", -1)>>))
  /\ UNCHANGED <<searches, synthesis, compat, notice, verdict>>

Settle ==
  /\ StreamEnds
  /\ reads' = 0
  /\ \E c \in Flush(ctx, TRUE) :
       \/ Rejected(c) \/ Search(c) \/ ReplayMalformed(c) \/ MalformedEnds(c)
       \/ EmptyEnds(c) \/ Complete(c)
  /\ Steps /\ UNCHANGED <<turns, started, base>>

GoOn ==
  /\ stage = "again" /\ Idle /\ ~dead
  /\ stage' = "turn"
  /\ Keeps /\ UNCHANGED <<ctx, notice, ending, verdict>>

\* Mutant: success is recorded whether or not the end was sent.
ConcludeUnsent ==
  /\ stage = "closing" /\ Idle
  /\ stage' = "done" /\ verdict' = ending
  /\ Keeps /\ UNCHANGED <<ctx, notice, ending>>

Conclude ==
  /\ stage = "closing" /\ Idle /\ ~dead
  /\ stage' = "done" /\ verdict' = ending
  /\ Keeps /\ UNCHANGED <<ctx, notice, ending>>

-----------------------------------------------------------------------------

Task ==
  \/ TurnCancelled \/ BeginTurn \/ UpstreamRefuses \/ UpstreamAnswers \/ Takedown
  \/ ReasoningLine \/ ContentLine \/ PreambleRejected \/ Oversized
  \/ ToolCallLine \/ FinishLine \/ ErrorLine \/ ErrorEnds \/ ReadCancelled
  \/ ReplayRead \/ ReadFails \/ Settle \/ GoOn \/ Conclude

StreamNext == Deliver \/ SendFails \/ Task

StreamSpec == StreamInit /\ [][StreamNext]_streamVars

-----------------------------------------------------------------------------
(* Properties.                                                             *)

StreamTypeOK ==
  /\ stage \in {"turn", "upstream", "read", "errored", "again", "closing", "done",
             "sync", "upstream_sync"}
  /\ turns \in 0 .. TurnLimit + 1
  /\ searches \in 0 .. MaxSearch /\ synthesis \in BOOLEAN
  /\ compat \in 0 .. MaxCompatRetries /\ reads \in 0 .. MaxReadRetries
  /\ started \in BOOLEAN /\ base \in Nat
  /\ ctx \in [out : Seq(Event), next : Nat,
              active : {"none", "thinking", "text"}, pending : BOOLEAN,
              reasoning : Retained \ {"dsml"}, text : Retained,
              visible : BOOLEAN, intercepting : BOOLEAN, retry : BOOLEAN,
              rejected : BOOLEAN, toolUse : BOOLEAN,
              stop : {"end_turn", "tool_use"}]
  /\ dead \in BOOLEAN
  /\ notice \in {"none", "turn_limit", "rejected", "malformed"}
  /\ ending \in {"none", "success", "failed"}
  /\ verdict \in {"none", "success", "failed", "cancelled"}

\* Across search rounds, replays, retained text released at the end and every
\* way to give up, the client receives one well-formed message: what it is
\* sent implements AssistantMessage.
ImplementsMessage == Message!Spec

\* A replay never follows content of the same attempt to the client: "merging
\* two upstream responses into one message" (stream/execute.rs).
ReplayUnseen ==
  [][reads' > reads \/ compat' > compat => at < base]_streamVars

\* The history calls a stream successful only if the whole message went out,
\* and failed if the client was told of an error; what it calls ended is ended
\* for the client too, unless that is gone.
RecordMatchesMessage ==
  /\ verdict = "success" /\ started => phase = "stopped"
  /\ phase = "failed" /\ stage = "done" => verdict = "failed"
  /\ verdict = "failed" /\ Idle /\ started => phase \in {"stopped", "failed"} \/ dead

=============================================================================
