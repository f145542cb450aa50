-------------------------- MODULE AssistantMessage --------------------------
(***************************************************************************)
(* What the client of a streamed answer is promised: one message, opened   *)
(* once, whose content blocks come one after the other, numbered from zero *)
(* and closed before the message is, and which ends with its stop reason   *)
(* or with one error, after which nothing comes                            *)
(* (src/src/stream_tracker.rs, src/src/opencode/forward/stream).           *)
(***************************************************************************)
EXTENDS Integers

Kind == {"thinking", "text", "tool_use"}
StopReason == {"end_turn", "tool_use", "max_tokens"}

VARIABLES
  phase,  \* how far the message is
  at,     \* index of the latest content block, -1 before the first
  open,   \* kind of the block that is open, or "none"
  tools,  \* a tool_use block was opened
  reason  \* stop reason, "none" before it is known

vars == <<phase, at, open, tools, reason>>

Init == phase = "idle" /\ at = -1 /\ open = "none" /\ tools = FALSE /\ reason = "none"

Start ==
  /\ phase = "idle"
  /\ phase' = "streaming"
  /\ UNCHANGED <<at, open, tools, reason>>

Open(kind) ==
  /\ phase = "streaming" /\ open = "none"
  /\ at' = at + 1 /\ open' = kind
  /\ tools' = (tools \/ kind = "tool_use")
  /\ UNCHANGED <<phase, reason>>

Close ==
  /\ phase = "streaming" /\ open # "none"
  /\ open' = "none"
  /\ UNCHANGED <<phase, at, tools, reason>>

\* The client acts on the tool calls of a message that stops for them.
Reason(r) ==
  /\ phase = "streaming" /\ open = "none"
  /\ r = "tool_use" => tools
  /\ phase' = "closing" /\ reason' = r
  /\ UNCHANGED <<at, open, tools>>

Stop ==
  /\ phase = "closing"
  /\ phase' = "stopped"
  /\ UNCHANGED <<at, open, tools, reason>>

Fail ==
  /\ phase = "streaming"
  /\ phase' = "failed"
  /\ UNCHANGED <<at, open, tools, reason>>

Next ==
  \/ Start \/ Close \/ Stop \/ Fail
  \/ \E kind \in Kind : Open(kind)
  \/ \E r \in StopReason : Reason(r)

Spec == Init /\ [][Next]_vars

=============================================================================
