---------------------------- MODULE Conversation ----------------------------
(***************************************************************************)
(* A conversation as Claude Code sends it, whole, with every request, and  *)
(* what the bridge makes of it for an OpenAI-compatible provider           *)
(* (src/src/opencode/mapper/, the validation in handlers/messages.rs).     *)
(*                                                                         *)
(* The client answers every tool call in its next user message; hooks may  *)
(* add system messages anywhere; the model answers with any blocks, and    *)
(* when it is told to call the Agent tool it does, as many calls at a time *)
(* as it likes.                                                            *)
(***************************************************************************)
EXTENDS Naturals, SequencesExt

CONSTANTS
  Wanted,     \* the number of agents the user asks for
  MaxHistory, \* bounds the messages of a conversation
  MaxHooks    \* and the system messages among them

VARIABLES history \* the messages so far

vars == <<history>>

\* A block has an id when it is a call or the result of one.
Block(type) == [type |-> type, id |-> 0]
Call(type, id) == [type |-> type, id |-> id]

CallTypes == {"agent", "tool"}
TextTypes == {"text", "ask", "reminder"}
Types == CallTypes \cup TextTypes \cup {"result", "image", "thinking", "redacted"}

\* The blocks of some types.
Of(blocks, types) ==
  FlattenSeq([k \in DOMAIN blocks |->
                IF blocks[k].type \in types THEN <<blocks[k]>> ELSE <<>>])

Says(role, blocks) == history' = Append(history, [role |-> role, blocks |-> blocks])

Calls(h) == FlattenSeq([i \in DOMAIN h |-> Of(h[i].blocks, CallTypes)])

TypeOK ==
  /\ Len(history) <= MaxHistory
  /\ \A i \in DOMAIN history :
       /\ history[i].role \in {"user", "assistant", "system"}
       /\ history[i].blocks # <<>>
  /\ IsInjective(Calls(history))

Init == history = <<>>

-----------------------------------------------------------------------------
(* The mapping.                                                            *)

Turns(h) == {i \in DOMAIN h : h[i].role # "system"}

\* What the user says in a message: its text without the reminders it starts
\* with.
UserSaid(m) ==
  LET texts == Of(m.blocks, TextTypes)
      own   == {i \in DOMAIN texts : \E j \in 1..i : texts[j].type # "reminder"}
  IN  {texts[i].type : i \in own}

Asked(h) ==
  \E i \in DOMAIN h : h[i].role = "user" /\ UserSaid(h[i]) \cap {"ask", "reminder"} # {}

PriorAgents(h) == Len(Of(Calls(h), {"agent"}))

\* explicit_fanout_requirement: the calls the model is told to make.
Remaining(h) ==
  IF Asked(h) /\ PriorAgents(h) < Wanted THEN Wanted - PriorAgents(h) ELSE 0

\* Faulty: the text of a message goes before the results in it.
MapUserTextFirst(m) ==
  LET results == Of(m.blocks, {"result"})
      rest    == Of(m.blocks, Types \ {"result"})
  IN  (IF rest = <<>> THEN <<>> ELSE <<[role |-> "user", blocks |-> rest, reasoning |-> FALSE]>>)
      \o [i \in DOMAIN results |->
            [role |-> "tool", blocks |-> <<results[i]>>, reasoning |-> FALSE]]

\* Each result becomes a message; what else the user sends follows in one.
\* A block that cannot be forwarded leaves a mark in its text.
MapUser(m) ==
  LET results == Of(m.blocks, {"result"})
      rest    == Of(m.blocks, Types \ {"result"})
  IN  [i \in DOMAIN results |->
         [role |-> "tool", blocks |-> <<results[i]>>, reasoning |-> FALSE]]
      \o IF rest = <<>> THEN <<>>
         ELSE <<[role |-> "user", blocks |-> rest, reasoning |-> FALSE]>>

\* A message of blocks that cannot be forwarded is left out.  A model that
\* demands a reason for each call is given one.
MapAssistant(m, demanding) ==
  LET said   == Of(m.blocks, {"text"} \cup CallTypes)
      thinks == Of(m.blocks, {"thinking"}) # <<>>
      calls  == Of(m.blocks, CallTypes) # <<>>
  IN  IF said = <<>> /\ ~thinks THEN <<>>
      ELSE <<[role |-> "assistant", blocks |-> said,
              reasoning |-> thinks \/ (calls /\ demanding)]>>

MapMessage(m, demanding) ==
  CASE m.role = "user"      -> MapUser(m)
    [] m.role = "assistant" -> MapAssistant(m, demanding)
    [] m.role = "system"    -> <<>>

\* map_anthropic_to_openai: what hooks say, the fan-out and the hygiene notes
\* are joined to the system prompt in front.
Mapped(h, demanding) ==
  (IF Turns(h) # DOMAIN h \/ Remaining(h) > 0
   THEN <<[role |-> "system", blocks |-> <<>>, reasoning |-> FALSE]>>
   ELSE <<>>)
  \o FlattenSeq([i \in DOMAIN h |-> MapMessage(h[i], demanding)])

\* validate_messages_request, the order of calls and results in it.
Valid(h) ==
  \A i \in DOMAIN h : \A k \in DOMAIN h[i].blocks :
    LET b == h[i].blocks[k] IN
    /\ h[i].role = "system" => b.type \in TextTypes
    /\ b.type \in CallTypes => h[i].role = "assistant"
    /\ b.type = "result" =>
         /\ h[i].role = "user"
         /\ \E j \in 1 .. i - 1 : b.id \in {c.id : c \in ToSet(Of(h[j].blocks, CallTypes))}

-----------------------------------------------------------------------------
(* The options of a request.                                               *)

Families == {"generic", "heavy", "deepseek", "flash_free"}
Switch == {"on", "off", "unset"}

Options == [family : Families, thinking : Switch, stream : BOOLEAN,
            compact : BOOLEAN, effort : BOOLEAN]

IsDeepSeek(family) == family \in {"deepseek", "flash_free"}

\* normalize_upstream_thinking
UpstreamThinking(o) ==
  IF ~IsDeepSeek(o.family) THEN "unsent"
  ELSE IF o.thinking = "on" THEN "enabled" ELSE "disabled"

EffectiveThinking(o) ==
  CASE UpstreamThinking(o) = "enabled"  -> "on"
    [] UpstreamThinking(o) = "disabled" -> "off"
    [] UpstreamThinking(o) = "unsent"   -> o.thinking

\* include_reasoning_for_stream
IncludeReasoning(o) ==
  LET t == EffectiveThinking(o) IN
  CASE t = "off" -> "off"
    [] t # "off" /\ o.compact -> "unset"
    [] t = "on" /\ ~o.compact -> "on"
    [] OTHER -> IF o.stream /\ o.family # "generic" THEN "on" ELSE "unset"

\* synthesize_missing_tool_reasoning
Demanding(o) == o.family = "flash_free" /\ o.thinking = "on"

\* normalize_reasoning_effort
SendsEffort(o) == o.effort /\ UpstreamThinking(o) # "disabled"

-----------------------------------------------------------------------------
(* The conversation.                                                       *)

LastTurn == history[Max(Turns(history))]

UsersTurn == Turns(history) # {} => LastTurn.role = "assistant"

\* The calls of the last turn, if it is the model's.
Pending ==
  IF Turns(history) # {} /\ UsersTurn THEN Of(LastTurn.blocks, CallTypes) ELSE <<>>

Room == Len(history) < MaxHistory

Results == [i \in DOMAIN Pending |-> Call("result", Pending[i].id)]

\* What the client may put before and after the results it owes.
Prompts ==
  {<<Block("text")>>, <<Block("ask")>>, <<Block("image")>>,
   <<Block("reminder"), Block("text")>>, <<Block("reminder"), Block("ask")>>}

Prompt(blocks) ==
  /\ UsersTurn /\ Room /\ Pending = <<>>
  /\ Says("user", blocks)

\* The results, and what the user said meanwhile or a reminder.
Answer(before, after) ==
  /\ UsersTurn /\ Room /\ Pending # <<>>
  /\ Says("user", before \o Results \o after)

Asides == {<< <<>>, <<>> >>, << <<Block("text")>>, <<>> >>,
           << <<>>, <<Block("text")>> >>, << <<Block("reminder")>>, <<Block("text")>> >>}

Hook ==
  /\ Room /\ history # <<>>
  /\ Cardinality(DOMAIN history \ Turns(history)) < MaxHooks
  /\ Says("system", <<Block("text")>>)

NextId == Len(Calls(history)) + 1

\* What the model says besides its calls; a turn of another provider may hold
\* thinking that nobody can read.
Utterances ==
  {<<>>, <<Block("text")>>, <<Block("thinking")>>, <<Block("redacted")>>}

\* The model does what the request tells it: as long as agents are missing it
\* calls some; else it answers or calls another tool, but no agent unasked.
Reply(said, agents, tools) ==
  /\ ~UsersTurn /\ Room
  /\ IF Remaining(history) > 0 THEN agents \in 1 .. Remaining(history) ELSE agents = 0
  /\ Len(said) + agents + tools > 0
  /\ Says("assistant",
          said \o [i \in 1 .. agents |-> Call("agent", NextId + i - 1)]
               \o [i \in 1 .. tools |-> Call("tool", NextId + agents + i - 1)])

Next ==
  \/ \E blocks \in Prompts : Prompt(blocks)
  \/ \E aside \in Asides : Answer(aside[1], aside[2])
  \/ Hook
  \/ \E said \in Utterances, agents \in 0 .. Wanted, tools \in 0 .. 1 :
       Reply(said, agents, tools)

Spec == Init /\ [][Next]_vars

-----------------------------------------------------------------------------
(* Properties.                                                             *)

\* The rule of the providers: a message with calls is followed at once by one
\* message for each of its calls, and there is no other tool message.
CallsAnswered(s) ==
  \A i \in DOMAIN s :
    LET calls == Of(s[i].blocks, CallTypes) IN
    /\ s[i].role = "assistant" =>
         \A k \in DOMAIN calls :
           /\ i + k \in DOMAIN s /\ s[i + k].role = "tool"
           /\ \E j \in DOMAIN calls : s[i + j].blocks[1].id = calls[k].id
    /\ s[i].role = "tool" =>
         \E j \in 1 .. i - 1 :
           /\ s[i].blocks[1].id \in {c.id : c \in ToSet(Of(s[j].blocks, CallTypes))}
           /\ \A k \in j + 1 .. i : s[k].role = "tool"

\* What a request says about reasoning agrees: nothing asks for reasoning that
\* is switched off, and a model that thinks and wants a reason with each past
\* call finds one.
ReasoningAgrees(o, s) ==
  /\ IncludeReasoning(o) = "on" => UpstreamThinking(o) # "disabled" /\ o.thinking # "off"
  /\ SendsEffort(o) => UpstreamThinking(o) # "disabled"
  /\ o.family = "flash_free" /\ UpstreamThinking(o) = "enabled" =>
       \A m \in ToSet(s) : Of(m.blocks, CallTypes) # <<>> => m.reasoning

\* Whatever blocks, hooks and models a conversation has gone through, the
\* request made of it is one the provider takes: valid for the bridge, calls
\* and results in the order the provider wants, no message without content,
\* the options in agreement.  Nothing the user sent is missing.
RequestAcceptable ==
  ~UsersTurn => \A demanding \in BOOLEAN :
    LET s == Mapped(history, demanding) IN
    /\ Valid(history)
    /\ CallsAnswered(s)
    /\ \A i \in DOMAIN s :
         s[i].role = "assistant" => s[i].blocks # <<>> \/ s[i].reasoning
    /\ \A i \in DOMAIN history : history[i].role = "user" =>
         \A b \in ToSet(history[i].blocks) :
           \E k \in DOMAIN s : s[k].role \in {"user", "tool"} /\ b \in ToSet(s[k].blocks)
    /\ \A o \in Options : Demanding(o) = demanding => ReasoningAgrees(o, s)

\* A fan-out is asked for until it is complete and not longer, and what a
\* reminder says is no request: once the model answers a user who asked, it has
\* called as many agents as were wanted; it calls none for a user who did not.
FanOutComplete ==
  LET asked == \E i \in DOMAIN history : Block("ask") \in ToSet(history[i].blocks)
      agents == PriorAgents(history)
  IN  /\ agents <= IF asked THEN Wanted ELSE 0
      /\ asked /\ UsersTurn /\ Pending = <<>> => agents = Wanted

\* What the provider gets of a conversation is acceptable and complete.
RequestFaithful == RequestAcceptable /\ FanOutComplete
=============================================================================
