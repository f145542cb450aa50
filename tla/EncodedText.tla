----------------------------- MODULE EncodedText -----------------------------
(***************************************************************************)
(* Tool calls that a model writes into its text, as a marker               *)
(*     [Requesting Read with arguments: {...}]                             *)
(* instead of calling the tool (src/src/opencode/forward/common/compat.rs, *)
(* fallback_intent.rs, and the text channel of stream/context.rs).  The    *)
(* stream is cut into chunks anywhere; text in which a marker may begin is *)
(* kept back, and a marker runs at the earliest when the stream has ended. *)
(* A complete answer is judged at once (sync.rs).                          *)
(*                                                                         *)
(* A text is a sequence of tokens with at most one marker.  Its head and   *)
(* the call follow one another, the bracket that closes it may be missing. *)
(* "plan" announces a call ("I will call ..."), "done" claims that one was *)
(* made ("... has been created"); other prose is "word", and so are the    *)
(* halves of a claim that is cut between two chunks.  Double quotes,       *)
(* tildes and escapes, DSML blocks, and several markers are left out, and  *)
(* so are the bounds on what is kept back.                                 *)
(***************************************************************************)
EXTENDS Naturals, SequencesExt

CONSTANT MaxText \* bound: tokens of a text

VARIABLES
  literal,   \* the user asks to see markers, not to have them run
  offered,   \* the request offers the tool of the marker
  tools,     \* it offers some tool
  text,      \* the chunks that have arrived
  arriving,  \* the chunk that is arriving
  buffer,    \* text_stream_buffer
  shown,     \* accumulated_text
  markdown,  \* text_markdown_state, after what is shown
  activated, \* encoded_parser_activated
  flushing,  \* the stream has ended: nothing is deferred any more
  called,    \* the call was emitted
  refused,   \* "rejected", or "retry" when a replay is asked for
  pc,
  chunks,    \* ghost: chunks that arrived, 2 for more
  torn       \* ghost: a chunk ended within a run of backticks

inputs == <<literal, offered, tools>>
ghosts == <<chunks, torn>>
vars == <<inputs, text, arriving, buffer, shown, markdown, activated, flushing,
          called, refused, pc, ghosts>>

\* One backtick and two.
Ticks == [t \in {"tick", "ticks"} |-> IF t = "tick" THEN 1 ELSE 2]
Token == {"word", "plan", "done", "head", "call", "]", "\n", ">"} \cup DOMAIN Ticks
Claims(s) == Contains(s, "done") \* looks_like_unverified_tool_success
Blank(s) == \A i \in 1 .. Len(s) : s[i] = "\n"

EndsIn(s, tokens) == s # <<>> /\ Last(s) \in tokens

\* What may follow s.  A quote is one at the start of a line only.
Follows(t, s) ==
  CASE t = "call" -> EndsIn(s, {"head"})
    [] t = "]" -> EndsIn(s, {"call"})
    [] t = "word" -> ~EndsIn(s, {"call"})
    [] OTHER ->
         /\ ~EndsIn(s, {"head", "call"})
         /\ t \in {"head", "plan", "done"} => ~Contains(s, t)
         /\ t = ">" => s = <<>> \/ EndsIn(s, {"\n"})

-----------------------------------------------------------------------------
(* Markdown (CompatMarkdownState).                                         *)

Plain == [fence |-> 0, inline |-> 0, quoted |-> FALSE, margin |-> TRUE]

\* A run of n backticks.
Run(m, n) ==
  CASE n = 0 -> m
    [] n > 0 /\ m.fence > 0 -> IF n >= m.fence THEN [m EXCEPT !.fence = 0] ELSE m
    [] n > 0 /\ m.fence = 0 /\ m.inline > 0 ->
         IF n >= m.inline THEN [m EXCEPT !.inline = 0] ELSE m
    [] OTHER -> IF n >= 3 THEN [m EXCEPT !.fence = n] ELSE [m EXCEPT !.inline = n]

Line(m, t) ==
  IF t = "\n" THEN [m EXCEPT !.margin = TRUE, !.quoted = FALSE]
  ELSE [m EXCEPT !.margin = FALSE, !.quoted = @ \/ (m.margin /\ t = ">")]

\* The state after token t; a.run backticks end where t begins.
Passed(a, t) ==
  IF t \in DOMAIN Ticks
  THEN [run |-> a.run + Ticks[t], state |-> Line(a.state, t)]
  ELSE [run |-> 0, state |-> Line(Run(a.state, a.run), t)]

\* advance: the state after s, whose runs of backticks are counted within s.
Advance(m, s) ==
  LET after[n \in 0 .. Len(s)] ==
        IF n = 0 THEN [run |-> 0, state |-> m] ELSE Passed(after[n - 1], s[n])
  IN  Run(after[Len(s)].state, after[Len(s)].run)

Executable(m) == m.fence = 0 /\ m.inline = 0 /\ ~m.quoted

-----------------------------------------------------------------------------
(* Markers.                                                                *)

Before(s, i) == SubSeq(s, 1, i - 1)
From(s, i) == SubSeq(s, i, Len(s))
Called(s, i) == i < Len(s) /\ s[i + 1] = "call"
Closed(s, i) == Called(s, i) /\ i + 1 < Len(s)

\* find_compat_marker_in_context: where the marker of s begins, or 0.
Marker(s, m) ==
  LET at == {i \in 1 .. Len(s) : s[i] = "head" /\ Called(s, i)
                                   /\ Executable(Advance(m, Before(s, i)))}
  IN  IF at = {} THEN 0 ELSE CHOOSE i \in at : TRUE

\* Mutant: whatever is no marker yet is shown at once.
PendingNothing(s) == 0

\* split_pending_text_with_compat_prefixes: with tools in the request, a claim is
\* kept back until a marker or the end of the stream shows what it was.
Pending(s) ==
  IF tools /\ Claims(s) THEN Len(s) ELSE IF EndsIn(s, {"head"}) THEN 1 ELSE 0

Announces(s) ==
  \E i \in 1 .. Len(s) : s[i] = "plan" /\ Blank(Before(s, i))

\* classify_encoded_tool_intent.
Classify(s, visible, active) ==
  LET i == Marker(s, Plain)
      whole == Closed(s, i) /\ Blank(From(s, i + 3))
  IN  CASE i = 0 \/ literal -> "pass"
        [] i # 0 /\ ~literal /\ active -> "parse"
        [] OTHER ->
             IF \/ visible
                \/ ~Blank(Before(s, i)) /\ ~Announces(Before(s, i))
                \/ ~whole
             THEN "pass"
             ELSE IF offered THEN "parse" ELSE "reject"

-----------------------------------------------------------------------------
(* process_content_delta.                                                  *)

Init ==
  /\ literal \in BOOLEAN /\ offered \in BOOLEAN /\ tools \in BOOLEAN
  /\ offered => tools
  /\ text = <<>> /\ arriving = <<>> /\ buffer = <<>> /\ shown = <<>>
  /\ markdown = Plain
  /\ activated = FALSE /\ flushing = FALSE /\ called = FALSE
  /\ refused = "none" /\ pc = "receive"
  /\ chunks = 0 /\ torn = FALSE

\* The model goes on.
Continues(t) ==
  /\ pc = "receive" /\ Len(text) + Len(arriving) < MaxText
  /\ Follows(t, text \o arriving)
  /\ arriving' = Append(arriving, t)
  /\ UNCHANGED <<inputs, text, buffer, shown, markdown, activated, flushing,
                 called, refused, pc, ghosts>>

Chunk ==
  /\ pc = "receive" /\ arriving # <<>>
  /\ text' = text \o arriving /\ buffer' = buffer \o arriving /\ arriving' = <<>>
  /\ pc' = "parse"
  /\ chunks' = IF chunks = 0 THEN 1 ELSE 2
  /\ torn' = (torn \/ (EndsIn(text, DOMAIN Ticks) /\ Head(arriving) \in DOMAIN Ticks))
  /\ UNCHANGED <<inputs, shown, markdown, activated, flushing, called, refused>>

\* flush_remaining, once the native calls left nothing to decide: the parser
\* gets a last chance.
StreamEnds ==
  /\ pc = "receive" /\ arriving = <<>>
  /\ flushing' = TRUE /\ pc' = "parse"
  /\ UNCHANGED <<inputs, text, arriving, buffer, shown, markdown, activated,
                 called, refused, ghosts>>

At == Marker(buffer, markdown)
Parsing == pc = "parse" /\ UNCHANGED <<inputs, text, arriving, flushing, ghosts>>
Returned == IF flushing THEN "leftover" ELSE "receive"

ShowNothing == UNCHANGED <<shown, markdown>>

\* emit_text_fragment: once the call was emitted, a claim has no result to rest on.
Show(s) ==
  IF called /\ Claims(s) THEN ShowNothing
  ELSE shown' = shown \o s /\ markdown' = Advance(markdown, s)

\* What is before a marker: a claim there is suppressed before anything decides
\* whether the marker runs, and the markdown does not advance over it.
Introduce(s) == IF Claims(s) THEN ShowNothing ELSE Show(s)

Reject == buffer' = <<>> /\ refused' = "rejected" /\ pc' = "done"

ShowText ==
  /\ Parsing /\ At = 0
  /\ LET keep == Pending(buffer)
     IN  /\ Show(SubSeq(buffer, 1, Len(buffer) - keep))
         /\ buffer' = From(buffer, Len(buffer) - keep + 1)
  /\ pc' = Returned
  /\ UNCHANGED <<activated, called, refused>>

Announced == At > 1 /\ shown = <<>> /\ ~called /\ Announces(Before(buffer, At)) /\ ~literal

\* An announcement is dropped with the marker it is about, or kept with it
\* until that is complete.
JudgeAnnounced ==
  /\ Parsing /\ Announced
  /\ LET d == Classify(buffer, FALSE, activated)
     IN  \/ /\ d = "reject" /\ Reject
            /\ UNCHANGED activated
         \/ /\ d = "parse"
            /\ buffer' = From(buffer, At) /\ activated' = TRUE
            /\ UNCHANGED <<refused, pc>>
         \/ /\ d = "pass"
            /\ pc' = Returned
            /\ UNCHANGED <<buffer, activated, refused>>
  /\ ShowNothing /\ UNCHANGED called

ShowBefore ==
  /\ Parsing /\ At > 1 /\ ~Announced
  /\ Introduce(Before(buffer, At)) /\ buffer' = From(buffer, At)
  /\ UNCHANGED <<activated, called, refused, pc>>

Keep ==
  /\ Parsing /\ At = 1 /\ (~flushing \/ ~Closed(buffer, 1))
  /\ pc' = Returned
  /\ ShowNothing /\ UNCHANGED <<buffer, activated, called, refused>>

JudgeMarker ==
  /\ Parsing /\ At = 1 /\ flushing /\ Closed(buffer, 1)
  /\ LET d == Classify(buffer, shown # <<>>, activated)
     IN  \/ /\ d = "reject" /\ Reject
            /\ ShowNothing /\ UNCHANGED <<activated, called>>
         \/ /\ d = "parse"
            /\ activated' = TRUE /\ called' = TRUE
            /\ buffer' = From(buffer, 4)
            /\ ShowNothing /\ UNCHANGED <<refused, pc>>
         \/ /\ d = "pass"
            /\ Show(buffer) /\ buffer' = <<>> /\ pc' = Returned
            /\ UNCHANGED <<activated, called, refused>>

\* flush_remaining: what the parser still keeps back.  A marker runs without
\* its bracket, and with it goes what follows.
Leftover ==
  /\ pc = "leftover"
  /\ LET i == Marker(buffer, markdown)
     IN  \/ /\ i = 0
            /\ Show(buffer)
            /\ UNCHANGED <<called, refused>>
         \/ /\ i > 0
            /\ Introduce(Before(buffer, i))
            /\ called' = (called \/ offered)
            /\ refused' = IF offered THEN refused ELSE "retry"
  /\ buffer' = <<>> /\ pc' = "done"
  /\ UNCHANGED <<inputs, text, arriving, activated, flushing, ghosts>>

Next ==
  \/ \E t \in Token : Continues(t)
  \/ Chunk \/ StreamEnds
  \/ ShowText \/ JudgeAnnounced \/ ShowBefore \/ Keep \/ JudgeMarker \/ Leftover

Spec == Init /\ [][Next]_vars

-----------------------------------------------------------------------------
(* A complete answer (sync.rs).                                            *)

\* What becomes of the same text in an answer that is not streamed.
SyncOutcome ==
  LET i == Marker(text, Plain)
      d == Classify(text, FALSE, FALSE)
  IN  CASE d = "reject" -> "rejected"
        [] d = "parse" -> "called"
        [] OTHER -> IF i > 0 /\ ~Closed(text, i) /\ ~literal THEN "retry" ELSE "shown"

StreamOutcome ==
  IF called THEN "called" ELSE IF refused = "none" THEN "shown" ELSE refused

-----------------------------------------------------------------------------
(* Properties.                                                             *)

\* Every variable has its type; the text shown and the text kept back are of
\* the text that arrived.
TypeOK ==
  /\ literal \in BOOLEAN /\ tools \in BOOLEAN /\ offered \in {FALSE, tools}
  /\ {text, arriving, buffer, shown} \subseteq Seq(Token)
  /\ Len(shown) + Len(buffer) <= Len(text) /\ Len(text) <= MaxText
  /\ markdown \in [fence : Nat, inline : Nat, quoted : BOOLEAN, margin : BOOLEAN]
  /\ activated \in BOOLEAN /\ flushing \in BOOLEAN /\ called \in BOOLEAN
  /\ refused \in {"none", "rejected", "retry"}
  /\ pc \in {"receive", "parse", "leftover", "done"}
  /\ chunks \in 0 .. 2 /\ torn \in BOOLEAN

Done == pc = "done"
Where == Marker(text, Plain)
After == IF Closed(text, Where) THEN From(text, Where + 3) ELSE <<>>

\* Where a claim may begin that goes up to the head at i.
ClaimedFrom(i) == {j \in 1 .. i - 1 : Claims(SubSeq(text, j, i - 1))}

\* Text in which no call runs reaches the client whole and in order, however it
\* was cut and however long some of it was kept back, but for a claim right before
\* a marker.
ProseSurvives ==
  Done /\ StreamOutcome = "shown" =>
    \/ shown = text
    \/ \E i \in 1 .. Len(text) :
         /\ text[i] = "head"
         /\ \E j \in ClaimedFrom(i) : shown = Before(text, j) \o From(text, i)

\* What may be left of the prose before the call: all of it, nothing if that
\* announces the call, or what is before a claim.
Spared ==
  {s \in {<<>>} : Announces(Before(text, Where))}
    \cup {Before(text, j) : j \in {Where} \cup ClaimedFrom(Where)}

\* A call runs where the markdown of the whole text lets it: cutting the stream
\* makes no call of one in a code block, a code span or a quote, unless the cut
\* falls within a run of backticks.  Besides the marker, at most its
\* announcement, a claim before it and what follows it are lost.
CallsInContext ==
  Done /\ called =>
    /\ offered
    /\ ~torn => /\ Where > 0
                /\ \E s \in Spared, e \in {<<>>, After} : shown = s \o e

\* No claim is shown beside a call whose result is yet to come, however they were
\* cut apart.
NoClaimBesideCall == Done /\ called => ~Claims(shown)

\* A user who asks for a marker is shown it if it is complete.
LiteralShown ==
  Done /\ literal /\ (\E i \in 1 .. Len(text) : Closed(text, i)) => ~called

\* A marker that is the whole answer is no prose: it runs however it was cut.
WholeCallsRun ==
  LET whole == Len(text) >= 3 /\ text[1] = "head" /\ Closed(text, 1) /\ Blank(From(text, 4))
  IN  Done /\ whole /\ ~literal => StreamOutcome = IF offered THEN "called" ELSE "rejected"

\* In one piece, a complete marker that ends the text and is not preceded by
\* blank lines or a claim fares as in an answer that is not streamed.
OnePieceAsSync ==
  LET plain == /\ Where > 0 /\ Closed(text, Where) /\ Blank(After) /\ Head(text) # "\n"
               /\ ~Claims(Before(text, Where))
  IN  Done /\ chunks = 1 /\ plain => StreamOutcome = SyncOutcome

\* Claimed by fallback_intent.rs:48-50 and by its test
\* explanatory_marker_preamble_remains_inert: a complete marker that comes after
\* prose other than an announcement does not run.  A claim is suppressed before
\* anybody asks whether text is visible, and then the marker is whole output.
ExplainedMarkersInert ==
  Done /\ called /\ Where > 0 /\ Closed(text, Where) =>
    Blank(Before(text, Where)) \/ Announces(Before(text, Where))

\* However the upstream cuts a text into chunks, what its prose says is shown
\* and what it calls runs (process_content_delta, flush_remaining), with the
\* exceptions the conjuncts name.
TextFaithful ==
  /\ ProseSurvives /\ CallsInContext /\ NoClaimBesideCall
  /\ LiteralShown /\ WholeCallsRun /\ OnePieceAsSync

=============================================================================
