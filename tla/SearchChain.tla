----------------------------- MODULE SearchChain -----------------------------
(***************************************************************************)
(* The web search a model asks for (src/src/opencode/search, and the query *)
(* of opencode/forward/common/search.rs).  The providers are asked one     *)
(* after the other, in the order of their numbers, until one has results   *)
(* or the budget of the walk is used up.                                   *)
(*                                                                         *)
(* Of a text its length is kept, of a page the links it is read by: what   *)
(* counts is whether a link is one of the web.                             *)
(***************************************************************************)
EXTENDS Integers, SequencesExt

CONSTANTS
  Lengths,     \* of texts, 0 is blank
  MaxLinks,    \* of a page (bound)
  MaxResults,  \* search_max_results
  ChainBudget, \* search_chain_budget_secs
  Timeouts     \* what search_timeout_secs may be

VARIABLES
  left,     \* providers that were not asked
  asking,   \* the one that is asked
  spent,    \* time of the walk
  since,    \* when the provider was asked
  timeout,  \* search_timeout_secs
  problem,  \* last_error
  counted,  \* what the metrics count of each provider
  answer    \* of the search

vars == <<left, asking, spent, since, timeout, problem, counted, answer>>

Tavily == 1
Exa == 2
Serper == 3
SearXng == 4
DuckDuckGo == 5
Yahoo == 6
Provider == 1..6

NoOne == 0
NoProblem == [provider |-> NoOne, kind |-> "none"]
NoAnswer == [state |-> "none", of |-> {}, by |-> NoOne, results |-> 0]

-----------------------------------------------------------------------------
(* What is searched for: a text of the call, else what the user said last. *)

Bounded(length) == IF length > 512 THEN 512 ELSE length
DefaultQuery == 20
Resolve(call, said) ==
  IF call > 0 THEN Bounded(call) ELSE IF said > 0 THEN Bounded(said) ELSE DefaultQuery
Valid(query) == query \in 1..1024

(* What a provider has: links with titles, texts with links of the web      *)
(* (DuckDuckGo), a direct answer (Serper), or a captcha for whoever asks.   *)

Link == {"web", "other"}
Pages ==
  [links : BoundedSeq(Link, MaxLinks), texts : 0..MaxLinks,
   box : BOOLEAN, captcha : BOOLEAN]

Limit(n) == IF n > MaxResults THEN MaxResults ELSE n
Web(links) == Cardinality({i \in DOMAIN links : links[i] = "web"})

\* The usable results of each provider; Yahoo shows none to a robot.
tavily(page) == Limit(Web(page.links))
exa(page) == Limit(Web(page.links))
serper(page) == Limit((IF page.box THEN 1 ELSE 0) + Web(page.links))
searxng(page) == Limit(Web(page.links))
yahoo(page) == IF page.captcha THEN 0 ELSE Limit(Web(page.links))

\* All that follows the first result is one block, whose first title counts.
duckduckgo(page) ==
  IF page.links # <<>> /\ Head(page.links) = "web" THEN 1 ELSE Limit(page.texts)

Results(provider, page) ==
  CASE provider = Tavily -> tavily(page)
    [] provider = Exa -> exa(page)
    [] provider = Serper -> serper(page)
    [] provider = SearXng -> searxng(page)
    [] provider = DuckDuckGo -> duckduckgo(page)
    [] provider = Yahoo -> yahoo(page)

-----------------------------------------------------------------------------
(* A provider counts as soon as it is configured; the last two always do.  *)
Init ==
  /\ \E keyed \in SUBSET {Tavily, Exa, Serper, SearXng} :
       left = keyed \cup {DuckDuckGo, Yahoo}
  /\ asking = NoOne
  /\ spent = 0 /\ since = 0
  /\ timeout \in Timeouts
  /\ problem = NoProblem
  /\ counted = [p \in Provider |-> "none"]
  /\ answer = NoAnswer

search(call, said) ==
  /\ answer.state = "none"
  /\ answer' = [answer EXCEPT
       !.state = IF Valid(Resolve(call, said)) THEN "walk" ELSE "invalid", !.of = left]
  /\ UNCHANGED <<left, asking, spent, since, timeout, problem, counted>>

Walking == answer.state = "walk"
FirstOf(providers) == CHOOSE p \in providers : \A q \in providers : p <= q

Ask ==
  /\ Walking /\ asking = NoOne /\ left # {}
  /\ spent <= ChainBudget
  /\ asking' = FirstOf(left)
  /\ left' = left \ {FirstOf(left)}
  /\ since' = spent
  /\ UNCHANGED <<spent, timeout, problem, counted, answer>>

\* Time passes, on a busy machine beyond the budget before the walk looks.
Tick ==
  /\ Walking /\ spent <= ChainBudget
  /\ spent' = spent + 1
  /\ UNCHANGED <<left, asking, since, timeout, problem, counted, answer>>

\* The provider that is asked is of no use.
Fails(kind) ==
  /\ Walking /\ asking # NoOne
  /\ counted' = [counted EXCEPT ![asking] = IF kind = "NoResults" THEN "empty" ELSE "failure"]
  /\ problem' = [provider |-> asking, kind |-> kind]
  /\ asking' = NoOne
  /\ UNCHANGED <<left, spent, since, timeout, answer>>

Succeeds(results) ==
  /\ Walking /\ asking # NoOne
  /\ counted' = [counted EXCEPT ![asking] = "success"]
  /\ answer' = [answer EXCEPT !.state = "results", !.by = asking, !.results = results]
  /\ asking' = NoOne
  /\ UNCHANGED <<left, spent, since, timeout, problem>>

\* Faulty: a provider without results ends the walk.
ReplyOrNothing(page) == asking # NoOne /\ Succeeds(Results(asking, page))

Reply(page) ==
  /\ asking # NoOne
  /\ LET results == Results(asking, page)
     IN IF results = 0 THEN Fails("NoResults") ELSE Succeeds(results)

\* No response, or one that is not read.
Breaks ==
  \E kind \in {"Transport", "ResponseTooLarge", "HttpStatus", "MalformedResponse"} :
    Fails(kind)
TimesOut == spent - since >= timeout /\ Fails("Timeout")
CutOff == spent >= ChainBudget /\ Fails("BudgetExhausted")

\* Nobody is left to ask, or no time.
GiveUp ==
  /\ Walking /\ asking = NoOne
  /\ left = {} \/ spent > ChainBudget
  /\ problem' = IF problem = NoProblem
                THEN [provider |-> DuckDuckGo, kind |-> "BudgetExhausted"] ELSE problem
  /\ answer' = [answer EXCEPT !.state = "failed"]
  /\ UNCHANGED <<left, asking, spent, since, timeout, counted>>

\* The client goes, and the search with it.
Cancel ==
  /\ Walking
  /\ answer' = [answer EXCEPT !.state = "cancelled"]
  /\ asking' = NoOne
  /\ UNCHANGED <<left, spent, since, timeout, problem, counted>>

Next ==
  \/ \E call, said \in Lengths : search(call, said)
  \/ Ask \/ Tick
  \/ \E page \in Pages : Reply(page)
  \/ Breaks \/ TimesOut \/ CutOff \/ GiveUp \/ Cancel

-----------------------------------------------------------------------------
(* What a search comes to is accounted for.  Results, at most as many as
   configured, are of a configured provider; each one before it was asked and
   had none, and none after it was asked.  A search fails only after every
   provider was asked in vain or the budget was used up, names the one that was
   asked last, if any was, and says that it had no results exactly if it
   answered without; what the metrics count is the same.  No query a model can
   make is refused as invalid. *)
SearchAccounted ==
  LET before(p) == {q \in answer.of : q < p}
      inVain == {p \in answer.of : counted[p] \in {"empty", "failure"}}
      asked == {p \in answer.of : counted[p] # "none"}
  IN /\ answer.state # "invalid"
     /\ asked \cap left = {}
     /\ answer.state = "results" =>
          /\ answer.by \in answer.of /\ answer.results \in 1..MaxResults
          /\ inVain = before(answer.by) /\ asked = inVain \cup {answer.by}
     /\ answer.state = "failed" =>
          /\ asked = inVain
          /\ inVain = answer.of \/ spent > ChainBudget
          /\ asked # {} =>
               /\ problem.provider \in asked
               /\ asked = before(problem.provider) \cup {problem.provider}
               /\ problem.kind = "NoResults" <=> counted[problem.provider] = "empty"
=============================================================================
