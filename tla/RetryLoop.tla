----------------------------- MODULE RetryLoop -----------------------------
(***************************************************************************)
(* One upstream request (src/src/opencode/retry/execute/mod.rs,            *)
(* execute_retryable_request): select an egress route, send, and turn what *)
(* comes back into an outcome, a fallback model, another key, a sanitized  *)
(* request or another attempt.                                             *)
(*                                                                         *)
(* The provider answers as it likes.  Of the egress pool (EgressPool) only *)
(* what this request sees is kept: a selection offers any node except the  *)
(* excluded one and those under a rate limit, or none.                     *)
(***************************************************************************)
EXTENDS Integers

CONSTANTS
  Node,       \* indices of the egress pool
  Direct,     \* the route without an egress node
  NoRoute,
  Modes,      \* egress modes: some of "direct", "hybrid" and "proxy"
  NumModels,  \* length of the model retry list
  NumKeys,    \* upstream_api_keys; 0 when at most a single key is set
  MaxRetries, \* max_network_attempts
  MaxPolls    \* polls of 250 ms within the 30 s a selection may wait

MaxSanitizeRounds == 2

ASSUME RetryAssumption ==
  /\ Direct \notin Node /\ NoRoute \notin Node /\ Direct # NoRoute
  /\ Modes \subseteq {"direct", "hybrid", "proxy"}
  /\ NumModels \in Nat \ {0}
  /\ NumKeys \in Nat /\ MaxRetries \in Nat /\ MaxPolls \in Nat

VARIABLES
  mode,      \* the egress mode the bridge is configured with
  pc,        \* "select", "sent" or "done"
  model,     \* model_index
  retries,   \* retry_count
  keys,      \* key_attempts
  rounds,    \* compat_sanitize_rounds
  excluded,  \* last_failed_proxy
  route,     \* the route of the attempt, or the one retained for the next
  retained,  \* the route was retained by the previous attempt
  polls,     \* polls the current selection has waited
  request,   \* what the sanitizers still find in compatible_request
  penalised, \* nodes this request reported as rate limited, still in force
  limitedOn, \* the route the last answer rate limited for this model, or NoRoute
  outcome    \* how the request ended

vars ==
  <<mode, pc, model, retries, keys, rounds, excluded, route, retained, polls,
    request, penalised, limitedOn, outcome>>

\* tools: some assistant message has tool calls; missing: one of them lacks
\* reasoning; reasoning: the request carries reasoning fields; format: it has
\* a response_format.
Request ==
  [tools : BOOLEAN, missing : BOOLEAN, reasoning : BOOLEAN, format : BOOLEAN]

Init ==
  /\ mode \in Modes
  /\ pc = "select"
  /\ model = 0 /\ retries = 0 /\ keys = 0 /\ rounds = 0 /\ polls = 0
  /\ excluded = NoRoute /\ route = NoRoute /\ retained = FALSE
  /\ request \in {r \in Request : r.missing => r.tools}
  /\ penalised = {} /\ limitedOn = NoRoute
  /\ outcome = "none"

-----------------------------------------------------------------------------
(* select_route_for_attempt and select_route.                              *)

Offered == Node \ ({excluded} \cup penalised)

Take(r) ==
  /\ pc' = "sent" /\ route' = r /\ polls' = 0
  /\ UNCHANGED <<mode, model, retries, keys, rounds, excluded, retained,
                 request, penalised, limitedOn, outcome>>

UseRetained == pc = "select" /\ retained /\ Take(route)

\* Hybrid mode goes direct while the subsystem is not ready or no node is free.
SelectDirect ==
  /\ pc = "select" /\ ~retained
  /\ mode \in {"direct", "hybrid"}
  /\ Take(Direct)

SelectNode ==
  /\ pc = "select" /\ ~retained
  /\ mode \in {"hybrid", "proxy"}
  /\ \E n \in Offered : Take(n)

\* Proxy mode waits while a recovery may still bring a node back.
WaitForNode ==
  /\ pc = "select" /\ ~retained
  /\ mode = "proxy" /\ polls < MaxPolls
  /\ polls' = polls + 1
  /\ UNCHANGED <<mode, pc, model, retries, keys, rounds, excluded, route,
                 retained, request, penalised, limitedOn, outcome>>

End(result) ==
  /\ pc' = "done" /\ outcome' = result
  /\ UNCHANGED <<mode, model, rounds, request, polls>>

Fails(result) ==
  /\ End(result)
  /\ UNCHANGED <<retries, excluded, route, retained, penalised>>

NoNodeAvailable ==
  /\ pc = "select" /\ ~retained
  /\ mode = "proxy"
  /\ Fails("no_egress")
  /\ UNCHANGED <<keys, limitedOn>>

\* The caller gives up: the future is dropped at the await it is in.
Cancel ==
  /\ pc # "done"
  /\ Fails("cancelled")
  /\ UNCHANGED <<keys, limitedOn>>

\* A rate limit this request reported runs out, or somebody else clears it.
PenaltyExpires(n) ==
  /\ n \in penalised
  /\ penalised' = penalised \ {n}
  /\ UNCHANGED <<mode, pc, model, retries, keys, rounds, excluded, route,
                 retained, polls, request, limitedOn, outcome>>

-----------------------------------------------------------------------------
(* What the loop does next.                                                *)

CanRotate == NumKeys > 1 /\ keys + 1 < NumKeys
LastModel == model + 1 >= NumModels

MayRetry == retries < MaxRetries

\* continue, with the route (and its lease) kept or dropped.
Continue(keep) ==
  /\ pc' = "select"
  /\ retained' = keep
  /\ route' = IF keep THEN route ELSE NoRoute
  /\ UNCHANGED <<mode, polls, outcome>>

\* advance_model, then retry_count = 0 and last_failed_proxy = None.
AdvanceModel ==
  /\ ~LastModel
  /\ model' = model + 1
  /\ retries' = 0
  /\ excluded' = NoRoute
  /\ Continue(FALSE)
  /\ UNCHANGED <<rounds, request, penalised>>

-----------------------------------------------------------------------------
(* What comes back: 429, or 400 with a rate limit in its body.             *)

\* Faulty: the keys are taken in turn for ever.
RotateKeyForever ==
  /\ NumKeys > 1
  /\ keys' = (keys + 1) % NumKeys
  /\ Continue(TRUE)
  /\ UNCHANGED <<model, retries, rounds, excluded, request, penalised>>

RotateKey ==
  /\ CanRotate
  /\ keys' = keys + 1
  /\ Continue(TRUE)
  /\ UNCHANGED <<model, retries, rounds, excluded, request, penalised>>

\* Faulty: the retry after the backoff selects a route again.
PenaliseAndReselect(tooLong) ==
  /\ LastModel /\ MayRetry
  /\ retries' = retries + 1
  /\ excluded' = NoRoute
  /\ penalised' = IF route \in Node THEN penalised \cup {route} ELSE penalised
  /\ \/ tooLong /\ End("quota_wait") /\ UNCHANGED <<route, retained>>
     \/ ~tooLong /\ Continue(FALSE) /\ UNCHANGED <<model, rounds, request>>

\* apply_rate_limit_penalty, then the same egress again after a backoff
\* unless the provider asks for more than max_backoff.
Penalise(tooLong) ==
  /\ LastModel /\ MayRetry
  /\ retries' = retries + 1
  /\ excluded' = NoRoute
  /\ penalised' = IF route \in Node THEN penalised \cup {route} ELSE penalised
  /\ \/ tooLong /\ End("quota_wait") /\ UNCHANGED <<route, retained>>
     \/ ~tooLong /\ Continue(TRUE) /\ UNCHANGED <<model, rounds, request>>

RateLimited ==
  /\ pc = "sent"
  /\ \/ RotateKey /\ limitedOn' = route
     \/ /\ ~CanRotate
        /\ keys' = 0
        /\ \/ AdvanceModel /\ limitedOn' = NoRoute
           \/ (\E tooLong \in BOOLEAN : Penalise(tooLong)) /\ limitedOn' = route
           \/ LastModel /\ ~MayRetry /\ Fails("rate_limited") /\ limitedOn' = route

-----------------------------------------------------------------------------
(* What comes back otherwise: no such answer touches the key in use.       *)

NotLimited == pc = "sent" /\ keys' = keys /\ limitedOn' = NoRoute

\* 5xx, 403, 404: the next model, or fail without a retry.
ProviderRefuses ==
  /\ NotLimited
  /\ \/ AdvanceModel
     \/ LastModel /\ Fails("provider_error")

PaymentRequired == NotLimited /\ Fails("payment_required")

\* repair_missing_tool_reasoning, else disable_reasoning_compatibility, which
\* undoes the repair; and strip_response_format.
Sanitized(reasoningError, grammarError) ==
  LET r == request
      s == IF ~reasoningError THEN r
           ELSE IF r.missing
                THEN [r EXCEPT !.missing = FALSE, !.reasoning = TRUE]
                ELSE [r EXCEPT !.missing = r.tools, !.reasoning = FALSE]
  IN  IF grammarError THEN [s EXCEPT !.format = FALSE] ELSE s

Sanitizes(reasoningError, grammarError) ==
  \/ reasoningError /\ (request.missing \/ request.reasoning)
  \/ grammarError /\ request.format

\* 400 without a rate limit: sanitize what the body complains about.
Resend(reasoningError, grammarError) ==
  /\ request' = Sanitized(reasoningError, grammarError)
  /\ rounds' = rounds + 1
  /\ Continue(FALSE)
  /\ UNCHANGED <<model, retries, excluded, penalised>>

BadRequest(reasoningError, grammarError) ==
  LET changed == /\ rounds < MaxSanitizeRounds
                 /\ Sanitizes(reasoningError, grammarError)
  IN  /\ NotLimited
      /\ \/ changed /\ Resend(reasoningError, grammarError)
         \/ ~changed /\ AdvanceModel
         \/ ~changed /\ LastModel /\ Fails("bad_request")

\* Faulty: a success leaves the penalty of its node in force.
RespondsOnly(success) ==
  /\ NotLimited
  /\ Fails(IF success THEN "success" ELSE "response")

\* Anything else is handed to the caller with the lease; a success on a
\* retained route clears the penalty of its node.
Responds(success) ==
  /\ NotLimited
  /\ End(IF success THEN "success" ELSE "response")
  /\ penalised' = IF success /\ retained THEN penalised \ {route} ELSE penalised
  /\ UNCHANGED <<retries, excluded, route, retained>>

\* The request never reached the provider: record_failure, and another node.
NetworkError ==
  /\ NotLimited
  /\ \/ /\ MayRetry
        /\ retries' = retries + 1
        /\ excluded' = IF route \in Node THEN route ELSE excluded
        /\ Continue(FALSE)
        /\ UNCHANGED <<model, rounds, request, penalised>>
     \/ ~MayRetry /\ AdvanceModel
     \/ ~MayRetry /\ LastModel /\ Fails("network_error")

-----------------------------------------------------------------------------

Select ==
  UseRetained \/ SelectDirect \/ SelectNode \/ WaitForNode \/ NoNodeAvailable

Respond ==
  \/ RateLimited
  \/ ProviderRefuses
  \/ PaymentRequired
  \/ \E reasoningError, grammarError \in BOOLEAN :
       BadRequest(reasoningError, grammarError)
  \/ \E success \in BOOLEAN : Responds(success)
  \/ NetworkError

Next == Select \/ Respond \/ Cancel \/ \E n \in Node : PenaltyExpires(n)

Spec == Init /\ [][Next]_vars

\* The task is scheduled, and each of its awaits ends: the route wait has a
\* deadline, the HTTP client a timeout of 600 s, every backoff a cap.
FairSpec == Spec /\ WF_vars(Select \/ Respond)

-----------------------------------------------------------------------------
(* Properties.                                                             *)

TypeOK ==
  /\ mode \in Modes
  /\ pc \in {"select", "sent", "done"}
  /\ model \in 0 .. NumModels - 1
  /\ retries \in 0 .. MaxRetries
  /\ keys \in Nat /\ (keys = 0 \/ keys < NumKeys)
  /\ rounds \in 0 .. MaxSanitizeRounds
  /\ excluded \in Node \cup {NoRoute}
  /\ route \in Node \cup {Direct, NoRoute}
  /\ retained \in BOOLEAN
  /\ polls \in 0 .. MaxPolls
  /\ request \in Request
  /\ penalised \subseteq Node
  /\ limitedOn \in Node \cup {Direct, NoRoute}
  /\ outcome \in
       {"none", "success", "response", "rate_limited", "quota_wait", "no_egress",
        "provider_error", "payment_required", "bad_request", "network_error",
        "cancelled"}

\* What is left of the request's budgets, each weighed so that spending from
\* one pays for refilling those below it: an advance of the model refills
\* retry_count, a retry after a rate limit refills key_attempts.
KeySlots == IF NumKeys = 0 THEN 1 ELSE NumKeys
Weigh(m, r, k, c) == (m * (MaxRetries + 1) + r) * KeySlots + k + c

Remaining ==
  Weigh(NumModels - 1 - model, MaxRetries - retries, KeySlots - 1 - keys,
        MaxSanitizeRounds - rounds)

Promise == INSTANCE BoundedRequest
  WITH Budget <- Weigh(NumModels - 1, MaxRetries, KeySlots - 1, MaxSanitizeRounds),
       running <- pc # "done",
       fuel <- IF pc = "done" THEN 0 ELSE Remaining

\* Whatever the provider answers, and in whatever order keys, sanitizing,
\* retries and fallback models are used up, no chain of `continue`s refills
\* what it has spent: the loop implements BoundedRequest.
ImplementsBoundedRequest == Promise!Spec

\* Every request ends: contradictory sanitizations, rotations and waits for a
\* node never keep its client waiting for ever.
EveryRequestEnds == <>(pc = "done")

\* A request that succeeds on a node it had itself reported as rate limited
\* does not leave the node quarantined (clear_rate_limit_penalty_after_success).
ServedNodeNotPenalised == outcome = "success" => route \notin penalised

\* The attempt that follows a rate limited answer with the same model leaves
\* through the egress that answer came through, whether the loop rotated the
\* key or waited: "Provider 429/quota does not cause egress switching"
\* (docs/superpowers/plans/2026-08-24-hybrid-egress.md:1206).
RateLimitKeepsEgress ==
  [][pc = "select" /\ pc' = "sent" /\ limitedOn # NoRoute
       => route' = limitedOn]_vars

=============================================================================
