----------------------------- MODULE AnswersProofs -----------------------------
(***************************************************************************)
(* Theorems about the two stages of an answer.  About the upstream         *)
(* request: that it implements BoundedRequest (no chain of retries refills *)
(* a budget), that a node which served it is not left quarantined by it,   *)
(* and that a rate limit changes the egress only together with the model.  *)
(* And about the message a client gets, streamed or not, whatever the      *)
(* upstream streams hold, and for any number of searches.                  *)
(***************************************************************************)
EXTENDS RetryLoop, SyncMessage, SequenceTheorems, TLAPS

\* What ServedNodeNotPenalised rests on: the loop sends through a node it has
\* reported as rate limited only on a retained route.
RouteInv ==
  /\ pc = "sent" /\ route \in penalised => retained
  /\ outcome = "success" => pc = "done" /\ route \notin penalised

LoopInv == TypeOK /\ RouteInv

-----------------------------------------------------------------------------
(* Types.                                                                  *)

\* The types hold of a request that starts.
LEMMA InitTypes == Init => TypeOK
<1> SUFFICES ASSUME Init PROVE TypeOK
  OBVIOUS
<1>1. request \in Request
  BY DEF Init
<1>2. /\ model \in 0 .. NumModels - 1 /\ retries \in 0 .. MaxRetries
      /\ rounds \in 0 .. MaxSanitizeRounds /\ polls \in 0 .. MaxPolls
  BY RetryAssumption DEF Init, MaxSanitizeRounds
<1> QED
  BY <1>1, <1>2 DEF Init, TypeOK

\* The counters an advance of the model or another attempt leaves behind.
LEMMA Counters ==
  ASSUME TypeOK
  PROVE  /\ ~LastModel => model + 1 \in 0 .. NumModels - 1
         /\ MayRetry => retries + 1 \in 0 .. MaxRetries
         /\ 0 \in 0 .. MaxRetries
         /\ rounds < MaxSanitizeRounds => rounds + 1 \in 0 .. MaxSanitizeRounds
<1>1. /\ NumModels \in Nat /\ model \in 0 .. NumModels - 1
      /\ MaxRetries \in Nat /\ retries \in 0 .. MaxRetries
      /\ rounds \in 0 .. MaxSanitizeRounds
  BY RetryAssumption DEF TypeOK
<1> QED
  BY <1>1 DEF LastModel, MayRetry, MaxSanitizeRounds

\* Every step of the loop keeps the types.
LEMMA TypesKept == TypeOK /\ [Next]_vars => TypeOK'
<1> SUFFICES ASSUME TypeOK, [Next]_vars PROVE TypeOK'
  OBVIOUS
<1> USE RetryAssumption, Counters DEF TypeOK
<1>1. CASE UNCHANGED vars
  BY <1>1 DEF vars
<1>2. CASE Select
  BY <1>2 DEF Select, UseRetained, SelectDirect, SelectNode, WaitForNode,
              NoNodeAvailable, Take, Offered, Fails, End
<1>3. CASE Cancel
  BY <1>3 DEF Cancel, Fails, End
<1>4. CASE \E n \in Node : PenaltyExpires(n)
  BY <1>4 DEF PenaltyExpires
<1>5. CASE RateLimited
  <2>1. CASE RotateKey /\ limitedOn' = route
    BY <2>1 DEF RotateKey, CanRotate, Continue
  <2>2. CASE keys' = 0 /\ limitedOn' = NoRoute /\ AdvanceModel
    BY <2>2 DEF AdvanceModel, Continue
  <2>3. ASSUME NEW tooLong \in BOOLEAN, Penalise(tooLong),
               keys' = 0, limitedOn' = route
        PROVE  TypeOK'
    BY <2>3 DEF Penalise, Continue, End
  <2>4. CASE keys' = 0 /\ limitedOn' = route /\ Fails("rate_limited")
    BY <2>4 DEF Fails, End
  <2> QED
    BY <1>5, <2>1, <2>2, <2>3, <2>4 DEF RateLimited
<1>6. CASE ProviderRefuses
  BY <1>6 DEF ProviderRefuses, NotLimited, AdvanceModel, Continue,
              Fails, End
<1>7. CASE PaymentRequired
  BY <1>7 DEF PaymentRequired, NotLimited, Fails, End
<1>8. ASSUME NEW reasoningError \in BOOLEAN, NEW grammarError \in BOOLEAN,
             BadRequest(reasoningError, grammarError)
      PROVE  TypeOK'
  <2>1. Sanitized(reasoningError, grammarError) \in Request
    BY DEF Sanitized, Request
  <2>2. CASE rounds < MaxSanitizeRounds /\ Resend(reasoningError, grammarError)
    BY <1>8, <2>1, <2>2 DEF BadRequest, NotLimited, Resend, Continue
  <2>3. CASE AdvanceModel
    BY <1>8, <2>3 DEF BadRequest, NotLimited, AdvanceModel, Continue
  <2>4. CASE Fails("bad_request")
    BY <1>8, <2>4 DEF BadRequest, NotLimited, Fails, End
  <2> QED
    BY <1>8, <2>2, <2>3, <2>4 DEF BadRequest
<1>9. ASSUME NEW success \in BOOLEAN, Responds(success)
      PROVE  TypeOK'
  BY <1>9 DEF Responds, NotLimited, End
<1>10. CASE NetworkError
  <2>1. CASE /\ MayRetry /\ retries' = retries + 1
             /\ excluded' = IF route \in Node THEN route ELSE excluded
             /\ Continue(FALSE)
             /\ UNCHANGED <<model, rounds, request, penalised>>
    BY <1>10, <2>1 DEF NetworkError, NotLimited, Continue
  <2>2. CASE AdvanceModel
    BY <1>10, <2>2 DEF NetworkError, NotLimited, AdvanceModel, Continue
  <2>3. CASE Fails("network_error")
    BY <1>10, <2>3 DEF NetworkError, NotLimited, Fails, End
  <2> QED
    BY <1>10, <2>1, <2>2, <2>3 DEF NetworkError
<1> QED
  BY <1>1, <1>2, <1>3, <1>4, <1>5, <1>6, <1>7, <1>8, <1>9, <1>10
  DEF Next, Respond

\* The counters of a request stay within its budgets: retry_count within
\* max_network_attempts, key_attempts within the keys, model_index within the
\* retry list, sanitizing within its two rounds.
THEOREM LoopTypeCorrect == Spec => []TypeOK
  BY InitTypes, TypesKept, PTL DEF Spec

-----------------------------------------------------------------------------
(* Routes and penalties.                                                   *)

\* RouteInv is inductive given the types.
LEMMA RouteInvKept == TypeOK /\ RouteInv /\ [Next]_vars => RouteInv'
<1> SUFFICES ASSUME TypeOK, RouteInv, [Next]_vars PROVE RouteInv'
  OBVIOUS
<1> USE RetryAssumption DEF RouteInv
<1>1. CASE UNCHANGED vars
  BY <1>1 DEF vars
<1>2. CASE Select
  BY <1>2 DEF TypeOK, Select, UseRetained, SelectDirect, SelectNode, WaitForNode,
              NoNodeAvailable, Take, Offered, Fails, End
<1>3. CASE Cancel
  BY <1>3 DEF Cancel, Fails, End
<1>4. CASE \E n \in Node : PenaltyExpires(n)
  BY <1>4 DEF PenaltyExpires
<1>5. CASE RateLimited
  BY <1>5 DEF RateLimited, RotateKey, AdvanceModel, Penalise, Continue, Fails, End
<1>6. CASE ProviderRefuses
  BY <1>6 DEF ProviderRefuses, NotLimited, AdvanceModel, Continue, Fails, End
<1>7. CASE PaymentRequired
  BY <1>7 DEF PaymentRequired, NotLimited, Fails, End
<1>8. ASSUME NEW reasoningError \in BOOLEAN, NEW grammarError \in BOOLEAN,
             BadRequest(reasoningError, grammarError)
      PROVE  RouteInv'
  BY <1>8 DEF BadRequest, NotLimited, Resend, AdvanceModel, Continue, Fails, End
<1>9. ASSUME NEW success \in BOOLEAN, Responds(success)
      PROVE  RouteInv'
  BY <1>9 DEF Responds, NotLimited, End
<1>10. CASE NetworkError
  BY <1>10 DEF NetworkError, NotLimited, AdvanceModel, Continue, Fails, End
<1> QED
  BY <1>1, <1>2, <1>3, <1>4, <1>5, <1>6, <1>7, <1>8, <1>9, <1>10
  DEF Next, Respond

\* LoopInv holds of every state of a request.
LEMMA LoopInvariant == Spec => []LoopInv
<1>1. Init => RouteInv
  BY DEF Init, RouteInv
<1> QED
  BY <1>1, InitTypes, TypesKept, RouteInvKept, PTL DEF Spec, LoopInv

\* Whatever happens between the rate limit a request reported for a node and
\* its success on that node, the node is not left quarantined by it.
THEOREM ServedNodeReleased == Spec => []ServedNodeNotPenalised
<1>1. LoopInv => ServedNodeNotPenalised
  BY DEF LoopInv, RouteInv, ServedNodeNotPenalised
<1> QED
  BY <1>1, LoopInvariant, PTL

-----------------------------------------------------------------------------
(* Rate limits and the egress.                                             *)

\* Between a rate limited answer and the next attempt its route is retained.
EgressHeld ==
  pc = "select" /\ limitedOn # NoRoute => retained /\ route = limitedOn

\* No step gives up a rate limited route without advancing the model.
LEMMA EgressStaysHeld ==
  ASSUME TypeOK, EgressHeld, [Next]_vars
  PROVE  EgressHeld'
<1> USE DEF EgressHeld
<1>1. CASE UNCHANGED vars
  BY <1>1 DEF vars
<1>2. CASE Select
  BY <1>2 DEF Select, UseRetained, SelectDirect, SelectNode, WaitForNode,
              NoNodeAvailable, Take, Fails, End
<1>3. CASE Cancel
  BY <1>3 DEF Cancel, Fails, End
<1>4. CASE \E n \in Node : PenaltyExpires(n)
  BY <1>4 DEF PenaltyExpires
<1>5. CASE RateLimited
  BY <1>5 DEF RateLimited, RotateKey, AdvanceModel, Penalise, Continue, Fails, End
<1>6. CASE /\ Respond
           /\ limitedOn' = NoRoute
  BY <1>6
<1> QED
  BY <1>1, <1>2, <1>3, <1>4, <1>5, <1>6
  DEF Next, Respond, ProviderRefuses, PaymentRequired, BadRequest, Responds,
      NetworkError, NotLimited

\* With any number of keys, retries and fallback models, the attempt that
\* follows a rate limited answer with the same model leaves through the same
\* egress.
THEOREM RateLimitsKeepEgress == Spec => RateLimitKeepsEgress
<1>1. Init => EgressHeld
  BY DEF Init, EgressHeld
<1>2. TypeOK /\ EgressHeld /\ [Next]_vars => EgressHeld'
  BY EgressStaysHeld
<1>3. TypeOK /\ EgressHeld /\ [Next]_vars =>
        [pc = "select" /\ pc' = "sent" /\ limitedOn # NoRoute
           => route' = limitedOn]_vars
  <2> SUFFICES ASSUME TypeOK, EgressHeld, Next,
                      pc = "select", pc' = "sent", limitedOn # NoRoute
               PROVE  route' = limitedOn
    OBVIOUS
  <2>1. retained /\ route = limitedOn
    BY DEF EgressHeld
  <2>2. CASE Select
    BY <2>1, <2>2 DEF Select, UseRetained, SelectDirect, SelectNode, WaitForNode,
                      NoNodeAvailable, Take, Fails, End
  <2>3. ~Respond
    BY DEF Respond, RateLimited, ProviderRefuses, PaymentRequired, BadRequest,
           Responds, NetworkError, NotLimited
  <2>4. ~Cancel
    BY DEF Cancel, Fails, End
  <2>5. ~\E n \in Node : PenaltyExpires(n)
    BY DEF PenaltyExpires
  <2> QED
    BY <2>2, <2>3, <2>4, <2>5 DEF Next
<1> QED
  BY <1>1, <1>2, <1>3, LoopTypeCorrect, PTL DEF Spec, RateLimitKeepsEgress

-----------------------------------------------------------------------------
(* The budgets.                                                            *)

\* A smaller multiple of k is smaller by k at least.
LEMMA Multiples ==
  ASSUME NEW a \in Nat, NEW b \in Nat, NEW k \in Nat, b < a
  PROVE  /\ a * k \in Nat /\ b * k \in Nat
         /\ b * k + k <= a * k
<1>1. PICK d \in Nat : a = b + 1 + d
  BY a - b - 1 \in Nat
<1>2. a * k = b * k + k + d * k
  BY <1>1
<1>3. d * k \in Nat /\ b * k \in Nat /\ a * k \in Nat
  OBVIOUS
<1> QED
  BY <1>2, <1>3

\* The loop spends: one attempt (b for a) pays for every key, and a key or a
\* sanitizing round is paid for by itself.
LEMMA Spending ==
  ASSUME NEW a \in Nat, NEW b \in Nat, b < a, NEW K \in Nat,
         NEW k \in 0 .. K - 1, NEW l \in 0 .. K - 1, NEW c \in Nat
  PROVE  b * K + l + c \in 0 .. (a * K + k + c) - 1
<1>1. a * K \in Nat /\ b * K \in Nat /\ b * K + K <= a * K
  BY Multiples
<1> QED
  BY <1>1

\* The ranges of what is left, in every state of a request.
LEMMA Ranges ==
  ASSUME TypeOK
  PROVE  /\ KeySlots \in Nat \ {0}
         /\ KeySlots - 1 - keys \in 0 .. KeySlots - 1
         /\ NumModels - 1 - model \in Nat
         /\ MaxRetries - retries \in 0 .. MaxRetries
         /\ MaxSanitizeRounds - rounds \in Nat
<1>1. /\ NumModels \in Nat /\ model \in 0 .. NumModels - 1
      /\ MaxRetries \in Nat /\ retries \in 0 .. MaxRetries
      /\ rounds \in 0 .. MaxSanitizeRounds
      /\ NumKeys \in Nat /\ keys \in Nat /\ (keys = 0 \/ keys < NumKeys)
  BY RetryAssumption DEF TypeOK
<1> QED
  BY <1>1 DEF KeySlots, MaxSanitizeRounds

\* Models and retries together are worth a natural number of attempts.
LEMMA AttemptsNatural ==
  ASSUME NEW m \in Nat, NEW r \in Nat
  PROVE  m * (MaxRetries + 1) + r \in Nat
BY RetryAssumption

\* A fallback model pays for the retries it refills, and for the keys.
LEMMA AdvancePays ==
  ASSUME TypeOK, AdvanceModel, keys' \in {keys, 0}
  PROVE  Remaining' \in 0 .. Remaining - 1
<1> DEFINE m == NumModels - 1 - model
           r == MaxRetries - retries
           a == m * (MaxRetries + 1) + r
           b == (m - 1) * (MaxRetries + 1) + MaxRetries
<1>1. m \in Nat /\ m - 1 \in Nat /\ r \in Nat /\ MaxRetries \in Nat
  BY Ranges, RetryAssumption DEF AdvanceModel, LastModel, TypeOK
<1>2. a \in Nat /\ b \in Nat
  BY <1>1, AttemptsNatural
<1>3. b < a
  <2>1. m * (MaxRetries + 1) = (m - 1) * (MaxRetries + 1) + MaxRetries + 1
    BY <1>1
  <2> QED
    BY <1>1, <1>2, <2>1
<1>4. KeySlots - 1 - keys' \in 0 .. KeySlots - 1
  BY Ranges DEF TypeOK
<1>5. /\ Remaining = a * KeySlots + (KeySlots - 1 - keys)
                        + (MaxSanitizeRounds - rounds)
      /\ Remaining' = b * KeySlots + (KeySlots - 1 - keys')
                        + (MaxSanitizeRounds - rounds)
  <2>1. NumModels - 1 - model' = m - 1 /\ MaxRetries - retries' = MaxRetries
    BY <1>1, RetryAssumption DEF AdvanceModel, TypeOK
  <2>2. rounds' = rounds
    BY DEF AdvanceModel
  <2> QED
    BY <2>1, <2>2 DEF Remaining, Weigh, KeySlots, MaxSanitizeRounds
<1> HIDE DEF a, b
<1> QED
  BY <1>2, <1>3, <1>4, <1>5, Ranges, Spending

\* So does a retry, for the keys a rate limit refills.
LEMMA RetryPays ==
  ASSUME TypeOK, MayRetry, retries' = retries + 1, keys' \in {keys, 0},
         UNCHANGED <<model, rounds>>
  PROVE  Remaining' \in 0 .. Remaining - 1
<1> DEFINE m == NumModels - 1 - model
           r == MaxRetries - retries
           a == m * (MaxRetries + 1) + r
           b == m * (MaxRetries + 1) + (r - 1)
<1>1. m \in Nat /\ r \in Nat /\ r - 1 \in Nat
  BY Ranges, RetryAssumption DEF MayRetry, TypeOK
<1>2. a \in Nat /\ b \in Nat
  BY <1>1, AttemptsNatural
<1>3. b < a
  <2>1. m * (MaxRetries + 1) \in Nat
    BY <1>1, RetryAssumption
  <2> QED
    BY <1>1, <2>1
<1>4. KeySlots - 1 - keys' \in 0 .. KeySlots - 1
  BY Ranges DEF TypeOK
<1>5. /\ Remaining = a * KeySlots + (KeySlots - 1 - keys)
                        + (MaxSanitizeRounds - rounds)
      /\ Remaining' = b * KeySlots + (KeySlots - 1 - keys')
                        + (MaxSanitizeRounds - rounds)
  <2>1. NumModels - 1 - model' = m /\ MaxRetries - retries' = r - 1
    BY <1>1, RetryAssumption DEF TypeOK
  <2> QED
    BY <2>1 DEF Remaining, Weigh, KeySlots, MaxSanitizeRounds
<1> HIDE DEF a, b
<1> QED
  BY <1>2, <1>3, <1>4, <1>5, Ranges, Spending

\* A key or a sanitizing round costs one.
LEMMA StepPays ==
  ASSUME TypeOK, UNCHANGED <<model, retries>>,
         \/ RotateKey
         \/ rounds < MaxSanitizeRounds /\ rounds' = rounds + 1 /\ keys' = keys
  PROVE  Remaining' \in 0 .. Remaining - 1
<1> DEFINE w == ((NumModels - 1 - model) * (MaxRetries + 1)
                   + (MaxRetries - retries)) * KeySlots
<1>1. w \in Nat
  <2>1. KeySlots \in Nat /\ NumModels - 1 - model \in Nat
        /\ MaxRetries - retries \in Nat
    BY Ranges, RetryAssumption
  <2>2. (NumModels - 1 - model) * (MaxRetries + 1) + (MaxRetries - retries) \in Nat
    BY <2>1, AttemptsNatural
  <2> QED
    BY <2>1, <2>2
<1>2. /\ Remaining = w + (KeySlots - 1 - keys) + (MaxSanitizeRounds - rounds)
      /\ Remaining' = w + (KeySlots - 1 - keys') + (MaxSanitizeRounds - rounds')
  BY DEF Remaining, Weigh, KeySlots, MaxSanitizeRounds
<1> HIDE DEF w
<1>3. CASE RotateKey
  <2>1. keys' = keys + 1 /\ keys + 1 < KeySlots /\ rounds' = rounds
    BY <1>3 DEF RotateKey, CanRotate, KeySlots
  <2> QED
    BY <1>1, <1>2, <2>1, Ranges DEF TypeOK, MaxSanitizeRounds
<1>4. CASE rounds < MaxSanitizeRounds /\ rounds' = rounds + 1 /\ keys' = keys
  BY <1>1, <1>2, <1>4, Ranges DEF TypeOK, MaxSanitizeRounds
<1> QED
  BY <1>3, <1>4

-----------------------------------------------------------------------------
(* The refinement.                                                         *)

\* What a `continue` of the loop is to BoundedRequest.
Spends == pc = "sent" /\ pc' = "select" /\ Remaining' \in 0 .. Remaining - 1

\* A step of the loop waits or routes, spends, or ends the request.
LEMMA EveryStep ==
  ASSUME TypeOK, Next
  PROVE  \/ /\ pc # "done" /\ pc' # "done"
            /\ UNCHANGED <<model, retries, keys, rounds>>
         \/ UNCHANGED <<pc, model, retries, keys, rounds>>
         \/ Spends
         \/ pc # "done" /\ pc' = "done"
<1>1. CASE Select
  BY <1>1 DEF Select, UseRetained, SelectDirect, SelectNode, WaitForNode,
              NoNodeAvailable, Take, Fails, End
<1>2. CASE Cancel
  BY <1>2 DEF Cancel, Fails, End
<1>3. CASE \E n \in Node : PenaltyExpires(n)
  BY <1>3 DEF PenaltyExpires
<1>4. ASSUME pc = "sent", AdvanceModel, keys' \in {keys, 0}
      PROVE  Spends
  BY <1>4, AdvancePays DEF Spends, AdvanceModel, Continue
<1>5. CASE RateLimited
  <2>1. pc = "sent"
    BY <1>5 DEF RateLimited
  <2>2. CASE RotateKey
    BY <2>1, <2>2, StepPays DEF RotateKey, Continue, Spends
  <2>3. CASE keys' = 0 /\ AdvanceModel
    BY <1>4, <2>1, <2>3
  <2>4. ASSUME NEW tooLong \in BOOLEAN, Penalise(tooLong), keys' = 0
        PROVE  Spends \/ pc' = "done"
    <3>1. CASE tooLong
      BY <2>4, <3>1 DEF Penalise, End
    <3>2. CASE ~tooLong
      BY <2>1, <2>4, <3>2, RetryPays DEF Penalise, Continue, Spends
    <3> QED
      BY <3>1, <3>2
  <2>5. CASE Fails("rate_limited")
    BY <2>1, <2>5 DEF Fails, End
  <2> QED
    BY <1>5, <2>1, <2>2, <2>3, <2>4, <2>5 DEF RateLimited
<1>6. CASE ProviderRefuses
  BY <1>4, <1>6 DEF ProviderRefuses, NotLimited, Fails, End
<1>7. CASE PaymentRequired
  BY <1>7 DEF PaymentRequired, NotLimited, Fails, End
<1>8. ASSUME NEW reasoningError \in BOOLEAN, NEW grammarError \in BOOLEAN,
             BadRequest(reasoningError, grammarError)
      PROVE  Spends \/ (pc # "done" /\ pc' = "done")
  <2>1. pc = "sent" /\ keys' = keys
    BY <1>8 DEF BadRequest, NotLimited
  <2>2. CASE rounds < MaxSanitizeRounds /\ Resend(reasoningError, grammarError)
    <3>1. /\ rounds' = rounds + 1 /\ pc' = "select"
          /\ UNCHANGED <<model, retries>>
      BY <2>2 DEF Resend, Continue
    <3>2. Remaining' \in 0 .. Remaining - 1
      BY <2>1, <2>2, <3>1, StepPays
    <3> QED
      BY <2>1, <3>1, <3>2 DEF Spends
  <2>3. CASE AdvanceModel
    <3>1. Spends
      BY <1>4, <2>1, <2>3
    <3> QED
      BY <3>1
  <2>4. CASE Fails("bad_request")
    BY <2>1, <2>4 DEF Fails, End
  <2> QED
    BY <1>8, <2>2, <2>3, <2>4 DEF BadRequest
<1>9. ASSUME NEW success \in BOOLEAN, Responds(success)
      PROVE  pc # "done" /\ pc' = "done"
  BY <1>9 DEF Responds, NotLimited, End
<1>10. CASE NetworkError
  <2>1. pc = "sent" /\ keys' = keys
    BY <1>10 DEF NetworkError, NotLimited
  <2>2. CASE /\ MayRetry /\ retries' = retries + 1
             /\ Continue(FALSE)
             /\ UNCHANGED <<model, rounds>>
    BY <2>1, <2>2, RetryPays DEF Continue, Spends
  <2>3. CASE AdvanceModel
    BY <1>4, <2>1, <2>3
  <2>4. CASE Fails("network_error")
    BY <2>1, <2>4 DEF Fails, End
  <2> QED
    BY <1>10, <2>2, <2>3, <2>4 DEF NetworkError
<1> QED
  BY <1>1, <1>2, <1>3, <1>5, <1>6, <1>7, <1>8, <1>9, <1>10 DEF Next, Respond

\* For every number of models, keys, retries and nodes, and whatever the
\* provider answers, the loop implements BoundedRequest: it sends the request
\* at most Budget + 1 times and nothing after its end.
THEOREM LoopBounded == Spec => ImplementsBoundedRequest
<1>1. Init => Promise!Init
  <2>1. NumModels \in Nat /\ MaxRetries \in Nat /\ KeySlots \in Nat
    BY RetryAssumption DEF KeySlots
  <2> QED
    BY <2>1 DEF Init, Promise!Init, Remaining, Weigh, MaxSanitizeRounds
<1>2. TypeOK /\ [Next]_vars =>
        [Promise!Next]_<<pc # "done", IF pc = "done" THEN 0 ELSE Remaining>>
  <2> SUFFICES ASSUME TypeOK, [Next]_vars
               PROVE  \/ Promise!Next
                      \/ UNCHANGED <<pc # "done",
                                     IF pc = "done" THEN 0 ELSE Remaining>>
    OBVIOUS
  <2>1. CASE UNCHANGED vars \/ UNCHANGED <<pc, model, retries, keys, rounds>>
    BY <2>1 DEF vars, Remaining, Weigh, KeySlots, MaxSanitizeRounds
  <2>2. CASE /\ pc # "done" /\ pc' # "done"
             /\ UNCHANGED <<model, retries, keys, rounds>>
    BY <2>2 DEF Remaining, Weigh, KeySlots, MaxSanitizeRounds
  <2>3. CASE Spends
    BY <2>3 DEF Spends, Promise!Next, Promise!Retry
  <2>4. CASE pc # "done" /\ pc' = "done"
    BY <2>4 DEF Promise!Next, Promise!Finish
  <2> QED
    BY <2>1, <2>2, <2>3, <2>4, EveryStep
<1> QED
  BY <1>1, <1>2, LoopTypeCorrect, PTL
  DEF Spec, ImplementsBoundedRequest, Promise!Spec

-----------------------------------------------------------------------------
(***************************************************************************)
(* Messages.  Between the task and the client are the events the task has  *)
(* emitted and the client has not got yet.  What the task knows of the     *)
(* message is what the client will know once it has got them: MessageInv   *)
(* says that the events on their way lead the client from where it is to   *)
(* where the task takes it to be, one legal event after the other.         *)
(***************************************************************************)

\* What a client knows of its message.
Client ==
  [phase : {"idle", "streaming", "closing", "stopped", "failed"}, at : Int,
   open : {"none", "thinking", "text", "tool_use"}, tools : BOOLEAN]

\* A client that is at s may get the event e, and is at t then.
Takes(s, e, t) ==
  \/ /\ e.type = "start" /\ s.phase = "idle"
     /\ t.phase = "streaming" /\ t.at = s.at /\ t.open = s.open /\ t.tools = s.tools
  \/ /\ e.type = "open" /\ s.phase = "streaming" /\ s.open = "none"
     /\ e.kind \in Message!Kind /\ e.index = s.at + 1
     /\ t.phase = "streaming" /\ t.at = e.index /\ t.open = e.kind
     /\ t.tools = (s.tools \/ e.kind = "tool_use")
  \/ /\ e.type = "delta" /\ s.phase = "streaming" /\ e.kind = s.open /\ e.index = s.at
     /\ t = s
  \/ /\ e.type = "close" /\ s.phase = "streaming" /\ s.open # "none" /\ e.index = s.at
     /\ t.phase = "streaming" /\ t.at = s.at /\ t.open = "none" /\ t.tools = s.tools
  \/ /\ e.type = "reason" /\ s.phase = "streaming" /\ s.open = "none"
     /\ e.kind \in Message!StopReason /\ (e.kind = "tool_use" => s.tools)
     /\ t.phase = "closing" /\ t.at = s.at /\ t.open = s.open /\ t.tools = s.tools
  \/ /\ e.type = "stop" /\ s.phase = "closing"
     /\ t.phase = "stopped" /\ t.at = s.at /\ t.open = s.open /\ t.tools = s.tools
  \/ /\ e.type = "error" /\ s.phase = "streaming"
     /\ t.phase = "failed" /\ t.at = s.at /\ t.open = s.open /\ t.tools = s.tools

\* The events of q take a client from s to t.
Leads(s, q, t) ==
  \E f \in [0 .. Len(q) -> Client] :
    /\ f[0] = s /\ f[Len(q)] = t
    /\ \A i \in 1 .. Len(q) : Takes(f[i - 1], q[i], f[i])

-----------------------------------------------------------------------------
(* Sequences of events.                                                    *)

\* No event leads nowhere else.
LEMMA NothingLeads ==
  ASSUME NEW s \in Client PROVE Leads(s, <<>>, s)
<1> DEFINE f == [i \in 0 .. 0 |-> s]
<1>1. f \in [0 .. Len(<<>>) -> Client] /\ f[0] = s /\ f[Len(<<>>)] = s
  OBVIOUS
<1>2. \A i \in 1 .. Len(<<>>) : Takes(f[i - 1], (<<>>)[i], f[i])
  OBVIOUS
<1> HIDE DEF f
<1> QED BY <1>1, <1>2 DEF Leads

\* An event the client can get at the end of others leads one step further.
LEMMA OneMore ==
  ASSUME NEW s \in Client, NEW t \in Client, NEW u \in Client,
         NEW q \in Seq(Event), NEW e \in Event,
         Leads(s, q, t), Takes(t, e, u)
  PROVE  Leads(s, q \o <<e>>, u)
<1> DEFINE r == q \o <<e>>
           n == Len(q)
<1>1. PICK f \in [0 .. n -> Client] :
        /\ f[0] = s /\ f[n] = t
        /\ \A i \in 1 .. n : Takes(f[i - 1], q[i], f[i])
  BY DEF Leads
<1>2. n \in Nat /\ Len(r) = n + 1 /\ r[n + 1] = e /\ \A i \in 1 .. n : r[i] = q[i]
  <2>1. <<e>> \in Seq(Event) /\ Len(<<e>>) = 1 /\ (<<e>>)[1] = e
    OBVIOUS
  <2>2. n \in Nat
    BY LenProperties
  <2> QED BY <2>1, <2>2, ConcatProperties
<1> DEFINE g == [i \in 0 .. n + 1 |-> IF i = n + 1 THEN u ELSE f[i]]
<1>3. g \in [0 .. n + 1 -> Client] /\ g[0] = s /\ g[n + 1] = u
  BY <1>1, <1>2
<1>4. ASSUME NEW i \in 1 .. n + 1 PROVE Takes(g[i - 1], r[i], g[i])
  <2>1. CASE i = n + 1
    <3>1. g[i - 1] = t /\ g[i] = u /\ r[i] = e
      BY <2>1, <1>1, <1>2
    <3> QED BY <3>1
  <2>2. CASE i # n + 1
    <3>1. i \in 1 .. n /\ g[i - 1] = f[i - 1] /\ g[i] = f[i] /\ r[i] = q[i]
      BY <2>2, <1>2
    <3> QED BY <3>1, <1>1
  <2> QED BY <2>1, <2>2
<1> HIDE DEF g, r
<1>5. \E h \in [0 .. Len(r) -> Client] :
        /\ h[0] = s /\ h[Len(r)] = u
        /\ \A i \in 1 .. Len(r) : Takes(h[i - 1], r[i], h[i])
  BY <1>2, <1>3, <1>4
<1> QED BY <1>5 DEF Leads, r

\* The client gets the first one, and the others lead it on from there.
LEMMA FirstTaken ==
  ASSUME NEW s \in Client, NEW t \in Client,
         NEW q \in Seq(Event), q # <<>>, Leads(s, q, t)
  PROVE  \E r \in Client : Takes(s, Head(q), r) /\ Leads(r, Tail(q), t)
<1> DEFINE n == Len(q)
           p == Tail(q)
<1>1. PICK f \in [0 .. n -> Client] :
        /\ f[0] = s /\ f[n] = t
        /\ \A i \in 1 .. n : Takes(f[i - 1], q[i], f[i])
  BY DEF Leads
<1>2. n \in Nat \ {0} /\ Head(q) = q[1]
  BY EmptySeq
<1>3. Len(p) = n - 1 /\ \A i \in 1 .. n - 1 : p[i] = q[i + 1]
  BY HeadTailProperties
<1> DEFINE g == [i \in 0 .. n - 1 |-> f[i + 1]]
<1>4. g \in [0 .. n - 1 -> Client] /\ g[0] = f[1] /\ g[n - 1] = t
  BY <1>1, <1>2
<1>5. ASSUME NEW i \in 1 .. n - 1 PROVE Takes(g[i - 1], p[i], g[i])
  <2>1. g[i - 1] = f[i] /\ g[i] = f[i + 1] /\ p[i] = q[i + 1] /\ i + 1 \in 1 .. n
    BY <1>2, <1>3
  <2>2. Takes(f[(i + 1) - 1], q[i + 1], f[i + 1])
    BY <2>1, <1>1
  <2>3. (i + 1) - 1 = i
    OBVIOUS
  <2> QED BY <2>1, <2>2, <2>3
<1>6. Takes(s, Head(q), f[1]) /\ f[1] \in Client
  <2>1. Takes(f[1 - 1], q[1], f[1])
    BY <1>1, <1>2
  <2> QED BY <2>1, <1>1, <1>2
<1> HIDE DEF g, p
<1>7. Leads(f[1], p, t)
  <2>1. \E h \in [0 .. Len(p) -> Client] :
          /\ h[0] = f[1] /\ h[Len(p)] = t
          /\ \A i \in 1 .. Len(p) : Takes(h[i - 1], p[i], h[i])
    BY <1>3, <1>4, <1>5
  <2> QED BY <2>1 DEF Leads
<1> QED BY <1>6, <1>7 DEF p

-----------------------------------------------------------------------------
(* Contexts: what a task has emitted and knows.                            *)

Context ==
  [out : Seq(Event), next : Nat, active : {"none", "thinking", "text", "tool_use"},
   pending : BOOLEAN, reasoning : Retained \ {"dsml"}, text : Retained,
   visible : BOOLEAN, intercepting : BOOLEAN, retry : BOOLEAN,
   rejected : BOOLEAN, toolUse : BOOLEAN, stop : {"end_turn", "tool_use"}]

\* Every block has a number below the next one's.
Numbered(c) == \A i \in 1 .. Len(c.out) : c.out[i].index < c.next

\* A message that stops for tools has some.
Honest(c) == c.stop = "tool_use" => c.toolUse \/ c.intercepting

\* What has been emitted leads a client from s to where the tracker takes its
\* message to be; if b, it has got a tool call by then.
Sound(s, c, b) ==
  \E t \in Client :
    /\ Leads(s, c.out, t)
    /\ t.phase = "streaming" /\ t.at = c.next - 1 /\ t.open = c.active
    /\ b => t.tools

Between(c) == c \in Context /\ Numbered(c) /\ c.active # "tool_use"

\* What every handler of a line makes of a context.
Continues(c, d) ==
  /\ Between(d) /\ d.next >= c.next
  /\ Honest(c) => Honest(d)
  /\ d.intercepting => c.intercepting \/ ~synthesis
  /\ \A s \in Client : Sound(s, c, c.toolUse) => Sound(s, d, d.toolUse)

SameFlags(c, d) ==
  /\ d.pending = c.pending /\ d.reasoning = c.reasoning /\ d.text = c.text
  /\ d.visible = c.visible /\ d.intercepting = c.intercepting
  /\ d.retry = c.retry /\ d.rejected = c.rejected
  /\ d.toolUse = c.toolUse /\ d.stop = c.stop

LEMMA ContinuesItself == ASSUME NEW c, Between(c) PROVE Continues(c, c)
BY DEF Continues, Between, Context

LEMMA ContinuesOn ==
  ASSUME NEW c, NEW d, NEW e, Between(c), Continues(c, d), Continues(d, e)
  PROVE  Continues(c, e)
<1>1. c.next \in Nat /\ d.next \in Nat /\ e.next \in Nat
  BY DEF Continues, Between, Context
<1>2. e.next >= c.next
  BY <1>1 DEF Continues
<1> QED BY <1>2 DEF Continues

\* Flags say nothing about the events.
LEMMA FlagsContinue ==
  ASSUME NEW c, NEW d \in Context, Between(c),
         d.out = c.out, d.next = c.next, d.active = c.active,
         d.toolUse => c.toolUse,
         Honest(c) => Honest(d),
         d.intercepting => c.intercepting \/ ~synthesis
  PROVE  Continues(c, d)
<1>1. Between(d) /\ d.next >= c.next
  BY DEF Between, Numbered, Context
<1>2. \A s \in Client : Sound(s, c, c.toolUse) => Sound(s, d, d.toolUse)
  BY DEF Sound
<1> QED BY <1>1, <1>2 DEF Continues

LEMMA Events ==
  ASSUME NEW type \in {"start", "open", "delta", "close", "reason", "stop", "error"},
         NEW kind \in {"thinking", "text", "tool_use", "end_turn", "none"},
         NEW index \in Int
  PROVE  /\ Ev(type, kind, index) \in Event
         /\ Ev(type, kind, index).type = type
         /\ Ev(type, kind, index).kind = kind
         /\ Ev(type, kind, index).index = index
BY DEF Ev, Event

\* An event more.
LEMMA EmitShape ==
  ASSUME NEW c \in Context, NEW q \in Seq(Event)
  PROVE  /\ Emit(c, q) \in Context /\ Emit(c, q).out = c.out \o q
         /\ Emit(c, q).next = c.next /\ Emit(c, q).active = c.active
         /\ SameFlags(c, Emit(c, q))
<1>1. c.out \o q \in Seq(Event)
  BY ConcatProperties DEF Context
<1> QED BY <1>1 DEF Emit, Context, SameFlags

LEMMA Emitted ==
  ASSUME NEW c \in Context, NEW d \in Context, NEW e \in Event, Numbered(c),
         d.out = c.out \o <<e>>, d.next >= c.next, e.index < d.next
  PROVE  /\ Numbered(d)
         /\ \A s \in Client, t \in Client, u \in Client :
              Leads(s, c.out, t) /\ Takes(t, e, u) => Leads(s, d.out, u)
<1>1. c.out \in Seq(Event) /\ c.next \in Nat /\ d.next \in Nat
  BY DEF Context
<1>2. \A s \in Client, t \in Client, u \in Client :
        Leads(s, c.out, t) /\ Takes(t, e, u) => Leads(s, d.out, u)
  BY <1>1, OneMore
<1> DEFINE n == Len(c.out)
<1>3. n \in Nat /\ \A i \in 1 .. n : c.out[i] \in Event
  BY <1>1, LenProperties, ElementOfSeq
<1>4. Len(d.out) = n + 1 /\ d.out[n + 1] = e /\ \A i \in 1 .. n : d.out[i] = c.out[i]
  <2>1. <<e>> \in Seq(Event) /\ Len(<<e>>) = 1 /\ (<<e>>)[1] = e
    OBVIOUS
  <2> QED BY <1>1, <1>3, <2>1, ConcatProperties
<1>5. ASSUME NEW i \in 1 .. n + 1 PROVE d.out[i].index < d.next
  <2>1. CASE i = n + 1
    BY <1>4, <2>1
  <2>2. CASE i # n + 1
    <3>1. i \in 1 .. n
      BY <1>3, <2>2
    <3>2. c.out[i].index < c.next /\ c.out[i].index \in Int
      BY <1>3, <3>1 DEF Numbered, Event
    <3>3. d.out[i] = c.out[i]
      BY <1>4, <3>1
    <3> QED BY <1>1, <3>2, <3>3
  <2> QED BY <2>1, <2>2
<1>6. Numbered(d)
  BY <1>4, <1>5 DEF Numbered
<1> QED BY <1>2, <1>6

-----------------------------------------------------------------------------
(* Blocks.                                                                 *)

LEMMA CloseActiveSound ==
  ASSUME NEW c \in Context, Numbered(c)
  PROVE  LET d == CloseActive(c)
         IN  /\ d \in Context /\ Numbered(d)
             /\ d.next = c.next /\ d.active = "none" /\ SameFlags(c, d)
             /\ \A s \in Client, b \in BOOLEAN : Sound(s, c, b) => Sound(s, d, b)
<1> DEFINE d == CloseActive(c)
           e == Ev("close", c.active, c.next - 1)
<1>1. CASE c.active = "none"
  BY <1>1 DEF CloseActive, SameFlags
<1>2. CASE c.active # "none"
  <2>1. e \in Event /\ e.type = "close" /\ e.kind = c.active /\ e.index = c.next - 1
    BY Events DEF Context
  <2>2. d = [Emit(c, <<e>>) EXCEPT !.active = "none"]
    BY <1>2 DEF CloseActive
  <2> HIDE DEF e, d
  <2>3. <<e>> \in Seq(Event)
    BY <2>1
  <2>4. /\ d \in Context /\ d.out = c.out \o <<e>> /\ d.next = c.next
        /\ d.active = "none" /\ SameFlags(c, d)
    <3>1. /\ Emit(c, <<e>>) \in Context /\ Emit(c, <<e>>).out = c.out \o <<e>>
          /\ Emit(c, <<e>>).next = c.next /\ SameFlags(c, Emit(c, <<e>>))
      BY <2>3, EmitShape
    <3> QED BY <2>2, <3>1 DEF Context, SameFlags
  <2>5. c.next \in Nat
    BY DEF Context
  <2>6. /\ Numbered(d)
        /\ \A s \in Client, t \in Client, u \in Client :
             Leads(s, c.out, t) /\ Takes(t, e, u) => Leads(s, d.out, u)
    <3>1. d.next >= c.next /\ e.index < d.next
      BY <2>1, <2>4, <2>5
    <3> QED BY <2>1, <2>4, <3>1, Emitted
  <2>7. ASSUME NEW s \in Client, NEW b \in BOOLEAN, Sound(s, c, b)
        PROVE  Sound(s, d, b)
    <3>1. PICK t \in Client :
            /\ Leads(s, c.out, t)
            /\ t.phase = "streaming" /\ t.at = c.next - 1 /\ t.open = c.active
            /\ b => t.tools
      BY <2>7 DEF Sound
    <3> DEFINE u == [t EXCEPT !.open = "none"]
    <3>2. /\ u \in Client /\ u.phase = "streaming" /\ u.at = c.next - 1
          /\ u.open = "none" /\ u.tools = t.tools
      BY <3>1 DEF Client
    <3> HIDE DEF u
    <3>3. Takes(t, e, u)
      BY <1>2, <2>1, <3>1, <3>2 DEF Takes
    <3>4. Leads(s, d.out, u)
      BY <2>6, <3>1, <3>2, <3>3
    <3> QED BY <2>4, <3>1, <3>2, <3>4 DEF Sound
  <2> QED BY <2>4, <2>6, <2>7 DEF d
<1> QED BY <1>1, <1>2

LEMMA OpenBlockSound ==
  ASSUME NEW c \in Context, Numbered(c), NEW kind \in {"thinking", "text", "tool_use"}
  PROVE  LET d == OpenBlock(c, kind)
         IN  /\ d \in Context /\ Numbered(d)
             /\ d.next = c.next + 1 /\ d.active = kind /\ SameFlags(c, d)
             /\ \A s \in Client, b \in BOOLEAN :
                  Sound(s, c, b) => Sound(s, d, b \/ kind = "tool_use")
<1> DEFINE a == CloseActive(c)
           d == OpenBlock(c, kind)
           e == Ev("open", kind, c.next)
<1>1. /\ a \in Context /\ Numbered(a)
      /\ a.next = c.next /\ a.active = "none" /\ SameFlags(c, a)
      /\ \A s \in Client, b \in BOOLEAN : Sound(s, c, b) => Sound(s, a, b)
  BY CloseActiveSound
<1>2. e \in Event /\ e.type = "open" /\ e.kind = kind /\ e.index = c.next
  BY Events DEF Context
<1>3. d = [Emit(a, <<e>>) EXCEPT !.next = @ + 1, !.active = kind]
  BY DEF OpenBlock
<1> HIDE DEF a, d, e
<1>4. <<e>> \in Seq(Event)
  BY <1>2
<1>5. /\ d \in Context /\ d.out = a.out \o <<e>> /\ d.next = a.next + 1
      /\ d.active = kind /\ SameFlags(a, d)
  <2>1. /\ Emit(a, <<e>>) \in Context /\ Emit(a, <<e>>).out = a.out \o <<e>>
        /\ Emit(a, <<e>>).next = a.next /\ SameFlags(a, Emit(a, <<e>>))
    BY <1>1, <1>4, EmitShape
  <2>2. d = [Emit(a, <<e>>) EXCEPT !.next = a.next + 1, !.active = kind]
    BY <1>3, <2>1
  <2>3. a.next + 1 \in Nat
    BY <1>1 DEF Context
  <2> QED BY <2>1, <2>2, <2>3 DEF Context, SameFlags
<1>6. a.next \in Nat /\ c.next \in Nat
  BY <1>1 DEF Context
<1>7. /\ Numbered(d)
      /\ \A s \in Client, t \in Client, u \in Client :
           Leads(s, a.out, t) /\ Takes(t, e, u) => Leads(s, d.out, u)
  <2>1. d.next >= a.next /\ e.index < d.next
    BY <1>1, <1>2, <1>5, <1>6
  <2> QED BY <1>1, <1>2, <1>5, <2>1, Emitted
<1>8. ASSUME NEW s \in Client, NEW b \in BOOLEAN, Sound(s, c, b)
      PROVE  Sound(s, d, b \/ kind = "tool_use")
  <2>1. PICK t \in Client :
          /\ Leads(s, a.out, t)
          /\ t.phase = "streaming" /\ t.at = a.next - 1 /\ t.open = a.active
          /\ b => t.tools
    BY <1>1, <1>8 DEF Sound
  <2> DEFINE u == [phase |-> "streaming", at |-> c.next, open |-> kind,
                   tools |-> (t.tools \/ kind = "tool_use")]
  <2>2. /\ u \in Client /\ u.phase = "streaming" /\ u.at = c.next
        /\ u.open = kind /\ u.tools = (t.tools \/ kind = "tool_use")
    BY <1>6 DEF Client
  <2> HIDE DEF u
  <2>3. e.index = t.at + 1
    BY <1>1, <1>2, <1>6, <2>1
  <2>4. Takes(t, e, u)
    BY <1>1, <1>2, <2>1, <2>2, <2>3 DEF Takes, Message!Kind
  <2>5. Leads(s, d.out, u)
    BY <1>7, <2>1, <2>2, <2>4
  <2>6. u.at = d.next - 1
    BY <1>1, <1>5, <1>6, <2>2
  <2>7. (b \/ kind = "tool_use") => u.tools
    BY <2>1, <2>2
  <2> QED BY <1>5, <2>2, <2>5, <2>6, <2>7 DEF Sound
<1>9. SameFlags(c, d) /\ d.next = c.next + 1
  BY <1>1, <1>5 DEF SameFlags
<1> QED BY <1>5, <1>7, <1>8, <1>9 DEF d

LEMMA CloseActiveContinues ==
  ASSUME NEW c, Between(c)
  PROVE  Continues(c, CloseActive(c)) /\ CloseActive(c).active = "none"
         /\ SameFlags(c, CloseActive(c)) /\ CloseActive(c).next = c.next
<1> DEFINE d == CloseActive(c)
<1>1. /\ d \in Context /\ Numbered(d)
      /\ d.next = c.next /\ d.active = "none" /\ SameFlags(c, d)
      /\ \A s \in Client, b \in BOOLEAN : Sound(s, c, b) => Sound(s, d, b)
  BY CloseActiveSound DEF Between
<1> HIDE DEF d
<1>2. c.toolUse \in BOOLEAN /\ d.toolUse = c.toolUse /\ c.next \in Nat
  BY <1>1 DEF Between, Context, SameFlags
<1>3. Between(d) /\ d.next >= c.next
  BY <1>1, <1>2 DEF Between
<1>4. \A s \in Client : Sound(s, c, c.toolUse) => Sound(s, d, d.toolUse)
  BY <1>1, <1>2
<1>5. (Honest(c) => Honest(d)) /\ (d.intercepting => c.intercepting)
  BY <1>1 DEF Honest, SameFlags
<1>6. Continues(c, d)
  BY <1>3, <1>4, <1>5 DEF Continues
<1> QED BY <1>1, <1>6 DEF d

\* emit_thinking_fragment and emit_text_fragment.
LEMMA FragmentContinues ==
  ASSUME NEW c, Between(c), NEW kind \in {"thinking", "text"}
  PROVE  Continues(c, Fragment(c, kind))
<1> DEFINE b == IF c.intercepting THEN c
                ELSE IF c.active = kind THEN Emit(c, <<Ev("delta", kind, c.next - 1)>>)
                ELSE OpenBlock(c, kind)
           d == [b EXCEPT !.visible = TRUE]
<1>0. c \in Context /\ Numbered(c) /\ c.next \in Nat /\ c.toolUse \in BOOLEAN
  BY DEF Between, Context
<1>1. Continues(c, b)
  <2>1. CASE c.intercepting
    BY <2>1, ContinuesItself
  <2>2. CASE ~c.intercepting /\ c.active = kind
    <3> DEFINE e == Ev("delta", kind, c.next - 1)
               a == Emit(c, <<e>>)
    <3>1. e \in Event /\ e.type = "delta" /\ e.kind = kind /\ e.index = c.next - 1
      BY <1>0, Events
    <3>2. b = a
      BY <2>2
    <3> HIDE DEF e, b
    <3>3. <<e>> \in Seq(Event)
      BY <3>1
    <3>4. /\ a \in Context /\ a.out = c.out \o <<e>>
          /\ a.next = c.next /\ a.active = c.active /\ SameFlags(c, a)
      BY <1>0, <3>3, EmitShape
    <3> HIDE DEF a
    <3>5. a.next >= c.next /\ e.index < a.next
      BY <1>0, <3>1, <3>4
    <3>6. /\ Numbered(a)
          /\ \A s \in Client, t \in Client, u \in Client :
               Leads(s, c.out, t) /\ Takes(t, e, u) => Leads(s, a.out, u)
      BY <1>0, <3>1, <3>4, <3>5, Emitted
    <3>7. ASSUME NEW s \in Client, Sound(s, c, c.toolUse)
          PROVE  Sound(s, a, a.toolUse)
      <4>1. PICK t \in Client :
              /\ Leads(s, c.out, t)
              /\ t.phase = "streaming" /\ t.at = c.next - 1 /\ t.open = c.active
              /\ c.toolUse => t.tools
        BY <3>7 DEF Sound
      <4>2. Takes(t, e, t)
        BY <2>2, <3>1, <4>1 DEF Takes
      <4>3. Leads(s, a.out, t)
        BY <3>6, <4>1, <4>2
      <4> QED BY <3>4, <4>1, <4>3 DEF Sound, SameFlags
    <3>8. Between(a) /\ (Honest(c) => Honest(a)) /\ (a.intercepting => c.intercepting)
      BY <3>4, <3>6 DEF Between, Honest, SameFlags
    <3> QED BY <3>2, <3>5, <3>7, <3>8 DEF Continues
  <2>3. CASE ~c.intercepting /\ c.active # kind
    <3> DEFINE a == OpenBlock(c, kind)
    <3>1. /\ a \in Context /\ Numbered(a)
          /\ a.next = c.next + 1 /\ a.active = kind /\ SameFlags(c, a)
          /\ \A s \in Client, x \in BOOLEAN :
               Sound(s, c, x) => Sound(s, a, x \/ kind = "tool_use")
      BY <1>0, OpenBlockSound
    <3>2. b = a
      BY <2>3
    <3> HIDE DEF a, b
    <3>3. (c.toolUse \/ kind = "tool_use") = c.toolUse /\ a.toolUse = c.toolUse
      BY <1>0, <3>1 DEF SameFlags
    <3>4. \A s \in Client : Sound(s, c, c.toolUse) => Sound(s, a, a.toolUse)
      BY <1>0, <3>1, <3>3
    <3>5. a.next >= c.next
      BY <1>0, <3>1
    <3>6. Between(a) /\ (Honest(c) => Honest(a)) /\ (a.intercepting => c.intercepting)
      BY <3>1 DEF Between, Honest, SameFlags
    <3> QED BY <3>2, <3>4, <3>5, <3>6 DEF Continues
  <2> QED BY <2>1, <2>2, <2>3
<1> HIDE DEF b
<1>2. Between(b) /\ b \in Context
  BY <1>1 DEF Continues, Between
<1>3. /\ d \in Context /\ d.out = b.out /\ d.next = b.next /\ d.active = b.active
      /\ d.toolUse = b.toolUse /\ d.stop = b.stop /\ d.intercepting = b.intercepting
  BY <1>2 DEF Context
<1> HIDE DEF d
<1>4. Honest(b) => Honest(d)
  BY <1>3 DEF Honest
<1>5. Continues(b, d)
  BY <1>2, <1>3, <1>4, FlagsContinue
<1>6. Continues(c, d)
  BY <1>1, <1>5, ContinuesOn
<1> QED BY <1>6 DEF Fragment, b, d

\* A tool call is a whole block, and the message has one from then on.
LEMMA ToolUseContinues ==
  ASSUME NEW c, Between(c)
  PROVE  Continues(c, ToolUse(c))
<1> DEFINE a == OpenBlock(c, "tool_use")
           b == CloseActive(a)
           d == [b EXCEPT !.toolUse = TRUE, !.stop = "tool_use"]
<1>0. c \in Context /\ Numbered(c) /\ c.next \in Nat /\ c.toolUse \in BOOLEAN
  BY DEF Between, Context
<1>1. /\ a \in Context /\ Numbered(a) /\ a.next = c.next + 1 /\ SameFlags(c, a)
      /\ \A s \in Client, x \in BOOLEAN :
           Sound(s, c, x) => Sound(s, a, x \/ "tool_use" = "tool_use")
  BY <1>0, OpenBlockSound
<1> HIDE DEF a
<1>2. /\ b \in Context /\ Numbered(b)
      /\ b.next = a.next /\ b.active = "none" /\ SameFlags(a, b)
      /\ \A s \in Client, x \in BOOLEAN : Sound(s, a, x) => Sound(s, b, x)
  BY <1>1, CloseActiveSound
<1> HIDE DEF b
<1>3. /\ d \in Context /\ d.out = b.out /\ d.next = b.next /\ d.active = b.active
      /\ d.toolUse = TRUE /\ d.intercepting = b.intercepting
  BY <1>2 DEF Context
<1> HIDE DEF d
<1>4. Between(d) /\ d.next >= c.next
  BY <1>0, <1>1, <1>2, <1>3 DEF Between, Numbered
<1>5. ASSUME NEW s \in Client, Sound(s, c, c.toolUse) PROVE Sound(s, d, d.toolUse)
  <2>1. Sound(s, a, c.toolUse \/ "tool_use" = "tool_use")
    BY <1>0, <1>1, <1>5
  <2>2. (c.toolUse \/ "tool_use" = "tool_use") = TRUE
    OBVIOUS
  <2>3. Sound(s, b, TRUE)
    BY <1>2, <2>1, <2>2
  <2> QED BY <1>3, <2>3 DEF Sound
<1>6. Honest(d) /\ (d.intercepting => c.intercepting)
  BY <1>1, <1>2, <1>3 DEF Honest, SameFlags
<1>7. Continues(c, d)
  BY <1>4, <1>5, <1>6 DEF Continues
<1> QED BY <1>7 DEF ToolUse, Block, a, b, d

LEMMA TextBlockContinues ==
  ASSUME NEW c, Between(c)
  PROVE  Continues(c, Block(c, "text")) /\ Block(c, "text").active = "none"
<1> DEFINE a == OpenBlock(c, "text")
           b == CloseActive(a)
<1>0. c \in Context /\ Numbered(c) /\ c.next \in Nat /\ c.toolUse \in BOOLEAN
  BY DEF Between, Context
<1>1. /\ a \in Context /\ Numbered(a) /\ a.next = c.next + 1 /\ SameFlags(c, a)
      /\ a.active = "text"
      /\ \A s \in Client, x \in BOOLEAN :
           Sound(s, c, x) => Sound(s, a, x \/ "text" = "tool_use")
  BY <1>0, OpenBlockSound
<1> HIDE DEF a
<1>2. (c.toolUse \/ "text" = "tool_use") = c.toolUse /\ a.toolUse = c.toolUse
  BY <1>0, <1>1 DEF SameFlags
<1>3. Between(a) /\ a.next >= c.next
  BY <1>0, <1>1 DEF Between
<1>4. \A s \in Client : Sound(s, c, c.toolUse) => Sound(s, a, a.toolUse)
  BY <1>0, <1>1, <1>2
<1>5. (Honest(c) => Honest(a)) /\ (a.intercepting => c.intercepting)
  BY <1>1 DEF Honest, SameFlags
<1>6. Continues(c, a)
  BY <1>3, <1>4, <1>5 DEF Continues
<1>7. Continues(a, b) /\ b.active = "none"
  BY <1>3, CloseActiveContinues
<1> HIDE DEF b
<1>8. Continues(c, b)
  BY <1>6, <1>7, ContinuesOn
<1> QED BY <1>7, <1>8 DEF Block, a, b

-----------------------------------------------------------------------------
(* Tool calls and retained text.                                           *)

Outcome == {"malformed", "tools", "search", "duplicate"}

\* A search is offered only as long as one may be made.
LEMMA CallsOffered ==
  ASSUME NEW c, NEW offers \in BOOLEAN, NEW calls \in Calls(c, offers)
  PROVE  calls \in Outcome /\ (calls = "search" => ~synthesis)
BY DEF Calls, Outcome

LEMMA MalformedContinues ==
  ASSUME NEW c, Between(c)
  PROVE  Continues(c, Malformed(c))
<1> DEFINE d == [c EXCEPT !.retry = TRUE]
<1>0. c \in Context
  BY DEF Between
<1>1. /\ d \in Context /\ d.out = c.out /\ d.next = c.next /\ d.active = c.active
      /\ d.toolUse = c.toolUse /\ d.stop = c.stop /\ d.intercepting = c.intercepting
  BY <1>0 DEF Context
<1> HIDE DEF d
<1>2. Continues(c, d)
  BY <1>1, FlagsContinue DEF Honest
<1>3. Malformed(c) = IF c.toolUse THEN c ELSE d
  BY DEF Malformed, d
<1> QED BY <1>2, <1>3, ContinuesItself

LEMMA EncodedCallsContinue ==
  ASSUME NEW c, Between(c), NEW calls \in Outcome, calls = "search" => ~synthesis
  PROVE  Continues(c, EncodedCalls(c, calls))
<1>1. CASE calls = "malformed"
  <2>1. EncodedCalls(c, calls) = Malformed(c)
    BY <1>1 DEF EncodedCalls
  <2> QED BY <2>1, MalformedContinues
<1>2. CASE calls = "search"
  <2> DEFINE d == [c EXCEPT !.intercepting = TRUE]
  <2>1. c \in Context
    BY DEF Between
  <2>2. /\ d \in Context /\ d.out = c.out /\ d.next = c.next /\ d.active = c.active
        /\ d.toolUse = c.toolUse /\ d.stop = c.stop /\ d.intercepting = TRUE
    BY <2>1 DEF Context
  <2>3. EncodedCalls(c, calls) = d
    BY <1>2 DEF EncodedCalls
  <2> HIDE DEF d
  <2>4. Continues(c, d)
    BY <1>2, <2>2, FlagsContinue DEF Honest
  <2> QED BY <2>3, <2>4
<1>3. CASE calls = "tools"
  <2>1. EncodedCalls(c, calls) = ToolUse(c)
    BY <1>3 DEF EncodedCalls
  <2> QED BY <2>1, ToolUseContinues
<1>4. CASE calls = "duplicate"
  <2>1. EncodedCalls(c, calls) = c
    BY <1>4 DEF EncodedCalls
  <2> QED BY <2>1, ContinuesItself
<1> QED BY <1>1, <1>2, <1>3, <1>4 DEF Outcome

LEMMA FinalizeContinues ==
  ASSUME NEW c, Between(c), NEW calls \in Outcome, calls = "search" => ~synthesis
  PROVE  Continues(c, Finalize(c, calls))
<1> DEFINE d == [c EXCEPT !.pending = FALSE]
           m == [d EXCEPT !.retry = TRUE, !.stop = "end_turn"]
           w == [d EXCEPT !.intercepting = TRUE, !.rejected = FALSE, !.stop = "tool_use"]
           r == [d EXCEPT !.rejected = FALSE]
<1>0. c \in Context
  BY DEF Between
<1>1. /\ d \in Context /\ d.out = c.out /\ d.next = c.next /\ d.active = c.active
      /\ d.toolUse = c.toolUse /\ d.stop = c.stop /\ d.intercepting = c.intercepting
  BY <1>0 DEF Context
<1>2. /\ m \in Context /\ m.out = d.out /\ m.next = d.next /\ m.active = d.active
      /\ m.toolUse = d.toolUse /\ m.stop = "end_turn" /\ m.intercepting = d.intercepting
  BY <1>1 DEF Context
<1>3. /\ w \in Context /\ w.out = d.out /\ w.next = d.next /\ w.active = d.active
      /\ w.toolUse = d.toolUse /\ w.intercepting = TRUE
  BY <1>1 DEF Context
<1>4. /\ r \in Context /\ r.out = d.out /\ r.next = d.next /\ r.active = d.active
      /\ r.toolUse = d.toolUse /\ r.stop = d.stop /\ r.intercepting = d.intercepting
  BY <1>1 DEF Context
<1>5. Finalize(c, calls) =
        IF ~c.pending \/ c.retry THEN c
        ELSE CASE calls = "malformed" -> IF c.toolUse THEN d ELSE m
               [] calls = "search" -> w
               [] calls = "tools" -> ToolUse(r)
               [] calls = "duplicate" -> d
  BY DEF Finalize
<1> HIDE DEF d, m, w, r
<1>6. Continues(c, d)
  BY <1>1, FlagsContinue DEF Honest
<1>7. Continues(c, m)
  BY <1>1, <1>2, FlagsContinue DEF Honest
<1>8. calls = "search" => Continues(c, w)
  BY <1>1, <1>3, FlagsContinue DEF Honest
<1>9. Continues(c, ToolUse(r))
  <2>1. Continues(c, r)
    BY <1>1, <1>4, FlagsContinue DEF Honest
  <2>2. Continues(r, ToolUse(r))
    BY <2>1, ToolUseContinues DEF Continues
  <2> QED BY <2>1, <2>2, ContinuesOn
<1>10. Continues(c, c)
  BY ContinuesItself
<1>11. CASE ~c.pending \/ c.retry
  BY <1>5, <1>10, <1>11
<1>12. CASE ~(~c.pending \/ c.retry)
  <2>1. CASE calls = "malformed"
    BY <1>5, <1>6, <1>7, <1>12, <2>1
  <2>2. CASE calls = "search"
    BY <1>5, <1>8, <1>12, <2>2
  <2>3. CASE calls = "tools"
    BY <1>5, <1>9, <1>12, <2>3
  <2>4. CASE calls = "duplicate"
    BY <1>5, <1>6, <1>12, <2>4
  <2> QED BY <2>1, <2>2, <2>3, <2>4 DEF Outcome
<1> QED BY <1>11, <1>12

LEMMA ReleaseContinues ==
  ASSUME NEW c, Between(c), NEW held, NEW kind \in {"thinking", "text"},
         NEW how \in Outcome \cup {"pass", "reject"}, how = "search" => ~synthesis
  PROVE  Continues(c, Release(c, held, kind, how))
<1> DEFINE d == [c EXCEPT !.rejected = TRUE]
<1>0. c \in Context
  BY DEF Between
<1>1. /\ d \in Context /\ d.out = c.out /\ d.next = c.next /\ d.active = c.active
      /\ d.toolUse = c.toolUse /\ d.stop = c.stop /\ d.intercepting = c.intercepting
  BY <1>0 DEF Context
<1>2. Release(c, held, kind, how) =
        IF held = "none" THEN c
        ELSE IF how = "pass" THEN Fragment(c, kind)
        ELSE IF how = "reject" THEN d
        ELSE EncodedCalls(c, how)
  BY DEF Release
<1> HIDE DEF d
<1>3. Continues(c, d)
  BY <1>1, FlagsContinue DEF Honest
<1>4. Continues(c, c) /\ Continues(c, Fragment(c, kind))
  BY ContinuesItself, FragmentContinues
<1>5. CASE how \in {"pass", "reject"}
  BY <1>2, <1>3, <1>4, <1>5
<1>6. CASE how \in Outcome
  <2>1. Continues(c, EncodedCalls(c, how))
    BY <1>6, EncodedCallsContinue
  <2>2. how \notin {"pass", "reject"}
    BY <1>6 DEF Outcome
  <2> QED BY <1>2, <1>4, <2>1, <2>2
<1> QED BY <1>5, <1>6

LEMMA ReleasesOffered ==
  ASSUME NEW c, NEW held, NEW offers \in BOOLEAN, NEW how \in Releases(c, held, offers)
  PROVE  how \in Outcome \cup {"pass", "reject"} /\ (how = "search" => ~synthesis)
<1>1. \A calls \in Calls(c, offers) :
        calls \in Outcome /\ (calls = "search" => ~synthesis)
  BY CallsOffered
<1>2. how \in Calls(c, offers) \/ how \in {"pass", "reject"}
  BY DEF Releases
<1> QED BY <1>1, <1>2

\* Everything that may become of what is retained at the end.
LEMMA FlushContinues ==
  ASSUME NEW c, Between(c), NEW offers \in BOOLEAN, NEW d \in Flush(c, offers)
  PROVE  Continues(c, d)
<1>1. ASSUME NEW n \in FlushNative(c, offers) PROVE Continues(c, n)
  <2>1. CASE c.pending /\ ~c.retry
    <3>1. PICK calls \in Calls(c, offers) : n = Finalize(c, calls)
      BY <1>1, <2>1 DEF FlushNative
    <3> QED BY <3>1, CallsOffered, FinalizeContinues
  <2>2. CASE ~(c.pending /\ ~c.retry)
    <3>1. n = c
      BY <1>1, <2>2 DEF FlushNative
    <3> QED BY <3>1, ContinuesItself
  <2> QED BY <2>1, <2>2
<1>2. ASSUME NEW n, Between(n), NEW r \in FlushReasoning(n, offers)
      PROVE  Continues(n, r)
  <2>1. PICK how \in Releases(n, n.reasoning, offers) :
          r = [Release(n, n.reasoning, "thinking", how) EXCEPT !.reasoning = "none"]
    BY <1>2 DEF FlushReasoning
  <2> DEFINE m == Release(n, n.reasoning, "thinking", how)
  <2>2. Continues(n, m)
    BY <1>2, ReleasesOffered, ReleaseContinues
  <2> HIDE DEF m
  <2>3. Between(m) /\ m \in Context
    BY <2>2 DEF Continues, Between
  <2>4. r = [m EXCEPT !.reasoning = "none"]
    BY <2>1 DEF m
  <2>5. /\ r \in Context /\ r.out = m.out /\ r.next = m.next /\ r.active = m.active
        /\ r.toolUse = m.toolUse /\ r.stop = m.stop /\ r.intercepting = m.intercepting
    BY <2>3, <2>4 DEF Context, Retained
  <2>6. Continues(m, r)
    BY <2>3, <2>5, FlagsContinue DEF Honest
  <2> QED BY <1>2, <2>2, <2>6, ContinuesOn
<1>3. ASSUME NEW n, Between(n), NEW r \in FlushText(n, offers)
      PROVE  Continues(n, r)
  <2>1. CASE n.intercepting
    <3>1. r = n
      BY <1>3, <2>1 DEF FlushText
    <3> QED BY <1>3, <3>1, ContinuesItself
  <2>2. CASE ~n.intercepting
    <3>1. PICK how \in Releases(n, n.text, offers) :
            r = [Release(n, n.text, "text", how) EXCEPT !.text = "none"]
      BY <1>3, <2>2 DEF FlushText
    <3> DEFINE m == Release(n, n.text, "text", how)
    <3>2. Continues(n, m)
      BY <1>3, ReleasesOffered, ReleaseContinues
    <3> HIDE DEF m
    <3>3. Between(m) /\ m \in Context
      BY <3>2 DEF Continues, Between
    <3>4. r = [m EXCEPT !.text = "none"]
      BY <3>1 DEF m
    <3>5. /\ r \in Context /\ r.out = m.out /\ r.next = m.next /\ r.active = m.active
          /\ r.toolUse = m.toolUse /\ r.stop = m.stop /\ r.intercepting = m.intercepting
      BY <3>3, <3>4 DEF Context, Retained
    <3>6. Continues(m, r)
      BY <3>3, <3>5, FlagsContinue DEF Honest
    <3> QED BY <1>3, <3>2, <3>6, ContinuesOn
  <2> QED BY <2>1, <2>2
<1>4. PICK n \in FlushNative(c, offers) :
        d \in IF Settled(n) THEN {n}
              ELSE UNION {FlushText(r, offers) : r \in FlushReasoning(n, offers)}
  BY DEF Flush
<1>5. Continues(c, n) /\ Between(n)
  BY <1>1, <1>4 DEF Continues
<1>6. CASE Settled(n)
  <2>1. d = n
    BY <1>4, <1>6
  <2> QED BY <1>5, <2>1
<1>7. CASE ~Settled(n)
  <2>1. PICK r \in FlushReasoning(n, offers) : d \in FlushText(r, offers)
    BY <1>4, <1>7
  <2>2. Continues(n, r) /\ Between(r)
    BY <1>2, <1>5, <2>1 DEF Continues
  <2>3. Continues(r, d)
    BY <1>3, <2>1, <2>2
  <2>4. Continues(c, r)
    BY <1>5, <2>2, ContinuesOn
  <2> QED BY <2>2, <2>3, <2>4, ContinuesOn
<1> QED BY <1>6, <1>7

-----------------------------------------------------------------------------
(* How an attempt ends.                                                    *)

\* What c has emitted leads a client from s to the phase p, and to where the
\* tracker takes its message to be; if b, it has got a tool call by then.
Reaches(s, c, p, b) ==
  \E t \in Client :
    /\ Leads(s, c.out, t)
    /\ t.phase = p /\ t.at = c.next - 1 /\ t.open = c.active
    /\ b => t.tools

LEMMA FreshShape ==
  ASSUME NEW next \in Nat, NEW active \in {"none", "thinking", "text"}
  PROVE  LET c == Fresh(next, active)
         IN  /\ Between(c) /\ Honest(c)
             /\ c.out = <<>> /\ c.next = next /\ c.active = active
             /\ c.toolUse = FALSE /\ c.intercepting = FALSE
<1> DEFINE c == Fresh(next, active)
           empty == <<>>
<1>1. /\ c.out = empty /\ c.next = next /\ c.active = active
      /\ c.toolUse = FALSE /\ c.intercepting = FALSE /\ c.stop = "end_turn"
  BY DEF Fresh
<1>2. c \in Context
  <2>1. empty \in Seq(Event)
    OBVIOUS
  <2> HIDE DEF empty
  <2>2. c = [out |-> empty, next |-> next, active |-> active,
             pending |-> FALSE, reasoning |-> "none", text |-> "none",
             visible |-> FALSE, intercepting |-> FALSE, retry |-> FALSE,
             rejected |-> FALSE, toolUse |-> FALSE, stop |-> "end_turn"]
    BY DEF Fresh, empty
  <2> QED BY <2>1, <2>2 DEF Context, Retained
<1>3. Len(c.out) = 0
  BY <1>1
<1> HIDE DEF c
<1>4. Numbered(c) /\ Honest(c)
  BY <1>1, <1>3 DEF Numbered, Honest
<1> QED BY <1>1, <1>2, <1>4 DEF Between, c

LEMMA DroppedShape ==
  ASSUME NEW c, Between(c)
  PROVE  LET d == Dropped(c)
         IN  /\ Between(d) /\ Honest(d)
             /\ d.out = c.out /\ d.next = c.next /\ d.active = c.active
             /\ d.toolUse = FALSE /\ d.intercepting = FALSE
             /\ \A s, p, b : Reaches(s, c, p, b) => Reaches(s, d, p, FALSE)
<1> DEFINE f == Fresh(c.next, c.active)
           d == Dropped(c)
<1>1. c \in Context /\ c.next \in Nat /\ c.active \in {"none", "thinking", "text"}
      /\ c.out \in Seq(Event) /\ Numbered(c)
  BY DEF Between, Context
<1>2. /\ f \in Context /\ f.next = c.next /\ f.active = c.active
      /\ f.toolUse = FALSE /\ f.intercepting = FALSE /\ f.stop = "end_turn"
  <2>1. Between(f) /\ f.next = c.next /\ f.active = c.active
        /\ f.toolUse = FALSE /\ f.intercepting = FALSE
    BY <1>1, FreshShape
  <2>2. f.stop = "end_turn"
    BY DEF Fresh
  <2> QED BY <2>1, <2>2 DEF Between
<1>3. d = [f EXCEPT !.out = c.out]
  BY DEF Dropped
<1> HIDE DEF d, f
<1>4. /\ d \in Context /\ d.out = c.out /\ d.next = c.next /\ d.active = c.active
      /\ d.toolUse = FALSE /\ d.intercepting = FALSE /\ d.stop = "end_turn"
  BY <1>1, <1>2, <1>3 DEF Context
<1>5. Between(d) /\ Honest(d)
  BY <1>1, <1>4 DEF Between, Numbered, Honest
<1>6. \A s, p, b : Reaches(s, c, p, b) => Reaches(s, d, p, FALSE)
  BY <1>4 DEF Reaches
<1> QED BY <1>4, <1>5, <1>6 DEF d

LEMMA SoundReaches ==
  ASSUME NEW s, NEW c, NEW b
  PROVE  Sound(s, c, b) <=> Reaches(s, c, "streaming", b)
BY DEF Sound, Reaches

\* An event without a block, from the phase p to the phase n.
LEMMA Told ==
  ASSUME NEW c, Between(c), NEW e \in Event, e.index = -1,
         NEW p, NEW n \in {"streaming", "closing", "stopped", "failed"},
         \/ e.type = "start" /\ p = "idle" /\ n = "streaming"
         \/ e.type = "stop" /\ p = "closing" /\ n = "stopped"
         \/ e.type = "error" /\ p = "streaming" /\ n = "failed"
  PROVE  LET d == Emit(c, <<e>>)
         IN  /\ Between(d) /\ d.next = c.next /\ d.active = c.active /\ SameFlags(c, d)
             /\ \A s \in Client : \A b : Reaches(s, c, p, b) => Reaches(s, d, n, b)
<1> DEFINE d == Emit(c, <<e>>)
<1>1. c \in Context /\ Numbered(c) /\ c.active # "tool_use" /\ c.next \in Nat
  BY DEF Between, Context
<1>2. <<e>> \in Seq(Event)
  OBVIOUS
<1>3. /\ d \in Context /\ d.out = c.out \o <<e>>
      /\ d.next = c.next /\ d.active = c.active /\ SameFlags(c, d)
  BY <1>1, <1>2, EmitShape
<1> HIDE DEF d
<1>4. d.next >= c.next /\ e.index < d.next
  BY <1>1, <1>3
<1>5. /\ Numbered(d)
      /\ \A s \in Client, t \in Client, u \in Client :
           Leads(s, c.out, t) /\ Takes(t, e, u) => Leads(s, d.out, u)
  BY <1>1, <1>3, <1>4, Emitted
<1>6. ASSUME NEW s \in Client, NEW b, Reaches(s, c, p, b) PROVE Reaches(s, d, n, b)
  <2>1. PICK t \in Client :
          /\ Leads(s, c.out, t)
          /\ t.phase = p /\ t.at = c.next - 1 /\ t.open = c.active
          /\ b => t.tools
    BY <1>6 DEF Reaches
  <2> DEFINE u == [t EXCEPT !.phase = n]
  <2>2. /\ u \in Client /\ u.phase = n /\ u.at = t.at
        /\ u.open = t.open /\ u.tools = t.tools
    BY <2>1 DEF Client
  <2> HIDE DEF u
  <2>3. Takes(t, e, u)
    BY <2>1, <2>2 DEF Takes
  <2>4. Leads(s, d.out, u)
    BY <1>5, <2>1, <2>2, <2>3
  <2> QED BY <1>3, <2>1, <2>2, <2>4 DEF Reaches
<1> QED BY <1>1, <1>3, <1>5, <1>6 DEF Between, d

LEMMA Marks ==
  /\ MessageStart \in Event /\ MessageStart.type = "start" /\ MessageStart.index = -1
  /\ ApiError \in Event /\ ApiError.type = "error" /\ ApiError.index = -1
  /\ Ev("stop", "none", -1) \in Event
  /\ Ev("stop", "none", -1).type = "stop" /\ Ev("stop", "none", -1).index = -1
<1>1. -1 \in Int
  OBVIOUS
<1> QED BY <1>1, Events DEF MessageStart, ApiError

\* A stop reason, and the end of the message.
LEMMA Concluded ==
  ASSUME NEW c, Between(c), c.active = "none",
         NEW kind \in {"end_turn", "tool_use"}, NEW b \in BOOLEAN,
         kind = "tool_use" => b
  PROVE  LET d == Emit(c, <<Ev("reason", kind, -1), Ev("stop", "none", -1)>>)
         IN  /\ Between(d) /\ d.next = c.next
             /\ \A s \in Client :
                  Sound(s, c, b) => Reaches(s, d, "stopped", FALSE)
<1> DEFINE e == Ev("reason", kind, -1)
           f == Ev("stop", "none", -1)
           a == Emit(c, <<e>>)
           d == Emit(c, <<e, f>>)
<1>0. c \in Context /\ Numbered(c) /\ c.next \in Nat /\ c.out \in Seq(Event)
  BY DEF Between, Context
<1>1. e \in Event /\ e.type = "reason" /\ e.kind = kind /\ e.index = -1
  <2>1. -1 \in Int
    OBVIOUS
  <2> QED BY <2>1, Events
<1>2. f \in Event /\ f.type = "stop" /\ f.index = -1
  BY Marks
<1> HIDE DEF e, f
<1>3. <<e>> \in Seq(Event) /\ <<f>> \in Seq(Event) /\ <<e, f>> \in Seq(Event)
      /\ <<e, f>> = <<e>> \o <<f>>
  <2>1. /\ <<e>> \in Seq(Event) /\ Len(<<e>>) = 1 /\ (<<e>>)[1] = e
        /\ <<f>> \in Seq(Event) /\ Len(<<f>>) = 1 /\ (<<f>>)[1] = f
        /\ <<e, f>> \in Seq(Event) /\ Len(<<e, f>>) = 2
        /\ (<<e, f>>)[1] = e /\ (<<e, f>>)[2] = f
    BY <1>1, <1>2
  <2> DEFINE g == <<e>>
             h == <<f>>
             q == <<e, f>>
             r == g \o h
  <2>2. g \in Seq(Event) /\ h \in Seq(Event) /\ q \in Seq(Event)
    BY <2>1
  <2>3. Len(g) = 1 /\ Len(h) = 1 /\ Len(q) = 2 /\ g[1] = e /\ h[1] = f /\ q[1] = e /\ q[2] = f
    BY <2>1
  <2> HIDE DEF g, h, q
  <2>4. /\ r \in Seq(Event) /\ Len(r) = Len(g) + Len(h)
        /\ \A i \in 1 .. Len(g) + Len(h) :
             r[i] = IF i <= Len(g) THEN g[i] ELSE h[i - Len(g)]
    BY <2>2, ConcatProperties
  <2> HIDE DEF r
  <2>5. Len(r) = 2 /\ r[1] = e /\ r[2] = f
    BY <2>3, <2>4
  <2>6. \A i \in 1 .. Len(q) : q[i] = r[i]
    BY <2>3, <2>5
  <2>7. q = r
    BY <2>2, <2>3, <2>4, <2>5, <2>6, SeqEqual
  <2> QED BY <2>1, <2>7 DEF g, h, q, r
<1>4. /\ a \in Context /\ a.out = c.out \o <<e>>
      /\ a.next = c.next /\ a.active = c.active
  BY <1>0, <1>3, EmitShape
<1>5. d = Emit(a, <<f>>)
  <2>1. c.out \o <<e, f>> = a.out \o <<f>>
    <3>1. (c.out \o <<e>>) \o <<f>> = c.out \o (<<e>> \o <<f>>)
      BY <1>0, <1>3, ConcatAssociative
    <3> QED BY <1>3, <1>4, <3>1
  <2>2. d = [c EXCEPT !.out = c.out \o <<e, f>>]
    BY DEF Emit
  <2>3. Emit(a, <<f>>) = [a EXCEPT !.out = a.out \o <<f>>]
    BY DEF Emit
  <2>4. a = [c EXCEPT !.out = c.out \o <<e>>]
    BY DEF Emit
  <2> HIDE DEF a, d
  <2>5. [a EXCEPT !.out = a.out \o <<f>>] = [c EXCEPT !.out = a.out \o <<f>>]
    BY <1>0, <2>4 DEF Context
  <2> QED BY <2>1, <2>2, <2>3, <2>5
<1> HIDE DEF a, d
<1>6. a.next >= c.next /\ e.index < a.next
  BY <1>0, <1>1, <1>4
<1>7. /\ Numbered(a)
      /\ \A s \in Client, t \in Client, u \in Client :
           Leads(s, c.out, t) /\ Takes(t, e, u) => Leads(s, a.out, u)
  BY <1>0, <1>1, <1>4, <1>6, Emitted
<1>8. Between(a)
  BY <1>4, <1>7 DEF Between
<1>9. ASSUME NEW s \in Client, Sound(s, c, b)
      PROVE  Reaches(s, a, "closing", FALSE)
  <2>1. PICK t \in Client :
          /\ Leads(s, c.out, t)
          /\ t.phase = "streaming" /\ t.at = c.next - 1 /\ t.open = c.active
          /\ b => t.tools
    BY <1>9 DEF Sound
  <2> DEFINE u == [t EXCEPT !.phase = "closing"]
  <2>2. /\ u \in Client /\ u.phase = "closing" /\ u.at = t.at
        /\ u.open = t.open /\ u.tools = t.tools
    BY <2>1 DEF Client
  <2> HIDE DEF u
  <2>3. Takes(t, e, u)
    BY <1>1, <2>1, <2>2 DEF Takes, Message!StopReason
  <2>4. Leads(s, a.out, u)
    BY <1>7, <2>1, <2>2, <2>3
  <2> QED BY <1>4, <2>1, <2>2, <2>4 DEF Reaches
<1>10. /\ Between(Emit(a, <<f>>)) /\ Emit(a, <<f>>).next = a.next
       /\ \A s \in Client : \A x :
            Reaches(s, a, "closing", x) => Reaches(s, Emit(a, <<f>>), "stopped", x)
  BY <1>2, <1>8, Told
<1> QED BY <1>4, <1>5, <1>9, <1>10 DEF d, e, f

-----------------------------------------------------------------------------
(* What the actions make of the context.                                   *)

LEMMA EmitTwice ==
  ASSUME NEW c \in Context, NEW q \in Seq(Event), NEW r \in Seq(Event)
  PROVE  Emit(c, q \o r) = Emit(Emit(c, q), r)
<1>0. c.out \in Seq(Event) /\ q \in Seq(Event) /\ r \in Seq(Event)
  BY DEF Context
<1>0a. (c.out \o q) \o r = c.out \o (q \o r)
  <2> DEFINE o == c.out
  <2>1. o \in Seq(Event)
    BY <1>0
  <2> HIDE DEF o
  <2>2. (o \o q) \o r = o \o (q \o r)
    BY <1>0, <2>1, ConcatAssociative
  <2> QED BY <2>2 DEF o
<1> DEFINE a == Emit(c, q)
<1>1. a \in Context /\ a.out = c.out \o q
  BY EmitShape
<1>2. c.out \o (q \o r) = a.out \o r
  <2> HIDE DEF a
  <2> QED BY <1>1, <1>0a
<1>3. a = [c EXCEPT !.out = c.out \o q]
  BY DEF Emit
<1>4. Emit(a, r) = [a EXCEPT !.out = a.out \o r]
  BY DEF Emit
<1>5. Emit(c, q \o r) = [c EXCEPT !.out = c.out \o (q \o r)]
  BY DEF Emit
<1> HIDE DEF a
<1>6. [a EXCEPT !.out = a.out \o r] = [c EXCEPT !.out = a.out \o r]
  BY <1>3 DEF Context
<1> QED BY <1>2, <1>4, <1>5, <1>6 DEF a

LEMMA EmitNothing == ASSUME NEW c \in Context PROVE Emit(c, <<>>) = c
<1>1. c.out \o <<>> = c.out
  BY ConcatEmptySeq DEF Context
<1>2. Emit(c, <<>>) = [c EXCEPT !.out = c.out \o <<>>]
  BY DEF Emit
<1>3. [c EXCEPT !.out = c.out] = c
  BY DEF Context
<1> QED BY <1>1, <1>2, <1>3

\* What a handler of a line emits, the client can get in its turn.
LEMMA Carried ==
  ASSUME NEW c, Between(c), NEW d, Continues(c, d), NEW s \in Client,
         Reaches(s, c, "streaming", c.toolUse)
  PROVE  Reaches(s, d, "streaming", d.toolUse)
BY SoundReaches DEF Continues

\* A context with which an attempt ends: nothing of it is left but the events.
Ended(d) == Between(d) /\ Honest(d) /\ d.toolUse = FALSE /\ d.intercepting = FALSE

LEMMA DroppedEnds ==
  ASSUME NEW c, Between(c)
  PROVE  /\ Ended(Dropped(c)) /\ Dropped(c).next = c.next /\ Dropped(c).out = c.out
         /\ \A s \in Client : \A p, b : Reaches(s, c, p, b) => Reaches(s, Dropped(c), p, FALSE)
BY DroppedShape DEF Ended

LEMMA ClosedEnds ==
  ASSUME NEW c, Between(c)
  PROVE  LET d == Dropped(CloseActive(c))
         IN  /\ Ended(d) /\ d.next = c.next
             /\ \A s \in Client : Reaches(s, c, "streaming", c.toolUse)
                                    => Reaches(s, d, "streaming", FALSE)
<1> DEFINE a == CloseActive(c)
<1>1. Continues(c, a) /\ a.next = c.next /\ Between(a)
  BY CloseActiveContinues DEF Continues
<1>2. \A s \in Client : Reaches(s, c, "streaming", c.toolUse)
                          => Reaches(s, a, "streaming", a.toolUse)
  BY <1>1, Carried
<1> HIDE DEF a
<1> QED BY <1>1, <1>2, DroppedEnds DEF a

\* The message fails.
LEMMA FailedEnds ==
  ASSUME NEW c, Between(c)
  PROVE  LET d == Dropped(Emit(c, <<ApiError>>))
         IN  /\ Ended(d) /\ d.next = c.next
             /\ \A s \in Client : \A b : Reaches(s, c, "streaming", b)
                                       => Reaches(s, d, "failed", FALSE)
<1> DEFINE a == Emit(c, <<ApiError>>)
<1>1. /\ Between(a) /\ a.next = c.next
      /\ \A s \in Client : \A b : Reaches(s, c, "streaming", b) => Reaches(s, a, "failed", b)
  BY Marks, Told
<1> HIDE DEF a
<1> QED BY <1>1, DroppedEnds DEF a

\* finalize_stream_with_text.
LEMMA FinalTextEnds ==
  ASSUME NEW c, Between(c)
  PROVE  LET d == Dropped(Emit(Block(c, "text"),
                               <<Ev("reason", "end_turn", -1), Ev("stop", "none", -1)>>))
         IN  /\ Ended(d) /\ d.next >= c.next
             /\ \A s \in Client : Reaches(s, c, "streaming", c.toolUse)
                                    => Reaches(s, d, "stopped", FALSE)
<1> DEFINE a == Block(c, "text")
           m == Emit(a, <<Ev("reason", "end_turn", -1), Ev("stop", "none", -1)>>)
<1>1. Continues(c, a) /\ a.active = "none" /\ Between(a) /\ a.next >= c.next
  BY TextBlockContinues DEF Continues
<1>2. \A s \in Client : Reaches(s, c, "streaming", c.toolUse)
                          => Reaches(s, a, "streaming", a.toolUse)
  BY <1>1, Carried
<1>3. a.toolUse \in BOOLEAN
  BY <1>1 DEF Between, Context
<1> HIDE DEF a
<1>4. /\ Between(m) /\ m.next = a.next
      /\ \A s \in Client : Sound(s, a, a.toolUse) => Reaches(s, m, "stopped", FALSE)
  BY <1>1, <1>3, Concluded
<1> HIDE DEF m
<1> QED BY <1>1, <1>2, <1>4, DroppedEnds, SoundReaches DEF a, m

\* The message is complete.
LEMMA CompleteEnds ==
  ASSUME NEW c, Between(c), Honest(c), ~c.intercepting
  PROVE  LET d == Dropped(Emit(CloseActive(c),
                           <<Ev("reason", IF c.toolUse THEN "tool_use" ELSE c.stop, -1),
                             Ev("stop", "none", -1)>>))
         IN  /\ Ended(d) /\ d.next = c.next
             /\ \A s \in Client : Reaches(s, c, "streaming", c.toolUse)
                                    => Reaches(s, d, "stopped", FALSE)
<1> DEFINE a == CloseActive(c)
           kind == IF c.toolUse THEN "tool_use" ELSE c.stop
           m == Emit(a, <<Ev("reason", kind, -1), Ev("stop", "none", -1)>>)
<1>1. /\ Continues(c, a) /\ a.active = "none" /\ a.next = c.next /\ SameFlags(c, a)
      /\ Between(a)
  BY CloseActiveContinues DEF Continues
<1>2. \A s \in Client : Reaches(s, c, "streaming", c.toolUse)
                          => Reaches(s, a, "streaming", a.toolUse)
  BY <1>1, Carried
<1>3. a.toolUse \in BOOLEAN /\ a.toolUse = c.toolUse
  BY <1>1 DEF Between, Context, SameFlags
<1>4. kind \in {"end_turn", "tool_use"} /\ (kind = "tool_use" => a.toolUse)
  BY <1>3 DEF Between, Context, Honest
<1> HIDE DEF a, kind
<1>5. /\ Between(m) /\ m.next = a.next
      /\ \A s \in Client : Sound(s, a, a.toolUse) => Reaches(s, m, "stopped", FALSE)
  BY <1>1, <1>3, <1>4, Concluded
<1> HIDE DEF m
<1> QED BY <1>1, <1>2, <1>5, DroppedEnds, SoundReaches DEF a, m, kind

-----------------------------------------------------------------------------
(* The invariant.                                                          *)

\* The client as it is.
Here == [phase |-> phase, at |-> at, open |-> open, tools |-> tools]

Counted ==
  /\ stage \in {"turn", "upstream", "read", "errored", "again", "closing", "done",
                "sync", "upstream_sync"}
  /\ turns \in 0 .. TurnLimit + 1
  /\ searches \in 0 .. MaxSearch /\ synthesis \in BOOLEAN
  /\ compat \in 0 .. MaxCompatRetries /\ reads \in 0 .. MaxReadRetries
  /\ started \in BOOLEAN /\ base \in Nat
  /\ dead \in BOOLEAN
  /\ notice \in {"none", "turn_limit", "rejected", "malformed"}
  /\ ending \in {"none", "success", "failed"}
  /\ verdict \in {"none", "success", "failed", "cancelled"}
  /\ stage \notin {"closing", "done"} => turns <= TurnLimit
  /\ ~synthesis => searches < MaxSearch

\* The client has only got blocks that the tracker has numbered.
Known ==
  /\ Between(ctx) /\ Honest(ctx)
  /\ ctx.intercepting => ~synthesis
  /\ Here \in Client /\ at < ctx.next

Stages ==
  /\ stage = "turn" => (started <=> turns > 0)
  /\ stage = "upstream" => turns > 0 /\ (started <=> turns > 1) /\ ctx.out = <<>>
  /\ stage \in {"read", "again"} => turns > 0
  /\ stage \in {"read", "errored", "again", "closing"} => started
  /\ stage = "closing" => ending \in {"success", "failed"}
  /\ stage \in {"sync", "upstream_sync"} =>
       ~started /\ at = -1 /\ base = 0 /\ ctx.out = <<>> /\ ~ctx.intercepting
  /\ verdict # "none" => stage = "done"
  /\ verdict = "success" /\ started => phase = "stopped"
  /\ dead => phase # "failed"

\* The phase to which a task that is at this stage takes the message.
Due(where, record, begun, p) ==
  /\ where \in {"turn", "upstream"} => p = IF begun THEN "streaming" ELSE "idle"
  /\ where \in {"read", "again"} => p = "streaming"
  /\ where = "errored" => p = "failed"
  /\ where = "closing" => p = "stopped"
  /\ where \in {"sync", "upstream_sync"} => p = "idle"
  /\ where = "done" => IF record = "failed" THEN begun => p \in {"stopped", "failed"}
                                            ELSE p # "failed"

\* The events on their way take the client there, unless they are given up.
Underway ==
  dead \/ \E p : /\ Due(stage, verdict, started, p)
                 /\ Reaches(Here, ctx, p, ctx.toolUse)

MessageInv == Counted /\ Known /\ Stages /\ Underway

-----------------------------------------------------------------------------
(* Lines of an upstream stream.                                            *)

LEMMA LinesContinue ==
  ASSUME MessageInv,
         ReasoningLine \/ ContentLine \/ PreambleRejected \/ Oversized
           \/ ToolCallLine \/ FinishLine
  PROVE  \E c : Line(c) /\ Continues(ctx, c)
<1>0. Between(ctx) /\ Honest(ctx) /\ ctx \in Context
  BY DEF MessageInv, Known, Between
<1>1. ASSUME NEW hold \in Retained \ {"dsml"}
      PROVE  Continues(ctx, [ctx EXCEPT !.reasoning = hold])
  <2> DEFINE c == [ctx EXCEPT !.reasoning = hold]
  <2>1. /\ c \in Context /\ c.out = ctx.out /\ c.next = ctx.next /\ c.active = ctx.active
        /\ c.toolUse = ctx.toolUse /\ c.intercepting = ctx.intercepting /\ c.stop = ctx.stop
    BY <1>0 DEF Context
  <2> HIDE DEF c
  <2>2. Continues(ctx, c)
    BY <1>0, <2>1, FlagsContinue DEF Honest
  <2> QED BY <2>2 DEF c
<1>2. ASSUME NEW hold \in Retained
      PROVE  Continues(ctx, [ctx EXCEPT !.text = hold])
  <2> DEFINE c == [ctx EXCEPT !.text = hold]
  <2>1. /\ c \in Context /\ c.out = ctx.out /\ c.next = ctx.next /\ c.active = ctx.active
        /\ c.toolUse = ctx.toolUse /\ c.intercepting = ctx.intercepting /\ c.stop = ctx.stop
    BY <1>0 DEF Context
  <2> HIDE DEF c
  <2>2. Continues(ctx, c)
    BY <1>0, <2>1, FlagsContinue DEF Honest
  <2> QED BY <2>2 DEF c
<1>3. ASSUME NEW c, Continues(ctx, c), NEW kind \in {"thinking", "text"}
      PROVE  /\ Continues(ctx, Fragment(c, kind))
             /\ Continues(ctx, CloseActive(Fragment(c, kind)))
  <2>1. Between(c)
    BY <1>3 DEF Continues
  <2>2. Continues(c, Fragment(c, kind)) /\ Between(Fragment(c, kind))
    BY <2>1, FragmentContinues DEF Continues
  <2>3. Continues(ctx, Fragment(c, kind))
    BY <1>0, <1>3, <2>2, ContinuesOn
  <2>4. Continues(Fragment(c, kind), CloseActive(Fragment(c, kind)))
    BY <2>2, CloseActiveContinues
  <2> QED BY <1>0, <2>3, <2>4, ContinuesOn
<1>4. CASE ReasoningLine
  <2>1. PICK hold \in {"none", "tail", "marker"} :
          LET c == [ctx EXCEPT !.reasoning = hold]
          IN  \/ Line(c)
              \/ Line(Fragment(c, "thinking"))
              \/ Line(CloseActive(Fragment(c, "thinking")))
    BY <1>4 DEF ReasoningLine
  <2> DEFINE c == [ctx EXCEPT !.reasoning = hold]
  <2>2. Continues(ctx, c)
    BY <1>1 DEF Retained
  <2> HIDE DEF c
  <2>3. Continues(ctx, Fragment(c, "thinking"))
        /\ Continues(ctx, CloseActive(Fragment(c, "thinking")))
    BY <1>3, <2>2
  <2>4. Line(c) \/ Line(Fragment(c, "thinking")) \/ Line(CloseActive(Fragment(c, "thinking")))
    BY <2>1 DEF c
  <2> QED BY <2>2, <2>3, <2>4
<1>5. CASE ContentLine
  <2>1. PICK hold \in {"none", "tail", "marker", "dsml"} :
          LET c == [ctx EXCEPT !.text = hold]
          IN  Line(c) \/ Line(Fragment(c, "text"))
    BY <1>5 DEF ContentLine
  <2> DEFINE c == [ctx EXCEPT !.text = hold]
  <2>2. Continues(ctx, c)
    BY <1>2 DEF Retained
  <2> HIDE DEF c
  <2>3. Continues(ctx, Fragment(c, "text"))
    BY <1>3, <2>2
  <2>4. Line(c) \/ Line(Fragment(c, "text"))
    BY <2>1 DEF c
  <2> QED BY <2>2, <2>3, <2>4
<1>6. CASE PreambleRejected
  <2> DEFINE c == [ctx EXCEPT !.rejected = TRUE, !.text = "none"]
  <2>1. /\ c \in Context /\ c.out = ctx.out /\ c.next = ctx.next /\ c.active = ctx.active
        /\ c.toolUse = ctx.toolUse /\ c.intercepting = ctx.intercepting /\ c.stop = ctx.stop
    BY <1>0 DEF Context, Retained
  <2>2. Line(c)
    BY <1>6 DEF PreambleRejected
  <2> HIDE DEF c
  <2> QED BY <1>0, <2>1, <2>2, FlagsContinue DEF Honest
<1>7. CASE Oversized
  <2>1. \/ Line(Fragment([ctx EXCEPT !.reasoning = "none"], "thinking"))
        \/ Line(Fragment([ctx EXCEPT !.text = "none"], "text"))
        \/ Line(Malformed([ctx EXCEPT !.text = "none"]))
    BY <1>7 DEF Oversized
  <2>2. /\ Continues(ctx, [ctx EXCEPT !.reasoning = "none"])
        /\ Continues(ctx, [ctx EXCEPT !.text = "none"])
    BY <1>1, <1>2 DEF Retained
  <2>3. /\ Continues(ctx, Fragment([ctx EXCEPT !.reasoning = "none"], "thinking"))
        /\ Continues(ctx, Fragment([ctx EXCEPT !.text = "none"], "text"))
    BY <1>3, <2>2
  <2>4. Continues(ctx, Malformed([ctx EXCEPT !.text = "none"]))
    <3>1. Between([ctx EXCEPT !.text = "none"])
      BY <2>2 DEF Continues
    <3>2. Continues([ctx EXCEPT !.text = "none"], Malformed([ctx EXCEPT !.text = "none"]))
      BY <3>1, MalformedContinues
    <3> QED BY <1>0, <2>2, <3>2, ContinuesOn
  <2> QED BY <2>1, <2>3, <2>4
<1>8. CASE ToolCallLine
  <2> DEFINE c == [ctx EXCEPT !.pending = TRUE]
  <2>1. /\ c \in Context /\ c.out = ctx.out /\ c.next = ctx.next /\ c.active = ctx.active
        /\ c.toolUse = ctx.toolUse /\ c.intercepting = ctx.intercepting /\ c.stop = ctx.stop
    BY <1>0 DEF Context
  <2>2. Line(c)
    BY <1>8 DEF ToolCallLine
  <2> HIDE DEF c
  <2> QED BY <1>0, <2>1, <2>2, FlagsContinue DEF Honest
<1>9. CASE FinishLine
  <2>1. PICK finish \in {"stop", "tool_calls"}, native \in Calls(ctx, TRUE) :
          Line(Finalize([ctx EXCEPT !.stop = StopFor(ctx, finish)], native))
    BY <1>9 DEF FinishLine
  <2> DEFINE why == StopFor(ctx, finish)
             c == [ctx EXCEPT !.stop = why]
  <2>2. /\ why \in {"end_turn", "tool_use"}
        /\ why = "tool_use" => ctx.toolUse \/ ctx.intercepting
    BY DEF StopFor
  <2> HIDE DEF why
  <2>3. /\ c \in Context /\ c.out = ctx.out /\ c.next = ctx.next /\ c.active = ctx.active
        /\ c.toolUse = ctx.toolUse /\ c.intercepting = ctx.intercepting /\ c.stop = why
    BY <1>0, <2>2 DEF Context
  <2> HIDE DEF c
  <2>4. Continues(ctx, c) /\ Between(c)
    <3>1. Continues(ctx, c)
      BY <1>0, <2>2, <2>3, FlagsContinue DEF Honest
    <3> QED BY <3>1 DEF Continues
  <2>5. native \in Outcome /\ (native = "search" => ~synthesis)
    BY CallsOffered
  <2>6. Continues(ctx, Finalize(c, native))
    <3>1. Continues(c, Finalize(c, native))
      BY <2>4, <2>5, FinalizeContinues
    <3> QED BY <1>0, <2>4, <3>1, ContinuesOn
  <2> QED BY <2>1, <2>6 DEF c, why
<1> QED BY <1>4, <1>5, <1>6, <1>7, <1>8, <1>9

-----------------------------------------------------------------------------
(* Deliveries.                                                             *)

\* What the client gets is a step of the message it is promised.
LEMMA DeliveredInTurn ==
  ASSUME NEW e, NEW t \in Client, Here \in Client, Takes(Here, e, t), Receive(e)
  PROVE  /\ Here' = t
         /\ [Message!Next]_(Message!vars)
         /\ reason' = IF e.type = "reason" THEN e.kind ELSE reason
<1>1. /\ Here.phase = phase /\ Here.at = at /\ Here.open = open /\ Here.tools = tools
      /\ phase \in {"idle", "streaming", "closing", "stopped", "failed"} /\ at \in Int
      /\ open \in {"none", "thinking", "text", "tool_use"} /\ tools \in BOOLEAN
  BY DEF Here, Client
<1>2. t = [phase |-> t.phase, at |-> t.at, open |-> t.open, tools |-> t.tools]
      /\ t.tools \in BOOLEAN /\ t.at \in Int
  BY DEF Client
<1>3. Here' = [phase |-> phase', at |-> at', open |-> open', tools |-> tools']
  BY DEF Here
<1>a. SUFFICES /\ phase' = t.phase /\ at' = t.at /\ open' = t.open /\ tools' = t.tools
               /\ [Message!Next]_(Message!vars)
  BY <1>2, <1>3 DEF Receive
<1>4. CASE e.type = "start" /\ phase = "idle" /\ t.phase = "streaming" /\ t.at = at
           /\ t.open = open /\ t.tools = tools
  <2>1. phase' = "streaming" /\ at' = at /\ open' = open /\ tools' = tools
        /\ reason' = reason
    BY <1>1, <1>4 DEF Receive
  <2>2. Message!Start
    BY <1>4, <2>1 DEF Message!Start
  <2> QED BY <1>4, <2>1, <2>2 DEF Message!Next
<1>5. CASE /\ e.type = "open" /\ phase = "streaming" /\ open = "none"
           /\ e.kind \in Message!Kind /\ e.index = at + 1
           /\ t.phase = "streaming" /\ t.at = e.index /\ t.open = e.kind
           /\ t.tools = (tools \/ e.kind = "tool_use")
  <2>1. phase' = phase /\ at' = e.index /\ open' = e.kind /\ reason' = reason
    BY <1>5 DEF Receive
  <2>2. tools' = (tools \/ e.kind = "tool_use")
    BY <1>5 DEF Receive
  <2>3. Message!Open(e.kind)
    BY <1>5, <2>1, <2>2 DEF Message!Open
  <2> QED BY <1>5, <2>1, <2>2, <2>3 DEF Message!Next
<1>6. CASE e.type = "delta" /\ phase = "streaming" /\ e.kind = open /\ e.index = at
           /\ t = Here
  <2>1. phase' = phase /\ at' = at /\ open' = open /\ tools' = tools /\ reason' = reason
    BY <1>1, <1>6 DEF Receive
  <2> QED BY <1>1, <1>6, <2>1 DEF Message!vars
<1>7. CASE e.type = "close" /\ phase = "streaming" /\ open # "none" /\ e.index = at
           /\ t.phase = "streaming" /\ t.at = at /\ t.open = "none" /\ t.tools = tools
  <2>1. phase' = phase /\ at' = at /\ open' = "none" /\ tools' = tools /\ reason' = reason
    BY <1>1, <1>7 DEF Receive
  <2>2. Message!Close
    BY <1>7, <2>1 DEF Message!Close
  <2> QED BY <1>7, <2>1, <2>2 DEF Message!Next
<1>8. CASE e.type = "reason" /\ phase = "streaming" /\ open = "none"
           /\ e.kind \in Message!StopReason /\ (e.kind = "tool_use" => tools)
           /\ t.phase = "closing" /\ t.at = at /\ t.open = open /\ t.tools = tools
  <2>1. phase' = "closing" /\ at' = at /\ open' = open /\ tools' = tools
        /\ reason' = e.kind
    BY <1>1, <1>8 DEF Receive
  <2>2. Message!Reason(e.kind)
    BY <1>8, <2>1 DEF Message!Reason
  <2> QED BY <1>8, <2>1, <2>2 DEF Message!Next
<1>9. CASE e.type = "stop" /\ phase = "closing"
           /\ t.phase = "stopped" /\ t.at = at /\ t.open = open /\ t.tools = tools
  <2>1. phase' = "stopped" /\ at' = at /\ open' = open /\ tools' = tools
        /\ reason' = reason
    BY <1>1, <1>9 DEF Receive
  <2>2. Message!Stop
    BY <1>9, <2>1 DEF Message!Stop
  <2> QED BY <1>9, <2>1, <2>2 DEF Message!Next
<1>10. CASE e.type = "error" /\ phase = "streaming"
            /\ t.phase = "failed" /\ t.at = at /\ t.open = open /\ t.tools = tools
  <2>1. phase' = "failed" /\ at' = at /\ open' = open /\ tools' = tools
        /\ reason' = reason
    BY <1>1, <1>10 DEF Receive
  <2>2. Message!Fail
    BY <1>10, <2>1 DEF Message!Fail
  <2> QED BY <1>10, <2>1, <2>2 DEF Message!Next
<1> QED BY <1>1, <1>4, <1>5, <1>6, <1>7, <1>8, <1>9, <1>10 DEF Takes

\* Nothing follows an error.
LEMMA FailedStays ==
  ASSUME NEW s \in Client, NEW q \in Seq(Event), NEW t \in Client,
         s.phase = "failed", Leads(s, q, t)
  PROVE  q = <<>>
BY FirstTaken DEF Takes

\* Once everything has been delivered, the client is where the task meant it to be.
LEMMA Arrived ==
  ASSUME NEW s \in Client, NEW q, q = <<>>, NEW t \in Client, Leads(s, q, t)
  PROVE  t = s
<1>1. Len(q) = 0
  OBVIOUS
<1>2. PICK f \in [0 .. Len(q) -> Client] : f[0] = s /\ f[Len(q)] = t
  BY DEF Leads
<1> QED BY <1>1, <1>2

-----------------------------------------------------------------------------
(* Steps of the task.                                                      *)

LEMMA TaskTellsNothing ==
  ASSUME Task PROVE UNCHANGED <<dead, message>>
<1>1. CASE TurnCancelled \/ BeginTurn \/ UpstreamRefuses \/ UpstreamAnswers \/ Takedown
  BY <1>1 DEF TurnCancelled, BeginTurn, UpstreamRefuses, UpstreamAnswers, Takedown,
              Keeps, Steps
<1>2. CASE ReasoningLine \/ ContentLine \/ PreambleRejected \/ Oversized
             \/ ToolCallLine \/ FinishLine
  BY <1>2 DEF ReasoningLine, ContentLine, PreambleRejected, Oversized, ToolCallLine,
              FinishLine, Line, Keeps, Steps
<1>3. CASE ErrorLine \/ ErrorEnds \/ ReadCancelled \/ ReplayRead \/ ReadFails
  BY <1>3 DEF ErrorLine, ErrorEnds, ReadCancelled, ReplayRead, ReadFails, Keeps, Steps
<1>4. CASE Settle \/ GoOn \/ Conclude
  BY <1>4 DEF Settle, GoOn, Conclude, Keeps, Steps
<1> QED BY <1>1, <1>2, <1>3, <1>4 DEF Task

\* A step of the task that leaves the context d.
LEMMA TaskGoesOn ==
  ASSUME MessageInv, UNCHANGED <<dead, message>>, NEW d, ctx' = d,
         Between(d), Honest(d), d.next >= ctx.next, d.intercepting => ~synthesis',
         NEW p,
         dead \/ (Due(stage', verdict', started', p) /\ Reaches(Here, d, p, d.toolUse))
  PROVE  Known' /\ Underway'
<1>1. Here' = Here /\ at' = at /\ dead' = dead
  BY DEF message, Here
<1>2. at \in Int /\ ctx.next \in Nat /\ d.next \in Nat /\ at < ctx.next /\ Here \in Client
  <2>1. Here \in Client /\ at < ctx.next /\ Between(ctx)
    BY DEF MessageInv, Known
  <2>2. Here.at = at
    BY DEF Here
  <2>3. at \in Int
    BY <2>1, <2>2 DEF Client
  <2> QED BY <2>1, <2>3 DEF Between, Context
<1>3. at < d.next
  BY <1>2
<1>4. Known'
  BY <1>1, <1>2, <1>3 DEF Known
<1>5. Underway'
  BY <1>1 DEF Underway
<1> QED BY <1>4, <1>5

LEMMA TaskEnds ==
  ASSUME MessageInv, UNCHANGED <<dead, message>>, NEW d, ctx' = d,
         Ended(d), d.next >= ctx.next, NEW p,
         dead \/ (Due(stage', verdict', started', p) /\ Reaches(Here, d, p, FALSE))
  PROVE  Known' /\ Underway'
BY TaskGoesOn DEF Ended

\* What the invariant says before a step.
LEMMA Before ==
  ASSUME MessageInv
  PROVE  /\ Between(ctx) /\ Honest(ctx) /\ ctx \in Context /\ Here \in Client
         /\ ctx.next \in Nat /\ ctx.next >= ctx.next
         /\ ctx.active \in {"none", "thinking", "text"}
         /\ ctx.intercepting => ~synthesis
         /\ started \in BOOLEAN /\ turns \in Int
         /\ stage = "turn" => (started <=> turns > 0)
         /\ stage = "upstream" => turns > 0 /\ (started <=> turns > 1) /\ ctx.out = <<>>
         /\ stage \in {"read", "errored", "again", "closing"} => started
         /\ \E p : dead \/ (Due(stage, verdict, started, p) /\ Reaches(Here, ctx, p, ctx.toolUse))
<1>1. Between(ctx) /\ Honest(ctx) /\ Here \in Client /\ (ctx.intercepting => ~synthesis)
  BY DEF MessageInv, Known
<1>2. ctx \in Context /\ ctx.next \in Nat /\ ctx.active \in {"none", "thinking", "text"}
  BY <1>1 DEF Between, Context
<1>3. ctx.next >= ctx.next
  BY <1>2
<1>4. started \in BOOLEAN /\ turns \in Int
  BY DEF MessageInv, Counted
<1>5. \E p : dead \/ (Due(stage, verdict, started, p) /\ Reaches(Here, ctx, p, ctx.toolUse))
  BY DEF MessageInv, Underway
<1>6. /\ stage = "turn" => (started <=> turns > 0)
      /\ stage = "upstream" => turns > 0 /\ (started <=> turns > 1) /\ ctx.out = <<>>
      /\ stage \in {"read", "errored", "again", "closing"} => started
  BY DEF MessageInv, Stages
<1> QED BY <1>1, <1>2, <1>3, <1>4, <1>5, <1>6

\* Steps of a turn before its upstream stream is read, and the last one when
\* the client is gone.
LEMMA TurnCarries ==
  ASSUME MessageInv, UNCHANGED <<dead, message>>,
         TurnCancelled \/ BeginTurn \/ UpstreamRefuses \/ UpstreamAnswers \/ Takedown
  PROVE  Known' /\ Underway'
<1>0. /\ Between(ctx) /\ Honest(ctx) /\ ctx \in Context /\ Here \in Client
      /\ ctx.next \in Nat /\ ctx.next >= ctx.next
      /\ ctx.active \in {"none", "thinking", "text"}
      /\ ctx.intercepting => ~synthesis
      /\ started \in BOOLEAN /\ turns \in Int
      /\ stage = "turn" => (started <=> turns > 0)
      /\ stage = "upstream" => turns > 0 /\ (started <=> turns > 1) /\ ctx.out = <<>>
      /\ stage \in {"read", "errored", "again", "closing"} => started
  BY Before
<1>p. PICK p : dead \/ (Due(stage, verdict, started, p) /\ Reaches(Here, ctx, p, ctx.toolUse))
  BY Before
<1> DEFINE f == Fresh(ctx.next, ctx.active)
<1>f. /\ Between(f) /\ Honest(f) /\ f.next = ctx.next /\ f.active = ctx.active
      /\ f.out = <<>> /\ f.toolUse = FALSE /\ f.intercepting = FALSE
  BY <1>0, FreshShape
<1>g. ctx.out = <<>> => \A q, b : Reaches(Here, ctx, q, b) => Reaches(Here, f, q, FALSE)
  BY <1>f DEF Reaches
<1> HIDE DEF f
<1>1. CASE TurnCancelled
  <2> DEFINE d == Dropped(ctx)
  <2>1. ctx' = d /\ stage = "turn" /\ stage' = "done" /\ verdict' = "cancelled"
    BY <1>1 DEF TurnCancelled, Finish
  <2>2. /\ Ended(d) /\ d.next = ctx.next
        /\ \A q, b : Reaches(Here, ctx, q, b) => Reaches(Here, d, q, FALSE)
    BY <1>0, DroppedEnds
  <2>3. Due("turn", verdict, started, p) => Due("done", "cancelled", started', p)
    BY <1>0 DEF Due
  <2>4. d.next >= ctx.next
    BY <1>0, <2>2
  <2> HIDE DEF d
  <2> QED BY <1>p, <2>1, <2>2, <2>3, <2>4, TaskEnds
<1>2. CASE BeginTurn
  <2>1. CASE turns + 1 <= TurnLimit
    <3>1. stage = "turn" /\ stage' = "upstream" /\ ctx' = ctx /\ verdict' = verdict
          /\ started' = started /\ synthesis' = synthesis
      <4>1. TurnLimit \in Int
        BY StreamAssumption DEF TurnLimit, MaxCompatRetries, MaxNativeRetries, MaxReadRetries
      <4>2. ~(turns + 1 > TurnLimit)
        BY <1>0, <2>1, <4>1
      <4> QED BY <1>2, <4>2 DEF BeginTurn
    <3>2. Due("turn", verdict, started, p) => Due("upstream", verdict, started, p)
      BY DEF Due
    <3> QED BY <1>0, <1>p, <3>1, <3>2, TaskGoesOn
  <2>2. CASE ~(turns + 1 <= TurnLimit)
    <3> DEFINE d == Dropped(Emit(Block(f, "text"),
                      <<Ev("reason", "end_turn", -1), Ev("stop", "none", -1)>>))
    <3>1. stage = "turn" /\ stage' = "closing" /\ ctx' = d /\ ctx.out = <<>> /\ started' = started
      BY <1>2, <2>2 DEF BeginTurn, FinalText, Idle, f
    <3>2. started
      <4>1. TurnLimit \in Int /\ TurnLimit > 1
        BY StreamAssumption DEF TurnLimit, MaxCompatRetries, MaxNativeRetries, MaxReadRetries
      <4>2. turns > 0
        BY <1>0, <2>2, <4>1
      <4> QED BY <1>0, <3>1, <4>2
    <3>3. /\ Ended(d) /\ d.next >= f.next
          /\ Reaches(Here, f, "streaming", f.toolUse) => Reaches(Here, d, "stopped", FALSE)
      BY <1>0, <1>f, FinalTextEnds
    <3> HIDE DEF d
    <3>4. Due("turn", verdict, started, p) => p = "streaming"
      BY <3>2 DEF Due
    <3>5. Due("closing", verdict', started', "stopped")
      BY DEF Due
    <3>6. dead \/ (Due(stage', verdict', started', "stopped") /\ Reaches(Here, d, "stopped", FALSE))
      BY <1>f, <1>g, <1>p, <3>1, <3>3, <3>4, <3>5
    <3>7. ctx' = d /\ Ended(d) /\ d.next >= ctx.next
      BY <1>f, <3>1, <3>3
    <3> QED BY <3>6, <3>7, TaskEnds
  <2> QED BY <2>1, <2>2
<1>3. CASE UpstreamRefuses
  <2> DEFINE d == Dropped(Emit(ctx, (IF started THEN <<>> ELSE <<MessageStart>>) \o <<ApiError>>))
  <2>1. stage = "upstream" /\ stage' = "done" /\ verdict' = "failed" /\ ctx' = d
        /\ started' = started
    BY <1>3 DEF UpstreamRefuses, Finish, Keeps
  <2>2. <<ApiError>> \in Seq(Event) /\ <<MessageStart>> \in Seq(Event)
    BY Marks
  <2>3. CASE started
    <3>1. d = Dropped(Emit(ctx, <<ApiError>>))
      <4>1. <<>> \o <<ApiError>> = <<ApiError>>
        BY <2>2, ConcatEmptySeq
      <4> QED BY <2>3, <4>1
    <3>2. /\ Ended(d) /\ d.next = ctx.next
          /\ \A b : Reaches(Here, ctx, "streaming", b) => Reaches(Here, d, "failed", FALSE)
      BY <1>0, <3>1, FailedEnds
    <3> HIDE DEF d
    <3>3. Due("upstream", verdict, started, p) => p = "streaming"
      BY <2>3 DEF Due
    <3>4. Due("done", "failed", started', "failed")
      BY DEF Due
    <3>5. dead \/ (Due(stage', verdict', started', "failed") /\ Reaches(Here, d, "failed", FALSE))
      BY <1>p, <2>1, <3>2, <3>3, <3>4
    <3>6. ctx' = d /\ Ended(d) /\ d.next >= ctx.next
      BY <1>0, <2>1, <3>2
    <3> QED BY <3>5, <3>6, TaskEnds
  <2>4. CASE ~started
    <3> DEFINE a == Emit(ctx, <<MessageStart>>)
    <3>1. d = Dropped(Emit(a, <<ApiError>>))
      BY <1>0, <2>2, <2>4, EmitTwice
    <3>2. /\ Between(a) /\ a.next = ctx.next
          /\ \A b : Reaches(Here, ctx, "idle", b) => Reaches(Here, a, "streaming", b)
      BY <1>0, Marks, Told
    <3> HIDE DEF a, d
    <3>3. /\ Ended(d) /\ d.next = a.next
          /\ \A b : Reaches(Here, a, "streaming", b) => Reaches(Here, d, "failed", FALSE)
      BY <1>0, <3>1, <3>2, FailedEnds
    <3>4. Due("upstream", verdict, started, p) => p = "idle"
      BY <2>4 DEF Due
    <3>5. Due("done", "failed", started', "failed")
      BY DEF Due
    <3>6. dead \/ (Due(stage', verdict', started', "failed") /\ Reaches(Here, d, "failed", FALSE))
      BY <1>p, <2>1, <3>2, <3>3, <3>4, <3>5
    <3>7. ctx' = d /\ Ended(d) /\ d.next >= ctx.next
      BY <1>0, <2>1, <3>2, <3>3
    <3> QED BY <3>6, <3>7, TaskEnds
  <2> QED BY <1>0, <2>3, <2>4
<1>4. CASE UpstreamAnswers
  <2> DEFINE d == Emit(f, IF turns = 1 THEN <<MessageStart>> ELSE <<>>)
  <2>1. stage = "upstream" /\ stage' = "read" /\ ctx' = d
    BY <1>4 DEF UpstreamAnswers, f
  <2>2. f \in Context
    BY <1>f DEF Between
  <2>3. CASE turns = 1
    <3>1. /\ Between(d) /\ d.next = f.next /\ SameFlags(f, d)
          /\ \A b : Reaches(Here, f, "idle", b) => Reaches(Here, d, "streaming", b)
      BY <1>0, <1>f, <2>3, Marks, Told
    <3> HIDE DEF d
    <3>2. Ended(d)
      BY <1>f, <3>1 DEF Ended, SameFlags, Honest
    <3>3. Due("upstream", verdict, started, p) => p = "idle"
      BY <1>0, <2>1, <2>3 DEF Due
    <3>4. Due("read", verdict', started', "streaming")
      BY DEF Due
    <3>5. dead \/ (Due(stage', verdict', started', "streaming")
                   /\ Reaches(Here, d, "streaming", FALSE))
      BY <1>0, <1>g, <1>p, <2>1, <3>1, <3>3, <3>4
    <3>6. ctx' = d /\ Ended(d) /\ d.next >= ctx.next
      BY <1>0, <1>f, <2>1, <3>1, <3>2
    <3> QED BY <3>5, <3>6, TaskEnds
  <2>4. CASE turns # 1
    <3>1. d = f
      BY <2>2, <2>4, EmitNothing
    <3> HIDE DEF d
    <3>2. Ended(d)
      BY <1>f, <3>1 DEF Ended
    <3>3. Due("upstream", verdict, started, p) => p = "streaming"
      BY <1>0, <2>1, <2>4 DEF Due
    <3>4. Due("read", verdict', started', "streaming")
      BY DEF Due
    <3>5. dead \/ (Due(stage', verdict', started', "streaming")
                   /\ Reaches(Here, d, "streaming", FALSE))
      BY <1>0, <1>g, <1>p, <2>1, <3>1, <3>3, <3>4
    <3>6. ctx' = d /\ Ended(d) /\ d.next >= ctx.next
      BY <1>0, <1>f, <2>1, <3>1, <3>2
    <3> QED BY <3>5, <3>6, TaskEnds
  <2> QED BY <2>3, <2>4
<1>5. CASE Takedown
  <2> DEFINE d == Dropped(ctx)
  <2>1. ctx' = d /\ dead
    BY <1>5 DEF Takedown, Finish
  <2>2. Ended(d) /\ d.next = ctx.next
    BY <1>0, DroppedEnds
  <2> HIDE DEF d
  <2>3. ctx' = d /\ Ended(d) /\ d.next >= ctx.next
    BY <1>0, <2>1, <2>2
  <2> QED BY <2>1, <2>3, TaskEnds
<1> QED BY <1>1, <1>2, <1>3, <1>4, <1>5

\* Steps that read the upstream stream.
LEMMA LineCarries ==
  ASSUME MessageInv, UNCHANGED <<dead, message>>,
         ReasoningLine \/ ContentLine \/ PreambleRejected \/ Oversized
           \/ ToolCallLine \/ FinishLine
  PROVE  Known' /\ Underway'
<1>0. Between(ctx) /\ Honest(ctx) /\ Here \in Client /\ (ctx.intercepting => ~synthesis)
  BY Before
<1>p. PICK p : dead \/ (Due(stage, verdict, started, p) /\ Reaches(Here, ctx, p, ctx.toolUse))
  BY Before
<1>1. PICK c : Line(c) /\ Continues(ctx, c)
  BY LinesContinue
<1>2. /\ ctx' = c /\ stage = "read" /\ stage' = "read"
      /\ verdict' = verdict /\ started' = started /\ synthesis' = synthesis
  BY <1>1 DEF Line, Keeps
<1>3. /\ Between(c) /\ Honest(c) /\ c.next >= ctx.next
      /\ c.intercepting => ~synthesis'
  BY <1>0, <1>1, <1>2 DEF Continues
<1>4. Due("read", verdict, started, p) => p = "streaming"
  BY DEF Due
<1>5. Due("read", verdict', started', "streaming")
  BY DEF Due
<1>6. Reaches(Here, ctx, "streaming", ctx.toolUse) => Reaches(Here, c, "streaming", c.toolUse)
  BY <1>0, <1>1, Carried
<1>7. dead \/ (Due(stage', verdict', started', "streaming")
               /\ Reaches(Here, c, "streaming", c.toolUse))
  BY <1>p, <1>2, <1>4, <1>5, <1>6
<1> QED BY <1>2, <1>3, <1>7, TaskGoesOn

\* Steps at the end of the upstream stream.
LEMMA EndCarries ==
  ASSUME MessageInv, UNCHANGED <<dead, message>>,
         ErrorLine \/ ErrorEnds \/ ReadCancelled \/ ReplayRead \/ ReadFails \/ Settle
           \/ GoOn \/ Conclude
  PROVE  Known' /\ Underway'
<1>0. /\ Between(ctx) /\ Honest(ctx) /\ Here \in Client
      /\ ctx.next \in Nat /\ ctx.next >= ctx.next
      /\ ctx.intercepting => ~synthesis
      /\ started \in BOOLEAN
      /\ stage \in {"read", "errored", "again", "closing"} => started
  BY Before
<1>p. PICK p : dead \/ (Due(stage, verdict, started, p) /\ Reaches(Here, ctx, p, ctx.toolUse))
  BY Before
<1>r. stage = "read" => dead \/ Reaches(Here, ctx, "streaming", ctx.toolUse)
  BY <1>p DEF Due
\* The attempt ends with nothing but what it has emitted.
<1>d. /\ Ended(Dropped(ctx)) /\ Dropped(ctx).next >= ctx.next
      /\ \A q, b : Reaches(Here, ctx, q, b) => Reaches(Here, Dropped(ctx), q, FALSE)
  BY <1>0, DroppedEnds
<1>1. CASE ErrorLine
  <2> DEFINE d == Dropped(Emit(ctx, <<ApiError>>))
  <2>1. stage = "read" /\ stage' = "errored" /\ ctx' = d
    BY <1>1 DEF ErrorLine
  <2>2. /\ Ended(d) /\ d.next = ctx.next
        /\ \A b : Reaches(Here, ctx, "streaming", b) => Reaches(Here, d, "failed", FALSE)
    BY <1>0, FailedEnds
  <2> HIDE DEF d
  <2>3. Due("errored", verdict', started', "failed")
    BY DEF Due
  <2>4. dead \/ (Due(stage', verdict', started', "failed") /\ Reaches(Here, d, "failed", FALSE))
    BY <1>r, <2>1, <2>2, <2>3
  <2>5. d.next >= ctx.next
    BY <1>0, <2>2
  <2> QED BY <2>1, <2>2, <2>4, <2>5, TaskEnds
<1>2. CASE ErrorEnds
  <2>1. stage = "errored" /\ stage' = "done" /\ verdict' = "failed" /\ ctx' = Dropped(ctx)
    BY <1>2 DEF ErrorEnds, Finish
  <2>2. Due("errored", verdict, started, p) => p = "failed"
    BY DEF Due
  <2>3. Due("done", "failed", started', "failed")
    BY DEF Due
  <2>4. dead \/ (Due(stage', verdict', started', "failed")
                 /\ Reaches(Here, Dropped(ctx), "failed", FALSE))
    BY <1>d, <1>p, <2>1, <2>2, <2>3
  <2> QED BY <1>d, <2>1, <2>4, TaskEnds
<1>3. CASE ReadCancelled
  <2>1. stage = "read" /\ stage' = "done" /\ verdict' = "cancelled" /\ ctx' = Dropped(ctx)
    BY <1>3 DEF ReadCancelled, Finish
  <2>2. Due("done", "cancelled", started', "streaming")
    BY DEF Due
  <2>3. dead \/ (Due(stage', verdict', started', "streaming")
                 /\ Reaches(Here, Dropped(ctx), "streaming", FALSE))
    BY <1>d, <1>r, <2>1, <2>2
  <2> QED BY <1>d, <2>1, <2>3, TaskEnds
<1>4. CASE ReplayRead
  <2>1. stage = "read" /\ stage' = "turn" /\ started' = started /\ ctx' = Dropped(ctx)
    BY <1>4 DEF ReplayRead, StreamEnds
  <2>2. Due("turn", verdict', started', "streaming")
    BY <1>0, <2>1 DEF Due
  <2>3. dead \/ (Due(stage', verdict', started', "streaming")
                 /\ Reaches(Here, Dropped(ctx), "streaming", FALSE))
    BY <1>d, <1>r, <2>1, <2>2
  <2> QED BY <1>d, <2>1, <2>3, TaskEnds
<1>5. CASE ReadFails
  <2>1. PICK c \in Flush(ctx, FALSE) : Finish(Emit(CloseActive(c), <<ApiError>>), "failed")
    BY <1>5 DEF ReadFails
  <2>2. Continues(ctx, c) /\ Between(c)
    BY <1>0, <2>1, FlushContinues DEF Continues
  <2> DEFINE a == CloseActive(c)
             d == Dropped(Emit(a, <<ApiError>>))
  <2>3. Continues(c, a) /\ Between(a) /\ a.next = c.next
    BY <2>2, CloseActiveContinues DEF Continues
  <2>4. Continues(ctx, a) /\ a.next >= ctx.next
    <3>1. Continues(ctx, a)
      BY <1>0, <2>2, <2>3, ContinuesOn
    <3> QED BY <3>1 DEF Continues
  <2>5. stage = "read" /\ stage' = "done" /\ verdict' = "failed" /\ ctx' = d
    BY <1>5, <2>1 DEF ReadFails, StreamEnds, Finish
  <2> HIDE DEF a
  <2>6. /\ Ended(d) /\ d.next = a.next
        /\ \A b : Reaches(Here, a, "streaming", b) => Reaches(Here, d, "failed", FALSE)
    BY <1>0, <2>3, FailedEnds
  <2> HIDE DEF d
  <2>7. Reaches(Here, ctx, "streaming", ctx.toolUse) => Reaches(Here, a, "streaming", a.toolUse)
    BY <1>0, <2>4, Carried
  <2>8. Due("done", "failed", started', "failed")
    BY DEF Due
  <2>9. dead \/ (Due(stage', verdict', started', "failed") /\ Reaches(Here, d, "failed", FALSE))
    BY <1>r, <2>5, <2>6, <2>7, <2>8
  <2>10. d.next >= ctx.next
    BY <2>4, <2>6
  <2> QED BY <2>5, <2>6, <2>9, <2>10, TaskEnds
<1>6. CASE Settle
  <2>1. PICK c \in Flush(ctx, TRUE) :
           \/ Rejected(c) \/ Search(c) \/ ReplayMalformed(c) \/ MalformedEnds(c)
           \/ EmptyEnds(c) \/ Complete(c)
    BY <1>6 DEF Settle
  <2>2. Continues(ctx, c) /\ Between(c) /\ Honest(c) /\ c.next \in Nat /\ c.next >= ctx.next
    <3>1. Continues(ctx, c)
      BY <1>0, <2>1, FlushContinues
    <3> QED BY <1>0, <3>1 DEF Continues, Between, Context
  <2>3. Reaches(Here, ctx, "streaming", ctx.toolUse) => Reaches(Here, c, "streaming", c.toolUse)
    BY <1>0, <2>2, Carried
  <2>4. stage = "read" /\ started' = started
    BY <1>6 DEF Settle, StreamEnds
  <2>5. CASE Rejected(c) \/ MalformedEnds(c)
    <3> DEFINE d == Dropped(Emit(Block(c, "text"),
                      <<Ev("reason", "end_turn", -1), Ev("stop", "none", -1)>>))
    <3>1. stage' = "closing" /\ ctx' = d
      BY <2>5 DEF Rejected, MalformedEnds, FinalText
    <3>2. /\ Ended(d) /\ d.next >= c.next
          /\ Reaches(Here, c, "streaming", c.toolUse) => Reaches(Here, d, "stopped", FALSE)
      BY <1>0, <2>2, FinalTextEnds
    <3> HIDE DEF d
    <3>3. Due("closing", verdict', started', "stopped")
      BY DEF Due
    <3>4. dead \/ (Due(stage', verdict', started', "stopped") /\ Reaches(Here, d, "stopped", FALSE))
      BY <1>r, <2>3, <2>4, <3>1, <3>2, <3>3
    <3>5. d.next >= ctx.next
      <4>1. d.next \in Nat
        BY <3>2 DEF Ended, Between, Context
      <4> QED BY <1>0, <2>2, <3>2, <4>1
    <3> QED BY <3>1, <3>2, <3>4, <3>5, TaskEnds
  <2>6. CASE Search(c) \/ ReplayMalformed(c)
    <3> DEFINE d == Dropped(CloseActive(c))
    <3>1. stage' = "again" /\ ctx' = d
      BY <2>6 DEF Search, ReplayMalformed
    <3>2. /\ Ended(d) /\ d.next = c.next
          /\ Reaches(Here, c, "streaming", c.toolUse) => Reaches(Here, d, "streaming", FALSE)
      BY <1>0, <2>2, ClosedEnds
    <3> HIDE DEF d
    <3>3. Due("again", verdict', started', "streaming")
      BY DEF Due
    <3>4. dead \/ (Due(stage', verdict', started', "streaming")
                   /\ Reaches(Here, d, "streaming", FALSE))
      BY <1>r, <2>3, <2>4, <3>1, <3>2, <3>3
    <3>5. d.next >= ctx.next
      BY <2>2, <3>2
    <3> QED BY <3>1, <3>2, <3>4, <3>5, TaskEnds
  <2>7. CASE EmptyEnds(c)
    <3> DEFINE d == Dropped(Emit(c, <<ApiError>>))
    <3>1. stage' = "done" /\ verdict' = "failed" /\ ctx' = d
      BY <2>7 DEF EmptyEnds, Finish
    <3>2. /\ Ended(d) /\ d.next = c.next
          /\ \A b : Reaches(Here, c, "streaming", b) => Reaches(Here, d, "failed", FALSE)
      BY <1>0, <2>2, FailedEnds
    <3> HIDE DEF d
    <3>3. Due("done", "failed", started', "failed")
      BY DEF Due
    <3>4. dead \/ (Due(stage', verdict', started', "failed") /\ Reaches(Here, d, "failed", FALSE))
      BY <1>r, <2>3, <2>4, <3>1, <3>2, <3>3
    <3>5. d.next >= ctx.next
      BY <2>2, <3>2
    <3> QED BY <3>1, <3>2, <3>4, <3>5, TaskEnds
  <2>8. CASE Complete(c)
    <3> DEFINE d == Dropped(Emit(CloseActive(c),
                      <<Ev("reason", IF c.toolUse THEN "tool_use" ELSE c.stop, -1),
                        Ev("stop", "none", -1)>>))
    <3>1. stage' = "closing" /\ ctx' = d /\ ~c.intercepting
      BY <2>8 DEF Complete, Plain
    <3>2. /\ Ended(d) /\ d.next = c.next
          /\ Reaches(Here, c, "streaming", c.toolUse) => Reaches(Here, d, "stopped", FALSE)
      BY <1>0, <2>2, <3>1, CompleteEnds
    <3> HIDE DEF d
    <3>3. Due("closing", verdict', started', "stopped")
      BY DEF Due
    <3>4. dead \/ (Due(stage', verdict', started', "stopped") /\ Reaches(Here, d, "stopped", FALSE))
      BY <1>r, <2>3, <2>4, <3>1, <3>2, <3>3
    <3>5. d.next >= ctx.next
      BY <2>2, <3>2
    <3> QED BY <3>1, <3>2, <3>4, <3>5, TaskEnds
  <2> QED BY <2>1, <2>5, <2>6, <2>7, <2>8
<1>7. CASE GoOn
  <2>1. /\ stage = "again" /\ stage' = "turn" /\ ctx' = ctx /\ started' = started
        /\ synthesis' = synthesis
    BY <1>7 DEF GoOn, Keeps
  <2>2. Due("again", verdict, started, p) => p = "streaming"
    BY DEF Due
  <2>3. Due("turn", verdict', started', "streaming")
    BY <1>0, <2>1 DEF Due
  <2>4. dead \/ (Due(stage', verdict', started', "streaming")
                 /\ Reaches(Here, ctx, "streaming", ctx.toolUse))
    BY <1>p, <2>1, <2>2, <2>3
  <2> QED BY <1>0, <2>1, <2>4, TaskGoesOn
<1>8. CASE Conclude
  <2>1. /\ stage = "closing" /\ stage' = "done" /\ ctx' = ctx /\ synthesis' = synthesis
    BY <1>8 DEF Conclude, Keeps
  <2>2. Due("closing", verdict, started, p) => p = "stopped"
    BY DEF Due
  <2>3. Due("done", verdict', started', "stopped")
    BY DEF Due
  <2>4. dead \/ (Due(stage', verdict', started', "stopped")
                 /\ Reaches(Here, ctx, "stopped", ctx.toolUse))
    BY <1>p, <2>1, <2>2, <2>3
  <2> QED BY <1>0, <2>1, <2>4, TaskGoesOn
<1> QED BY <1>1, <1>2, <1>3, <1>4, <1>5, <1>6, <1>7, <1>8

LEMMA TaskCarries ==
  ASSUME MessageInv, Task PROVE Known' /\ Underway'
<1>1. UNCHANGED <<dead, message>>
  BY TaskTellsNothing
<1> QED BY <1>1, TurnCarries, LineCarries, EndCarries DEF Task

\* The bounds are numbers.
LEMMA Limits ==
  /\ TurnLimit \in Nat /\ TurnLimit >= MaxSearch + 3
  /\ MaxSearch \in Nat \ {0} /\ MaxCompatRetries = 2 /\ MaxReadRetries = 2
BY StreamAssumption DEF TurnLimit, MaxCompatRetries, MaxNativeRetries, MaxReadRetries

LEMMA SearchCounts ==
  ASSUME MessageInv, ~synthesis, SearchWeb
  PROVE  /\ searches' \in 0 .. MaxSearch /\ synthesis' \in BOOLEAN
         /\ ~synthesis' => searches' < MaxSearch
<1>1. searches \in 0 .. MaxSearch /\ searches < MaxSearch
  BY DEF MessageInv, Counted
<1>2. CASE synthesis' = TRUE /\ searches' = searches
  BY <1>1, <1>2
<1>3. CASE searches' = searches + 1 /\ synthesis' = (searches + 1 >= MaxSearch)
  <2>1. searches' \in 0 .. MaxSearch
    BY <1>1, <1>3, Limits
  <2>2. synthesis' \in BOOLEAN
    BY <1>3
  <2>3. ~synthesis' => ~(searches + 1 >= MaxSearch)
    BY <1>3
  <2>4. ~synthesis' => searches' < MaxSearch
    BY <1>1, <1>3, <2>3, Limits
  <2> QED BY <2>1, <2>2, <2>4
<1> QED BY <1>2, <1>3 DEF SearchWeb

LEMMA TaskCounts ==
  ASSUME MessageInv, Task PROVE Counted'
<1>0. Counted /\ (ctx.intercepting => ~synthesis) /\ Between(ctx) /\ ctx.next \in Nat
  BY DEF MessageInv, Known, Between, Context
<1>1. UNCHANGED dead
  BY TaskTellsNothing
<1>2. CASE TurnCancelled \/ Takedown \/ ErrorEnds \/ ReadCancelled
  BY <1>0, <1>1, <1>2 DEF Counted, TurnCancelled, Takedown, ErrorEnds, ReadCancelled,
                          Finish, Keeps
<1>3. CASE BeginTurn
  <2>1. turns + 1 \in 0 .. TurnLimit + 1
    BY <1>0, <1>3, Limits DEF Counted, BeginTurn
  <2> QED BY <1>0, <1>1, <1>3, <2>1 DEF Counted, BeginTurn, FinalText
<1>4. CASE UpstreamRefuses \/ UpstreamAnswers \/ ErrorLine \/ GoOn \/ Conclude
  BY <1>0, <1>1, <1>4 DEF Counted, UpstreamRefuses, UpstreamAnswers, ErrorLine, GoOn,
                          Conclude, Finish, Keeps
<1>5. CASE ReasoningLine \/ ContentLine \/ PreambleRejected \/ Oversized
             \/ ToolCallLine \/ FinishLine
  <2>1. UNCHANGED <<stage, turns, searches, synthesis, compat, reads, started, base,
                    notice, ending, verdict>>
    BY <1>5 DEF ReasoningLine, ContentLine, PreambleRejected, Oversized, ToolCallLine,
                FinishLine, Line, Keeps
  <2> QED BY <1>0, <1>1, <2>1 DEF Counted
<1>6. CASE ReplayRead
  <2>1. reads + 1 \in 0 .. MaxReadRetries
    BY <1>0, <1>6, Limits DEF Counted, ReplayRead
  <2> QED BY <1>0, <1>1, <1>6, <2>1 DEF Counted, ReplayRead, StreamEnds
<1>7. CASE ReadFails
  BY <1>0, <1>1, <1>7 DEF Counted, ReadFails, Finish, Keeps
<1>8. CASE Settle
  <2>0. /\ stage = "read" /\ reads' = 0 /\ UNCHANGED <<turns, started, base>>
        /\ 0 \in 0 .. MaxReadRetries
    BY <1>8, Limits DEF Settle, StreamEnds
  <2>1. PICK c \in Flush(ctx, TRUE) :
           \/ Rejected(c) \/ Search(c) \/ ReplayMalformed(c) \/ MalformedEnds(c)
           \/ EmptyEnds(c) \/ Complete(c)
    BY <1>8 DEF Settle
  <2>2. CASE Rejected(c) \/ MalformedEnds(c) \/ EmptyEnds(c) \/ Complete(c)
    BY <1>0, <1>1, <2>0, <2>2 DEF Counted, Rejected, MalformedEnds, EmptyEnds, Complete,
                                  FinalText, Finish
  <2>3. CASE Search(c)
    <3>1. ~synthesis
      BY <1>0, <2>1, <2>3, FlushContinues DEF Continues, Search
    <3>2. /\ searches' \in 0 .. MaxSearch /\ synthesis' \in BOOLEAN
          /\ ~synthesis' => searches' < MaxSearch
      BY <2>3, <3>1, SearchCounts DEF Search
    <3> QED BY <1>0, <1>1, <2>0, <2>3, <3>2 DEF Counted, Search
  <2>4. CASE ReplayMalformed(c)
    <3>1. compat + 1 \in 0 .. MaxCompatRetries
      BY <1>0, <2>4, Limits DEF Counted, ReplayMalformed
    <3> QED BY <1>0, <1>1, <2>0, <2>4, <3>1 DEF Counted, ReplayMalformed
  <2> QED BY <2>1, <2>2, <2>3, <2>4
<1> QED BY <1>2, <1>3, <1>4, <1>5, <1>6, <1>7, <1>8, TaskTellsNothing DEF Task

LEMMA TaskStaged ==
  ASSUME MessageInv, Task PROVE Stages'
<1>0. Stages /\ turns \in Int /\ started \in BOOLEAN /\ ctx.out \in Seq(Event)
  BY DEF MessageInv, Counted, Known, Between, Context
<1>1. UNCHANGED <<dead, phase, at>>
  BY TaskTellsNothing DEF message
<1>2. CASE TurnCancelled \/ Takedown \/ ErrorEnds \/ ReadCancelled
  BY <1>0, <1>1, <1>2 DEF Stages, TurnCancelled, Takedown, ErrorEnds, ReadCancelled,
                          Finish, Keeps
<1>3. CASE BeginTurn
  <2>1. CASE stage' = "upstream" /\ ctx' = ctx /\ verdict' = verdict
    <3>1. stage = "turn" /\ turns' = turns + 1 /\ ctx'.out = <<>> /\ started' = started
      BY <1>3, <2>1 DEF BeginTurn, Idle
    <3>2. started <=> turns > 0
      BY <1>0, <3>1 DEF Stages
    <3>3. turns' > 0 /\ (turns > 0 => turns' > 1) /\ (turns' > 1 => turns > 0)
      <4>1. turns \in 0 .. TurnLimit + 1
        BY DEF MessageInv, Counted
      <4> QED BY <3>1, <4>1, Limits
    <3>4. started' <=> turns' > 1
      BY <3>1, <3>2, <3>3
    <3> QED BY <1>0, <1>1, <2>1, <3>1, <3>3, <3>4 DEF Stages
  <2>2. CASE turns + 1 > TurnLimit
               /\ FinalText(Fresh(ctx.next, ctx.active), "turn_limit", "success")
    <3>1. started
      <4>1. turns > 0
        BY <1>0, <2>2, Limits
      <4> QED BY <1>0, <1>3, <4>1 DEF Stages, BeginTurn
    <3> QED BY <1>0, <1>1, <1>3, <2>2, <3>1 DEF Stages, BeginTurn, FinalText
  <2> QED BY <1>3, <2>1, <2>2 DEF BeginTurn
<1>4. CASE UpstreamRefuses \/ UpstreamAnswers \/ ErrorLine \/ GoOn
  BY <1>0, <1>1, <1>4 DEF Stages, UpstreamRefuses, UpstreamAnswers, ErrorLine, GoOn,
                          Finish, Keeps
<1>5. CASE ReasoningLine \/ ContentLine \/ PreambleRejected \/ Oversized
             \/ ToolCallLine \/ FinishLine
  <2>1. /\ stage = "read"
        /\ UNCHANGED <<stage, turns, searches, synthesis, compat, reads, started, base,
                       notice, ending, verdict>>
    BY <1>5 DEF ReasoningLine, ContentLine, PreambleRejected, Oversized, ToolCallLine,
                FinishLine, Line, Keeps
  <2> QED BY <1>0, <1>1, <2>1 DEF Stages
<1>6. CASE ReplayRead \/ ReadFails
  BY <1>0, <1>1, <1>6 DEF Stages, ReplayRead, ReadFails, StreamEnds, Finish, Keeps
<1>7. CASE Settle
  <2>0. stage = "read" /\ UNCHANGED <<turns, started, base>>
    BY <1>7 DEF Settle, StreamEnds
  <2>1. PICK c \in Flush(ctx, TRUE) :
           \/ Rejected(c) \/ Search(c) \/ ReplayMalformed(c) \/ MalformedEnds(c)
           \/ EmptyEnds(c) \/ Complete(c)
    BY <1>7 DEF Settle
  <2> QED BY <1>0, <1>1, <2>0, <2>1
          DEF Stages, Rejected, Search, ReplayMalformed, MalformedEnds, EmptyEnds,
              Complete, FinalText, Finish
<1>8. CASE Conclude
  <2>1. /\ stage = "closing" /\ stage' = "done" /\ verdict' = ending /\ ctx.out = <<>>
        /\ ~dead /\ started' = started
    BY <1>8 DEF Conclude, Idle, Keeps
  <2>2. PICK p : Due("closing", verdict, started, p) /\ Reaches(Here, ctx, p, ctx.toolUse)
    BY <2>1 DEF MessageInv, Underway
  <2>3. p = "stopped"
    BY <2>2 DEF Due
  <2>4. PICK t \in Client : Leads(Here, ctx.out, t) /\ t.phase = "stopped"
    BY <2>2, <2>3 DEF Reaches
  <2>5. Here \in Client
    BY DEF MessageInv, Known
  <2>6. Here.phase = "stopped"
    BY <2>1, <2>4, <2>5, Arrived
  <2>7. phase = "stopped"
    BY <2>6 DEF Here
  <2> QED BY <1>0, <1>1, <2>1, <2>7 DEF Stages
<1> QED BY <1>2, <1>3, <1>4, <1>5, <1>6, <1>7, <1>8 DEF Task

-----------------------------------------------------------------------------
(* Steps between the task and the client, and those of an answer that is   *)
(* not streamed.                                                           *)

\* A context without its first event, or without any.
LEMMA Shortened ==
  ASSUME NEW c, Between(c), Honest(c), NEW q,
         (q = Tail(c.out) /\ c.out # <<>>) \/ q = <<>>
  PROVE  LET d == [c EXCEPT !.out = q]
         IN  /\ Between(d) /\ Honest(d) /\ d.out = q
             /\ d.next = c.next /\ d.active = c.active
             /\ d.toolUse = c.toolUse /\ d.intercepting = c.intercepting
<1> DEFINE d == [c EXCEPT !.out = q]
<1>1. c \in Context /\ c.out \in Seq(Event) /\ Numbered(c)
  BY DEF Between, Context
<1>2. q \in Seq(Event)
  <2>1. CASE q = Tail(c.out) /\ c.out # <<>>
    BY <1>1, <2>1, HeadTailProperties
  <2>2. CASE q = <<>>
    BY <2>2
  <2> QED BY <2>1, <2>2
<1>3. /\ d \in Context /\ d.out = q /\ d.next = c.next /\ d.active = c.active
      /\ d.toolUse = c.toolUse /\ d.intercepting = c.intercepting /\ d.stop = c.stop
  BY <1>1, <1>2 DEF Context
<1> HIDE DEF d
<1>4. ASSUME NEW i \in 1 .. Len(q) PROVE q[i].index < c.next
  <2>1. CASE q = Tail(c.out) /\ c.out # <<>>
    <3>1. Len(c.out) \in Nat /\ Len(q) = Len(c.out) - 1 /\ q[i] = c.out[i + 1]
      BY <1>1, <2>1, HeadTailProperties, LenProperties
    <3>2. i + 1 \in 1 .. Len(c.out)
      BY <3>1
    <3> QED BY <1>1, <3>1, <3>2 DEF Numbered
  <2>2. CASE q = <<>>
    BY <2>2
  <2> QED BY <2>1, <2>2
<1>5. Between(d) /\ Honest(d)
  BY <1>3, <1>4 DEF Between, Numbered, Honest
<1> QED BY <1>3, <1>5 DEF d

LEMMA DeliverKeeps ==
  ASSUME MessageInv, Deliver
  PROVE  MessageInv' /\ [Message!Next]_(Message!vars)
<1>1. /\ ~dead /\ ctx.out # <<>> /\ Receive(Head(ctx.out))
      /\ ctx' = [ctx EXCEPT !.out = Tail(ctx.out)]
      /\ UNCHANGED <<stage, turns, searches, synthesis, compat, reads, started, base,
                     notice, ending, verdict, dead>>
  BY DEF Deliver, Idle
<1>2. /\ Between(ctx) /\ Honest(ctx) /\ Here \in Client /\ ctx.out \in Seq(Event)
      /\ ctx.next \in Nat /\ Numbered(ctx) /\ at < ctx.next /\ (ctx.intercepting => ~synthesis)
  BY DEF MessageInv, Known, Between, Context
<1>3. PICK p : Due(stage, verdict, started, p) /\ Reaches(Here, ctx, p, ctx.toolUse)
  BY <1>1 DEF MessageInv, Underway
<1>4. PICK t \in Client :
        /\ Leads(Here, ctx.out, t)
        /\ t.phase = p /\ t.at = ctx.next - 1 /\ t.open = ctx.active
        /\ ctx.toolUse => t.tools
  BY <1>3 DEF Reaches
<1>5. PICK r \in Client : Takes(Here, Head(ctx.out), r) /\ Leads(r, Tail(ctx.out), t)
  BY <1>1, <1>2, <1>4, FirstTaken
<1>6. Here' = r /\ [Message!Next]_(Message!vars)
  BY <1>1, <1>2, <1>5, DeliveredInTurn
<1> DEFINE d == [ctx EXCEPT !.out = Tail(ctx.out)]
<1>7. /\ Between(d) /\ Honest(d) /\ d.out = Tail(ctx.out)
      /\ d.next = ctx.next /\ d.active = ctx.active
      /\ d.toolUse = ctx.toolUse /\ d.intercepting = ctx.intercepting
  BY <1>1, <1>2, Shortened
<1>8. ctx' = d
  BY <1>1
<1> HIDE DEF d
<1>9. Counted'
  BY <1>1 DEF MessageInv, Counted
<1>10. Known'
  <2>1. Head(ctx.out) = ctx.out[1] /\ 1 \in 1 .. Len(ctx.out)
    BY <1>1, <1>2, HeadTailProperties, EmptySeq, LenProperties
  <2>2. ctx.out[1].index < ctx.next
    BY <1>2, <2>1 DEF Numbered
  <2>3. r.at = Here.at \/ r.at = ctx.out[1].index
    BY <1>5, <2>1 DEF Takes
  <2>4. Here.at = at
    BY DEF Here
  <2>5. r.at < ctx.next
    BY <1>2, <2>2, <2>3, <2>4
  <2>6. at' = r.at
    <3>1. Here'.at = at'
      BY DEF Here
    <3> QED BY <1>6, <3>1
  <2> QED BY <1>1, <1>2, <1>5, <1>6, <1>7, <1>8, <2>5, <2>6 DEF Known
<1>11. Underway'
  <2>1. Due(stage', verdict', started', p)
    BY <1>1, <1>3
  <2>2. Reaches(Here', ctx', p, ctx'.toolUse)
    BY <1>4, <1>5, <1>6, <1>7, <1>8 DEF Reaches
  <2> QED BY <2>1, <2>2 DEF Underway
<1>12. Stages'
  <2>1. phase # "stopped"
    <3>1. Here.phase # "stopped"
      BY <1>5 DEF Takes
    <3> QED BY <3>1 DEF Here
  <2>2. Stages
    BY DEF MessageInv
  <2> QED BY <1>1, <2>1, <2>2 DEF Stages
<1> QED BY <1>6, <1>9, <1>10, <1>11, <1>12 DEF MessageInv

LEMMA SendFailsKeeps ==
  ASSUME MessageInv, SendFails PROVE MessageInv'
<1> DEFINE d == [ctx EXCEPT !.out = <<>>]
<1>1. /\ ctx.out # <<>> /\ dead' = TRUE /\ ctx' = d
      /\ UNCHANGED <<stage, turns, searches, synthesis, compat, reads, started, base,
                     notice, ending, verdict, phase, at, open, tools, reason>>
  BY DEF SendFails, Idle, message
<1>2. /\ Between(ctx) /\ Honest(ctx) /\ Here \in Client /\ ctx.out \in Seq(Event)
      /\ at < ctx.next /\ (ctx.intercepting => ~synthesis)
  BY DEF MessageInv, Known, Between, Context
<1>3. /\ Between(d) /\ Honest(d) /\ d.out = <<>>
      /\ d.next = ctx.next /\ d.intercepting = ctx.intercepting
  BY <1>2, Shortened
<1> HIDE DEF d
<1>4. Counted'
  BY <1>1 DEF MessageInv, Counted
<1>5. Here' = Here
  BY <1>1 DEF Here
<1>6. Known'
  BY <1>1, <1>2, <1>3, <1>5 DEF Known
<1>7. phase # "failed"
  <2>1. CASE dead
    BY <2>1 DEF MessageInv, Stages
  <2>2. CASE ~dead
    <3>1. PICK p : Reaches(Here, ctx, p, ctx.toolUse)
      BY <2>2 DEF MessageInv, Underway
    <3>2. PICK t \in Client : Leads(Here, ctx.out, t)
      BY <3>1 DEF Reaches
    <3>3. Here.phase # "failed"
      BY <1>1, <1>2, <3>2, FailedStays
    <3> QED BY <3>3 DEF Here
  <2> QED BY <2>1, <2>2
<1>8. Stages'
  <2>1. Stages
    BY DEF MessageInv
  <2> QED BY <1>1, <1>3, <1>7, <2>1 DEF Stages
<1>9. Underway'
  BY <1>1 DEF Underway
<1> QED BY <1>4, <1>6, <1>8, <1>9 DEF MessageInv

LEMMA SyncTellsNothing ==
  ASSUME SyncNext
  PROVE  UNCHANGED <<reads, started, base, ctx, ending, dead, message>>
BY DEF SyncNext, SyncBegin, SyncFails, SyncCancelled, SyncRejected, SyncMalformed,
       SyncSearch, SyncCompletes, Answered, SyncKeeps

LEMMA SyncKeepsInv ==
  ASSUME MessageInv, SyncNext PROVE MessageInv'
<1>0. UNCHANGED <<reads, started, base, ctx, ending, dead, phase, at, open, tools, reason>>
  BY SyncTellsNothing DEF message
<1>1. /\ stage \in {"sync", "upstream_sync"}
      /\ stage' \in {"sync", "upstream_sync", "done"}
      /\ verdict' # "none" => stage' = "done"
      /\ verdict' \in {"none", "success", "failed", "cancelled"}
      /\ notice' \in {"none", "turn_limit", "rejected", "malformed"}
  <2>1. /\ notice \in {"none", "turn_limit", "rejected", "malformed"}
        /\ verdict \in {"none", "success", "failed", "cancelled"}
        /\ verdict # "none" => stage = "done"
    BY DEF MessageInv, Counted, Stages
  <2> QED BY <2>1 DEF SyncNext, SyncBegin, SyncFails, SyncCancelled, SyncRejected,
                      SyncMalformed, SyncSearch, SyncCompletes, Answered, Returns
<1>2. ~started /\ ctx.out = <<>> /\ ~ctx.intercepting /\ at = -1 /\ base = 0 /\ Stages
  BY <1>1 DEF MessageInv, Stages
<1>3. turns' \in 0 .. TurnLimit + 1 /\ (stage' # "done" => turns' <= TurnLimit)
  <2>1. turns \in 0 .. TurnLimit + 1 /\ turns <= TurnLimit
    BY <1>1 DEF MessageInv, Counted
  <2>2. CASE SyncBegin
    <3>1. /\ turns' = turns + 1
          /\ turns + 1 > SyncTurnLimit \/ stage' = "upstream_sync"
          /\ turns + 1 > SyncTurnLimit => stage' = "done"
      BY <2>2 DEF SyncBegin, Returns
    <3>2. SyncTurnLimit <= TurnLimit /\ SyncTurnLimit \in Nat
      BY Limits DEF SyncTurnLimit
    <3> QED BY <2>1, <3>1, <3>2, Limits
  <2>3. CASE ~SyncBegin
    <3>1. turns' = turns
      BY <2>3 DEF SyncNext, SyncFails, SyncCancelled, SyncRejected, SyncMalformed,
                  SyncSearch, SyncCompletes, Answered
    <3> QED BY <2>1, <3>1
  <2> QED BY <2>2, <2>3
<1>4. compat' \in 0 .. MaxCompatRetries
  <2>1. compat \in 0 .. MaxCompatRetries
    BY DEF MessageInv, Counted
  <2>2. CASE SyncMalformed
    <3>1. compat' = compat \/ (compat < MaxSyncRetries /\ compat' = compat + 1)
      BY <2>2 DEF SyncMalformed
    <3> QED BY <2>1, <3>1, Limits DEF MaxSyncRetries
  <2>3. CASE ~SyncMalformed
    <3>1. compat' = compat
      BY <2>3 DEF SyncNext, SyncBegin, SyncFails, SyncCancelled, SyncRejected,
                  SyncSearch, SyncCompletes
    <3> QED BY <2>1, <3>1
  <2> QED BY <2>2, <2>3
<1>5. /\ searches' \in 0 .. MaxSearch /\ synthesis' \in BOOLEAN
      /\ ~synthesis' => searches' < MaxSearch
  <2>1. CASE SyncSearch
    BY <2>1, SearchCounts DEF SyncSearch
  <2>2. CASE ~SyncSearch
    <3>1. searches' = searches /\ synthesis' = synthesis
      BY <2>2 DEF SyncNext, SyncBegin, SyncFails, SyncCancelled, SyncRejected,
                  SyncMalformed, SyncCompletes
    <3> QED BY <3>1 DEF MessageInv, Counted
  <2> QED BY <2>1, <2>2
<1>6. Counted'
  BY <1>0, <1>1, <1>3, <1>4, <1>5 DEF MessageInv, Counted
<1>7. Here' = Here
  BY <1>0 DEF Here
<1>8. Known'
  BY <1>0, <1>2, <1>7 DEF MessageInv, Known
<1>9. Stages'
  BY <1>0, <1>1, <1>2 DEF Stages
<1>10. Underway'
  <2>1. CASE dead
    BY <1>0, <2>1 DEF Underway
  <2>2. CASE ~dead
    <3>1. PICK p : Due(stage, verdict, started, p) /\ Reaches(Here, ctx, p, ctx.toolUse)
      BY <2>2 DEF MessageInv, Underway
    <3>2. Due(stage', verdict', started', p)
      BY <1>0, <1>1, <1>2, <3>1 DEF Due
    <3> QED BY <1>0, <1>7, <3>1, <3>2 DEF Underway
  <2> QED BY <2>1, <2>2
<1> QED BY <1>6, <1>8, <1>9, <1>10 DEF MessageInv

-----------------------------------------------------------------------------
(* Theorems.                                                               *)

LEMMA InitiallySound ==
  ASSUME MessagesInit PROVE MessageInv /\ Message!Init
<1>1. PICK where \in {"turn", "sync"} : InitAt(where)
  BY DEF MessagesInit
<1>2. Message!Init /\ ctx = Fresh(0, "none")
  BY <1>1 DEF InitAt
<1>3. phase = "idle" /\ at = -1 /\ open = "none" /\ tools = FALSE
  BY <1>2 DEF Message!Init
<1>4. /\ Between(ctx) /\ Honest(ctx) /\ ctx.out = <<>> /\ ctx.next = 0
      /\ ctx.active = "none" /\ ctx.toolUse = FALSE /\ ctx.intercepting = FALSE
  BY <1>2, FreshShape
<1>5. Here \in Client /\ Here.phase = "idle" /\ Here.at = -1 /\ Here.open = "none"
  <2>1. phase \in {"idle", "streaming", "closing", "stopped", "failed"} /\ at \in Int
        /\ open \in {"none", "thinking", "text", "tool_use"} /\ tools \in BOOLEAN
    <3>1. -1 \in Int
      OBVIOUS
    <3>2. tools \in BOOLEAN /\ open \in {"none", "thinking", "text", "tool_use"}
      BY <1>3
    <3>3. phase \in {"idle", "streaming", "closing", "stopped", "failed"} /\ at \in Int
      BY <1>3, <3>1, Zenon
    <3> QED BY <3>2, <3>3
  <2>2. Here.phase = "idle" /\ Here.at = -1 /\ Here.open = "none"
    BY <1>3 DEF Here
  <2> QED BY <2>1, <2>2 DEF Here, Client
<1>6. Counted
  <2>1. /\ stage = where /\ turns = 0 /\ searches = 0 /\ synthesis = FALSE
        /\ compat = 0 /\ reads = 0 /\ started = FALSE /\ base = 0 /\ dead = FALSE
        /\ notice = "none" /\ ending = "none" /\ verdict = "none"
    BY <1>1 DEF InitAt
  <2>2. /\ 0 \in 0 .. TurnLimit + 1 /\ 0 \in 0 .. MaxSearch
        /\ 0 \in 0 .. MaxCompatRetries /\ 0 \in 0 .. MaxReadRetries
        /\ 0 <= TurnLimit /\ 0 < MaxSearch /\ 0 \in Nat
    BY Limits
  <2> QED BY <2>1, <2>2 DEF Counted
<1>7. Known
  BY <1>3, <1>4, <1>5 DEF Known
<1>8. Stages
  BY <1>1, <1>3, <1>4 DEF InitAt, Stages
<1>9. Underway
  <2>1. Leads(Here, ctx.out, Here)
    BY <1>4, <1>5, NothingLeads
  <2>2. Reaches(Here, ctx, "idle", ctx.toolUse)
    BY <1>4, <1>5, <2>1 DEF Reaches
  <2>3. Due(stage, verdict, started, "idle")
    BY <1>1 DEF InitAt, Due
  <2> QED BY <2>2, <2>3 DEF Underway
<1> QED BY <1>2, <1>6, <1>7, <1>8, <1>9 DEF MessageInv

LEMMA StutterKeeps ==
  ASSUME MessageInv, UNCHANGED streamVars PROVE MessageInv' /\ UNCHANGED Message!vars
BY DEF streamVars, task, message, Message!vars, MessageInv, Counted, Known, Stages,
       Underway, Here

LEMMA StepKeeps ==
  ASSUME MessageInv, [MessagesNext]_streamVars
  PROVE  MessageInv' /\ [Message!Next]_(Message!vars)
<1>1. CASE Deliver
  BY <1>1, DeliverKeeps
<1>2. CASE SendFails
  <2>1. UNCHANGED Message!vars
    BY <1>2 DEF SendFails, message, Message!vars
  <2> QED BY <1>2, <2>1, SendFailsKeeps
<1>3. CASE Task
  <2>1. UNCHANGED Message!vars
    BY <1>3, TaskTellsNothing DEF message, Message!vars
  <2> QED BY <1>3, <2>1, TaskCarries, TaskCounts, TaskStaged DEF MessageInv
<1>4. CASE SyncNext
  <2>1. UNCHANGED Message!vars
    BY <1>4, SyncTellsNothing DEF message, Message!vars
  <2> QED BY <1>4, <2>1, SyncKeepsInv
<1>5. CASE UNCHANGED streamVars
  BY <1>5, StutterKeeps
<1> QED BY <1>1, <1>2, <1>3, <1>4, <1>5 DEF MessagesNext, StreamNext, SyncNext

\* The events on their way to the client always take it, legally, to where the
\* task believes its message to be.
THEOREM MessagesSound == Messages => []MessageInv
<1>1. MessagesInit => MessageInv
  BY InitiallySound
<1>2. MessageInv /\ [MessagesNext]_streamVars => MessageInv'
  BY StepKeeps
<1> QED BY <1>1, <1>2, PTL DEF Messages

\* Every variable of a message stays within its type, and the turns, searches
\* and replays within their budgets.
THEOREM MessagesTypeCorrect == Messages => []StreamTypeOK
<1>1. MessageInv => StreamTypeOK
  BY DEF MessageInv, Counted, Known, StreamTypeOK, Between, Context
<1> QED BY <1>1, MessagesSound, PTL

\* What the history records of a streamed answer is what the client was told.
THEOREM RecordsMatch == Messages => []RecordMatchesMessage
<1>1. ASSUME MessageInv PROVE RecordMatchesMessage
  <2>1. Stages /\ Here \in Client /\ ctx.out \in Seq(Event)
    BY <1>1 DEF MessageInv, Known, Between, Context
  <2>2. ~dead => /\ stage = "done" /\ verdict # "failed" => phase # "failed"
                 /\ stage = "done" /\ verdict = "failed" /\ started /\ Idle
                      => phase \in {"stopped", "failed"}
    <3> SUFFICES ASSUME ~dead
                 PROVE  /\ stage = "done" /\ verdict # "failed" => phase # "failed"
                        /\ stage = "done" /\ verdict = "failed" /\ started /\ Idle
                             => phase \in {"stopped", "failed"}
      OBVIOUS
    <3>1. PICK p : Due(stage, verdict, started, p) /\ Reaches(Here, ctx, p, ctx.toolUse)
      BY <1>1 DEF MessageInv, Underway
    <3>2. PICK t \in Client : Leads(Here, ctx.out, t) /\ t.phase = p
      BY <3>1 DEF Reaches
    <3>3. Here.phase = phase
      BY DEF Here
    <3>4. ctx.out = <<>> => p = phase
      BY <2>1, <3>2, <3>3, Arrived
    <3>5. phase = "failed" => ctx.out = <<>>
      BY <2>1, <3>2, <3>3, FailedStays
    <3> QED BY <3>1, <3>4, <3>5 DEF Due, Idle
  <2> QED BY <2>1, <2>2 DEF Stages, RecordMatchesMessage
<1> QED BY <1>1, MessagesSound, PTL

\* Whatever the upstream streams hold, the client is sent one message as
\* AssistantMessage has it: opened once, blocks one after the other, numbered
\* without a gap, and one end.
THEOREM MessageImplemented == Messages => ImplementsMessage
<1>1. MessagesInit => Message!Init
  BY InitiallySound
<1>2. MessageInv /\ [MessagesNext]_streamVars => [Message!Next]_(Message!vars)
  BY StepKeeps
<1> QED BY <1>1, <1>2, MessagesSound, PTL DEF Messages, ImplementsMessage, Message!Spec

\* A request is replayed only while the client has got nothing of the attempt.
THEOREM ReplaysUnseen == Messages => ReplayUnseen
<1>1. ASSUME MessageInv, [MessagesNext]_streamVars
      PROVE  [reads' > reads \/ compat' > compat => at < base]_streamVars
  <2>0. /\ reads \in Int /\ compat \in Int /\ base \in Nat /\ at < ctx.next
        /\ Between(ctx) /\ ctx.next \in Nat /\ at \in Int /\ Here \in Client
    <3>1. Here \in Client /\ Here.at = at
      BY <1>1 DEF MessageInv, Known, Here
    <3> QED BY <1>1, <3>1 DEF MessageInv, Counted, Known, Between, Context, Client
  <2>1. CASE ReplayRead
    BY <2>0, <2>1 DEF ReplayRead, Unseen
  <2>2. CASE Settle
    <3>1. reads' = 0 /\ reads >= 0
      BY <1>1, <2>2 DEF Settle, MessageInv, Counted
    <3>2. PICK c \in Flush(ctx, TRUE) :
             \/ Rejected(c) \/ Search(c) \/ ReplayMalformed(c) \/ MalformedEnds(c)
             \/ EmptyEnds(c) \/ Complete(c)
      BY <2>2 DEF Settle
    <3>3. CASE ReplayMalformed(c)
      <4>1. c.next = base /\ c.next >= ctx.next
        BY <2>0, <3>2, <3>3, FlushContinues DEF ReplayMalformed, Continues
      <4> QED BY <2>0, <4>1
    <3>4. CASE ~ReplayMalformed(c)
      <4>1. compat' = compat
        BY <3>2, <3>4 DEF Rejected, Search, MalformedEnds, EmptyEnds, Complete
      <4> QED BY <2>0, <3>1, <4>1
    <3> QED BY <3>3, <3>4
  <2>3. CASE SyncMalformed
    BY <1>1, <2>3 DEF MessageInv, Stages, SyncMalformed, Answered
  <2>4. CASE ~ReplayRead /\ ~Settle /\ ~SyncMalformed
    <3>1. reads' = reads /\ compat' = compat
      <4>1. CASE Task
        BY <2>4, <4>1 DEF Task, TurnCancelled, BeginTurn, UpstreamRefuses,
             UpstreamAnswers, Takedown, ReasoningLine, ContentLine, PreambleRejected,
             Oversized, ToolCallLine, FinishLine, ErrorLine, ErrorEnds, ReadCancelled,
             ReadFails, GoOn, Conclude, Line, Keeps
      <4>2. CASE SyncNext
        BY <2>4, <4>2, SyncTellsNothing DEF SyncNext, SyncBegin, SyncFails,
             SyncCancelled, SyncRejected, SyncSearch, SyncCompletes
      <4>3. CASE Deliver \/ SendFails \/ UNCHANGED streamVars
        BY <4>3 DEF Deliver, SendFails, streamVars, task
      <4> QED BY <1>1, <4>1, <4>2, <4>3 DEF MessagesNext, StreamNext, SyncNext
    <3> QED BY <2>0, <3>1
  <2> QED BY <2>1, <2>2, <2>3, <2>4
<1>2. MessageInv /\ [MessagesNext]_streamVars
        => [reads' > reads \/ compat' > compat => at < base]_streamVars
  BY <1>1
<1> QED BY <1>2, MessagesSound, PTL DEF Messages, ReplayUnseen

=============================================================================
