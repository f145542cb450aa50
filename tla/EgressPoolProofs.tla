-------------------------- MODULE EgressPoolProofs --------------------------
(***************************************************************************)
(* Theorems about the egress pool, for every number of nodes, assignment   *)
(* of roles, set of addresses and length of the deadlines.                 *)
(*                                                                         *)
(* The inductive invariant is PoolInv: every field has its type and the    *)
(* fields of every node agree.  Typing alone is not inductive for the rate *)
(* limit (an open circuit is re-armed with the quota deadline only because *)
(* the cause RateLimit implies that there is one), and the absence of a    *)
(* fresh lease inside a quota follows from the agreement of the fields.    *)
(***************************************************************************)
EXTENDS EgressPool, TLAPS

-----------------------------------------------------------------------------
(* One node: every operation takes a well-formed entry whose fields agree  *)
(* to another one.                                                         *)

GoodEntry == {e \in Entry : Coherent(e)}

\* The values the operations write are values of the fields' types.
LEMMA Values ==
  /\ TRUE \in BOOLEAN /\ FALSE \in BOOLEAN
  /\ {"Unknown", "Healthy", "Degraded", "Unhealthy", "Recovering"} \subseteq Health
  /\ {"Closed", "Open", "HalfOpen"} \subseteq Circuit
  /\ {"None", "Transport", "RateLimit"} \subseteq Cause
  /\ 0 \in Nat /\ Cooldown \in Nat /\ RotationRetry \in Nat
  /\ None \in Nat \cup {None} /\ NoIP \in IP \cup {NoIP}
  /\ 0 \in 0 .. FailureThreshold
  /\ 0 \in 0 .. RecoverySuccessCount
  /\ 0 \in 0 .. MaxAttempts
BY NodeAssumption
   DEF Health, Circuit, Cause, FailureThreshold, RecoverySuccessCount

\* A saturating counter stays within its cap.
LEMMA UpToRange ==
  ASSUME NEW cap \in Nat, NEW n \in 0 .. cap
  PROVE  UpTo(n + 1, cap) \in 0 .. cap
BY DEF UpTo

\* A node built from its configuration (build_entry).
LEMMA NewEntryGood ==
  ASSUME NEW r \in BOOLEAN
  PROVE  NewEntry(r) \in GoodEntry
<1>1. NewEntry(r) \in Entry
  BY Values DEF NewEntry, Entry
<1>2. Coherent(NewEntry(r))
  BY DEF NewEntry, Coherent
<1> QED BY <1>1, <1>2 DEF GoodEntry

\* Time: deadlines come nearer and none is lost.
LEMMA ElapseGood ==
  ASSUME NEW e \in GoodEntry
  PROVE  Elapse(e) \in GoodEntry
<1> DEFINE u == IF e.circuit = "Open" /\ e.until > 0 THEN e.until - 1
                                                      ELSE e.until
           q == IF e.quota > 0 THEN e.quota - 1 ELSE e.quota
<1>1. e \in Entry /\ Coherent(e)
  BY DEF GoodEntry
<1>2. u \in Nat
  BY <1>1 DEF Entry
<1>3. q \in Nat \cup {None} /\ (q = None <=> e.quota = None)
  BY <1>1 DEF Entry, None
<1>4. Elapse(e) = [e EXCEPT !.until = u, !.quota = q]
  BY DEF Elapse
<1> HIDE DEF u, q
<1>5. Elapse(e) \in Entry
  BY <1>1, <1>2, <1>3, <1>4 DEF Entry
<1>6. Coherent(Elapse(e))
  BY <1>1, <1>3, <1>4 DEF Coherent, Entry
<1> QED BY <1>5, <1>6 DEF GoodEntry

\* mark_node_healthy resets health, circuit and cause together.
LEMMA MarkNodeHealthyGood ==
  ASSUME NEW e \in GoodEntry
  PROVE  MarkNodeHealthy(e) \in GoodEntry
<1>1. e \in Entry
  BY DEF GoodEntry
<1>2. MarkNodeHealthy(e) \in Entry
  BY <1>1, Values DEF MarkNodeHealthy, Entry
<1>3. Coherent(MarkNodeHealthy(e))
  BY <1>1 DEF MarkNodeHealthy, Coherent, Entry
<1> QED BY <1>2, <1>3 DEF GoodEntry

\* A success counts, and may be the one that heals.
LEMMA RecordSuccessGood ==
  ASSUME NEW e \in GoodEntry
  PROVE  RecordSuccess(e) \in GoodEntry
<1> DEFINE s == UpTo(e.successes + 1, RecoverySuccessCount)
           f == [e EXCEPT !.failures = 0, !.successes = s]
<1>1. e \in Entry /\ Coherent(e)
  BY DEF GoodEntry
<1>2. s \in 0 .. RecoverySuccessCount
  <2>1. e.successes \in 0 .. RecoverySuccessCount
    BY <1>1 DEF Entry
  <2> QED BY <2>1, UpToRange DEF RecoverySuccessCount
<1> HIDE DEF s
<1>3. f \in Entry
  BY <1>1, <1>2, Values DEF Entry
<1>4. Coherent(f)
  BY <1>1 DEF Coherent, Entry
<1>5. f \in GoodEntry /\ MarkNodeHealthy(f) \in GoodEntry
  BY <1>3, <1>4, MarkNodeHealthyGood DEF GoodEntry
<1>6. RecordSuccess(e) \in {f, MarkNodeHealthy(f)}
  BY DEF RecordSuccess, s
<1> QED BY <1>5, <1>6

\* A failure replaces a transport cause only: a rate limit keeps its quota.
LEMMA RecordFailureGood ==
  ASSUME NEW e \in GoodEntry
  PROVE  RecordFailure(e) \in GoodEntry
<1> DEFINE c == IF e.cause = "RateLimit" THEN e
                ELSE [e EXCEPT !.cause = "Transport", !.quota = None,
                               !.quarantined = NoIP]
           k == UpTo(c.failures + 1, FailureThreshold)
           f == [c EXCEPT !.successes = 0, !.failures = k]
<1>1. e \in Entry /\ Coherent(e)
  BY DEF GoodEntry
<1>2. c \in Entry
  BY <1>1, Values DEF Entry
<1>3. Coherent(c)
  BY <1>1 DEF Coherent, Entry
<1>4. RecordFailure(e) =
        IF Trips(e)
        THEN [f EXCEPT !.health = "Unhealthy", !.circuit = "Open",
                       !.until = Cooldown]
        ELSE [f EXCEPT !.health = "Degraded"]
  BY DEF RecordFailure
<1> HIDE DEF c
<1>5. k \in 0 .. FailureThreshold
  <2>1. c.failures \in 0 .. FailureThreshold
    BY <1>2 DEF Entry
  <2> QED BY <2>1, UpToRange DEF FailureThreshold
<1> HIDE DEF k
<1>6. f \in Entry
  BY <1>2, <1>5, Values DEF Entry
<1>7. /\ f.health = c.health /\ f.circuit = c.circuit /\ f.quota = c.quota
      /\ f.cause = c.cause /\ f.quarantined = c.quarantined
  BY <1>2 DEF Entry
<1> HIDE DEF f
<1>8. RecordFailure(e) \in Entry
  BY <1>4, <1>6, Values DEF Entry
<1>9. Coherent(RecordFailure(e))
  BY <1>3, <1>4, <1>6, <1>7 DEF Coherent, Entry
<1> QED BY <1>8, <1>9 DEF GoodEntry

\* A rate limit sets deadline, cause and quarantined address together.
LEMMA MarkRateLimitedGood ==
  ASSUME NEW e \in GoodEntry, NEW d \in Quotas
  PROVE  MarkRateLimited(e, d) \in GoodEntry
<1> DEFINE q == Later(e.quota, d)
           a == IF e.exit # NoIP THEN e.exit ELSE e.quarantined
<1>1. e \in Entry /\ Coherent(e)
  BY DEF GoodEntry
<1>2. q \in Nat
  BY <1>1, NodeAssumption DEF Entry, Later, None
<1>3. a \in IP \cup {NoIP}
  BY <1>1 DEF Entry
<1>4. MarkRateLimited(e, d) =
        [e EXCEPT !.quota = q, !.quarantined = a, !.cause = "RateLimit",
                  !.successes = 0, !.failures = 0]
  BY DEF MarkRateLimited
<1> HIDE DEF q, a
<1>5. MarkRateLimited(e, d) \in Entry
  BY <1>1, <1>2, <1>3, <1>4, Values DEF Entry
<1>6. Coherent(MarkRateLimited(e, d))
  BY <1>1, <1>2, <1>4 DEF Coherent, Entry, None
<1> QED BY <1>5, <1>6 DEF GoodEntry

\* Clearing a rate limit drops deadline and cause together.
LEMMA ClearRateLimitRecoveryGood ==
  ASSUME NEW e \in GoodEntry
  PROVE  ClearRateLimitRecovery(e) \in GoodEntry
<1> DEFINE c == IF e.cause = "RateLimit" THEN "None" ELSE e.cause
<1>1. e \in Entry /\ Coherent(e)
  BY DEF GoodEntry
<1>2. c \in Cause /\ c # "RateLimit"
  BY <1>1, Values DEF Entry
<1>3. ClearRateLimitRecovery(e) =
        [e EXCEPT !.quota = None, !.quarantined = NoIP, !.cause = c]
  BY DEF ClearRateLimitRecovery
<1> HIDE DEF c
<1>4. ClearRateLimitRecovery(e) \in Entry
  BY <1>1, <1>2, <1>3, Values DEF Entry
<1>5. Coherent(ClearRateLimitRecovery(e))
  BY <1>1, <1>2, <1>3 DEF Coherent, Entry
<1> QED BY <1>4, <1>5 DEF GoodEntry

\* Of an expired node the circuit half-opens or the quota ends.
LEMMA RecoverExpiredGood ==
  ASSUME NEW e \in GoodEntry
  PROVE  RecoverExpired(e) \in GoodEntry
<1> DEFINE c == IF e.quota = 0 THEN ClearRateLimitRecovery(e) ELSE e
<1>1. e \in Entry /\ Coherent(e)
  BY DEF GoodEntry
<1>2. c \in Entry /\ Coherent(c)
  BY <1>1, ClearRateLimitRecoveryGood DEF GoodEntry
<1>3. CASE e.circuit # "Open" \/ e.until > 0
  BY <1>3 DEF RecoverExpired
<1>4. CASE /\ ~(e.circuit # "Open" \/ e.until > 0)
           /\ e.cause = "RateLimit" /\ QuotaActive(e)
  <2> DEFINE r == [e EXCEPT !.attempts = 0, !.until = e.quota,
                            !.health = "Degraded", !.successes = 0]
  <2>1. e.quota \in Nat
    BY <1>1, <1>4 DEF Entry, QuotaActive, None
  <2>2. r \in Entry
    BY <1>1, <2>1, Values DEF Entry
  <2>3. Coherent(r)
    BY <1>1 DEF Coherent, Entry
  <2>4. RecoverExpired(e) = r
    BY <1>4 DEF RecoverExpired
  <2> QED BY <2>2, <2>3, <2>4 DEF GoodEntry
<1>5. CASE /\ ~(e.circuit # "Open" \/ e.until > 0)
           /\ ~(e.cause = "RateLimit" /\ QuotaActive(e))
  <2> DEFINE r == [c EXCEPT !.circuit = "HalfOpen", !.until = 0,
                            !.health = "Recovering", !.successes = 0]
  <2>1. RecoverExpired(e) = r
    BY <1>5 DEF RecoverExpired
  <2> HIDE DEF c
  <2>2. r \in Entry
    BY <1>2, Values DEF Entry
  <2>3. Coherent(r)
    BY <1>2 DEF Coherent, Entry
  <2> QED BY <2>1, <2>2, <2>3 DEF GoodEntry
<1> QED BY <1>3, <1>4, <1>5

-----------------------------------------------------------------------------

\* restart_container marks the node it is about to recreate.
LEMMA BeginRestartGood ==
  ASSUME NEW e \in GoodEntry, NEW k \in 0 .. MaxAttempts
  PROVE  BeginRestart(e, k) \in GoodEntry
<1>1. e \in Entry /\ Coherent(e)
  BY DEF GoodEntry
<1>2. BeginRestart(e, k) \in Entry
  BY <1>1, Values DEF BeginRestart, Entry
<1>3. Coherent(BeginRestart(e, k))
  BY <1>1 DEF BeginRestart, Coherent, Entry
<1> QED BY <1>2, <1>3 DEF GoodEntry

\* A failed attempt leaves the node open, for a retry or a cooldown.
LEMMA RestartFailureGood ==
  ASSUME NEW e \in GoodEntry, NEW k \in 0 .. MaxAttempts
  PROVE  RestartFailure(e, k) \in GoodEntry
<1> DEFINE u == UpTo(k, MaxAttempts)
           f == [e EXCEPT !.attempts = u, !.health = "Unhealthy",
                          !.circuit = "Open"]
           t == IF e.cause = "RateLimit" /\ k >= MaxAttempts /\ QuotaActive(e)
                THEN RotationRetry ELSE Later(e.quota, Cooldown)
<1>1. e \in Entry /\ Coherent(e)
  BY DEF GoodEntry
<1>2. u \in 0 .. MaxAttempts
  BY NodeAssumption DEF UpTo
<1>3. t \in Nat
  BY <1>1, NodeAssumption DEF Entry, Later, None
<1>4. RestartFailure(e, k) = [f EXCEPT !.until = t]
  BY DEF RestartFailure
<1> HIDE DEF u, t
<1>5. [f EXCEPT !.until = t] \in Entry
  BY <1>1, <1>2, <1>3, Values DEF Entry
<1>6. Coherent([f EXCEPT !.until = t])
  BY <1>1 DEF Coherent, Entry
<1> QED BY <1>4, <1>5, <1>6 DEF GoodEntry

\* An explicit restart takes the node out of rotation.
LEMMA BeginManualRestartGood ==
  ASSUME NEW e \in GoodEntry
  PROVE  BeginManualRestart(e) \in GoodEntry
<1> DEFINE k == UpTo(e.attempts + 1, MaxAttempts)
           b == BeginRestart(e, k)
           c == IF b.cause = "None" THEN "Transport" ELSE b.cause
<1>1. k \in 0 .. MaxAttempts
  <2>1. e.attempts \in 0 .. MaxAttempts
    BY DEF GoodEntry, Entry
  <2> QED BY <2>1, UpToRange, NodeAssumption
<1>2. b \in Entry /\ Coherent(b)
  BY <1>1, BeginRestartGood DEF GoodEntry
<1>3. b.health = "Recovering"
  BY DEF BeginRestart, GoodEntry, Entry
<1>4. BeginManualRestart(e) =
        [b EXCEPT !.draining = TRUE, !.failures = 0, !.successes = 0,
                  !.cause = c]
  BY DEF BeginManualRestart
<1>5. c \in Cause /\ (c = "RateLimit" <=> b.cause = "RateLimit")
  BY <1>2, Values DEF Entry
<1> HIDE DEF b, c
<1>6. BeginManualRestart(e) \in Entry
  BY <1>2, <1>4, <1>5, Values DEF Entry
<1>7. Coherent(BeginManualRestart(e))
  BY <1>2, <1>3, <1>4, <1>5 DEF Coherent, Entry
<1> QED BY <1>6, <1>7 DEF GoodEntry

\* A failed explicit restart opens the circuit.
LEMMA ManualRestartFailedGood ==
  ASSUME NEW e \in GoodEntry
  PROVE  ManualRestartFailed(e) \in GoodEntry
<1>1. e \in Entry /\ Coherent(e)
  BY DEF GoodEntry
<1>2. ManualRestartFailed(e) \in Entry
  BY <1>1, Values DEF ManualRestartFailed, Entry
<1>3. Coherent(ManualRestartFailed(e))
  BY <1>1 DEF ManualRestartFailed, Coherent, Entry
<1> QED BY <1>2, <1>3 DEF GoodEntry

-----------------------------------------------------------------------------

\* An identity was observed: the address, and what it says of a rate limit.
LEMMA IdentityVerifiedGood ==
  ASSUME NEW e \in GoodEntry, NEW ip \in IP
  PROVE  IdentityVerified(e, ip) \in GoodEntry
<1> DEFINE i == [e EXCEPT !.exit = ip, !.fresh = TRUE]
           r == [i EXCEPT !.health = "Recovering", !.circuit = "HalfOpen",
                          !.until = 0]
           h == [i EXCEPT !.health = "Healthy", !.circuit = "Closed", !.until = 0]
<1>1. e \in Entry /\ Coherent(e)
  BY DEF GoodEntry
<1>2. i \in Entry /\ r \in Entry /\ h \in Entry
  BY <1>1, Values DEF Entry
<1>3. Coherent(i) /\ Coherent(r) /\ Coherent(h)
  BY <1>1 DEF Coherent, Entry
<1>4. IdentityVerified(e, ip) \in {i, r, h}
  BY DEF IdentityVerified
<1> QED BY <1>2, <1>3, <1>4 DEF GoodEntry

\* No identity was observed: fatal where one is required.
LEMMA IdentityFailedGood ==
  ASSUME NEW e \in GoodEntry, NEW required \in BOOLEAN
  PROVE  IdentityFailed(e, required) \in GoodEntry
<1> DEFINE i == IF FreshIdentity(e) THEN e
                ELSE [e EXCEPT !.exit = NoIP, !.fresh = FALSE]
           r == [i EXCEPT !.health = "Recovering", !.circuit = "HalfOpen",
                          !.until = 0]
           u == [i EXCEPT !.health = "Unknown"]
<1>1. e \in Entry /\ Coherent(e)
  BY DEF GoodEntry
<1>2. i \in Entry /\ Coherent(i)
  BY <1>1, Values DEF Coherent, Entry
<1>3. IdentityFailed(e, required) \in {i, r, u}
  BY DEF IdentityFailed
<1> HIDE DEF i
<1>4. r \in Entry /\ u \in Entry
  BY <1>2, Values DEF Entry
<1>5. Coherent(r) /\ Coherent(u)
  BY <1>2 DEF Coherent, Entry
<1> QED BY <1>2, <1>3, <1>4, <1>5 DEF GoodEntry

\* finalize_identity_recovery heals the node its identity vouches for.
LEMMA FinalizeRecoveryGood ==
  ASSUME NEW e \in GoodEntry
  PROVE  FinalizeRecovery(e) \in GoodEntry
<1> DEFINE left == IF e.quota = None THEN Cooldown ELSE e.quota
           t == IF e.circuit = "Open" THEN UpTo(e.until, left) ELSE left
           d == [e EXCEPT !.health = "Degraded", !.circuit = "Open", !.until = t]
           r == [e EXCEPT !.health = "Recovering", !.circuit = "HalfOpen",
                          !.until = 0]
           n == [e EXCEPT !.cause = "None"]
<1>1. e \in Entry /\ Coherent(e)
  BY DEF GoodEntry
<1>2. t \in Nat
  BY <1>1, Values DEF Entry, UpTo
<1>3. \/ FinalizeRecovery(e) \in {d, r, e}
      \/ FinalizeRecovery(e) = n /\ e.cause = "Transport"
  BY DEF FinalizeRecovery
<1> HIDE DEF t
<1>4. d \in Entry /\ r \in Entry /\ n \in Entry
  BY <1>1, <1>2, Values DEF Entry
<1>5. /\ Coherent(d) /\ Coherent(r)
      /\ e.cause = "Transport" => Coherent(n)
  BY <1>1 DEF Coherent, Entry
<1> QED BY <1>1, <1>3, <1>4, <1>5 DEF GoodEntry

-----------------------------------------------------------------------------
(* What the operations leave alone.                                        *)

\* The verified address is dropped, or kept with its duplicate mark.
KeepsExit(e, f) ==
  f.exit = NoIP \/ (f.exit = e.exit /\ f.duplicate = e.duplicate)

Inert(e) == ~e.draining /\ e.attempts = 0

\* Neither drained nor charged with a restart attempt.
KeepsInert(e, f) ==
  Inert(e) => Inert(f)

\* The operations every worker applies to any node.
LEMMA ReportsKeep ==
  ASSUME NEW e \in Entry
  PROVE  /\ KeepsExit(e, Elapse(e)) /\ KeepsInert(e, Elapse(e))
         /\ KeepsExit(e, MarkNodeHealthy(e)) /\ KeepsInert(e, MarkNodeHealthy(e))
         /\ KeepsExit(e, RecordSuccess(e)) /\ KeepsInert(e, RecordSuccess(e))
         /\ KeepsExit(e, RecordFailure(e)) /\ KeepsInert(e, RecordFailure(e))
         /\ KeepsExit(e, RecoverExpired(e)) /\ KeepsInert(e, RecoverExpired(e))
         /\ KeepsExit(e, FinalizeRecovery(e)) /\ KeepsInert(e, FinalizeRecovery(e))
<1> USE DEF KeepsExit, KeepsInert, Inert, Entry
<1>1. KeepsExit(e, Elapse(e)) /\ KeepsInert(e, Elapse(e))
  BY DEF Elapse
<1>2. KeepsExit(e, MarkNodeHealthy(e)) /\ KeepsInert(e, MarkNodeHealthy(e))
  BY DEF MarkNodeHealthy
<1>3. KeepsExit(e, RecordSuccess(e)) /\ KeepsInert(e, RecordSuccess(e))
  BY DEF RecordSuccess, MarkNodeHealthy
<1>4. KeepsExit(e, RecordFailure(e)) /\ KeepsInert(e, RecordFailure(e))
  BY DEF RecordFailure
<1>5. KeepsExit(e, RecoverExpired(e)) /\ KeepsInert(e, RecoverExpired(e))
  BY DEF RecoverExpired, ClearRateLimitRecovery
<1>6. KeepsExit(e, FinalizeRecovery(e)) /\ KeepsInert(e, FinalizeRecovery(e))
  BY DEF FinalizeRecovery
<1> QED BY <1>1, <1>2, <1>3, <1>4, <1>5, <1>6

\* Rate limiting a node gives it no other address.
LEMMA RateLimitKeeps ==
  ASSUME NEW e \in Entry, NEW d
  PROVE  /\ KeepsExit(e, MarkRateLimited(e, d))
         /\ KeepsInert(e, MarkRateLimited(e, d))
         /\ KeepsExit(e, ClearRateLimitRecovery(e))
         /\ KeepsInert(e, ClearRateLimitRecovery(e))
BY DEF KeepsExit, KeepsInert, Inert, Entry, MarkRateLimited, ClearRateLimitRecovery

\* So does the restart of a node.
LEMMA RestartKeeps ==
  ASSUME NEW e \in Entry, NEW k
  PROVE  /\ KeepsExit(e, BeginRestart(e, k))
         /\ KeepsExit(e, BeginManualRestart(e))
         /\ KeepsExit(e, RestartFailure(e, k))
         /\ KeepsExit(e, ManualRestartFailed(e))
<1> USE DEF KeepsExit, Entry
<1>1. KeepsExit(e, BeginRestart(e, k))
  BY DEF BeginRestart
<1>2. KeepsExit(e, BeginManualRestart(e))
  BY DEF BeginManualRestart, BeginRestart
<1>3. KeepsExit(e, RestartFailure(e, k))
  BY DEF RestartFailure
<1>4. KeepsExit(e, ManualRestartFailed(e))
  BY DEF ManualRestartFailed
<1> QED BY <1>1, <1>2, <1>3, <1>4

\* An identity result neither drains a node nor charges it with an attempt.
LEMMA IdentityKeepsInert ==
  ASSUME NEW e \in Entry, NEW ip, NEW required
  PROVE  /\ KeepsInert(e, IdentityVerified(e, ip))
         /\ KeepsInert(e, IdentityFailed(e, required))
BY DEF KeepsInert, Inert, Entry, IdentityVerified, IdentityFailed

-----------------------------------------------------------------------------
(* The pool.                                                               *)

PoolInv ==
  /\ entry \in [Node -> GoodEntry]
  /\ queue \subseteq Node
  /\ rr \in Node
  /\ leases \in [Node -> 0 .. MaxLeases]
  /\ restart \in [Node -> RestartStage]
  /\ attempt \in [Node -> 0 .. MaxAttempts]
  /\ manual \in [Node -> 0 .. MaxManual]
  /\ monitor \in {"tick", "snapshot"}
  /\ targets \subseteq Node
  /\ candidates \subseteq Node

\* The inductive invariant is stronger than what the runs check.
LEMMA PoolInvImplies == PoolInv => TypeOK /\ Coherence
BY DEF PoolInv, TypeOK, Coherence, GoodEntry

\* The sets of node indices.
LEMMA NodeFacts ==
  /\ 0 \in Node
  /\ Node \subseteq Int
  /\ Managed \subseteq Node
  /\ Enabled \subseteq Node
  /\ Drainable \subseteq Managed
  /\ Standby \subseteq Node
BY PoolAssumption DEF Node, Primary

\* A step that writes one good entry keeps them all good.
LEMMA UpdateGood ==
  ASSUME entry \in [Node -> GoodEntry], NEW n \in Node, NEW e \in GoodEntry,
         Update(n, e)
  PROVE  entry' \in [Node -> GoodEntry]
BY DEF Update

\* Setting or clearing the flags no coherence condition mentions.
LEMMA FlagsGood ==
  ASSUME NEW e \in GoodEntry, NEW b \in BOOLEAN
  PROVE  /\ [e EXCEPT !.draining = b] \in GoodEntry
         /\ [e EXCEPT !.fresh = b] \in GoodEntry
         /\ [e EXCEPT !.duplicate = b] \in GoodEntry
         /\ [e EXCEPT !.failures = 0] \in GoodEntry
<1>1. e \in Entry /\ Coherent(e)
  BY DEF GoodEntry
<1>2. /\ [e EXCEPT !.draining = b] \in Entry
      /\ [e EXCEPT !.fresh = b] \in Entry
      /\ [e EXCEPT !.duplicate = b] \in Entry
      /\ [e EXCEPT !.failures = 0] \in Entry
  BY <1>1, Values DEF Entry
<1>3. /\ Coherent([e EXCEPT !.draining = b])
      /\ Coherent([e EXCEPT !.fresh = b])
      /\ Coherent([e EXCEPT !.duplicate = b])
      /\ Coherent([e EXCEPT !.failures = 0])
  BY <1>1 DEF Coherent, Entry
<1> QED BY <1>2, <1>3 DEF GoodEntry

\* Suppressing duplicate exits writes flags only.
LEMMA SuppressGood ==
  ASSUME NEW es \in [Node -> GoodEntry]
  PROVE  SuppressDuplicates(es) \in [Node -> GoodEntry]
<1>1. ASSUME NEW n \in Node
      PROVE  [es[n] EXCEPT !.duplicate = DuplicateExit(es, n)] \in GoodEntry
  <2>1. DuplicateExit(es, n) \in BOOLEAN
    BY DEF DuplicateExit
  <2> QED BY <2>1, FlagsGood
<1> QED BY <1>1 DEF SuppressDuplicates

\* So does applying a batch of identity results.
LEMMA IdentitiesGood ==
  ASSUME entry \in [Node -> GoodEntry],
         NEW results,
         \A n \in DOMAIN results : results[n] \in IP \cup {NoIP},
         ApplyIdentityResults(results)
  PROVE  entry' \in [Node -> GoodEntry]
<1> DEFINE applied == [n \in Node |-> IdentityApplied(results, n)]
<1>1. ASSUME NEW n \in Node PROVE IdentityApplied(results, n) \in GoodEntry
  <2>1. IdentityRequired(n) \in BOOLEAN
    BY PoolAssumption DEF IdentityRequired
  <2> QED BY <2>1, IdentityFailedGood, IdentityVerifiedGood DEF IdentityApplied
<1>2. applied \in [Node -> GoodEntry]
  BY <1>1
<1>3. SuppressDuplicates(applied) \in [Node -> GoodEntry]
  BY <1>2, SuppressGood
<1>4. entry' = [n \in Node |-> FinalizeRecovery(SuppressDuplicates(applied)[n])]
  BY DEF ApplyIdentityResults
<1> HIDE DEF applied
<1> QED BY <1>3, <1>4, FinalizeRecoveryGood

\* The pool as it is built.
LEMMA InitInv == Init => PoolInv
<1>1. NewEntry(RequireVerified) \in GoodEntry
  BY NewEntryGood, PoolAssumption
<1> QED
  BY <1>1, NodeFacts, NodeAssumption, PoolAssumption
     DEF Init, PoolInv, RestartStage

-----------------------------------------------------------------------------
(* Every action preserves PoolInv.                                         *)

\* Requests taking and returning leases.
LEMMA RoutingInv ==
  ASSUME PoolInv, Routing
  PROVE  PoolInv'
<1>1. ASSUME NEW n \in Node, Lease(n) PROVE leases' \in [Node -> 0 .. MaxLeases]
  BY <1>1, PoolAssumption DEF PoolInv, Lease
<1>2. ASSUME NEW n \in Node PROVE (n + 1) % NumNodes \in Node
  BY PoolAssumption DEF Node
<1>3. ASSUME NEW n \in Node, Release(n) PROVE PoolInv'
  BY <1>3, PoolAssumption
     DEF PoolInv, Release, poolVars, workerVars, restartVars, probeVars
<1>4. ASSUME NEW S \in SUBSET Node, LeaseCyclic(S) PROVE PoolInv'
  BY <1>4, <1>1, <1>2
     DEF LeaseCyclic, Lease, PoolInv, poolVars, workerVars, restartVars, probeVars
<1>5. ASSUME NEW x \in Node \cup {NoNode}, SelectRoute(x) PROVE PoolInv'
  <2>1. /\ Normal(x) \in SUBSET Node /\ Warm(x) \in SUBSET Node
        /\ Probes(x) \in SUBSET Node /\ Coalesced(x) \in SUBSET Node
    BY NodeFacts DEF Normal, Warm, Probes, Coalesced
  <2>2. CASE RouteCoalesced(x)
    BY <2>1, <2>2, <1>1
       DEF RouteCoalesced, Lease, PoolInv, poolVars, workerVars, restartVars,
           probeVars
  <2>3. CASE RouteCyclic(x)
    <3>1. Pass(x) \in SUBSET Node
      BY <2>1 DEF Pass
    <3> QED BY <2>3, <3>1, <1>4 DEF RouteCyclic
  <2> QED BY <1>5, <2>2, <2>3 DEF SelectRoute
<1> QED BY <1>3, <1>5 DEF Routing

\* Time passing.
LEMMA TimeInv ==
  ASSUME PoolInv, Tick \/ \E n \in Node : IdentityExpires(n)
  PROVE  PoolInv'
<1>1. CASE Tick
  BY <1>1, ElapseGood DEF Tick, PoolInv, workerVars, restartVars, probeVars
<1>2. ASSUME NEW n \in Node, IdentityExpires(n) PROVE PoolInv'
  <2>1. [entry[n] EXCEPT !.fresh = FALSE] \in GoodEntry
    BY FlagsGood DEF PoolInv
  <2> QED
    BY <1>2, <2>1, UpdateGood
       DEF IdentityExpires, PoolInv, workerVars, restartVars, probeVars
<1> QED BY <1>1, <1>2

\* A success or failure report, from whichever task.
LEMMA ReportGood ==
  ASSUME PoolInv, NEW n \in Node, Succeed(n) \/ Fail(n)
  PROVE  entry' \in [Node -> GoodEntry] /\ queue' \subseteq Node
<1>1. /\ RecordSuccess(entry[n]) \in GoodEntry
      /\ RecordFailure(entry[n]) \in GoodEntry
  BY RecordSuccessGood, RecordFailureGood DEF PoolInv
<1> QED BY <1>1, UpdateGood DEF PoolInv, Succeed, Fail

\* Requests reporting what became of them.
LEMMA ReportingInv ==
  ASSUME PoolInv, Reporting
  PROVE  PoolInv'
<1> SUFFICES ASSUME NEW n \in Node,
                    \/ RequestSucceeds(n) \/ RequestFails(n)
                    \/ \E d \in Quotas : RateLimited(n, d)
                    \/ RateLimitCleared(n)
             PROVE  PoolInv'
  BY DEF Reporting
<1>1. CASE RequestSucceeds(n) \/ RequestFails(n)
  BY <1>1, ReportGood
     DEF RequestSucceeds, RequestFails, PoolInv, workerVars, restartVars,
         probeVars
<1>2. ASSUME NEW d \in Quotas, RateLimited(n, d) PROVE PoolInv'
  <2>1. MarkRateLimited(entry[n], d) \in GoodEntry
    BY MarkRateLimitedGood DEF PoolInv
  <2> QED
    BY <1>2, <2>1, UpdateGood
       DEF RateLimited, PoolInv, workerVars, restartVars, probeVars
<1>3. CASE RateLimitCleared(n)
  <2>1. ClearRateLimitRecovery(entry[n]) \in GoodEntry
    BY ClearRateLimitRecoveryGood DEF PoolInv
  <2> QED
    BY <1>3, <2>1, UpdateGood
       DEF RateLimitCleared, PoolInv, workerVars, restartVars, probeVars
<1> QED BY <1>1, <1>2, <1>3

\* The health monitor, between its snapshot and the last probe.
LEMMA HealthMonitorInv ==
  ASSUME PoolInv, HealthMonitor
  PROVE  PoolInv'
<1>1. CASE RecoverExpiredCooldowns
  BY <1>1, RecoverExpiredGood
     DEF RecoverExpiredCooldowns, PoolInv, restartVars
<1>2. CASE SnapshotTargets
  BY <1>2, NodeFacts
     DEF SnapshotTargets, HealthProbeTargets, PoolInv, poolVars, restartVars
<1>3. ASSUME NEW n \in Node, NEW reachable \in BOOLEAN,
             ApplyHealthProbe(n, reachable)
      PROVE  PoolInv'
  <2> DEFINE e == entry[n]
  <2>1. e \in GoodEntry
    BY DEF PoolInv
  <2>2. /\ RecordFailure(e) \in GoodEntry
        /\ MarkNodeHealthy(e) \in GoodEntry
        /\ [e EXCEPT !.failures = 0] \in GoodEntry
    BY <2>1, RecordFailureGood, MarkNodeHealthyGood, FlagsGood
  <2>3. queue' \subseteq Node /\ targets' \subseteq Node
    BY <1>3 DEF ApplyHealthProbe, PoolInv, poolVars
  <2>4. entry' \in [Node -> GoodEntry]
    <3>1. CASE UNCHANGED entry
      BY <3>1 DEF PoolInv
    <3>2. ASSUME NEW f \in GoodEntry, Update(n, f)
          PROVE  entry' \in [Node -> GoodEntry]
      BY <3>2, UpdateGood DEF PoolInv
    <3> QED
      BY <1>3, <2>1, <2>2, <3>1, <3>2 DEF ApplyHealthProbe, poolVars
  <2> QED
    BY <1>3, <2>3, <2>4 DEF ApplyHealthProbe, PoolInv, restartVars
<1> QED BY <1>1, <1>2, <1>3 DEF HealthMonitor

\* Identity results, whichever task brings them.
LEMMA IdentityResultsInv ==
  ASSUME PoolInv, NEW probed \in SUBSET Node,
         NEW results \in [probed -> IP \cup {NoIP}],
         ApplyIdentityResults(results)
  PROVE  PoolInv'
<1>1. entry' \in [Node -> GoodEntry]
  BY IdentitiesGood DEF PoolInv
<1> QED
  BY <1>1 DEF ApplyIdentityResults, PoolInv, workerVars, restartVars, probeVars

\* The stages of the reconciler.
LEMMA ReconcilerInv ==
  ASSUME PoolInv, Reconciler
  PROVE  PoolInv'
<1>1. ASSUME NEW n \in Node, StageFails(n) PROVE PoolInv'
  BY <1>1, ReportGood
     DEF StageFails, PoolInv, workerVars, restartVars, probeVars
<1>2. CASE ReconcileIdentities
  BY <1>2, IdentityResultsInv DEF ReconcileIdentities
<1>3. CASE SnapshotCandidates
  BY <1>3 DEF SnapshotCandidates, PoolInv, poolVars, restartVars, probeVars
<1>4. ASSUME NEW n \in Node, NEW ok \in BOOLEAN, RouteStage(n, ok)
      PROVE  PoolInv'
  <2>1. Succeed(n) \/ Fail(n)
    BY <1>4 DEF RouteStage
  <2> QED
    BY <1>4, <2>1, ReportGood DEF RouteStage, PoolInv, restartVars, probeVars
<1> QED BY <1>1, <1>2, <1>3, <1>4 DEF Reconciler

\* A recovered identity is accepted, or rotated away once more.
LEMMA AcceptIdentityInv ==
  ASSUME PoolInv, NEW n \in Node, NEW ip \in IP, AcceptIdentity(n, ip)
  PROVE  PoolInv'
<1> DEFINE f == [entry[n] EXCEPT !.exit = ip, !.fresh = TRUE]
           taken == [entry EXCEPT ![n] = MarkNodeHealthy(f)]
<1>1. f \in GoodEntry
  <2>1. entry[n] \in Entry /\ Coherent(entry[n])
    BY DEF PoolInv, GoodEntry
  <2>2. f \in Entry
    BY <2>1, Values DEF Entry
  <2>3. Coherent(f)
    BY <2>1 DEF Coherent, Entry
  <2> QED BY <2>2, <2>3 DEF GoodEntry
<1>2. taken \in [Node -> GoodEntry]
  BY <1>1, MarkNodeHealthyGood DEF PoolInv
<1>3. SuppressDuplicates(taken) \in [Node -> GoodEntry]
  BY <1>2, SuppressGood
<1>4. entry' \in {entry, SuppressDuplicates(taken)}
  BY DEF AcceptIdentity, poolVars
<1>5. entry' \in [Node -> GoodEntry]
  BY <1>3, <1>4 DEF PoolInv
<1>6. /\ queue' \subseteq Node
      /\ restart' \in [Node -> RestartStage]
      /\ attempt' \in [Node -> 0 .. MaxAttempts]
  BY NodeAssumption DEF AcceptIdentity, PoolInv, poolVars, RestartStage
<1> QED
  BY <1>5, <1>6 DEF AcceptIdentity, PoolInv, probeVars

\* The restart worker, at each of its stages.
LEMMA RestartWorkerInv ==
  ASSUME PoolInv, RestartWorker
  PROVE  PoolInv'
<1>1. CASE DrainQueue
  BY <1>1 DEF DrainQueue, PoolInv, RestartStage, probeVars
<1>2. ASSUME NEW n \in Node, CheckRestart(n) PROVE PoolInv'
  <2>1. entry[n].attempts \in 0 .. MaxAttempts
    BY DEF PoolInv, GoodEntry, Entry
  <2>2. attempt' \in [Node -> 0 .. MaxAttempts]
    BY <1>2, <2>1, NodeAssumption DEF CheckRestart, PoolInv
  <2> QED
    BY <1>2, <2>2 DEF CheckRestart, PoolInv, RestartStage, poolVars, probeVars
<1>3. ASSUME NEW n \in Node, RequeueBusy(n) PROVE PoolInv'
  BY <1>3 DEF RequeueBusy, PoolInv, RestartStage, probeVars
<1>4. ASSUME NEW n \in Node, MarkRestarting(n) PROVE PoolInv'
  <2>1. BeginRestart(entry[n], attempt[n]) \in GoodEntry
    BY BeginRestartGood DEF PoolInv
  <2> QED
    BY <1>4, <2>1, UpdateGood
       DEF MarkRestarting, PoolInv, RestartStage, probeVars
<1>5. ASSUME NEW n \in Node, NEW ok \in BOOLEAN, DockerEnds(n, ok)
      PROVE  PoolInv'
  BY <1>5 DEF DockerEnds, PoolInv, RestartStage, poolVars, probeVars
<1>6. ASSUME NEW n \in Node, VerifyFails(n) PROVE PoolInv'
  BY <1>6 DEF VerifyFails, PoolInv, RestartStage, poolVars, probeVars
<1>7. ASSUME NEW n \in Node, NEW ip \in IP, AcceptIdentity(n, ip) PROVE PoolInv'
  BY <1>7, AcceptIdentityInv
<1>8. ASSUME NEW n \in Node, SettleFailure(n) PROVE PoolInv'
  <2>1. RestartFailure(entry[n], attempt[n]) \in GoodEntry
    BY RestartFailureGood DEF PoolInv
  <2>2. entry' \in [Node -> GoodEntry]
    BY <1>8, <2>1, UpdateGood DEF SettleFailure, PoolInv
  <2>3. queue' \subseteq Node
    BY <1>8 DEF SettleFailure, PoolInv
  <2>4. /\ restart' \in [Node -> RestartStage]
        /\ attempt' \in [Node -> 0 .. MaxAttempts]
    BY <1>8, Values DEF SettleFailure, PoolInv, RestartStage
  <2> QED
    BY <1>8, <2>2, <2>3, <2>4 DEF SettleFailure, PoolInv, probeVars
<1> QED
  BY <1>1, <1>2, <1>3, <1>4, <1>5, <1>6, <1>7, <1>8
     DEF RestartWorker, RestartStep

\* The operator: drains and explicit restarts.
LEMMA OperatorInv ==
  ASSUME PoolInv, Operator
  PROVE  PoolInv'
<1> SUFFICES ASSUME NEW n \in Node,
                    \/ BeginDrain(n) \/ CancelDrain(n)
                    \/ RestartManually(n) \/ ManualEnds(n) \/ ManualFails(n)
             PROVE  PoolInv'
  BY DEF Operator
<1>1. CASE BeginDrain(n) \/ CancelDrain(n)
  <2>1. /\ [entry[n] EXCEPT !.draining = TRUE] \in GoodEntry
        /\ [entry[n] EXCEPT !.draining = FALSE] \in GoodEntry
    BY FlagsGood DEF PoolInv
  <2>2. entry' \in [Node -> GoodEntry]
    BY <1>1, <2>1, UpdateGood DEF BeginDrain, CancelDrain, PoolInv
  <2> QED
    BY <1>1, <2>2
       DEF BeginDrain, CancelDrain, PoolInv, workerVars, restartVars, probeVars
<1>2. CASE RestartManually(n)
  <2>1. BeginManualRestart(entry[n]) \in GoodEntry
    BY BeginManualRestartGood DEF PoolInv
  <2>2. manual' \in [Node -> 0 .. MaxManual]
    BY <1>2, PoolAssumption DEF RestartManually, PoolInv
  <2> QED
    BY <1>2, <2>1, <2>2, UpdateGood
       DEF RestartManually, PoolInv, restartVars, probeVars
<1>3. ASSUME ManualEnds(n) \/ ManualFails(n)
      PROVE  manual' \in [Node -> 0 .. MaxManual]
  BY <1>3, PoolAssumption DEF ManualEnds, ManualFails, PoolInv
<1>4. CASE ManualEnds(n)
  BY <1>3, <1>4 DEF ManualEnds, PoolInv, poolVars, restartVars, probeVars
<1>5. CASE ManualFails(n)
  <2>1. ManualRestartFailed(entry[n]) \in GoodEntry
    BY ManualRestartFailedGood DEF PoolInv
  <2>2. entry' \in [Node -> GoodEntry]
    BY <1>5, <2>1, UpdateGood DEF ManualFails, PoolInv
  <2>3. queue' \subseteq Node
    BY <1>5 DEF ManualFails, PoolInv
  <2> QED
    BY <1>3, <1>5, <2>2, <2>3 DEF ManualFails, PoolInv, restartVars, probeVars
<1> QED BY <1>1, <1>2, <1>4, <1>5

\* Every step of the pool preserves PoolInv.
LEMMA StepInv ==
  ASSUME PoolInv, [Next]_vars
  PROVE  PoolInv'
<1>1. CASE UNCHANGED vars
  BY <1>1 DEF PoolInv, vars
<1>2. CASE RefreshIdentities
  <2>1. PICK results \in [Node -> IP \cup {NoIP}] : ApplyIdentityResults(results)
    BY <1>2 DEF RefreshIdentities
  <2> QED BY <2>1, IdentityResultsInv
<1> QED
  BY <1>1, <1>2, TimeInv, RoutingInv, ReportingInv, HealthMonitorInv,
     ReconcilerInv, RestartWorkerInv, OperatorInv
     DEF Next

-----------------------------------------------------------------------------

\* The inductive invariant: types and agreeing fields.
THEOREM PoolInvariant == Spec => []PoolInv
BY InitInv, StepInv, PTL DEF Spec

\* Every variable keeps its type: in particular no counter leaves its range
\* and no deadline becomes negative.
THEOREM TypeCorrect == Spec => []TypeOK
BY PoolInvariant, PoolInvImplies, PTL

\* The health, circuit, cause and quota fields of a node never contradict
\* each other, in any interleaving of the workers.
THEOREM FieldsCohere == Spec => []Coherence
BY PoolInvariant, PoolInvImplies, PTL

-----------------------------------------------------------------------------
(* Leases and quotas.                                                      *)

\* No pass of the routing offers a node inside its quota.
LEMMA LeasedNodeOutsideQuota ==
  ASSUME PoolInv, NEW x, NEW n \in Normal(x) \cup Warm(x) \cup Probes(x)
  PROVE  ~QuotaActive(entry[n])
<1>1. n \in Node
  BY NodeFacts DEF Normal, Warm, Probes
<1>2. CASE NormalRoute(n)
  BY <1>2 DEF NormalRoute
<1>3. CASE ProbeRoute(n)
  <2>1. Coherent(entry[n]) /\ entry[n].cause # "RateLimit"
    BY <1>1, <1>3 DEF PoolInv, GoodEntry, ProbeRoute
  <2> QED BY <2>1 DEF Coherent, QuotaActive, None
<1> QED BY <1>2, <1>3 DEF Normal, Warm, Probes

\* A step that adds a lease adds it outside the quota of the node.
LEMMA LeaseStep ==
  ASSUME PoolInv, Next, NEW n \in Node, leases'[n] > leases[n]
  PROVE  ~QuotaActive(entry[n])
<1>1. CASE Routing
  <2>1. leases[n] \in Int /\ leases \in [Node -> 0 .. MaxLeases]
    BY DEF PoolInv
  <2>2. ASSUME NEW m \in Node, Release(m) PROVE FALSE
    BY <2>1, <2>2 DEF Release
  <2>3. ASSUME NEW x, SelectRoute(x) PROVE ~QuotaActive(entry[n])
    <3>1. PICK m \in Normal(x) \cup Warm(x) \cup Probes(x) : Lease(m)
      BY <2>3
         DEF SelectRoute, RouteCoalesced, RouteCyclic,
             LeaseCyclic, Coalesced, Normal, Pass
    <3>2. m = n
      BY <2>1, <3>1 DEF Lease
    <3> QED BY <3>1, <3>2, LeasedNodeOutsideQuota
  <2> QED BY <1>1, <2>2, <2>3 DEF Routing
<1>2. CASE ~Routing
  <2>1. UNCHANGED leases
    <3>1. CASE Tick \/ \E m \in Node : IdentityExpires(m)
      BY <3>1 DEF Tick, IdentityExpires
    <3>2. CASE Reporting
      BY <3>2
         DEF Reporting, RequestSucceeds, RequestFails, RateLimited,
             RateLimitCleared
    <3>3. CASE HealthMonitor
      BY <3>3
         DEF HealthMonitor, RecoverExpiredCooldowns, SnapshotTargets,
             ApplyHealthProbe
    <3>4. CASE RefreshIdentities \/ Reconciler
      BY <3>4
         DEF RefreshIdentities, Reconciler, ReconcileIdentities,
             ApplyIdentityResults, StageFails, SnapshotCandidates, RouteStage
    <3>5. CASE RestartWorker
      BY <3>5
         DEF RestartWorker, DrainQueue, RestartStep, CheckRestart, RequeueBusy,
             MarkRestarting, DockerEnds, VerifyFails, AcceptIdentity,
             SettleFailure
    <3>6. CASE Operator
      BY <3>6
         DEF Operator, BeginDrain, CancelDrain, RestartManually, ManualEnds,
             ManualFails
    <3> QED BY <1>2, <3>1, <3>2, <3>3, <3>4, <3>5, <3>6 DEF Next
  <2> QED BY <2>1 DEF PoolInv
<1> QED BY <1>1, <1>2

\* No fresh request goes to a node inside its provider's rate limit: the
\* probing pass never looks at the deadline, only at the recovery cause.
THEOREM QuotaRespected == Spec => FreshLeaseOutsideQuota
<1>1. PoolInv /\ [Next]_vars =>
        [\A n \in Node : leases'[n] > leases[n] => ~QuotaActive(entry[n])]_vars
  BY LeaseStep
<1> QED BY <1>1, PoolInvariant, PTL DEF Spec, FreshLeaseOutsideQuota

-----------------------------------------------------------------------------
(* Exit addresses.                                                         *)

\* Steps that give no node another address and unsuppress none keep UniqueExit.
LEMMA KeepsUnique ==
  ASSUME UniqueExit, \A n \in Node : KeepsExit(entry[n], entry'[n])
  PROVE  UniqueExit'
BY DEF UniqueExit, KeepsExit

\* Of two nodes one precedes the other.
LEMMA PrecedesTotal ==
  ASSUME NEW es, NEW m \in Node, NEW n \in Node, m # n
  PROVE  Precedes(es, m, n) \/ Precedes(es, n, m)
<1>1. Weight(es, m) \in Int /\ Weight(es, n) \in Int
  BY DEF Weight
<1>2. m \in Int /\ n \in Int
  BY NodeFacts
<1> QED BY <1>1, <1>2 DEF Precedes

\* Of two nodes behind one address at least one is suppressed.
LEMMA SuppressUnique ==
  ASSUME NEW es \in [Node -> GoodEntry],
         NEW m \in Node, NEW n \in Node, m # n,
         es[m].exit # NoIP, es[m].exit = es[n].exit
  PROVE  \/ SuppressDuplicates(es)[m].duplicate
         \/ SuppressDuplicates(es)[n].duplicate
<1>1. DuplicateExit(es, m) \/ DuplicateExit(es, n)
  BY PrecedesTotal DEF DuplicateExit
<1>2. \A k \in Node : SuppressDuplicates(es)[k].duplicate = DuplicateExit(es, k)
  BY DEF SuppressDuplicates, GoodEntry, Entry
<1> QED BY <1>1, <1>2

\* Suppression moves no node to another address.
LEMMA SuppressKeepsExit ==
  ASSUME NEW es \in [Node -> GoodEntry], NEW n \in Node
  PROVE  SuppressDuplicates(es)[n].exit = es[n].exit
BY DEF SuppressDuplicates, GoodEntry, Entry

\* Writing one entry that keeps its exit keeps UniqueExit.
LEMMA UpdateKeepsUnique ==
  ASSUME PoolInv, UniqueExit, NEW n \in Node, NEW f, KeepsExit(entry[n], f),
         Update(n, f)
  PROVE  UniqueExit'
<1>1. \A m \in Node : KeepsExit(entry[m], entry'[m])
  BY DEF PoolInv, Update, KeepsExit
<1> QED BY <1>1, KeepsUnique

\* A batch of identity results ends in suppression.
LEMMA IdentitiesUnique ==
  ASSUME PoolInv, NEW probed \in SUBSET Node,
         NEW results \in [probed -> IP \cup {NoIP}],
         ApplyIdentityResults(results)
  PROVE  UniqueExit'
<1> DEFINE applied == [n \in Node |-> IdentityApplied(results, n)]
           settled == SuppressDuplicates(applied)
<1>1. ASSUME NEW n \in Node PROVE IdentityApplied(results, n) \in GoodEntry
  <2>1. IdentityRequired(n) \in BOOLEAN
    BY PoolAssumption DEF IdentityRequired
  <2> QED
    BY <2>1, IdentityFailedGood, IdentityVerifiedGood DEF IdentityApplied, PoolInv
<1>2. applied \in [Node -> GoodEntry]
  BY <1>1
<1>3. settled \in [Node -> GoodEntry]
  BY <1>2, SuppressGood
<1>4. entry' = [n \in Node |-> FinalizeRecovery(settled[n])]
  BY DEF ApplyIdentityResults
<1> HIDE DEF applied
<1>5. ASSUME NEW n \in Node
      PROVE  KeepsExit(settled[n], entry'[n])
  BY <1>3, <1>4, <1>5, ReportsKeep DEF GoodEntry
<1> SUFFICES ASSUME NEW m \in Node, NEW n \in Node, m # n,
                    entry'[m].exit # NoIP, entry'[m].exit = entry'[n].exit
             PROVE  entry'[m].duplicate \/ entry'[n].duplicate
  BY DEF UniqueExit
<1>6. settled[m].exit # NoIP /\ settled[m].exit = settled[n].exit
  BY <1>5 DEF KeepsExit
<1>7. settled[m].duplicate \/ settled[n].duplicate
  BY <1>2, <1>6, SuppressUnique, SuppressKeepsExit
<1> QED BY <1>5, <1>7 DEF KeepsExit

\* A recovered node is routable only behind an address of its own.
LEMMA AcceptUnique ==
  ASSUME PoolInv, UniqueExit, NEW n \in Node, NEW ip \in IP,
         AcceptIdentity(n, ip)
  PROVE  UniqueExit'
<1> DEFINE f == [entry[n] EXCEPT !.exit = ip, !.fresh = TRUE]
           taken == [entry EXCEPT ![n] = MarkNodeHealthy(f)]
           settled == SuppressDuplicates(taken)
<1>1. f \in GoodEntry
  <2>1. entry[n] \in Entry /\ Coherent(entry[n])
    BY DEF PoolInv, GoodEntry
  <2>2. f \in Entry
    BY <2>1, Values DEF Entry
  <2>3. Coherent(f)
    BY <2>1 DEF Coherent, Entry
  <2> QED BY <2>2, <2>3 DEF GoodEntry
<1>2. taken \in [Node -> GoodEntry]
  BY <1>1, MarkNodeHealthyGood DEF PoolInv
<1>3. entry' \in {entry, settled}
  BY DEF AcceptIdentity, poolVars
<1> HIDE DEF taken
<1>4. CASE entry' = settled
  <2> SUFFICES ASSUME NEW i \in Node, NEW j \in Node, i # j,
                      settled[i].exit # NoIP, settled[i].exit = settled[j].exit
               PROVE  settled[i].duplicate \/ settled[j].duplicate
    BY <1>4 DEF UniqueExit
  <2> QED BY <1>2, SuppressUnique, SuppressKeepsExit
<1>5. CASE entry' = entry
  BY <1>5 DEF UniqueExit
<1> QED BY <1>3, <1>4, <1>5

\* Every step of the pool preserves UniqueExit.
LEMMA UniqueStep ==
  ASSUME PoolInv, UniqueExit, [Next]_vars
  PROVE  UniqueExit'
<1>1. \A n \in Node : entry[n] \in Entry
  BY DEF PoolInv, GoodEntry
<1>2. CASE UNCHANGED entry
  BY <1>2 DEF UniqueExit
<1>3. CASE Tick \/ RecoverExpiredCooldowns
  BY <1>1, <1>3, ReportsKeep, KeepsUnique DEF Tick, RecoverExpiredCooldowns
<1>4. ASSUME NEW n \in Node, NEW b \in BOOLEAN,
             \/ Update(n, [entry[n] EXCEPT !.fresh = b])
             \/ Update(n, [entry[n] EXCEPT !.draining = b])
             \/ Update(n, [entry[n] EXCEPT !.failures = 0])
      PROVE  UniqueExit'
  <2>1. /\ KeepsExit(entry[n], [entry[n] EXCEPT !.fresh = b])
        /\ KeepsExit(entry[n], [entry[n] EXCEPT !.draining = b])
        /\ KeepsExit(entry[n], [entry[n] EXCEPT !.failures = 0])
    BY <1>1 DEF KeepsExit, Entry
  <2> QED BY <1>4, <2>1, UpdateKeepsUnique
<1>5. ASSUME NEW n \in Node, Succeed(n) \/ Fail(n) PROVE UniqueExit'
  BY <1>1, <1>5, ReportsKeep, UpdateKeepsUnique DEF Succeed, Fail
<1>6. CASE Reporting
  <2>1. ASSUME NEW n \in Node, NEW d, RateLimited(n, d) \/ RateLimitCleared(n)
        PROVE  UniqueExit'
    BY <1>1, <2>1, RateLimitKeeps, UpdateKeepsUnique
       DEF RateLimited, RateLimitCleared
  <2> QED
    BY <1>5, <1>6, <2>1 DEF Reporting, RequestSucceeds, RequestFails
<1>7. ASSUME NEW n \in Node, NEW reachable \in BOOLEAN,
             ApplyHealthProbe(n, reachable)
      PROVE  UniqueExit'
  <2>1. \/ UNCHANGED entry
        \/ Update(n, RecordFailure(entry[n]))
        \/ Update(n, MarkNodeHealthy(entry[n]))
        \/ Update(n, [entry[n] EXCEPT !.failures = 0])
        \/ Update(n, entry[n])
    BY <1>7 DEF ApplyHealthProbe, poolVars
  <2>2. KeepsExit(entry[n], entry[n])
    BY DEF KeepsExit
  <2> QED
    BY <1>1, <1>2, <1>4, <2>1, <2>2, ReportsKeep, UpdateKeepsUnique
<1>8. CASE RefreshIdentities \/ ReconcileIdentities
  BY <1>8, IdentitiesUnique DEF RefreshIdentities, ReconcileIdentities
<1>9. CASE Reconciler
  BY <1>2, <1>5, <1>8, <1>9
     DEF Reconciler, StageFails, SnapshotCandidates, RouteStage, poolVars
<1>10. CASE RestartWorker
  <2>1. ASSUME NEW n \in Node, MarkRestarting(n) \/ SettleFailure(n)
        PROVE  UniqueExit'
    BY <1>1, <2>1, RestartKeeps, UpdateKeepsUnique
       DEF MarkRestarting, SettleFailure
  <2> QED
    BY <1>2, <1>10, <2>1, AcceptUnique
       DEF RestartWorker, RestartStep, DrainQueue, CheckRestart, RequeueBusy,
           DockerEnds, VerifyFails, poolVars
<1>11. CASE Operator
  <2>1. ASSUME NEW n \in Node, RestartManually(n) \/ ManualFails(n)
        PROVE  UniqueExit'
    BY <1>1, <2>1, RestartKeeps, UpdateKeepsUnique
       DEF RestartManually, ManualFails
  <2> QED
    BY <1>2, <1>4, <1>11, <2>1
       DEF Operator, BeginDrain, CancelDrain, ManualEnds, poolVars
<1>12. CASE Routing
  BY <1>2, <1>12
     DEF Routing, SelectRoute, RouteCoalesced, RouteCyclic, LeaseCyclic, Lease, Release, poolVars
<1>13. ASSUME NEW n \in Node, IdentityExpires(n) PROVE UniqueExit'
  BY <1>4, <1>13 DEF IdentityExpires
<1> QED
  BY <1>2, <1>3, <1>6, <1>7, <1>8, <1>9, <1>10, <1>11, <1>12, <1>13
     DEF Next, HealthMonitor, SnapshotTargets, poolVars, vars

\* Among the nodes that report one exit address at most one carries traffic.
THEOREM ExitsUnique == Spec => []UniqueExit
<1>1. Init => UniqueExit
  BY DEF Init, UniqueExit, NewEntry
<1>2. PoolInv /\ UniqueExit /\ [Next]_vars => UniqueExit'
  BY UniqueStep
<1> QED BY <1>1, <1>2, PoolInvariant, PTL DEF Spec

-----------------------------------------------------------------------------
(* Protected nodes.                                                        *)

\* The part of ProtectedUntouched about the fields of the nodes.
ProtectedInert == \A n \in Node \ Managed : Inert(entry[n])
ProtectedIdle ==
  \A n \in Node \ Managed :
    n \notin queue /\ n \notin targets /\ restart[n] = "idle" /\ manual[n] = 0

\* Writing another entry leaves a protected node alone.
LEMMA UpdateKeepsInert ==
  ASSUME PoolInv, ProtectedInert, NEW n \in Node, NEW f, Update(n, f),
         n \in Managed \/ KeepsInert(entry[n], f)
  PROVE  ProtectedInert'
BY DEF PoolInv, ProtectedInert, Update, KeepsInert

\* Suppression neither queues nor restarts anything.
LEMMA SuppressKeepsInert ==
  ASSUME NEW es \in [Node -> GoodEntry], NEW n \in Node
  PROVE  KeepsInert(es[n], SuppressDuplicates(es)[n])
BY DEF SuppressDuplicates, KeepsInert, Inert, GoodEntry, Entry

\* Nor do identity results, for a protected node.
LEMMA IdentitiesInert ==
  ASSUME PoolInv, ProtectedInert, NEW probed \in SUBSET Node,
         NEW results \in [probed -> IP \cup {NoIP}],
         ApplyIdentityResults(results)
  PROVE  ProtectedInert'
<1> DEFINE applied == [n \in Node |-> IdentityApplied(results, n)]
           settled == SuppressDuplicates(applied)
<1>1. ASSUME NEW n \in Node
      PROVE  /\ applied[n] \in GoodEntry
             /\ KeepsInert(entry[n], applied[n])
  <2>1. IdentityRequired(n) \in BOOLEAN
    BY PoolAssumption DEF IdentityRequired
  <2>2. entry[n] \in GoodEntry /\ entry[n] \in Entry
    BY DEF PoolInv, GoodEntry
  <2>3. KeepsInert(entry[n], entry[n])
    BY DEF KeepsInert
  <2> QED
    BY <2>1, <2>2, <2>3, IdentityFailedGood, IdentityVerifiedGood,
       IdentityKeepsInert
       DEF IdentityApplied
<1>2. applied \in [Node -> GoodEntry]
  BY <1>1
<1>3. settled \in [Node -> GoodEntry]
  BY <1>2, SuppressGood
<1>4. entry' = [n \in Node |-> FinalizeRecovery(settled[n])]
  BY DEF ApplyIdentityResults
<1> HIDE DEF applied
<1>5. ASSUME NEW n \in Node PROVE KeepsInert(entry[n], entry'[n])
  <2>1. KeepsInert(applied[n], settled[n])
    BY <1>2, SuppressKeepsInert
  <2>2. KeepsInert(settled[n], FinalizeRecovery(settled[n]))
    BY <1>3, ReportsKeep DEF GoodEntry
  <2> QED BY <1>1, <1>4, <2>1, <2>2 DEF KeepsInert
<1> QED BY <1>5 DEF ProtectedInert, KeepsInert

\* Nor does the acceptance of a recovered node.
LEMMA AcceptInert ==
  ASSUME PoolInv, ProtectedInert, NEW n \in Managed, NEW ip \in IP,
         AcceptIdentity(n, ip)
  PROVE  ProtectedInert'
<1> DEFINE f == MarkNodeHealthy([entry[n] EXCEPT !.exit = ip, !.fresh = TRUE])
           taken == [entry EXCEPT ![n] = f]
<1>1. entry' = entry \/ entry' = SuppressDuplicates(taken)
  BY DEF AcceptIdentity, poolVars
<1>2. ASSUME NEW m \in Node \ Managed PROVE taken[m] = entry[m]
  BY NodeFacts DEF PoolInv
<1>3. ASSUME NEW m \in Node \ Managed
      PROVE  SuppressDuplicates(taken)[m] =
               [entry[m] EXCEPT !.duplicate = DuplicateExit(taken, m)]
  BY <1>2 DEF SuppressDuplicates
<1>4. ASSUME NEW m \in Node \ Managed, NEW d
      PROVE  Inert(entry[m]) => Inert([entry[m] EXCEPT !.duplicate = d])
  BY DEF Inert, PoolInv, GoodEntry, Entry
<1> HIDE DEF taken
<1>5. ASSUME NEW m \in Node \ Managed PROVE Inert(entry'[m])
  <2>1. Inert(entry[m])
    BY DEF ProtectedInert
  <2>2. \/ entry'[m] = entry[m]
        \/ entry'[m] = [entry[m] EXCEPT !.duplicate = DuplicateExit(taken, m)]
    BY <1>1, <1>3
  <2> QED BY <1>4, <2>1, <2>2
<1> QED BY <1>5 DEF ProtectedInert

\* No step of the pool restarts, queues or drains a protected node.
LEMMA ProtectedStep ==
  ASSUME PoolInv, ProtectedInert, ProtectedIdle, [Next]_vars
  PROVE  ProtectedInert' /\ ProtectedIdle'
<1>1. \A n \in Node : entry[n] \in Entry
  BY DEF PoolInv, GoodEntry
<1>2. CASE UNCHANGED vars
  BY <1>2 DEF ProtectedInert, ProtectedIdle, vars
<1>3. CASE Tick \/ \E n \in Node : IdentityExpires(n)
  <2>1. ProtectedIdle'
    BY <1>3 DEF Tick, IdentityExpires, ProtectedIdle, workerVars, restartVars,
                probeVars
  <2>2. CASE Tick
    <3>1. ASSUME NEW n \in Node PROVE KeepsInert(entry[n], entry'[n])
      BY <1>1, <2>2, ReportsKeep DEF Tick
    <3> QED BY <2>1, <3>1 DEF ProtectedInert, KeepsInert
  <2>3. ASSUME NEW n \in Node, IdentityExpires(n) PROVE ProtectedInert'
    <3>1. KeepsInert(entry[n], [entry[n] EXCEPT !.fresh = FALSE])
      BY <1>1 DEF KeepsInert, Inert, Entry
    <3> QED BY <2>3, <3>1, UpdateKeepsInert DEF IdentityExpires
  <2> QED BY <1>3, <2>1, <2>2, <2>3
<1>4. CASE Routing
  BY <1>4
     DEF Routing, SelectRoute, RouteCoalesced, RouteCyclic, LeaseCyclic, Lease, Release, poolVars, workerVars,
         restartVars, probeVars, ProtectedInert, ProtectedIdle
<1>5. ASSUME NEW n \in Node, Succeed(n) \/ Fail(n)
      PROVE  /\ ProtectedInert'
             /\ \A m \in Node \ Managed : m \in queue' => m \in queue
  BY <1>1, <1>5, ReportsKeep, UpdateKeepsInert DEF Succeed, Fail
<1>6. CASE Reporting
  <2>1. ASSUME NEW n \in Node, NEW d, RateLimited(n, d) \/ RateLimitCleared(n)
        PROVE  ProtectedInert'
    BY <1>1, <2>1, RateLimitKeeps, UpdateKeepsInert
       DEF RateLimited, RateLimitCleared
  <2>2. ProtectedInert'
    BY <1>5, <1>6, <2>1 DEF Reporting, RequestSucceeds, RequestFails
  <2>3. ProtectedIdle'
    BY <1>5, <1>6
       DEF Reporting, RequestSucceeds, RequestFails, RateLimited,
           RateLimitCleared, ProtectedIdle, workerVars, restartVars, probeVars
  <2> QED BY <2>2, <2>3
<1>7. CASE HealthMonitor
  <2>1. CASE RecoverExpiredCooldowns
    BY <1>1, <2>1, ReportsKeep
       DEF RecoverExpiredCooldowns, ProtectedInert, ProtectedIdle, KeepsInert,
           restartVars
  <2>2. CASE SnapshotTargets
    BY <2>2
       DEF SnapshotTargets, HealthProbeTargets, ProtectedInert, ProtectedIdle,
           poolVars, restartVars
  <2>3. ASSUME NEW n \in Node, NEW reachable \in BOOLEAN,
               ApplyHealthProbe(n, reachable)
        PROVE  ProtectedInert' /\ ProtectedIdle'
    <3>1. n \in Managed
      BY <2>3 DEF ApplyHealthProbe, ProtectedIdle
    <3>2. ProtectedInert'
      <4>1. UNCHANGED entry \/ \E f : Update(n, f)
        BY <2>3 DEF ApplyHealthProbe, poolVars
      <4>2. CASE UNCHANGED entry
        BY <4>2 DEF ProtectedInert
      <4> QED BY <3>1, <4>1, <4>2, UpdateKeepsInert
    <3>3. ProtectedIdle'
      BY <2>3, <3>1 DEF ApplyHealthProbe, ProtectedIdle, poolVars, restartVars
    <3> QED BY <3>2, <3>3
  <2> QED BY <1>7, <2>1, <2>2, <2>3 DEF HealthMonitor
<1>8. CASE RefreshIdentities \/ ReconcileIdentities
  <2>1. ProtectedInert'
    BY <1>8, IdentitiesInert DEF RefreshIdentities, ReconcileIdentities
  <2>2. ProtectedIdle'
    BY <1>8
       DEF RefreshIdentities, ReconcileIdentities, ApplyIdentityResults,
           ProtectedIdle, workerVars, restartVars, probeVars
  <2> QED BY <2>1, <2>2
<1>9. CASE Reconciler
  <2>1. CASE SnapshotCandidates
    BY <2>1 DEF SnapshotCandidates, ProtectedInert, ProtectedIdle, poolVars,
                restartVars, probeVars
  <2>2. ASSUME NEW n \in Node, NEW ok \in BOOLEAN,
               StageFails(n) \/ RouteStage(n, ok)
        PROVE  ProtectedInert' /\ ProtectedIdle'
    <3>1. /\ ProtectedInert'
          /\ \A m \in Node \ Managed : m \in queue' => m \in queue
      BY <1>5, <2>2 DEF StageFails, RouteStage
    <3>2. ProtectedIdle'
      BY <2>2, <3>1
         DEF StageFails, RouteStage, ProtectedIdle, workerVars, restartVars,
             probeVars
    <3> QED BY <3>1, <3>2
  <2> QED BY <1>8, <1>9, <2>1, <2>2 DEF Reconciler
<1>10. CASE RestartWorker
  <2>1. CASE DrainQueue
    BY <2>1 DEF DrainQueue, ProtectedInert, ProtectedIdle, probeVars
  <2>2. ASSUME NEW n \in Node, RestartStep(n)
        PROVE  ProtectedInert' /\ ProtectedIdle'
    <3>1. restart[n] # "idle"
      BY <2>2
         DEF RestartStep, CheckRestart, RequeueBusy, MarkRestarting, DockerEnds,
             VerifyFails, AcceptIdentity, SettleFailure
    <3>2. n \in Managed
      BY <3>1 DEF ProtectedIdle
    <3>3. ProtectedIdle'
      <4>1. UNCHANGED <<manual, targets>> /\ queue' \subseteq queue \cup {n}
        BY <2>2
           DEF RestartStep, CheckRestart, RequeueBusy, MarkRestarting,
               DockerEnds, VerifyFails, AcceptIdentity, SettleFailure, poolVars,
               probeVars
      <4>2. \A m \in Node \ {n} : restart'[m] = restart[m]
        BY <2>2
           DEF RestartStep, CheckRestart, RequeueBusy, MarkRestarting,
               DockerEnds, VerifyFails, AcceptIdentity, SettleFailure, PoolInv
      <4> QED BY <3>2, <4>1, <4>2 DEF ProtectedIdle
    <3>4. CASE \E ip \in IP : AcceptIdentity(n, ip)
      BY <3>2, <3>3, <3>4, AcceptInert
    <3>5. CASE \/ CheckRestart(n) \/ RequeueBusy(n) \/ VerifyFails(n)
               \/ \E ok \in BOOLEAN : DockerEnds(n, ok)
      BY <3>3, <3>5
         DEF CheckRestart, RequeueBusy, DockerEnds, VerifyFails, ProtectedInert,
             poolVars
    <3>6. CASE MarkRestarting(n) \/ SettleFailure(n)
      BY <3>2, <3>3, <3>6, UpdateKeepsInert DEF MarkRestarting, SettleFailure
    <3> QED BY <2>2, <3>3, <3>4, <3>5, <3>6 DEF RestartStep
  <2> QED BY <1>10, <2>1, <2>2 DEF RestartWorker
<1>11. ASSUME NEW n \in Node,
              \/ BeginDrain(n) \/ CancelDrain(n)
              \/ RestartManually(n) \/ ManualEnds(n) \/ ManualFails(n)
       PROVE  ProtectedInert' /\ ProtectedIdle'
  <2>1. n \in Managed
    BY <1>11, PoolAssumption
       DEF BeginDrain, CancelDrain, RestartManually, ManualEnds, ManualFails,
           ProtectedIdle
  <2>2. ProtectedInert'
    BY <1>11, <2>1, UpdateKeepsInert
       DEF BeginDrain, CancelDrain, RestartManually, ManualEnds, ManualFails,
           ProtectedInert, poolVars
  <2>3. ProtectedIdle'
    BY <1>11, <2>1
       DEF BeginDrain, CancelDrain, RestartManually, ManualEnds, ManualFails,
           ProtectedIdle, PoolInv, poolVars, workerVars, restartVars, probeVars
  <2> QED BY <2>2, <2>3
<1> QED
  BY <1>2, <1>3, <1>4, <1>6, <1>7, <1>8, <1>9, <1>10, <1>11 DEF Next, Operator

\* No worker ever restarts, queues, drains or charges a node whose container
\* the bridge does not own.
THEOREM ProtectedNodesUntouched == Spec => []ProtectedUntouched
<1>1. Init => ProtectedInert /\ ProtectedIdle
  BY DEF Init, ProtectedInert, ProtectedIdle, Inert, NewEntry
<1>2. PoolInv /\ ProtectedInert /\ ProtectedIdle /\ [Next]_vars =>
        ProtectedInert' /\ ProtectedIdle'
  BY ProtectedStep
<1>3. ProtectedInert /\ ProtectedIdle => ProtectedUntouched
  BY DEF ProtectedInert, ProtectedIdle, Inert, ProtectedUntouched
<1> QED BY <1>1, <1>2, <1>3, PoolInvariant, PTL DEF Spec

=============================================================================
