----------------------------- MODULE EgressNode -----------------------------
(***************************************************************************)
(* One egress node of the proxy pool (src/src/proxy_pool/types.rs,         *)
(* ProxyEntry) and what every pool operation does to it.  The operators    *)
(* are the per-node halves of the methods of ProxyPool; EgressPool applies *)
(* them under the pool lock together with the restart queue and leases.    *)
(*                                                                         *)
(* Deadlines.  An Instant is represented by the ticks left until it, 0     *)
(* once it has passed, None when the Option is None.  cooldown_until only  *)
(* feeds the statistics and is left out; the deadline of an open circuit   *)
(* is the field until.                                                     *)
(*                                                                         *)
(* Counters saturate where the code stops telling their values apart:      *)
(* failures at FAILURE_THRESHOLD, successes at RECOVERY_SUCCESS_COUNT and  *)
(* attempts at MaxAttempts.                                                *)
(*                                                                         *)
(* Operators marked "Faulty" are not part of the model: each is a mistake  *)
(* the code could contain, and the invariants must be able to see it.      *)
(***************************************************************************)
EXTENDS Integers

CONSTANTS
  IP,            \* exit addresses an identity probe can report
  NoIP,          \* no verified exit address
  Cooldown,      \* COOLDOWN_SECS in ticks
  RotationRetry, \* RATE_LIMIT_ROTATION_RETRY_SECS in ticks
  Quotas,        \* durations a provider rate limit asks for, in ticks
  MaxAttempts    \* max_restart_attempts

ASSUME NodeAssumption ==
  /\ NoIP \notin IP
  /\ Cooldown \in Nat \ {0}
  /\ RotationRetry \in Nat \ {0}
  /\ Quotas \subseteq Nat
  /\ MaxAttempts \in Nat \ {0}

None == -1
FailureThreshold == 2
RecoverySuccessCount == 2

Health == {"Unknown", "Healthy", "Degraded", "Unhealthy", "Recovering"}
Circuit == {"Closed", "Open", "HalfOpen"}
Cause == {"None", "Transport", "RateLimit"}

Entry ==
  [ draining    : BOOLEAN,
    health      : Health,
    circuit     : Circuit,
    until       : Nat,                 \* ticks left of an open circuit
    failures    : 0 .. FailureThreshold,
    successes   : 0 .. RecoverySuccessCount,
    attempts    : 0 .. MaxAttempts,
    quota       : Nat \cup {None},     \* rate_limit_until
    quarantined : IP \cup {NoIP},      \* quarantined_exit_ip
    cause       : Cause,               \* recovery_cause
    exit        : IP \cup {NoIP},      \* exit_identity
    fresh       : BOOLEAN,             \* the identity is within identity_ttl
    duplicate   : BOOLEAN ]            \* duplicate_of is Some

NewEntry(requireVerified) ==
  [ draining |-> FALSE,
    health |-> IF requireVerified THEN "Unknown" ELSE "Healthy",
    circuit |-> "Closed", until |-> 0, failures |-> 0, successes |-> 0,
    attempts |-> 0, quota |-> None, quarantined |-> NoIP, cause |-> "None",
    exit |-> NoIP, fresh |-> FALSE, duplicate |-> FALSE ]

-----------------------------------------------------------------------------

UpTo(n, cap) == IF n < cap THEN n ELSE cap
Later(a, b) == IF a > b THEN a ELSE b

QuotaActive(e) == e.quota > 0
CircuitOpen(e) == e.circuit = "Open" /\ e.until > 0
FreshIdentity(e) == e.exit # NoIP /\ e.fresh
ClosedAndHealthy(e) == e.health = "Healthy" /\ e.circuit = "Closed"

\* The passage of time: every pending deadline comes one tick nearer.
Elapse(e) ==
  [e EXCEPT !.until = IF e.circuit = "Open" /\ @ > 0 THEN @ - 1 ELSE @,
            !.quota = IF @ > 0 THEN @ - 1 ELSE @]

MarkNodeHealthy(e) ==
  [e EXCEPT !.draining = FALSE, !.health = "Healthy", !.circuit = "Closed",
            !.until = 0, !.quota = None, !.quarantined = NoIP,
            !.cause = "None", !.failures = 0, !.successes = 0, !.attempts = 0]

RecordSuccess(e) ==
  LET s == UpTo(e.successes + 1, RecoverySuccessCount)
      f == [e EXCEPT !.failures = 0, !.successes = s]
  IN  IF /\ e.circuit = "HalfOpen" \/ e.health \in {"Recovering", "Degraded"}
         /\ s >= RecoverySuccessCount
      THEN MarkNodeHealthy(f)
      ELSE f

\* The failure that opens the circuit.
Trips(e) == e.failures + 1 >= FailureThreshold

RecordFailure(e) ==
  LET c == IF e.cause = "RateLimit" THEN e
           ELSE [e EXCEPT !.cause = "Transport", !.quota = None,
                          !.quarantined = NoIP]
      f == [c EXCEPT !.successes = 0,
                     !.failures = UpTo(@ + 1, FailureThreshold)]
  IN  IF Trips(e)
      THEN [f EXCEPT !.health = "Unhealthy", !.circuit = "Open",
                     !.until = Cooldown]
      ELSE [f EXCEPT !.health = "Degraded"]

\* A quota signal, not a transport failure: health and circuit stay.
MarkRateLimited(e, duration) ==
  [e EXCEPT !.quota = Later(@, duration),
            !.quarantined = IF e.exit # NoIP THEN e.exit ELSE @,
            !.cause = "RateLimit", !.successes = 0, !.failures = 0]

\* Faulty: the recovery cause outlives its deadline.
ClearRateLimitKeepingCause(e) ==
  [e EXCEPT !.quota = None, !.quarantined = NoIP]

ClearRateLimitRecovery(e) ==
  [e EXCEPT !.quota = None, !.quarantined = NoIP,
            !.cause = IF @ = "RateLimit" THEN "None" ELSE @]

\* Faulty: only rate limits are ever reopened.
RecoverExpiredQuotasOnly(e) ==
  IF e.circuit # "Open" \/ e.until > 0 \/ e.cause # "RateLimit" THEN e
  ELSE [ClearRateLimitRecovery(e) EXCEPT !.circuit = "HalfOpen",
                                         !.health = "Recovering"]

RecoverExpired(e) ==
  LET c == IF e.quota = 0 THEN ClearRateLimitRecovery(e) ELSE e
  IN  IF e.circuit # "Open" \/ e.until > 0 THEN e
      ELSE IF e.cause = "RateLimit" /\ QuotaActive(e)
      THEN [e EXCEPT !.attempts = 0, !.until = e.quota,
                     !.health = "Degraded", !.successes = 0]
      ELSE [c EXCEPT !.circuit = "HalfOpen", !.until = 0,
                     !.health = "Recovering", !.successes = 0]

-----------------------------------------------------------------------------
(* Restart: the automatic worker and the dashboard's explicit restart.     *)

RequiresAutomaticRestart(e) ==
  e.cause # "None" \/ e.health = "Unhealthy" \/ e.circuit = "Open"

RestartInFlight(e) ==
  e.health = "Recovering" /\ e.circuit = "HalfOpen" /\ e.attempts > 0

BeginRestart(e, attempt) ==
  [e EXCEPT !.health = "Recovering", !.circuit = "HalfOpen", !.until = 0,
            !.attempts = attempt, !.exit = NoIP, !.fresh = FALSE,
            !.duplicate = FALSE]

RestartFailure(e, attempt) ==
  LET f == [e EXCEPT !.attempts = UpTo(attempt, MaxAttempts),
                     !.health = "Unhealthy", !.circuit = "Open"]
  IN  IF e.cause = "RateLimit" /\ attempt >= MaxAttempts /\ QuotaActive(e)
      THEN [f EXCEPT !.until = RotationRetry]
      ELSE [f EXCEPT !.until = Later(e.quota, Cooldown)]

BeginManualRestart(e) ==
  [BeginRestart(e, UpTo(e.attempts + 1, MaxAttempts)) EXCEPT
     !.draining = TRUE, !.failures = 0, !.successes = 0,
     !.cause = IF @ = "None" THEN "Transport" ELSE @]

ManualRestartFailed(e) ==
  [e EXCEPT !.draining = FALSE, !.health = "Unhealthy", !.circuit = "Open",
            !.until = Cooldown, !.successes = 0]

-----------------------------------------------------------------------------
(* Identity monitor: one probe result, and the pass that closes a refresh. *)

IdentityVerified(e, ip) ==
  LET i == [e EXCEPT !.exit = ip, !.fresh = TRUE]
  IN  CASE e.cause = "RateLimit" ->
             [i EXCEPT !.health = "Recovering", !.circuit = "HalfOpen",
                       !.until = 0]
        [] /\ e.cause = "None"
           /\ e.health \in {"Unknown", "Recovering"}
           /\ ~CircuitOpen(e) ->
             [i EXCEPT !.health = "Healthy", !.circuit = "Closed", !.until = 0]
        [] OTHER -> i

IdentityFailed(e, identityRequired) ==
  LET i == IF FreshIdentity(e) THEN e
           ELSE [e EXCEPT !.exit = NoIP, !.fresh = FALSE]
  IN  CASE e.cause = "RateLimit" ->
             [i EXCEPT !.health = "Recovering", !.circuit = "HalfOpen",
                       !.until = 0]
        [] /\ e.cause = "None"
           /\ ~FreshIdentity(e) /\ identityRequired
           /\ e.health # "Unhealthy" ->
             [i EXCEPT !.health = "Unknown"]
        [] OTHER -> i

FinalizeRecovery(e) ==
  LET quotaLeft == IF e.quota = None THEN Cooldown ELSE e.quota
  IN  CASE e.cause = "RateLimit" /\ e.attempts >= MaxAttempts ->
             [e EXCEPT !.health = "Degraded", !.circuit = "Open",
                       !.until = IF e.circuit = "Open"
                                 THEN UpTo(e.until, quotaLeft)
                                 ELSE quotaLeft]
        [] e.cause = "RateLimit" /\ e.attempts < MaxAttempts ->
             [e EXCEPT !.health = "Recovering", !.circuit = "HalfOpen",
                       !.until = 0]
        [] e.cause = "Transport" /\ e.health = "Healthy" ->
             [e EXCEPT !.cause = "None"]
        [] OTHER -> e

-----------------------------------------------------------------------------

\* The overlapping fields of a node never contradict each other, whatever
\* order the workers write them in: a Healthy node has a closed circuit, an
\* Unhealthy one an open circuit, and a quota deadline or a quarantined
\* address exists only while the recovery cause is the rate limit.  Routing
\* relies on it: is_probe_route looks at the cause, is_normal_route at the
\* deadline (routing.rs).
Coherent(e) ==
  /\ e.health = "Healthy" => e.circuit = "Closed"
  /\ e.health = "Unhealthy" => e.circuit = "Open"
  /\ e.quota # None <=> e.cause = "RateLimit"
  /\ e.quarantined # NoIP => e.quota # None

=============================================================================
