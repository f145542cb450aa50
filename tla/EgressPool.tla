----------------------------- MODULE EgressPool -----------------------------
(***************************************************************************)
(* The egress pool (src/src/proxy_pool): the nodes behind one RwLock, the  *)
(* request leases on them, and the workers that change them concurrently   *)
(*   - requests selecting a route and reporting what became of it,         *)
(*   - health_monitor: reopen expired circuits, snapshot, probe, apply,    *)
(*   - process_restart_queue: drain, check, mark, Docker, verify, settle,  *)
(*   - identity_monitor and the reconciler: apply identity results,        *)
(*   - the operator: drain, undrain and explicit restart.                  *)
(* A step is what one lock acquisition does; everything a task does        *)
(* outside the lock (Docker, TCP and HTTP probes) lies between two steps.  *)
(***************************************************************************)
EXTENDS EgressNode

CONSTANTS
  NumNodes,        \* length of the proxies vector
  Standby,         \* nodes on the protected standby ports
  Managed,         \* nodes on the ports whose containers the bridge owns
  Enabled,         \* primaries within active_count
  RequireVerified, \* require_verified_exit_ip
  Drainable,       \* bound: the managed nodes an operator drains
  MaxLeases,       \* bound on leases per node
  MaxManual        \* bound on explicit restarts in flight per node

Node == 0 .. NumNodes - 1
NoNode == NumNodes
Primary == Node \ Standby

ASSUME PoolAssumption ==
  /\ NumNodes \in Nat \ {0}
  /\ Standby \subseteq Node
  /\ Managed \subseteq Primary
  /\ Enabled \subseteq Primary
  /\ Drainable \subseteq Managed
  /\ RequireVerified \in BOOLEAN
  /\ MaxLeases \in Nat /\ MaxManual \in Nat

VARIABLES
  entry,     \* proxies
  queue,     \* restart_queue: every push is guarded by contains
  rr,        \* round_robin_counter
  leases,    \* active_requests of every node
  restart,   \* how far the automatic restart of a node has come
  attempt,   \* its local restart_attempt
  manual,    \* explicit restarts of a node that are inside Docker
  monitor,   \* "tick" or "snapshot": the step health_monitor takes next
  targets,   \* the nodes its probe loop still has to probe
  candidates \* the nodes the reconciler's route stage still has to verify

vars ==
  <<entry, queue, rr, leases, restart, attempt, manual, monitor, targets,
    candidates>>
poolVars == <<entry, queue>>
restartVars == <<restart, attempt>>
probeVars == <<monitor, targets>>
workerVars == <<restartVars, manual, probeVars, candidates>>

RestartStage ==
  {"idle", "drained", "busy", "checked", "docker", "verify", "failing"}

Init ==
  /\ entry = [n \in Node |-> NewEntry(RequireVerified)]
  /\ queue = {}
  /\ rr = 0
  /\ leases = [n \in Node |-> 0]
  /\ restart = [n \in Node |-> "idle"]
  /\ attempt = [n \in Node |-> 0]
  /\ manual = [n \in Node |-> 0]
  /\ monitor = "tick"
  /\ targets = {}
  /\ candidates = {}

Update(n, e) == entry' = [entry EXCEPT ![n] = e]

\* Deadlines come nearer, and an identity may outlive identity_ttl.
Tick ==
  /\ \E n \in Node : Elapse(entry[n]) # entry[n]
  /\ entry' = [n \in Node |-> Elapse(entry[n])]
  /\ UNCHANGED <<queue, rr, leases, workerVars>>

IdentityExpires(n) ==
  /\ FreshIdentity(entry[n])
  /\ Update(n, [entry[n] EXCEPT !.fresh = FALSE])
  /\ UNCHANGED <<queue, rr, leases, workerVars>>

-----------------------------------------------------------------------------
(* Routing: select_proxy_round_robin and the lease taken under one lock.   *)

IdentityRequired(n) == RequireVerified \/ n \in Standby

NormalRoute(n) ==
  LET e == entry[n]
  IN  /\ ~e.draining
      /\ ClosedAndHealthy(e)
      /\ ~e.duplicate
      /\ ~QuotaActive(e)
      /\ IdentityRequired(n) => FreshIdentity(e)

\* Faulty: probing looks at the circuit only, not at the recovery cause.
ProbeRouteAnyCause(n) ==
  LET e == entry[n]
  IN  /\ ~e.draining /\ ~e.duplicate /\ leases[n] = 0
      /\ IdentityRequired(n) => FreshIdentity(e)
      /\ \/ e.circuit = "HalfOpen"
         \/ e.circuit = "Open" /\ ~CircuitOpen(e)

ProbeRoute(n) ==
  LET e == entry[n]
  IN  /\ ~e.draining
      /\ e.cause # "RateLimit"
      /\ ~e.duplicate
      /\ leases[n] = 0
      /\ IdentityRequired(n) => FreshIdentity(e)
      /\ \/ e.circuit = "HalfOpen"
         \/ e.circuit = "Open" /\ ~CircuitOpen(e)

Cyclic(n) == (n - rr + NumNodes) % NumNodes

\* The candidates of each pass; x is the excluded index or NoNode.
Coalesced(x) ==
  {n \in Enabled \ {x} : leases[n] > 0 /\ NormalRoute(n)}
Normal(x) == {n \in Enabled \ {x} : NormalRoute(n)}
Warm(x) == {n \in Standby \ {x} : NormalRoute(n)}
Probes(x) == {n \in Node \ {x} : ProbeRoute(n)}

Lease(n) ==
  /\ leases[n] < MaxLeases
  /\ leases' = [leases EXCEPT ![n] = @ + 1]
  /\ UNCHANGED <<poolVars, workerVars>>

LeaseCyclic(S) ==
  \E n \in S :
    /\ \A m \in S : Cyclic(n) <= Cyclic(m)
    /\ rr' = (n + 1) % NumNodes
    /\ Lease(n)

\* Pass 0: reuse the first primary that already carries a request.
RouteCoalesced(x) ==
  \E n \in Coalesced(x) :
    /\ \A m \in Coalesced(x) : n <= m
    /\ Lease(n)
    /\ UNCHANGED rr

\* The later passes: the normal primaries, then the warm standby, then one
\* probe; each walks the nodes from the shared counter on.
Pass(x) ==
  IF Normal(x) # {} THEN Normal(x)
  ELSE IF Warm(x) # {} THEN Warm(x) ELSE Probes(x)

RouteCyclic(x) == Coalesced(x) = {} /\ LeaseCyclic(Pass(x))

SelectRoute(x) == RouteCoalesced(x) \/ RouteCyclic(x)

Release(n) ==
  /\ leases[n] > 0
  /\ leases' = [leases EXCEPT ![n] = @ - 1]
  /\ UNCHANGED <<poolVars, rr, workerVars>>

-----------------------------------------------------------------------------
(* Reports of a request on the node it leases.                             *)

Succeed(n) ==
  /\ Update(n, RecordSuccess(entry[n]))
  /\ UNCHANGED queue

\* Faulty: any node that trips is queued for a restart.
FailQueuesAnyNode(n) ==
  /\ Update(n, RecordFailure(entry[n]))
  /\ queue' = IF Trips(entry[n]) THEN queue \cup {n} ELSE queue

Fail(n) ==
  /\ Update(n, RecordFailure(entry[n]))
  /\ queue' = IF Trips(entry[n]) /\ n \in Managed THEN queue \cup {n} ELSE queue

RequestSucceeds(n) ==
  leases[n] > 0 /\ Succeed(n) /\ UNCHANGED <<rr, leases, workerVars>>

RequestFails(n) ==
  leases[n] > 0 /\ Fail(n) /\ UNCHANGED <<rr, leases, workerVars>>

RateLimited(n, duration) ==
  /\ leases[n] > 0
  /\ Update(n, MarkRateLimited(entry[n], duration))
  /\ queue' = queue \ {n}
  /\ UNCHANGED <<rr, leases, workerVars>>

\* A retry on the same egress succeeded after a provider rate limit.
RateLimitCleared(n) ==
  /\ leases[n] > 0
  /\ Update(n, ClearRateLimitRecovery(entry[n]))
  /\ UNCHANGED <<queue, rr, leases, workerVars>>

-----------------------------------------------------------------------------
(* health_monitor.                                                         *)

RecoverExpiredCooldowns ==
  /\ monitor = "tick" /\ targets = {}
  /\ entry' = [n \in Node |-> RecoverExpired(entry[n])]
  /\ monitor' = "snapshot"
  /\ UNCHANGED <<queue, rr, leases, restartVars, manual, targets, candidates>>

\* Faulty: only nodes whose circuit opened are probed.
UnhealthyProbeTargets ==
  {n \in Managed : entry[n].health = "Unhealthy" /\ n \notin queue}

HealthProbeTargets ==
  {n \in Managed :
     LET e == entry[n]
     IN  /\ e.cause # "RateLimit"
         /\ e.attempts < MaxAttempts
         /\ n \notin queue
         /\ ~(e.health = "Recovering" /\ e.attempts > 0)}

SnapshotTargets ==
  /\ monitor = "snapshot"
  /\ targets' = HealthProbeTargets
  /\ monitor' = "tick"
  /\ UNCHANGED <<poolVars, rr, leases, restartVars, manual, candidates>>

\* The probe was answered, or refused, before the lock was taken.
ApplyHealthProbe(n, reachable) ==
  LET e == entry[n]
      recovers ==
        /\ RequireVerified => FreshIdentity(e)
        /\ \/ e.cause = "Transport"
           \/ e.health \in {"Unknown", "Degraded", "Recovering", "Unhealthy"}
  IN  /\ n \in targets
      /\ \A m \in targets : n <= m
      /\ targets' = targets \ {n}
      /\ IF e.cause = "RateLimit" \/ e.attempts >= MaxAttempts
         THEN UNCHANGED poolVars
         ELSE IF ~reachable
         THEN /\ Update(n, RecordFailure(e))
              /\ queue' = IF Trips(e) THEN queue \cup {n} ELSE queue
         ELSE IF recovers
         THEN /\ Update(n, MarkNodeHealthy(e))
              /\ queue' = queue \ {n}
         ELSE /\ Update(n, IF e.health = "Healthy"
                           THEN [e EXCEPT !.failures = 0] ELSE e)
              /\ UNCHANGED queue
      /\ UNCHANGED <<rr, leases, restartVars, manual, monitor, candidates>>

-----------------------------------------------------------------------------
(* Exit identities: apply_identity_results and suppress_duplicate_exits.   *)

\* The owner of an exit address is the first node in this order.
Weight(es, n) ==
  (IF n \in Standby THEN 4 ELSE 0)
    + (IF ClosedAndHealthy(es[n]) THEN 0 ELSE 2)
    + (IF n \in Enabled THEN 0 ELSE 1)

Precedes(es, m, n) ==
  \/ Weight(es, m) < Weight(es, n)
  \/ Weight(es, m) = Weight(es, n) /\ m < n

DuplicateExit(es, n) ==
  /\ es[n].exit # NoIP
  /\ \E m \in Node \ {n} : es[m].exit = es[n].exit /\ Precedes(es, m, n)

SuppressDuplicates(es) ==
  [n \in Node |-> [es[n] EXCEPT !.duplicate = DuplicateExit(es, n)]]

\* results maps the nodes probed to the address found, NoIP for a failure.
IdentityApplied(results, n) ==
  IF n \notin DOMAIN results THEN entry[n]
  ELSE IF results[n] = NoIP THEN IdentityFailed(entry[n], IdentityRequired(n))
  ELSE IdentityVerified(entry[n], results[n])

ApplyIdentityResults(results) ==
  LET suppressed == SuppressDuplicates([n \in Node |-> IdentityApplied(results, n)])
  IN  /\ entry' = [n \in Node |-> FinalizeRecovery(suppressed[n])]
      /\ UNCHANGED <<queue, rr, leases, workerVars>>

\* One refresh of identity_monitor, which probes every node.
RefreshIdentities ==
  \E results \in [Node -> IP \cup {NoIP}] : ApplyIdentityResults(results)

-----------------------------------------------------------------------------
(* reconcile_once, as far as it touches the pool.                          *)

\* The bootstrap, transport or identity stage of a node fails.
StageFails(n) == Fail(n) /\ UNCHANGED <<rr, leases, workerVars>>

\* The identity results of the nodes that passed the transport stage.
ReconcileIdentities ==
  \E probed \in SUBSET Node :
    \E results \in [probed -> IP \cup {NoIP}] : ApplyIdentityResults(results)

SnapshotCandidates ==
  /\ candidates = {}
  /\ candidates' = {n \in Node : /\ ClosedAndHealthy(entry[n])
                                 /\ ~entry[n].duplicate
                                 /\ FreshIdentity(entry[n])}
  /\ UNCHANGED <<poolVars, rr, leases, restartVars, manual, probeVars>>

\* The route stage, candidate by candidate, from that snapshot.
RouteStage(n, ok) ==
  /\ n \in candidates
  /\ \A m \in candidates : n <= m
  /\ candidates' = candidates \ {n}
  /\ IF ok THEN Succeed(n) ELSE Fail(n)
  /\ UNCHANGED <<rr, leases, restartVars, manual, probeVars>>

-----------------------------------------------------------------------------
(* process_restart_queue and restart_container.                            *)

\* The next batch is drained only once the previous one has completed.
DrainQueue ==
  /\ \A n \in Node : restart[n] = "idle"
  /\ queue # {}
  /\ restart' = [n \in Node |-> IF n \in queue THEN "drained" ELSE "idle"]
  /\ queue' = {}
  /\ UNCHANGED <<entry, rr, leases, attempt, manual, probeVars, candidates>>

\* Faulty: the restart budget is not checked.
CheckRestartUnbounded(n) ==
  LET proceeds == /\ RequiresAutomaticRestart(entry[n])
                  /\ ~RestartInFlight(entry[n])
                  /\ entry[n].cause # "RateLimit"
  IN  /\ restart[n] = "drained"
      /\ restart' = [restart EXCEPT ![n] =
                       IF leases[n] > 0 THEN "busy"
                       ELSE IF proceeds THEN "checked" ELSE "idle"]
      /\ attempt' = [attempt EXCEPT ![n] =
                       IF leases[n] = 0 /\ proceeds THEN entry[n].attempts + 1
                       ELSE 0]
      /\ UNCHANGED <<poolVars, rr, leases, manual, probeVars, candidates>>

\* The decision, under the read lock.
CheckRestart(n) ==
  LET e == entry[n]
      proceeds == /\ RequiresAutomaticRestart(e)
                  /\ ~RestartInFlight(e)
                  /\ e.attempts < MaxAttempts
                  /\ e.cause # "RateLimit"
  IN  /\ restart[n] = "drained"
      /\ restart' = [restart EXCEPT ![n] =
                       IF leases[n] > 0 THEN "busy"
                       ELSE IF proceeds THEN "checked" ELSE "idle"]
      /\ attempt' = [attempt EXCEPT ![n] =
                       IF leases[n] = 0 /\ proceeds THEN e.attempts + 1 ELSE 0]
      /\ UNCHANGED <<poolVars, rr, leases, manual, probeVars, candidates>>

\* A leased node goes back to the queue, if it still is leased by then.
RequeueBusy(n) ==
  /\ restart[n] = "busy"
  /\ restart' = [restart EXCEPT ![n] = "idle"]
  /\ queue' = IF leases[n] > 0 THEN queue \cup {n} ELSE queue
  /\ UNCHANGED <<entry, rr, leases, attempt, manual, probeVars, candidates>>

\* The marking, under a write lock taken after the read lock was dropped.
MarkRestarting(n) ==
  /\ restart[n] = "checked"
  /\ restart' = [restart EXCEPT ![n] = "docker"]
  /\ Update(n, BeginRestart(entry[n], attempt[n]))
  /\ UNCHANGED <<queue, rr, leases, attempt, manual, probeVars, candidates>>

\* restart_managed, else recreate_managed, ends.
DockerEnds(n, ok) ==
  /\ restart[n] = "docker"
  /\ restart' = [restart EXCEPT ![n] = IF ok THEN "verify" ELSE "failing"]
  /\ UNCHANGED <<poolVars, rr, leases, attempt, manual, probeVars, candidates>>

VerifyFails(n) ==
  /\ restart[n] = "verify"
  /\ restart' = [restart EXCEPT ![n] = "failing"]
  /\ UNCHANGED <<poolVars, rr, leases, attempt, manual, probeVars, candidates>>

\* Faulty: the recovered address is taken over without looking for others.
AcceptIdentityUnchecked(n, ip) ==
  /\ restart[n] = "verify"
  /\ Update(n, MarkNodeHealthy([entry[n] EXCEPT !.exit = ip, !.fresh = TRUE]))
  /\ queue' = queue \ {n}
  /\ restart' = [restart EXCEPT ![n] = "idle"]
  /\ attempt' = [attempt EXCEPT ![n] = 0]
  /\ UNCHANGED <<rr, leases, manual, probeVars, candidates>>

\* accept_recovered_identity: the address is still quarantined, belongs to
\* an actively routed primary, or is taken over.
AcceptIdentity(n, ip) ==
  LET e == entry[n]
      quarantined == QuotaActive(e) /\ e.quarantined = ip
      owned == \E m \in Enabled \ {n} : entry[m].exit = ip
      taken == [entry EXCEPT ![n] =
                  MarkNodeHealthy([e EXCEPT !.exit = ip, !.fresh = TRUE])]
      settled == SuppressDuplicates(taken)
  IN  /\ restart[n] = "verify"
      /\ IF quarantined \/ owned
         THEN /\ restart' = [restart EXCEPT ![n] = "failing"]
              /\ UNCHANGED <<poolVars, attempt>>
         ELSE /\ entry' = settled
              /\ queue' = queue \ {n}
              /\ IF settled[n].duplicate
                 THEN /\ restart' = [restart EXCEPT ![n] = "failing"]
                      /\ UNCHANGED attempt
                 ELSE /\ restart' = [restart EXCEPT ![n] = "idle"]
                      /\ attempt' = [attempt EXCEPT ![n] = 0]
      /\ UNCHANGED <<rr, leases, manual, probeVars, candidates>>

\* apply_restart_failure: back to the queue while the budget lasts.
SettleFailure(n) ==
  /\ restart[n] = "failing"
  /\ Update(n, RestartFailure(entry[n], attempt[n]))
  /\ queue' = IF attempt[n] < MaxAttempts THEN queue \cup {n} ELSE queue \ {n}
  /\ restart' = [restart EXCEPT ![n] = "idle"]
  /\ attempt' = [attempt EXCEPT ![n] = 0]
  /\ UNCHANGED <<rr, leases, manual, probeVars, candidates>>

RestartStep(n) ==
  \/ CheckRestart(n)
  \/ RequeueBusy(n)
  \/ MarkRestarting(n)
  \/ \E ok \in BOOLEAN : DockerEnds(n, ok)
  \/ VerifyFails(n)
  \/ \E ip \in IP : AcceptIdentity(n, ip)
  \/ SettleFailure(n)

-----------------------------------------------------------------------------
(* The operator: set_managed_proxy_drain and restart_managed_proxy.        *)

BeginDrain(n) ==
  /\ n \in Drainable
  /\ Update(n, [entry[n] EXCEPT !.draining = TRUE])
  /\ UNCHANGED <<queue, rr, leases, workerVars>>

CancelDrain(n) ==
  /\ n \in Managed
  /\ Update(n, [entry[n] EXCEPT !.draining = FALSE])
  /\ UNCHANGED <<queue, rr, leases, workerVars>>

RestartManually(n) ==
  /\ n \in Managed
  /\ leases[n] = 0
  /\ manual[n] < MaxManual
  /\ manual' = [manual EXCEPT ![n] = @ + 1]
  /\ Update(n, BeginManualRestart(entry[n]))
  /\ queue' = queue \ {n}
  /\ UNCHANGED <<rr, leases, restartVars, probeVars, candidates>>

\* recreate_managed succeeded: the handler leaves the pool as it is.
ManualEnds(n) ==
  /\ manual[n] > 0
  /\ manual' = [manual EXCEPT ![n] = @ - 1]
  /\ UNCHANGED <<poolVars, rr, leases, restartVars, probeVars, candidates>>

ManualFails(n) ==
  /\ manual[n] > 0
  /\ manual' = [manual EXCEPT ![n] = @ - 1]
  /\ Update(n, ManualRestartFailed(entry[n]))
  /\ queue' = IF entry[n].attempts < MaxAttempts THEN queue \cup {n} ELSE queue
  /\ UNCHANGED <<rr, leases, restartVars, probeVars, candidates>>

-----------------------------------------------------------------------------

Routing ==
  \/ \E x \in Node \cup {NoNode} : SelectRoute(x)
  \/ \E n \in Node : Release(n)

Reporting ==
  \E n \in Node :
    \/ RequestSucceeds(n)
    \/ RequestFails(n)
    \/ \E d \in Quotas : RateLimited(n, d)
    \/ RateLimitCleared(n)

Reconciler ==
  \/ \E n \in Node : StageFails(n)
  \/ ReconcileIdentities
  \/ SnapshotCandidates
  \/ \E n \in Node, ok \in BOOLEAN : RouteStage(n, ok)

HealthMonitor ==
  \/ RecoverExpiredCooldowns
  \/ SnapshotTargets
  \/ \E n \in Node, reachable \in BOOLEAN : ApplyHealthProbe(n, reachable)

RestartWorker == DrainQueue \/ \E n \in Node : RestartStep(n)

Operator ==
  \E n \in Node :
    \/ BeginDrain(n) \/ CancelDrain(n)
    \/ RestartManually(n) \/ ManualEnds(n) \/ ManualFails(n)

Next ==
  \/ Tick
  \/ \E n \in Node : IdentityExpires(n)
  \/ Routing
  \/ Reporting
  \/ HealthMonitor
  \/ RefreshIdentities
  \/ Reconciler
  \/ RestartWorker
  \/ Operator

Spec == Init /\ [][Next]_vars

\* Every worker loop is driven by its own timer and awaits only operations
\* with a timeout; requests end.  Clients and operators owe nothing.
Fairness ==
  /\ WF_vars(Tick)
  /\ WF_vars(HealthMonitor)
  /\ WF_vars(RefreshIdentities)
  /\ WF_vars(DrainQueue)
  /\ \A n \in Node : WF_vars(RestartStep(n))
  /\ \A n \in Node : WF_vars(Release(n))
  /\ \A n \in Node : WF_vars(ManualEnds(n) \/ ManualFails(n))

FairSpec == Spec /\ Fairness

-----------------------------------------------------------------------------
(* What the pool promises.                                                 *)

TypeOK ==
  /\ entry \in [Node -> Entry]
  /\ queue \subseteq Node
  /\ rr \in Node
  /\ leases \in [Node -> 0 .. MaxLeases]
  /\ restart \in [Node -> RestartStage]
  /\ attempt \in [Node -> 0 .. MaxAttempts]
  /\ manual \in [Node -> 0 .. MaxManual]
  /\ monitor \in {"tick", "snapshot"}
  /\ targets \subseteq Node
  /\ candidates \subseteq Node

\* The fields of every node agree (Coherent), whatever order the workers
\* write them in.
Coherence == \A n \in Node : Coherent(entry[n])

\* Two nodes with the same verified exit address are never both free to
\* carry traffic: all but one are marked duplicates, although identities
\* arrive from three tasks (monitor, reconciler, restart worker) and vanish
\* at every restart.
UniqueExit ==
  \A m, n \in Node :
    /\ m # n
    /\ entry[m].exit # NoIP
    /\ entry[m].exit = entry[n].exit
    => entry[m].duplicate \/ entry[n].duplicate

\* A node whose container the bridge does not own is never queued, drained,
\* restarted or charged a restart attempt, by whichever worker.
ProtectedUntouched ==
  \A n \in Node \ Managed :
    /\ n \notin queue /\ n \notin targets
    /\ restart[n] = "idle" /\ manual[n] = 0
    /\ ~entry[n].draining /\ entry[n].attempts = 0

\* No fresh request is sent to a node inside its provider's rate limit, not
\* even as a half-open probe after transport failures.
FreshLeaseOutsideQuota ==
  [][\A n \in Node : leases'[n] > leases[n] => ~QuotaActive(entry[n])]_vars

-----------------------------------------------------------------------------
(* What the comments and the documentation say of explicit restarts and    *)
(* drains.                                                                 *)

\* begin_manual_restart "removes the node from normal routing before Docker
\* is touched": no normal route while the container is being recreated.
ManualRestartOutOfRouting ==
  \A n \in Node : manual[n] > 0 => ~NormalRoute(n)

-----------------------------------------------------------------------------
(* Recovery, as the documentation promises it ("Recovery is automatic").   *)

\* From some point on the outside world is in order: no failure, expiry or
\* rate limit is reported, Docker works, and no explicit restart begins.
Calm ==
  /\ \A n \in Node :
       /\ ~RequestFails(n) /\ ~StageFails(n) /\ ~RouteStage(n, FALSE)
       /\ ~ApplyHealthProbe(n, FALSE)
       /\ ~DockerEnds(n, FALSE) /\ ~VerifyFails(n) /\ ~ManualFails(n)
       /\ \A d \in Quotas : ~RateLimited(n, d)
       /\ ~RestartManually(n) /\ ~IdentityExpires(n)
  /\ \A probed \in SUBSET Node :
       \A results \in [probed -> IP \cup {NoIP}] :
         NoIP \in {results[n] : n \in probed} => ~ApplyIdentityResults(results)

EventuallyCalm == <>[][Calm]_vars

\* A node is of use when it carries traffic or is offered as a probe.
InService(n) == ClosedAndHealthy(entry[n]) \/ ProbeRoute(n) \/ leases[n] > 0

\* No node stays out of service for good once the world is in order, unless
\* an operator drained it.
NoNodeStranded ==
  EventuallyCalm => \A n \in Node \ Drainable : []<>InService(n)

\* What a rate limit does to a node whose identity is refreshed meanwhile: it is
\* half open, and only a request that already leases it can clear the cause.
OutForQuota(n) == entry[n].cause = "RateLimit" /\ entry[n].circuit = "HalfOpen"

\* docs/health-status.md: a rate limit is "a routing preference", and when its
\* cooldown has expired "the proxy becomes eligible for selection again even
\* without record_success calls".
QuotasExpire ==
  EventuallyCalm =>
    \A n \in Managed \ Drainable :
      QuotaActive(entry[n]) ~> (NormalRoute(n) \/ ProbeRoute(n))

\* What is left of both: a managed node with restart budget comes back after
\* transport failures, and after rate limits that no refresh has met, whatever
\* interleaving of probes, restarts, lost queue entries and failed identity
\* checks it went through.
ManagedNodesReturn ==
  EventuallyCalm =>
    \A n \in Managed \ Drainable :
      []<>(InService(n) \/ entry[n].attempts = MaxAttempts \/ OutForQuota(n))

\* An open circuit is not open for good: it is offered for probing again.
CircuitsReopen ==
  EventuallyCalm => \A n \in Node : []<>(entry[n].circuit # "Open")

=============================================================================
