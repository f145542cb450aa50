------------------------------ MODULE Readiness -------------------------------
(***************************************************************************)
(* When the egress is ready: the worker that verifies the exits in staged  *)
(* cycles and publishes the phase of the subsystem, the identity monitor   *)
(* and the restart worker beside it, and the readiness the gateway reports *)
(* of them all (proxy_pool/reconcile/, proxy_pool/subsystem.rs,            *)
(* proxy_pool/identity.rs, proxy_pool/maintenance.rs, handlers/metadata.rs,*)
(* workers.rs, state.rs).                                                  *)
(*                                                                         *)
(* A tick is verify_timeout, 10 s.  What answers or refuses takes no time; *)
(* an exit that is hung accepts a connection and does not answer within    *)
(* the time-outs, and a stalled Docker daemon does not answer a command.   *)
(* The pool is reduced to what the stages look at: whether a node is       *)
(* closed and healthy, and whether its identity is fresh; the rest of it   *)
(* is in EgressPool.  All nodes are active primaries with identities of    *)
(* their own.                                                              *)
(***************************************************************************)
EXTENDS Naturals, FiniteSetsExt

CONSTANTS
  NumNodes,        \* nodes, in the order of the pool
  Owned,           \* those whose containers the bridge owns; the others are external
  MinExits,        \* minimum_unique_exit_ips
  Bootstrap,       \* bootstrap_timeout, in ticks
  HeartbeatBudget, \* of critical workers, in ticks
  Tries,           \* ticks the twelve tries of verify_proxy_identity take if refused
  AtOnce,          \* MAX_CONCURRENT_PROXY_RECOVERIES
  MaxFaults        \* bound on failures, expiries and changes of exits

Node == 1 .. NumNodes

\* The budget is 90 s or more, whatever is configured; twelve refusals five
\* seconds apart take 55 s.
ASSUME ReadinessAssumption ==
  /\ NumNodes \in Nat
  /\ Owned \subseteq Node
  /\ Bootstrap \in Nat \ {0}
  /\ AtOnce \in Nat \ {0}
  /\ Tries \in Nat
  /\ HeartbeatBudget \in Nat \ {0}
  /\ Tries <= HeartbeatBudget

\* What an exit does: serve, refuse, hang, fail to prove its identity, or not
\* reach the upstream; gone if it has no container and cannot have one.
Link == {"good", "gone", "down", "hung", "odd", "cut"}

\* The critical workers, but for their prefix "proxy-".
Workers == {"reconcile", "identity", "restart", "health", "dashboard-heartbeat"}

VARIABLES
  link,
  docker,  \* the daemon is prompt or stalled
  health,  \* unknown, healthy or failing
  fresh,   \* has a fresh verified identity
  barred,  \* nodes that no worker brings back: restarts spent, or rate limited
  phase,   \* of the subsystem
  at,      \* stage of the reconciler
  todo,    \* nodes still to be seen in this stage, the lowest first
  passed,  \* nodes that passed it
  failed,  \* nodes whose identity probe failed in this cycle
  waited,  \* the probe of the lowest of todo has used up its timeout
  attempt, \* failure_attempt
  wait,    \* ticks left to sleep
  monitor, \* identity monitor: sleeps, probes, or waits for a hung exit
  batch,   \* queue entries the restart worker has drained and not begun
  work,    \* of a restart: none, docker or verify
  left,    \* ticks left of its verification if the exit refuses
  restarter, \* the restart worker rests, is due, or busy with its batch
  beat,    \* ticks since the heartbeat of each worker
  faults,
  proved,  \* nodes whose route was proved in this cycle
  hung,    \* whether some exit ever hung
  stalled  \* whether the daemon ever stalled

rvars == <<link, docker, health, fresh, barred, phase, at, todo, passed, failed,
           waited, attempt, wait, monitor, batch, work, left, restarter, beat,
           faults, proved, hung, stalled>>

pool == <<health, fresh, barred>>
cycle == <<phase, at, todo, passed, failed, waited, proved>>
sleep == <<attempt, wait>>
restarts == <<batch, work, left, restarter>>
world == <<link, docker, faults, hung, stalled>>

Stages == {"starting", "transport", "identity", "route"}

Eligible(n) == health[n] = "healthy" /\ fresh[n]

\* egress_ready
EgressReady ==
  /\ \E n \in Node : Eligible(n)
  /\ Cardinality({n \in Node : fresh[n] /\ health[n] # "failing"}) >= MinExits

\* recovery_backoff, in ticks and without its jitter.
Backoff == CASE attempt <= 2 -> 1 [] attempt = 3 -> 3 [] OTHER -> 6

Beats(w) == beat' = [beat EXCEPT ![w] = 0]

-----------------------------------------------------------------------------
ReadinessInit ==
  /\ link \in [Node -> Link]
  /\ docker \in {"prompt", "stalled"}
  /\ health = [n \in Node |-> "unknown"]
  /\ fresh = [n \in Node |-> FALSE]
  /\ barred = {}
  /\ phase = "starting"
  /\ at = "sleep" /\ wait = 0 /\ attempt = 0
  /\ todo = {} /\ passed = {} /\ failed = {} /\ waited = FALSE
  /\ monitor = "sleep"
  /\ batch = {} /\ restarter = "rest"
  /\ work = [n \in Node |-> "none"] /\ left = [n \in Node |-> 0]
  /\ beat = [w \in Workers |-> 0]
  /\ faults = 0
  /\ proved = {}
  /\ hung = (\E n \in Node : link[n] = "hung")
  /\ stalled = (docker = "stalled")

\* The loop comes back to its head: the phase leaves ready for the new cycle.
BeginCycle ==
  /\ at = "sleep" /\ wait = 0
  /\ Beats("reconcile")
  /\ phase' = "starting"
  /\ at' = "starting"
  /\ todo' = Node
  /\ passed' = {} /\ failed' = {} /\ proved' = {}
  /\ UNCHANGED <<waited, sleep, pool, monitor, restarts, world>>

\* A cycle that fails: degraded until the next one, after a backoff.
Degrade ==
  /\ phase' = "degraded"
  /\ at' = "sleep"
  /\ wait' = Backoff
  /\ attempt' = IF attempt < 4 THEN attempt + 1 ELSE 4
  /\ todo' = {} /\ passed' = {} /\ failed' = {} /\ proved' = {}
  /\ waited' = FALSE

\* What a stage asks of an exit that answers.
Passes(stage, n) ==
  CASE stage = "starting" -> n \in Owned => link[n] # "gone"
    [] stage = "transport" -> link[n] \in {"good", "odd", "cut"}
    [] stage = "identity" -> link[n] \in {"good", "cut"}
    [] stage = "route" -> link[n] \in {"good", "odd"}

\* ensure_candidate asks Docker for the containers of the bridge, with
\* verify_timeout for each command; Docker answers for one whose proxy hangs.
Hangs(stage, n) ==
  IF stage = "starting" THEN n \in Owned /\ docker = "stalled"
  ELSE link[n] = "hung"

\* record_success and record_failure, as far as the stages see them: a failure
\* makes a node ineligible; one success in a row of two does not undo that.
Records(n, ok) ==
  health' = [health EXCEPT ![n] = IF ok THEN @ ELSE "failing"]

Candidate(n, ok) ==
  /\ todo' = todo \ {n}
  /\ passed' = IF ok THEN passed \cup {n} ELSE passed
  /\ failed' = IF at = "identity" /\ ~ ok THEN failed \cup {n} ELSE failed
  /\ proved' = IF at = "route" /\ ok THEN proved \cup {n} ELSE proved
  /\ waited' = FALSE
  /\ Records(n, ok)
  /\ UNCHANGED <<phase, at, fresh, barred, sleep, monitor, beat, restarts, world>>

\* The next candidate of the stage answers or refuses.
Verify ==
  /\ at \in Stages /\ todo # {} /\ ~ waited
  /\ ~ Hangs(at, Min(todo))
  /\ Candidate(Min(todo), Passes(at, Min(todo)))

\* Faulty: a candidate that does not answer ends the cycle.
TimeoutEndsCycle ==
  /\ at \in Stages /\ todo # {} /\ waited
  /\ Degrade /\ UNCHANGED <<pool, monitor, beat, restarts, world>>

\* It used up its time; the cycle may have used up its own with it, and is
\* then dropped where it stands.
ProbeTimesOut ==
  /\ at \in Stages /\ todo # {} /\ waited
  /\ IF beat["reconcile"] >= Bootstrap
     THEN Degrade /\ UNCHANGED <<pool, monitor, beat, restarts, world>>
     ELSE Candidate(Min(todo), FALSE)

\* apply_identity_results: of the nodes whose probe failed some are unknown
\* again, and an identity that is still fresh is kept.
ApplyResults(U) ==
  /\ fresh' = [n \in Node |-> fresh[n] \/ n \in passed]
  /\ health' = [n \in Node |->
                 IF n \in passed /\ health[n] = "unknown" THEN "healthy"
                 ELSE IF n \in U THEN "unknown"
                 ELSE health[n]]

\* The candidates of the next stage: who passed this one; for the route, every
\* healthy node of the pool with a fresh identity.
Advance(stage, candidates) ==
  IF candidates = {}
  THEN Degrade
  ELSE /\ phase' = stage
       /\ at' = stage
       /\ todo' = candidates
       /\ passed' = {}
       /\ UNCHANGED <<failed, waited, attempt, wait, proved>>

StageEnds ==
  /\ todo = {}
  /\ \/ /\ at = "starting" /\ Advance("transport", passed) /\ UNCHANGED <<health, fresh>>
     \/ /\ at = "transport" /\ Advance("identity", passed) /\ UNCHANGED <<health, fresh>>
     \/ /\ at = "identity"
        /\ \E U \in SUBSET {n \in failed : ~ fresh[n]} : ApplyResults(U)
        /\ IF passed = {}
           THEN Degrade
           ELSE /\ at' = "candidates"
                /\ UNCHANGED <<phase, todo, passed, failed, waited, attempt, wait, proved>>
     \/ /\ at = "candidates"
        /\ Advance("route", {n \in Node : Eligible(n)}) /\ UNCHANGED <<health, fresh>>
  /\ UNCHANGED <<barred, monitor, beat, restarts, world>>

\* Some candidate carried a request to the upstream.
RouteProved == passed # {}

\* After the route probes the pool is asked once more, and may change before
\* the phase is written.
RouteEnds ==
  /\ at = "route" /\ todo = {}
  /\ IF RouteProved /\ EgressReady
     THEN at' = "publish" /\ UNCHANGED <<phase, todo, passed, failed, waited, attempt, wait, proved>>
     ELSE Degrade
  /\ UNCHANGED <<pool, monitor, beat, restarts, world>>

Publish ==
  /\ at = "publish"
  /\ phase' = "ready"
  /\ at' = "sleep" /\ wait' = 1 /\ attempt' = 0
  /\ UNCHANGED <<todo, passed, failed, waited, proved, pool, monitor, beat, restarts, world>>

Reconcile == BeginCycle \/ Verify \/ ProbeTimesOut \/ StageEnds \/ RouteEnds \/ Publish

-----------------------------------------------------------------------------
(* The identity monitor.                                                   *)

MonitorWakes ==
  /\ monitor = "due"
  /\ Beats("identity")
  /\ monitor' = "probe"
  /\ UNCHANGED <<pool, cycle, sleep, restarts, world>>

\* All exits are asked at once and the results applied together, so that one
\* that hangs holds up the others' and the monitor's next heartbeat until its
\* client gives up, 600 s later.
MonitorApplies ==
  /\ monitor = "probe"
  /\ \A n \in Node : link[n] = "hung" => beat["identity"] > HeartbeatBudget
  /\ monitor' = "sleep"
  /\ fresh' = [n \in Node |-> fresh[n] \/ link[n] \in {"good", "cut"}]
  /\ health' = [n \in Node |->
                 IF link[n] \in {"good", "cut"} /\ health[n] = "unknown"
                 THEN "healthy" ELSE health[n]]
  /\ UNCHANGED <<barred, beat, cycle, sleep, restarts, world>>

-----------------------------------------------------------------------------
(* process_restart_queue: a heartbeat when it wakes, and one whenever a    *)
(* recovery of its batch is complete.                                      *)

Working == {n \in Node : work[n] # "none"}
Room == Cardinality(Working) < AtOnce

\* Of the failing nodes any may be in the queue.
RestarterWakes ==
  /\ restarter = "due"
  /\ Beats("restart")
  /\ \E S \in SUBSET {n \in Owned \ barred : health[n] = "failing"} :
       /\ batch' = S
       /\ restarter' = IF S = {} THEN "rest" ELSE "busy"
  /\ UNCHANGED <<work, left, pool, cycle, sleep, monitor, world>>

Completes(B, n) ==
  /\ batch' = B
  /\ work' = [work EXCEPT ![n] = "none"]
  /\ left' = [left EXCEPT ![n] = 0]
  /\ restarter' = IF B = {} /\ Working \ {n} = {} THEN "rest" ELSE "busy"
  /\ Beats("restart")

\* The next of the batch is restarted, and has no identity until it is
\* verified; or it needs no restart any more.
BeginRecovery(n) ==
  /\ n \in batch /\ Room
  /\ IF health[n] = "failing" /\ n \notin barred
     THEN /\ batch' = batch \ {n}
          /\ work' = [work EXCEPT ![n] = "docker"]
          /\ fresh' = [fresh EXCEPT ![n] = FALSE]
          /\ UNCHANGED <<left, restarter, beat>>
     ELSE Completes(batch \ {n}, n) /\ UNCHANGED fresh
  /\ UNCHANGED <<health, barred, cycle, sleep, monitor, world>>

\* apply_restart_failure, which may have been the last the budget allows.
RecoveryFails(n) ==
  /\ Completes(batch, n)
  /\ barred' \in {barred, barred \cup {n}}
  /\ health' = [health EXCEPT ![n] = "failing"]
  /\ UNCHANGED fresh

\* docker restart, else rm and run: without a time-out.
DockerAnswers(n) ==
  /\ work[n] = "docker" /\ docker = "prompt"
  /\ IF link[n] = "gone"
     THEN RecoveryFails(n)
     ELSE /\ work' = [work EXCEPT ![n] = "verify"]
          /\ left' = [left EXCEPT ![n] = Tries]
          /\ UNCHANGED <<batch, restarter, beat, pool>>
  /\ UNCHANGED <<cycle, sleep, monitor, world>>

\* verify_proxy_identity: the exit proves itself, or every try has failed.
VerificationEnds(n) ==
  /\ work[n] = "verify"
  /\ \/ /\ link[n] \in {"good", "cut"}
        /\ Completes(batch, n)
        /\ health' = [health EXCEPT ![n] = "healthy"]
        /\ fresh' = [fresh EXCEPT ![n] = TRUE]
        /\ barred' = barred \ {n}
     \/ /\ link[n] \notin {"good", "cut"} /\ left[n] = 0
        /\ RecoveryFails(n)
  /\ UNCHANGED <<cycle, sleep, monitor, world>>

RestartWorker ==
  \/ RestarterWakes
  \/ \E n \in Node : BeginRecovery(n) \/ DockerAnswers(n) \/ VerificationEnds(n)

-----------------------------------------------------------------------------
(* What else happens to the pool.                                          *)

\* health_monitor: a managed node with restart budget and without a rate limit
\* is healthy again as soon as its port accepts a connection.
Recovers(n) ==
  /\ n \in Owned \ barred
  /\ work[n] = "none" /\ n \notin batch
  /\ link[n] \notin {"gone", "down"} /\ fresh[n]
  /\ health[n] = "failing"
  /\ health' = [health EXCEPT ![n] = "healthy"]
  /\ UNCHANGED <<fresh, barred, cycle, sleep, monitor, restarts, beat, world>>

\* Any node: two requests that it was still offered to succeed in a row.
ServesAgain(n) ==
  /\ link[n] = "good" /\ health[n] = "failing"
  /\ health' = [health EXCEPT ![n] = "healthy"]
  /\ barred' = barred \ {n}
  /\ UNCHANGED <<fresh, cycle, sleep, monitor, restarts, beat, world>>

Fault(n) ==
  /\ faults < MaxFaults
  /\ faults' = faults + 1
  /\ \/ \E l \in Link \ {link[n]} :
          /\ link' = [link EXCEPT ![n] = l]
          /\ hung' = (hung \/ l = "hung")
          /\ UNCHANGED <<docker, stalled, pool>>
     \/ /\ docker' \in {"prompt", "stalled"} \ {docker}
        /\ stalled' = TRUE
        /\ UNCHANGED <<link, hung, pool>>
     \/ /\ health' = [health EXCEPT ![n] = "failing"]
        /\ barred' \in {barred, barred \cup {n}}
        /\ UNCHANGED <<link, docker, hung, stalled, fresh>>
     \/ /\ fresh[n]
        /\ fresh' = [fresh EXCEPT ![n] = FALSE]
        /\ UNCHANGED <<link, docker, hung, stalled, health, barred>>
  /\ UNCHANGED <<cycle, sleep, monitor, restarts, beat>>

-----------------------------------------------------------------------------
\* Faulty: the reconciler sleeps through its backoff without a heartbeat.
SilentSleep(a) == a + 1

\* sleep_with_heartbeat
Heartbeat(a) == 0

Older(a) == IF a > HeartbeatBudget THEN a ELSE a + 1

WaitsForProbe == at \in Stages /\ todo # {} /\ Hangs(at, Min(todo)) /\ ~ waited

\* Of a restart; each try that meets a hung exit takes its own time-out besides.
WaitsForRecovery(n) ==
  \/ work[n] = "docker" /\ docker = "stalled"
  \/ /\ work[n] = "verify" /\ link[n] \notin {"good", "cut"}
     /\ left[n] > 0 \/ link[n] = "hung"

\* Time passes when nothing can happen at once.  The health monitor connects to
\* ports of this host only, and nothing keeps the dashboard's worker waiting.
Tick ==
  /\ \/ at = "sleep" /\ wait > 0
     \/ WaitsForProbe
  /\ \/ monitor = "sleep"
     \/ monitor = "probe" /\ \E n \in Node : link[n] = "hung" /\ beat["identity"] <= HeartbeatBudget
  /\ restarter # "due"
  /\ batch # {} => ~ Room
  /\ \A n \in Working : WaitsForRecovery(n)
  /\ wait' = IF at = "sleep" THEN wait - 1 ELSE wait
  /\ waited' = (at # "sleep")
  /\ monitor' = IF monitor = "sleep" THEN "due" ELSE monitor
  /\ restarter' = IF restarter = "rest" THEN "due" ELSE restarter
  /\ left' = [n \in Node |-> IF left[n] > 0 THEN left[n] - 1 ELSE 0]
  /\ beat' = [w \in Workers |->
                CASE w \in {"identity", "restart"} -> Older(beat[w])
                  [] w = "reconcile" ->
                       IF at = "sleep" /\ beat[w] <= HeartbeatBudget
                       THEN Heartbeat(beat[w]) ELSE Older(beat[w])
                  [] OTHER -> 0]
  /\ UNCHANGED <<pool, phase, at, todo, passed, failed, proved, attempt, batch, work, world>>

ReadinessNext ==
  \/ Reconcile
  \/ MonitorWakes
  \/ MonitorApplies
  \/ RestartWorker
  \/ \E n \in Node : Recovers(n) \/ ServesAgain(n) \/ Fault(n)
  \/ Tick

ReadinessSpec == ReadinessInit /\ [][ReadinessNext]_rvars

\* The workers go on, each in its turn: time passes only when none of them can
\* do anything.  The health monitor brings back what it may bring back.
ReadinessFair ==
  /\ ReadinessSpec
  /\ WF_rvars(Reconcile \/ MonitorWakes \/ MonitorApplies \/ Tick)
  /\ WF_rvars(RestartWorker)
  /\ \A n \in Owned : WF_rvars(Recovers(n))

-----------------------------------------------------------------------------
ReadinessTypeOK ==
  /\ link \in [Node -> Link]
  /\ health \in [Node -> {"unknown", "healthy", "failing"}]
  /\ fresh \in [Node -> BOOLEAN]
  /\ phase \in Stages \cup {"ready", "degraded"}
  /\ at \in Stages \cup {"sleep", "candidates", "publish"}
  /\ passed \subseteq Node /\ failed \subseteq Node /\ proved \subseteq Node

\* Ready is published only after some exit carried a request to the upstream
\* in the same cycle, and it is withdrawn before the exits are verified again.
ReadyIsEarned == phase = "ready" => at = "sleep" /\ proved # {}

\* critical_ready
WorkersReady == \A w \in Workers : beat[w] <= HeartbeatBudget

\* A hybrid gateway is usable without any proxy and reports itself ready
\* whatever the exits refuse or fail to prove, and however often they are
\* restarted - unless one of them hangs, or Docker does: then the identity
\* monitor or the restart worker misses its heartbeat, and the answer is 503
\* although requests are served.
UnreadyForAReason == WorkersReady \/ hung \/ stalled

\* What the gateway says of its readiness is true.
ReadinessTruthful == ReadyIsEarned /\ UnreadyForAReason

\* handlers/metadata.rs: in hybrid mode "proxy degradation never turns into a
\* 503 here"; the workers of the proxies are critical in every mode.
DegradationStaysReady == WorkersReady

\* If in the end enough exits of the bridge serve that their worker may still
\* bring back, and Docker answers, the subsystem becomes ready again and again,
\* although other exits refuse or hang, as long as those that hang do not use
\* up the time of a whole cycle.
HealthyExitsGetUsed ==
  (<>[](/\ docker = "prompt"
        /\ Cardinality({n \in Owned \ barred : link[n] = "good"}) >= MinExits
        /\ Cardinality({n \in Node : link[n] = "hung"}) < Bootstrap))
    => []<>(phase = "ready")

=============================================================================
