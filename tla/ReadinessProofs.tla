--------------------------- MODULE ReadinessProofs ---------------------------
(***************************************************************************)
(* Theorems about the readiness of the egress, for any number of exits and *)
(* any of them hanging, refusing or failing at any time.                   *)
(*                                                                         *)
(* ReadinessInv says how old a heartbeat can be at each place of the loops *)
(* of the reconciler, the identity monitor and the restart worker, and     *)
(* what the stages of a cycle hand on.                                     *)
(***************************************************************************)
EXTENDS Readiness, FiniteSetTheorems, WellFoundedInduction, TLAPS

TypedPool ==
  /\ link \in [Node -> Link]
  /\ docker \in {"prompt", "stalled"}
  /\ health \in [Node -> {"unknown", "healthy", "failing"}]
  /\ fresh \in [Node -> BOOLEAN]
  /\ hung \in BOOLEAN /\ stalled \in BOOLEAN

TypedCycle ==
  /\ phase \in Stages \cup {"ready", "degraded"}
  /\ at \in Stages \cup {"sleep", "candidates", "publish"}
  /\ todo \subseteq Node
  /\ passed \subseteq Node /\ failed \subseteq Node /\ proved \subseteq Node
  /\ waited \in BOOLEAN

TypedRestarts ==
  /\ monitor \in {"sleep", "due", "probe"}
  /\ restarter \in {"rest", "due", "busy"}
  /\ batch \subseteq Node
  /\ work \in [Node -> {"none", "docker", "verify"}]
  /\ left \in [Node -> 0 .. Tries]
  /\ beat \in [Workers -> Nat]

\* A stage that waited has someone to wait for.
Waits == waited => at \in Stages /\ todo # {}

\* Who has passed the route is proved; a cycle that publishes proved someone.
Earned ==
  /\ phase = "ready" => at = "sleep" /\ proved # {}
  /\ at = "route" => passed \subseteq proved
  /\ at = "publish" => proved # {}

\* The restart worker is busy with some node.
Busy == restarter = "busy" => batch # {} \/ Working # {}
Idle == restarter # "busy" => batch = {} /\ Working = {}

\* As long as no exit has hung and Docker has not stalled, nothing takes time but
\* sleep and the tries of a verification that is refused.
Prompt ==
  \/ hung \/ stalled
  \/ /\ \A n \in Node : link[n] # "hung"
     /\ docker = "prompt"
     /\ beat["reconcile"] = 0
     /\ beat["identity"] <= 1
     /\ monitor # "due" => beat["identity"] = 0

\* The last heartbeat of the restart worker is not older than any of the
\* verifications it is in; none is due while something can be done at once.
InTime ==
  \/ hung \/ stalled
  \/ /\ restarter = "rest" => beat["restart"] = 0
     /\ restarter = "due" => beat["restart"] <= 1
     /\ batch # {} /\ Room => beat["restart"] = 0
     /\ \A n \in Node :
          /\ work[n] = "docker" => beat["restart"] = 0
          /\ work[n] = "verify" => beat["restart"] <= Tries - left[n]

\* Nothing delays the health monitor and the dashboard's worker.
Undelayed == beat["health"] = 0 /\ beat["dashboard-heartbeat"] = 0

ReadinessInv ==
  /\ TypedPool /\ TypedCycle /\ TypedRestarts
  /\ Waits /\ Earned /\ Busy /\ Idle /\ Prompt /\ InTime /\ Undelayed

\* A cycle is dropped when its time is up, wherever it stands.
Bounded ==
  /\ beat["reconcile"] <= Bootstrap
  /\ at \in Stages \cup {"candidates"} /\ ~ waited => beat["reconcile"] < Bootstrap


-----------------------------------------------------------------------------
\* The node a stage sees next is one of them.
LEMMA Least ==
  ASSUME NEW A, A \subseteq Nat, A # {}
  PROVE  Min(A) \in A
<1> DEFINE Lower == OpToRel(<, Nat)
<1>1. \A x, y \in Nat : x < y => <<x, y>> \in Lower
  BY DEF OpToRel
<1>2. IsWellFoundedOn(Lower, Nat)
  BY NatLessThanWellFounded
<1> HIDE DEF Lower
<1>3. \E n \in A : \A m \in A : ~ (<<m, n>> \in Lower)
  BY <1>2, WFMin
<1>4. PICK n \in A : \A m \in A : ~ (m < n)
  BY <1>1, <1>3
<1>5. \A m \in A : n <= m
  BY <1>4
<1> QED
  BY <1>5 DEF Min

LEMMA NextSeen ==
  ASSUME TypedCycle, todo # {}
  PROVE  Min(todo) \in Node /\ Min(todo) \in todo
<1>1. Node \subseteq Nat
  BY ReadinessAssumption DEF Node
<1>2. todo \subseteq Nat
  BY <1>1 DEF TypedCycle
<1> QED
  BY <1>2, Least DEF TypedCycle

LEMMA BeatsOne ==
  ASSUME TypedRestarts, NEW w \in Workers, Beats(w)
  PROVE  /\ beat' \in [Workers -> Nat]
         /\ beat'[w] = 0
         /\ \A v \in Workers \ {w} : beat'[v] = beat[v]
BY DEF TypedRestarts, Beats

\* A worker without work has room for some.
LEMMA RoomAtFirst == Working = {} => Room
BY FS_EmptySet, ReadinessAssumption DEF Room

-----------------------------------------------------------------------------
(* The reconciler.                                                         *)

\* What the steps of a cycle leave alone stays in order.
LEMMA OthersKept ==
  ASSUME ReadinessInv,
         UNCHANGED <<link, docker, hung, stalled, monitor, batch, work, left, restarter>>,
         UNCHANGED beat \/ Beats("reconcile")
  PROVE  TypedRestarts' /\ Busy' /\ Idle' /\ Prompt' /\ InTime' /\ Undelayed'
<1>1. /\ beat' \in [Workers -> Nat]
      /\ beat'["reconcile"] \in {0, beat["reconcile"]}
      /\ \A v \in Workers \ {"reconcile"} : beat'[v] = beat[v]
  BY BeatsOne DEF ReadinessInv, TypedRestarts, Workers
<1>2. /\ beat'["identity"] = beat["identity"] /\ beat'["restart"] = beat["restart"]
      /\ beat'["health"] = beat["health"]
      /\ beat'["dashboard-heartbeat"] = beat["dashboard-heartbeat"]
  BY <1>1 DEF Workers
<1>3. Working' = Working /\ (Room' <=> Room)
  BY DEF Working, Room
<1>4. TypedRestarts'
  BY <1>1 DEF ReadinessInv, TypedRestarts
<1>5. Busy' /\ Idle' /\ Undelayed'
  BY <1>2, <1>3 DEF ReadinessInv, Busy, Idle, Undelayed
<1>6. Prompt'
  BY <1>1, <1>2 DEF ReadinessInv, Prompt
<1>7. InTime'
  BY <1>2, <1>3 DEF ReadinessInv, InTime
<1> QED
  BY <1>4, <1>5, <1>6, <1>7

LEMMA DegradeKeeps ==
  ASSUME ReadinessInv, Degrade,
         TypedPool',
         UNCHANGED <<link, docker, hung, stalled, monitor, batch, work, left, restarter, beat>>
  PROVE  ReadinessInv' /\ (Bounded => Bounded')
<1>1. TypedCycle' /\ Waits' /\ Earned'
  BY DEF Degrade, ReadinessInv, TypedCycle, Waits, Earned, Stages
<1>2. Bounded => Bounded'
  BY DEF Degrade, Bounded, Stages
<1> QED
  BY <1>1, <1>2, OthersKept DEF ReadinessInv

LEMMA CandidateKeeps ==
  ASSUME ReadinessInv, at \in Stages, NEW n \in todo, NEW ok,
         Candidate(n, ok), waited => beat["reconcile"] < Bootstrap
  PROVE  ReadinessInv' /\ (Bounded => Bounded')
<1>1. /\ UNCHANGED <<phase, at, fresh, beat, monitor, batch, work, left, restarter,
                     link, docker, hung, stalled>>
      /\ todo' = todo \ {n} /\ waited' = FALSE
      /\ passed' = IF ok THEN passed \cup {n} ELSE passed
      /\ failed' = IF at = "identity" /\ ~ ok THEN failed \cup {n} ELSE failed
      /\ proved' = IF at = "route" /\ ok THEN proved \cup {n} ELSE proved
      /\ health' = [health EXCEPT ![n] = IF ok THEN @ ELSE "failing"]
  BY DEF Candidate, Records, sleep, restarts, world
<1>2. n \in Node
  BY DEF ReadinessInv, TypedCycle
<1>3. TypedCycle' /\ TypedPool'
  BY <1>1, <1>2 DEF ReadinessInv, TypedCycle, TypedPool
<1>4. Waits'
  BY <1>1 DEF Waits
<1>5. Earned'
  BY <1>1 DEF ReadinessInv, Earned, Stages
<1>6. Bounded => Bounded'
  BY <1>1 DEF Bounded
<1> QED
  BY <1>1, <1>3, <1>4, <1>5, <1>6, OthersKept DEF ReadinessInv

LEMMA AdvanceKeeps ==
  ASSUME ReadinessInv, todo = {}, at \in Stages \cup {"candidates"},
         NEW stage \in {"transport", "identity", "route"},
         NEW S \in SUBSET Node, Advance(stage, S),
         UNCHANGED <<health, fresh>>,
         UNCHANGED <<link, docker, hung, stalled, monitor, batch, work, left, restarter, beat>>
  PROVE  ReadinessInv' /\ (Bounded => Bounded')
<1>1. CASE S = {}
  <2>1. Degrade /\ TypedPool'
    BY <1>1 DEF Advance, ReadinessInv, TypedPool
  <2> QED
    BY <2>1, DegradeKeeps
<1>2. CASE S # {}
  <2>1. /\ phase' = stage /\ at' = stage /\ todo' = S /\ passed' = {}
        /\ UNCHANGED <<failed, waited, proved>> /\ ~waited
    BY <1>2 DEF Advance, ReadinessInv, Waits
  <2>2. TypedPool' /\ TypedCycle' /\ Waits' /\ Earned'
    BY <2>1 DEF ReadinessInv, TypedPool, TypedCycle, Waits, Earned, Stages
  <2>3. Bounded => Bounded'
    BY <2>1 DEF Bounded, Stages
  <2> QED
    BY <2>2, <2>3, OthersKept DEF ReadinessInv
<1> QED
  BY <1>1, <1>2

LEMMA BeginCycleKeeps ==
  ASSUME ReadinessInv, BeginCycle
  PROVE  ReadinessInv' /\ (Bounded => Bounded')
<1>1. /\ phase' = "starting" /\ at' = "starting" /\ todo' = Node
      /\ passed' = {} /\ failed' = {} /\ proved' = {}
      /\ UNCHANGED <<waited, health, fresh>>
      /\ UNCHANGED <<link, docker, hung, stalled, monitor, batch, work, left, restarter>>
      /\ at = "sleep" /\ Beats("reconcile")
  BY DEF BeginCycle, pool, restarts, world
<1>2. ~waited
  BY <1>1 DEF ReadinessInv, Waits, Stages
<1>3. TypedPool' /\ TypedCycle' /\ Waits' /\ Earned'
  BY <1>1, <1>2 DEF ReadinessInv, TypedPool, TypedCycle, Waits, Earned, Stages
<1>4. beat'["reconcile"] = 0
  BY <1>1, BeatsOne DEF ReadinessInv, Workers
<1>5. Bounded'
  BY <1>4, ReadinessAssumption DEF Bounded
<1> QED
  BY <1>1, <1>3, <1>5, OthersKept DEF ReadinessInv

LEMMA VerifyKeeps ==
  ASSUME ReadinessInv, Verify
  PROVE  ReadinessInv' /\ (Bounded => Bounded')
<1>1. /\ at \in Stages /\ todo # {} /\ ~waited
      /\ Candidate(Min(todo), Passes(at, Min(todo)))
  BY DEF Verify
<1>2. Min(todo) \in todo /\ Min(todo) \in Node
  BY <1>1, NextSeen DEF ReadinessInv
<1> QED
  BY <1>1, <1>2, CandidateKeeps

LEMMA ProbeTimesOutKeeps ==
  ASSUME ReadinessInv, ProbeTimesOut
  PROVE  ReadinessInv' /\ (Bounded => Bounded')
<1>1. at \in Stages /\ todo # {} /\ waited
  BY DEF ProbeTimesOut
<1>2. CASE beat["reconcile"] >= Bootstrap
  <2>1. Degrade /\ UNCHANGED <<pool, monitor, beat, restarts, world>>
    BY <1>2 DEF ProbeTimesOut
  <2>2. TypedPool'
    BY <2>1 DEF ReadinessInv, TypedPool, pool, world
  <2> QED
    BY <2>1, <2>2, DegradeKeeps DEF restarts, world
<1>3. CASE ~(beat["reconcile"] >= Bootstrap)
  <2>1. Candidate(Min(todo), FALSE)
    BY <1>3 DEF ProbeTimesOut
  <2>2. Min(todo) \in todo
    BY <1>1, NextSeen DEF ReadinessInv
  <2>3. beat["reconcile"] < Bootstrap
    BY <1>3, ReadinessAssumption DEF ReadinessInv, TypedRestarts, Workers
  <2> QED
    BY <1>1, <2>1, <2>2, <2>3, CandidateKeeps
<1> QED
  BY <1>2, <1>3

LEMMA StageEndsKeeps ==
  ASSUME ReadinessInv, StageEnds
  PROVE  ReadinessInv' /\ (Bounded => Bounded')
<1>1. /\ todo = {}
      /\ UNCHANGED <<link, docker, hung, stalled, monitor, batch, work, left, restarter, beat>>
  BY DEF StageEnds, restarts, world
<1>2. CASE /\ at = "starting" /\ Advance("transport", passed)
           /\ UNCHANGED <<health, fresh>>
  BY <1>1, <1>2, AdvanceKeeps DEF Stages, ReadinessInv, TypedCycle
<1>3. CASE /\ at = "transport" /\ Advance("identity", passed)
           /\ UNCHANGED <<health, fresh>>
  BY <1>1, <1>3, AdvanceKeeps DEF Stages, ReadinessInv, TypedCycle
<1>4. CASE /\ at = "candidates" /\ Advance("route", {n \in Node : Eligible(n)})
           /\ UNCHANGED <<health, fresh>>
  BY <1>1, <1>4, AdvanceKeeps
<1>5. CASE /\ at = "identity"
           /\ \E U \in SUBSET {n \in failed : ~ fresh[n]} : ApplyResults(U)
           /\ IF passed = {}
              THEN Degrade
              ELSE /\ at' = "candidates"
                   /\ UNCHANGED <<phase, todo, passed, failed, waited, attempt, wait,
                                  proved>>
  <2>1. TypedPool'
    BY <1>1, <1>5 DEF ReadinessInv, TypedPool, ApplyResults
  <2>2. CASE passed = {}
    BY <1>1, <1>5, <2>1, <2>2, DegradeKeeps
  <2>3. CASE passed # {}
    <3>1. /\ at' = "candidates"
          /\ UNCHANGED <<phase, todo, passed, failed, waited, proved>>
      BY <1>5, <2>3
    <3>2. ~waited
      BY <1>1 DEF ReadinessInv, Waits
    <3>3. TypedCycle' /\ Waits' /\ Earned'
      BY <1>5, <3>1, <3>2 DEF ReadinessInv, TypedCycle, Waits, Earned, Stages
    <3>4. Bounded => Bounded'
      BY <1>1, <1>5, <3>1, <3>2 DEF Bounded, Stages
    <3> QED
      BY <1>1, <2>1, <3>3, <3>4, OthersKept DEF ReadinessInv
  <2> QED
    BY <2>2, <2>3
<1> QED
  BY <1>2, <1>3, <1>4, <1>5 DEF StageEnds

LEMMA RouteEndsKeeps ==
  ASSUME ReadinessInv, RouteEnds
  PROVE  ReadinessInv' /\ (Bounded => Bounded')
<1>1. /\ at = "route" /\ todo = {}
      /\ UNCHANGED <<health, fresh>>
      /\ UNCHANGED <<link, docker, hung, stalled, monitor, batch, work, left, restarter, beat>>
  BY DEF RouteEnds, pool, restarts, world
<1>2. TypedPool'
  BY <1>1 DEF ReadinessInv, TypedPool
<1>3. CASE RouteProved /\ EgressReady
  <2>1. at' = "publish" /\ UNCHANGED <<phase, todo, passed, failed, waited, proved>>
    BY <1>3 DEF RouteEnds
  <2>2. proved # {}
    BY <1>1, <1>3 DEF RouteProved, ReadinessInv, Earned
  <2>3. TypedCycle' /\ Waits' /\ Earned'
    BY <1>1, <2>1, <2>2 DEF ReadinessInv, TypedCycle, Waits, Earned, Stages
  <2>4. Bounded => Bounded'
    BY <1>1, <2>1 DEF Bounded, Stages
  <2> QED
    BY <1>1, <1>2, <2>3, <2>4, OthersKept DEF ReadinessInv
<1>4. CASE ~(RouteProved /\ EgressReady)
  BY <1>1, <1>2, <1>4, DegradeKeeps DEF RouteEnds
<1> QED
  BY <1>3, <1>4

LEMMA PublishKeeps ==
  ASSUME ReadinessInv, Publish
  PROVE  ReadinessInv' /\ (Bounded => Bounded')
<1>1. /\ at = "publish" /\ phase' = "ready" /\ at' = "sleep"
      /\ UNCHANGED <<todo, passed, failed, waited, proved, health, fresh>>
      /\ UNCHANGED <<link, docker, hung, stalled, monitor, batch, work, left, restarter, beat>>
  BY DEF Publish, pool, restarts, world
<1>2. TypedPool' /\ TypedCycle' /\ Waits' /\ Earned'
  BY <1>1 DEF ReadinessInv, TypedPool, TypedCycle, Waits, Earned, Stages
<1>3. Bounded => Bounded'
  BY <1>1 DEF Bounded, Stages
<1> QED
  BY <1>1, <1>2, <1>3, OthersKept DEF ReadinessInv

LEMMA ReconcileKeeps ==
  ASSUME ReadinessInv, Reconcile
  PROVE  ReadinessInv' /\ (Bounded => Bounded')
BY BeginCycleKeeps, VerifyKeeps, ProbeTimesOutKeeps, StageEndsKeeps, RouteEndsKeeps,
   PublishKeeps DEF Reconcile

-----------------------------------------------------------------------------
(* The other workers and the world.                                        *)

\* Nothing of the cycle and its heartbeat changes.
LEMMA CycleKept ==
  ASSUME ReadinessInv,
         UNCHANGED <<phase, at, todo, passed, failed, waited, proved>>,
         beat'["reconcile"] = beat["reconcile"]
  PROVE  TypedCycle' /\ Waits' /\ Earned' /\ (Bounded => Bounded')
BY DEF ReadinessInv, TypedCycle, Waits, Earned, Bounded

LEMMA MonitorKeeps ==
  ASSUME ReadinessInv, MonitorWakes \/ MonitorApplies
  PROVE  ReadinessInv' /\ (Bounded => Bounded')
<1>1. /\ UNCHANGED <<phase, at, todo, passed, failed, waited, proved>>
      /\ UNCHANGED <<link, docker, hung, stalled, batch, work, left, restarter>>
  BY DEF MonitorWakes, MonitorApplies, cycle, restarts, world
<1>2. TypedPool'
  BY <1>1 DEF MonitorWakes, MonitorApplies, pool, ReadinessInv, TypedPool
<1>3. /\ beat' \in [Workers -> Nat]
      /\ \A v \in Workers \ {"identity"} : beat'[v] = beat[v]
      /\ beat'["identity"] = 0 \/ (beat'["identity"] = beat["identity"] /\ monitor # "due")
      /\ monitor' \in {"sleep", "probe"}
  BY BeatsOne DEF MonitorWakes, MonitorApplies, ReadinessInv, TypedRestarts, Workers
<1>4. /\ beat'["reconcile"] = beat["reconcile"] /\ beat'["restart"] = beat["restart"]
      /\ beat'["health"] = beat["health"]
      /\ beat'["dashboard-heartbeat"] = beat["dashboard-heartbeat"]
  BY <1>3 DEF Workers
<1>5. Working' = Working /\ (Room' <=> Room)
  BY <1>1 DEF Working, Room
<1>6. TypedRestarts'
  BY <1>1, <1>3 DEF ReadinessInv, TypedRestarts
<1>7. Prompt'
  BY <1>1, <1>3, <1>4 DEF ReadinessInv, Prompt
<1>8. Busy' /\ Idle' /\ Undelayed' /\ InTime'
  BY <1>1, <1>4, <1>5 DEF ReadinessInv, Busy, Idle, Undelayed, InTime
<1> QED
  BY <1>1, <1>2, <1>4, <1>6, <1>7, <1>8, CycleKept DEF ReadinessInv

\* A heartbeat of the restart worker, or none: what the other workers are held
\* to does not depend on it.
LEMMA RestarterApart ==
  ASSUME ReadinessInv,
         UNCHANGED <<phase, at, todo, passed, failed, waited, proved>>,
         UNCHANGED <<link, docker, hung, stalled, monitor>>,
         UNCHANGED beat \/ Beats("restart")
  PROVE  /\ TypedCycle' /\ Waits' /\ Earned' /\ (Bounded => Bounded')
         /\ Prompt' /\ Undelayed'
         /\ beat' \in [Workers -> Nat]
<1>1. /\ beat' \in [Workers -> Nat]
      /\ \A v \in Workers \ {"restart"} : beat'[v] = beat[v]
  BY BeatsOne DEF ReadinessInv, TypedRestarts, Workers
<1>2. /\ beat'["reconcile"] = beat["reconcile"] /\ beat'["identity"] = beat["identity"]
      /\ beat'["health"] = beat["health"]
      /\ beat'["dashboard-heartbeat"] = beat["dashboard-heartbeat"]
  BY <1>1 DEF Workers
<1> QED
  BY <1>1, <1>2, CycleKept DEF ReadinessInv, Prompt, Undelayed

\* With a heartbeat nobody has waited longer than it.
LEMMA FreshBeat ==
  ASSUME TypedRestarts', beat'["restart"] = 0
  PROVE  InTime'
<1>1. \A n \in Node : left'[n] \in 0 .. Tries
  BY DEF TypedRestarts
<1>2. \A n \in Node : 0 <= Tries - left'[n]
  BY <1>1, ReadinessAssumption
<1> QED
  BY <1>2 DEF InTime

LEMMA CompletesInOrder ==
  ASSUME ReadinessInv, NEW n \in Node, NEW B \in SUBSET Node, Completes(B, n),
         UNCHANGED monitor
  PROVE  /\ TypedRestarts' /\ Busy' /\ Idle' /\ InTime'
         /\ Beats("restart")
<1>1. /\ batch' = B /\ work' = [work EXCEPT ![n] = "none"]
      /\ left' = [left EXCEPT ![n] = 0] /\ Beats("restart")
      /\ restarter' = IF B = {} /\ Working \ {n} = {} THEN "rest" ELSE "busy"
  BY DEF Completes
<1>2. beat' \in [Workers -> Nat] /\ beat'["restart"] = 0
  BY <1>1, BeatsOne DEF ReadinessInv, Workers
<1>3. Working' = Working \ {n}
  BY <1>1 DEF Working, ReadinessInv, TypedRestarts
<1>4. left' \in [Node -> 0 .. Tries]
  BY <1>1, ReadinessAssumption DEF ReadinessInv, TypedRestarts
<1>5. TypedRestarts'
  BY <1>1, <1>2, <1>4 DEF ReadinessInv, TypedRestarts
<1>6. Busy' /\ Idle'
  BY <1>1, <1>3 DEF Busy, Idle
<1> QED
  BY <1>1, <1>2, <1>5, <1>6, FreshBeat

LEMMA RestarterWakesKeeps ==
  ASSUME ReadinessInv, RestarterWakes
  PROVE  ReadinessInv' /\ (Bounded => Bounded')
<1>1. /\ restarter = "due" /\ Beats("restart")
      /\ UNCHANGED <<work, left, health, fresh, monitor>>
      /\ UNCHANGED <<phase, at, todo, passed, failed, waited, proved>>
      /\ UNCHANGED <<link, docker, hung, stalled>>
  BY DEF RestarterWakes, pool, cycle, world
<1>2. /\ batch' \subseteq Node
      /\ restarter' = IF batch' = {} THEN "rest" ELSE "busy"
  BY ReadinessAssumption DEF RestarterWakes
<1>3. beat' \in [Workers -> Nat] /\ beat'["restart"] = 0
  BY <1>1, BeatsOne DEF ReadinessInv, Workers
<1>4. TypedPool'
  BY <1>1 DEF ReadinessInv, TypedPool
<1>5. TypedRestarts'
  BY <1>1, <1>2, <1>3 DEF ReadinessInv, TypedRestarts
<1>6. Working' = {}
  BY <1>1 DEF ReadinessInv, Idle, Working
<1>7. Busy' /\ Idle'
  BY <1>2, <1>6 DEF Busy, Idle
<1>8. InTime'
  BY <1>3, <1>5, FreshBeat
<1> QED
  BY <1>1, <1>4, <1>5, <1>7, <1>8, RestarterApart DEF ReadinessInv

LEMMA BeginRecoveryKeeps ==
  ASSUME ReadinessInv, NEW n \in Node, BeginRecovery(n)
  PROVE  ReadinessInv' /\ (Bounded => Bounded')
<1>1. /\ UNCHANGED <<health, monitor>>
      /\ UNCHANGED <<phase, at, todo, passed, failed, waited, proved>>
      /\ UNCHANGED <<link, docker, hung, stalled>>
      /\ n \in batch /\ Room
  BY DEF BeginRecovery, cycle, world
<1>2. CASE /\ batch' = batch \ {n} /\ work' = [work EXCEPT ![n] = "docker"]
           /\ fresh' = [fresh EXCEPT ![n] = FALSE]
           /\ UNCHANGED <<left, restarter, beat>>
  <2>1. TypedPool' /\ TypedRestarts'
    BY <1>1, <1>2 DEF ReadinessInv, TypedPool, TypedRestarts
  <2>2. work'[n] = "docker" /\ n \in Working'
    BY <1>2 DEF ReadinessInv, TypedRestarts, Working
  <2>3. restarter = "busy"
    BY <1>1 DEF ReadinessInv, Idle, TypedRestarts
  <2>4. Busy' /\ Idle'
    BY <1>2, <2>2, <2>3 DEF Busy, Idle
  <2>5. InTime'
    <3>1. CASE hung \/ stalled
      BY <1>1, <3>1 DEF InTime
    <3>2. CASE ~ (hung \/ stalled)
      <4>1. beat["restart"] = 0
        BY <1>1, <3>2 DEF ReadinessInv, InTime
      <4> QED
        BY <1>2, <2>1, <4>1, FreshBeat
    <3> QED
      BY <3>1, <3>2
  <2> QED
    BY <1>1, <1>2, <2>1, <2>4, <2>5, RestarterApart DEF ReadinessInv
<1>3. CASE Completes(batch \ {n}, n) /\ UNCHANGED fresh
  <2>1. batch \ {n} \in SUBSET Node
    BY DEF ReadinessInv, TypedRestarts
  <2>2. TypedPool'
    BY <1>1, <1>3 DEF ReadinessInv, TypedPool
  <2> QED
    BY <1>1, <1>3, <2>1, <2>2, CompletesInOrder, RestarterApart DEF ReadinessInv
<1> QED
  BY <1>2, <1>3 DEF BeginRecovery

LEMMA RecoveryFailsKeeps ==
  ASSUME ReadinessInv, NEW n \in Node, RecoveryFails(n),
         UNCHANGED <<phase, at, todo, passed, failed, waited, proved>>,
         UNCHANGED <<link, docker, hung, stalled, monitor>>
  PROVE  ReadinessInv' /\ (Bounded => Bounded')
<1>1. /\ Completes(batch, n) /\ UNCHANGED fresh
      /\ health' = [health EXCEPT ![n] = "failing"]
  BY DEF RecoveryFails
<1>2. batch \in SUBSET Node
  BY DEF ReadinessInv, TypedRestarts
<1>3. TypedPool'
  BY <1>1 DEF ReadinessInv, TypedPool
<1> QED
  BY <1>1, <1>2, <1>3, CompletesInOrder, RestarterApart DEF ReadinessInv

LEMMA DockerAnswersKeeps ==
  ASSUME ReadinessInv, NEW n \in Node, DockerAnswers(n)
  PROVE  ReadinessInv' /\ (Bounded => Bounded')
<1>1. /\ UNCHANGED <<phase, at, todo, passed, failed, waited, proved>>
      /\ UNCHANGED <<link, docker, hung, stalled, monitor>>
      /\ work[n] = "docker"
  BY DEF DockerAnswers, cycle, world
<1>2. CASE RecoveryFails(n)
  BY <1>1, <1>2, RecoveryFailsKeeps
<1>3. CASE /\ work' = [work EXCEPT ![n] = "verify"]
           /\ left' = [left EXCEPT ![n] = Tries]
           /\ UNCHANGED <<batch, restarter, beat, pool>>
  <2>1. TypedPool'
    BY <1>1, <1>3 DEF ReadinessInv, TypedPool, pool
  <2>2. TypedRestarts'
    <3>1. left' \in [Node -> 0 .. Tries]
      BY <1>3, ReadinessAssumption DEF ReadinessInv, TypedRestarts
    <3> QED
      BY <1>1, <1>3, <3>1 DEF ReadinessInv, TypedRestarts
  <2>3. Working' = Working /\ (Room' <=> Room)
    <3>1. Working' = Working
      BY <1>1, <1>3 DEF ReadinessInv, TypedRestarts, Working
    <3> QED
      BY <3>1 DEF Room
  <2>4. Busy' /\ Idle'
    BY <1>3, <2>3 DEF ReadinessInv, Busy, Idle
  <2>5. InTime'
    <3>1. CASE hung \/ stalled
      BY <1>1, <3>1 DEF InTime
    <3>2. CASE ~ (hung \/ stalled)
      <4>1. beat["restart"] = 0
        BY <1>1, <3>2 DEF ReadinessInv, InTime
      <4> QED
        BY <1>3, <2>2, <4>1, FreshBeat
    <3> QED
      BY <3>1, <3>2
  <2> QED
    BY <1>1, <1>3, <2>1, <2>2, <2>4, <2>5, RestarterApart DEF ReadinessInv
<1> QED
  BY <1>2, <1>3 DEF DockerAnswers

LEMMA VerificationEndsKeeps ==
  ASSUME ReadinessInv, NEW n \in Node, VerificationEnds(n)
  PROVE  ReadinessInv' /\ (Bounded => Bounded')
<1>1. /\ UNCHANGED <<phase, at, todo, passed, failed, waited, proved>>
      /\ UNCHANGED <<link, docker, hung, stalled, monitor>>
  BY DEF VerificationEnds, cycle, world
<1>2. CASE RecoveryFails(n)
  BY <1>1, <1>2, RecoveryFailsKeeps
<1>3. CASE /\ Completes(batch, n)
           /\ health' = [health EXCEPT ![n] = "healthy"]
           /\ fresh' = [fresh EXCEPT ![n] = TRUE]
  <2>1. batch \in SUBSET Node
    BY DEF ReadinessInv, TypedRestarts
  <2>2. TypedPool'
    BY <1>1, <1>3 DEF ReadinessInv, TypedPool
  <2> QED
    BY <1>1, <1>3, <2>1, <2>2, CompletesInOrder, RestarterApart DEF ReadinessInv
<1> QED
  BY <1>2, <1>3 DEF VerificationEnds

LEMMA RestartWorkerKeeps ==
  ASSUME ReadinessInv, RestartWorker
  PROVE  ReadinessInv' /\ (Bounded => Bounded')
BY RestarterWakesKeeps, BeginRecoveryKeeps, DockerAnswersKeeps, VerificationEndsKeeps
   DEF RestartWorker

\* The pool changes, and no worker moves.
LEMMA RecoversKeeps ==
  ASSUME ReadinessInv, NEW n \in Node, Recovers(n) \/ ServesAgain(n)
  PROVE  ReadinessInv' /\ (Bounded => Bounded')
<1>1. /\ UNCHANGED <<phase, at, todo, passed, failed, waited, proved>>
      /\ UNCHANGED <<link, docker, hung, stalled, monitor, batch, work, left, restarter, beat>>
      /\ health' = [health EXCEPT ![n] = "healthy"] /\ UNCHANGED fresh
  BY DEF Recovers, ServesAgain, cycle, restarts, world
<1>2. TypedPool'
  BY <1>1 DEF ReadinessInv, TypedPool
<1> QED
  BY <1>1, <1>2, CycleKept, OthersKept DEF ReadinessInv

\* What goes wrong in the world is remembered if it takes time.
LEMMA FaultKeeps ==
  ASSUME ReadinessInv, NEW n \in Node, Fault(n)
  PROVE  ReadinessInv' /\ (Bounded => Bounded')
<1>1. /\ UNCHANGED <<phase, at, todo, passed, failed, waited, proved>>
      /\ UNCHANGED <<monitor, batch, work, left, restarter, beat>>
  BY DEF Fault, cycle, restarts
<1>2. CASE UNCHANGED <<link, docker, hung, stalled>>
  <2>1. /\ fresh' \in [Node -> BOOLEAN]
        /\ health' \in [Node -> {"unknown", "healthy", "failing"}]
    BY DEF Fault, pool, ReadinessInv, TypedPool
  <2>2. TypedPool'
    BY <1>2, <2>1 DEF ReadinessInv, TypedPool
  <2> QED
    BY <1>1, <1>2, <2>2, CycleKept, OthersKept DEF ReadinessInv
<1>3. ASSUME NEW l \in Link, link' = [link EXCEPT ![n] = l], hung' = (hung \/ l = "hung"),
             UNCHANGED <<docker, stalled, pool>>
      PROVE  TypedPool' /\ Prompt' /\ InTime'
  <2>1. TypedPool'
    BY <1>3 DEF ReadinessInv, TypedPool, pool
  <2>2. hung => hung'
    BY <1>3
  <2>3. ~ hung' => \A m \in Node : link[m] # "hung" => link'[m] # "hung"
    BY <1>3 DEF ReadinessInv, TypedPool
  <2>4. Prompt'
    BY <1>1, <1>3, <2>2, <2>3 DEF ReadinessInv, Prompt
  <2>5. Working' = Working /\ (Room' <=> Room)
    BY <1>1 DEF Working, Room
  <2>6. InTime'
    BY <1>1, <1>3, <2>2, <2>5 DEF ReadinessInv, InTime
  <2> QED
    BY <2>1, <2>4, <2>6
<1>4. ASSUME docker' \in {"prompt", "stalled"} \ {docker}, stalled' = TRUE,
             UNCHANGED <<link, hung, pool>>
      PROVE  TypedPool' /\ Prompt' /\ InTime'
  BY <1>4 DEF ReadinessInv, TypedPool, pool, Prompt, InTime
<1>5. TypedRestarts' /\ Busy' /\ Idle' /\ Undelayed'
  <2>1. Working' = Working
    BY <1>1 DEF Working
  <2> QED
    BY <1>1, <2>1 DEF ReadinessInv, TypedRestarts, Busy, Idle, Undelayed
<1>6. TypedCycle' /\ Waits' /\ Earned' /\ (Bounded => Bounded')
  BY <1>1, CycleKept
<1>7. \/ UNCHANGED <<link, docker, hung, stalled>>
      \/ \E l \in Link : /\ link' = [link EXCEPT ![n] = l] /\ hung' = (hung \/ l = "hung")
                         /\ UNCHANGED <<docker, stalled, pool>>
      \/ /\ docker' \in {"prompt", "stalled"} \ {docker} /\ stalled' = TRUE
         /\ UNCHANGED <<link, hung, pool>>
  BY DEF Fault
<1> QED
  BY <1>2, <1>3, <1>4, <1>5, <1>6, <1>7 DEF ReadinessInv

-----------------------------------------------------------------------------
(* Time: asleep the reconciler gives its heartbeat, and elsewhere time     *)
(* passes only while an exit that hangs, a daemon that is stalled or a     *)
(* verification that is refused is waited for.                             *)

LEMMA TickAges ==
  ASSUME ReadinessInv, Tick
  PROVE  /\ beat' \in [Workers -> Nat]
         /\ beat'["reconcile"] = IF at = "sleep" /\ beat["reconcile"] <= HeartbeatBudget
                                 THEN 0 ELSE Older(beat["reconcile"])
         /\ beat'["identity"] = Older(beat["identity"])
         /\ beat'["restart"] = Older(beat["restart"])
         /\ beat'["health"] = 0 /\ beat'["dashboard-heartbeat"] = 0
<1> DEFINE Age(w) == CASE w \in {"identity", "restart"} -> Older(beat[w])
                       [] w = "reconcile" ->
                            IF at = "sleep" /\ beat[w] <= HeartbeatBudget
                            THEN 0 ELSE Older(beat[w])
                       [] OTHER -> 0
<1>1. beat' = [w \in Workers |-> Age(w)]
  BY DEF Tick, Heartbeat
<1>2. \A w \in Workers : beat[w] \in Nat /\ Older(beat[w]) \in Nat
  BY DEF ReadinessInv, TypedRestarts, Older
<1>3. \A w \in Workers : Age(w) \in Nat
  BY <1>2
<1>4. /\ Age("reconcile") = IF at = "sleep" /\ beat["reconcile"] <= HeartbeatBudget
                            THEN 0 ELSE Older(beat["reconcile"])
      /\ Age("identity") = Older(beat["identity"])
      /\ Age("restart") = Older(beat["restart"])
      /\ Age("health") = 0 /\ Age("dashboard-heartbeat") = 0
  OBVIOUS
<1> HIDE DEF Age
<1> QED
  BY <1>1, <1>3, <1>4 DEF Workers

LEMMA TickKeeps ==
  ASSUME ReadinessInv, Tick
  PROVE  /\ ReadinessInv'
         /\ Bounded /\ Bootstrap <= HeartbeatBudget => Bounded'
<1>1. /\ at = "sleep" \/ WaitsForProbe
      /\ monitor \in {"sleep", "probe"} /\ restarter # "due"
      /\ batch # {} => ~ Room
      /\ \A n \in Working : WaitsForRecovery(n)
      /\ waited' = (at # "sleep")
      /\ left' = [n \in Node |-> IF left[n] > 0 THEN left[n] - 1 ELSE 0]
      /\ monitor = "sleep" => monitor' = "due"
      /\ monitor = "probe" => monitor' = "probe" /\ \E n \in Node : link[n] = "hung"
      /\ restarter' = IF restarter = "rest" THEN "due" ELSE restarter
      /\ UNCHANGED <<health, fresh, phase, at, todo, passed, failed, proved, batch, work>>
      /\ UNCHANGED <<link, docker, hung, stalled>>
  BY DEF Tick, pool, world
<1>2. HeartbeatBudget \in Nat /\ HeartbeatBudget >= 1 /\ \A w \in Workers : beat[w] \in Nat
  BY ReadinessAssumption DEF ReadinessInv, TypedRestarts
<1>3. TypedPool' /\ TypedCycle'
  BY <1>1 DEF ReadinessInv, TypedPool, TypedCycle
<1>4. left' \in [Node -> 0 .. Tries]
  BY <1>1, ReadinessAssumption DEF ReadinessInv, TypedRestarts
<1>5. TypedRestarts'
  <2>1. monitor' \in {"sleep", "due", "probe"} /\ restarter' \in {"rest", "due", "busy"}
    BY <1>1 DEF ReadinessInv, TypedRestarts
  <2> QED
    BY <1>1, <1>4, <2>1, TickAges DEF ReadinessInv, TypedRestarts
<1>6. Waits' /\ Earned'
  BY <1>1 DEF WaitsForProbe, Waits, ReadinessInv, Earned
<1>7. Working' = Working /\ (Room' <=> Room)
  BY <1>1 DEF Working, Room
<1>8. Busy' /\ Idle' /\ Undelayed'
  BY <1>1, <1>7, TickAges DEF ReadinessInv, TypedRestarts, Busy, Idle, Undelayed
<1>9. Prompt'
  <2> SUFFICES ASSUME ~ hung, ~ stalled
               PROVE  Prompt'
    BY <1>1 DEF Prompt
  <2>1. /\ \A n \in Node : link[n] # "hung"
        /\ docker = "prompt"
        /\ beat["reconcile"] = 0 /\ monitor = "sleep" /\ beat["identity"] = 0
    BY <1>1 DEF ReadinessInv, Prompt
  <2>2. at = "sleep"
    <3>1. SUFFICES ASSUME WaitsForProbe
                   PROVE  FALSE
      BY <1>1
    <3>2. Min(todo) \in Node /\ (docker = "stalled" \/ link[Min(todo)] = "hung")
      BY <3>1, NextSeen DEF WaitsForProbe, Hangs, ReadinessInv
    <3> QED
      BY <2>1, <3>2
  <2>3. beat'["reconcile"] = 0 /\ beat'["identity"] = 1
    BY <1>2, <2>1, <2>2, TickAges DEF Older
  <2> QED
    BY <1>1, <2>1, <2>3 DEF Prompt
<1>10. InTime'
  <2> SUFFICES ASSUME ~ hung, ~ stalled
               PROVE  InTime'
    BY <1>1 DEF InTime
  <2>1. /\ \A n \in Node : link[n] # "hung"
        /\ docker = "prompt"
    BY DEF ReadinessInv, Prompt
  <2>2. \A n \in Working : work[n] = "verify" /\ left[n] > 0
    BY <1>1, <2>1 DEF WaitsForRecovery, Working
  <2>3. beat["restart"] \in Nat /\ beat'["restart"] <= beat["restart"] + 1
    BY <1>2, TickAges DEF Older, Workers
  <2>4. restarter' # "rest"
    BY <1>1
  <2>5. restarter' = "due" => beat'["restart"] <= 1
    <3> SUFFICES ASSUME restarter' = "due"
                 PROVE  beat'["restart"] <= 1
      OBVIOUS
    <3>1. beat["restart"] = 0
      BY <1>1 DEF ReadinessInv, InTime
    <3>2. beat'["restart"] \in Nat
      BY TickAges DEF Workers
    <3> QED
      BY <2>3, <3>1, <3>2
  <2>6. ASSUME NEW n \in Node
        PROVE  /\ work'[n] # "docker"
               /\ work'[n] = "verify" => beat'["restart"] <= Tries - left'[n]
    <3>1. work'[n] = work[n] /\ (work[n] # "none" => n \in Working)
      BY <1>1 DEF Working
    <3>2. work'[n] # "docker"
      BY <2>2, <3>1
    <3>3. ASSUME work[n] = "verify"
          PROVE  beat'["restart"] <= Tries - left'[n]
      <4>1. left[n] > 0 /\ left[n] \in Nat /\ left'[n] = left[n] - 1
        BY <1>1, <2>2, <3>1, <3>3 DEF ReadinessInv, TypedRestarts
      <4>2. beat["restart"] <= Tries - left[n]
        BY <3>3 DEF ReadinessInv, InTime
      <4>3. beat'["restart"] \in Nat
        BY TickAges DEF Workers
      <4> QED
        BY <2>3, <4>1, <4>2, <4>3, ReadinessAssumption
    <3> QED
      BY <3>1, <3>2, <3>3
  <2> QED
    BY <1>1, <1>7, <2>4, <2>5, <2>6 DEF InTime
<1>11. Bounded /\ Bootstrap <= HeartbeatBudget => Bounded'
  <2> SUFFICES ASSUME Bounded, Bootstrap <= HeartbeatBudget
               PROVE  Bounded'
    OBVIOUS
  <2>1. Bootstrap \in Nat \ {0} /\ beat["reconcile"] \in Nat
    BY <1>2, ReadinessAssumption DEF Workers
  <2>2. CASE at = "sleep"
    <3>1. beat["reconcile"] <= HeartbeatBudget
      BY <1>2, <2>1 DEF Bounded
    <3>2. beat'["reconcile"] = 0
      BY <2>2, <3>1, TickAges
    <3> QED
      BY <2>1, <3>2 DEF Bounded
  <2>3. CASE WaitsForProbe
    <3>1. at \in Stages /\ at # "sleep" /\ beat["reconcile"] < Bootstrap
      BY <2>3 DEF WaitsForProbe, Bounded, Stages
    <3>2. beat'["reconcile"] = beat["reconcile"] + 1 /\ at' = at
      BY <1>1, <1>2, <2>1, <3>1, TickAges DEF Older
    <3>3. waited'
      BY <1>1, <3>1
    <3>4. beat'["reconcile"] <= Bootstrap
      BY <2>1, <3>1, <3>2
    <3> QED
      BY <3>3, <3>4 DEF Bounded
  <2> QED
    BY <1>1, <2>2, <2>3
<1> QED
  BY <1>3, <1>5, <1>6, <1>8, <1>9, <1>10, <1>11 DEF ReadinessInv

-----------------------------------------------------------------------------
LEMMA ReadinessStarts == ReadinessInit => ReadinessInv /\ Bounded
<1> SUFFICES ASSUME ReadinessInit
             PROVE  ReadinessInv /\ Bounded
  OBVIOUS
<1>1. TypedPool
  BY DEF ReadinessInit, TypedPool
<1>2. TypedCycle /\ ~waited
  BY DEF ReadinessInit, TypedCycle, Stages
<1>3. TypedRestarts
  <2>1. left \in [Node -> 0 .. Tries]
    BY ReadinessAssumption DEF ReadinessInit
  <2> QED
    BY <2>1 DEF ReadinessInit, TypedRestarts
<1>4. Waits /\ Earned
  BY <1>2 DEF ReadinessInit, Waits, Earned
<1>5. \A w \in Workers : beat[w] = 0
  BY DEF ReadinessInit
<1>6. Working = {} /\ batch = {} /\ restarter = "rest" /\ \A n \in Node : work[n] = "none"
  BY DEF ReadinessInit, Working
<1>7. Busy /\ Idle /\ InTime /\ Undelayed
  BY <1>5, <1>6 DEF Busy, Idle, InTime, Undelayed, Workers
<1>8. Prompt
  <2>1. hung <=> \E n \in Node : link[n] = "hung"
    BY DEF ReadinessInit
  <2>2. stalled <=> docker = "stalled"
    BY DEF ReadinessInit
  <2>3. docker \in {"prompt", "stalled"}
    BY DEF ReadinessInit
  <2> QED
    BY <1>5, <2>1, <2>2, <2>3 DEF Prompt, Workers
<1>9. Bounded
  BY <1>5, ReadinessAssumption DEF Bounded, Workers
<1> QED
  BY <1>1, <1>2, <1>3, <1>4, <1>7, <1>8, <1>9 DEF ReadinessInv

LEMMA ReadinessStep ==
  ReadinessInv /\ [ReadinessNext]_rvars =>
    ReadinessInv' /\ (Bounded /\ Bootstrap <= HeartbeatBudget => Bounded')
<1> SUFFICES ASSUME ReadinessInv, [ReadinessNext]_rvars
             PROVE  ReadinessInv' /\ (Bounded /\ Bootstrap <= HeartbeatBudget => Bounded')
  OBVIOUS
<1>1. CASE UNCHANGED rvars
  <2>1. /\ UNCHANGED <<link, docker, hung, stalled, monitor, batch, work, left, restarter>>
        /\ UNCHANGED beat
        /\ UNCHANGED <<phase, at, todo, passed, failed, waited, proved, health, fresh>>
    BY <1>1 DEF rvars
  <2>2. TypedPool'
    BY <2>1 DEF ReadinessInv, TypedPool
  <2> QED
    BY <2>1, <2>2, CycleKept, OthersKept DEF ReadinessInv
<1>2. CASE ReadinessNext
  BY <1>2, ReconcileKeeps, MonitorKeeps, RestartWorkerKeeps, RecoversKeeps, FaultKeeps,
     TickKeeps DEF ReadinessNext
<1> QED
  BY <1>1, <1>2

\* Where a cycle of the reconciler and the recoveries of the restart worker are, how
\* old the heartbeats are there and what has been proved.
THEOREM ReadinessInvariant == ReadinessSpec => []ReadinessInv
<1> QED
  BY ReadinessStarts, ReadinessStep, PTL DEF ReadinessSpec

\* No worker is late unless something hung or stalled.
LEMMA WorkersInTime ==
  ASSUME ReadinessInv, ~ hung, ~ stalled
  PROVE  WorkersReady
<1>1. /\ beat \in [Workers -> Nat]
      /\ HeartbeatBudget \in Nat /\ HeartbeatBudget >= 1
      /\ Tries \in Nat /\ Tries <= HeartbeatBudget
  BY ReadinessAssumption DEF ReadinessInv, TypedRestarts
<1>2. beat["reconcile"] <= HeartbeatBudget /\ beat["identity"] <= HeartbeatBudget
  BY <1>1 DEF ReadinessInv, Prompt, Workers
<1>3. beat["restart"] <= HeartbeatBudget
  <2>1. CASE restarter # "busy"
    BY <1>1, <2>1 DEF ReadinessInv, InTime, TypedRestarts, Workers
  <2>2. CASE restarter = "busy" /\ Working = {}
    BY <1>1, <2>2, RoomAtFirst DEF ReadinessInv, Busy, InTime
  <2>3. ASSUME NEW n \in Working
        PROVE  beat["restart"] <= HeartbeatBudget
    <3>1. n \in Node /\ work[n] \in {"docker", "verify"} /\ left[n] \in 0 .. Tries
      BY DEF ReadinessInv, TypedRestarts, Working
    <3>2. beat["restart"] <= Tries - left[n] \/ beat["restart"] = 0
      BY <3>1 DEF ReadinessInv, InTime
    <3>3. beat["restart"] \in Nat
      BY <1>1 DEF Workers
    <3> QED
      BY <1>1, <3>1, <3>2, <3>3
  <2> QED
    BY <2>1, <2>2, <2>3 DEF ReadinessInv, TypedRestarts
<1>4. beat["health"] <= HeartbeatBudget /\ beat["dashboard-heartbeat"] <= HeartbeatBudget
  BY <1>1 DEF ReadinessInv, Undelayed
<1> QED
  BY <1>2, <1>3, <1>4 DEF WorkersReady, Workers

\* Whatever exits refuse, fail or hang, and in whatever order: ready is written
\* only in a cycle that proved a route, and gone when the next one begins; and the
\* gateway calls one of its five workers late only if an exit has hung or Docker
\* has stalled.
THEOREM ReadinessIsTruthful == ReadinessSpec => []ReadinessTruthful
<1>1. ReadinessInv => ReadinessTruthful
  <2> SUFFICES ASSUME ReadinessInv
               PROVE  ReadyIsEarned /\ UnreadyForAReason
    BY DEF ReadinessTruthful
  <2>1. ReadyIsEarned
    BY DEF ReadinessInv, Earned, ReadyIsEarned
  <2> QED
    BY <2>1, WorkersInTime DEF UnreadyForAReason
<1> QED
  BY <1>1, ReadinessInvariant, PTL

\* With a budget for the heartbeat that covers a cycle, exits that hang and a Docker
\* that stalls never make the reconciler late; it is the identity monitor and the
\* restart worker that they do.
THEOREM ReconcilerIsInTime ==
  Bootstrap <= HeartbeatBudget =>
    (ReadinessSpec => [](beat["reconcile"] <= HeartbeatBudget))
<1> SUFFICES ASSUME Bootstrap <= HeartbeatBudget
             PROVE  ReadinessSpec => [](beat["reconcile"] <= HeartbeatBudget)
  OBVIOUS
<1>1. ReadinessInit => ReadinessInv /\ Bounded
  BY ReadinessStarts
<1>2. ReadinessInv /\ Bounded /\ [ReadinessNext]_rvars => (ReadinessInv /\ Bounded)'
  BY ReadinessStep
<1>3. ReadinessInv /\ Bounded => beat["reconcile"] <= HeartbeatBudget
  BY ReadinessAssumption DEF ReadinessInv, TypedRestarts, Bounded, Workers
<1> QED
  BY <1>1, <1>2, <1>3, PTL DEF ReadinessSpec

=============================================================================
