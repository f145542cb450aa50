---------------------------- MODULE MCEgressPool ----------------------------
(***************************************************************************)
(* EgressPool for TLC, with several nodes: the things that go wrong around *)
(* the pool are counted, and at most MaxFaults of them happen.             *)
(***************************************************************************)
EXTENDS EgressPool, FiniteSetsExt

CONSTANTS
  MaxFaults,  \* bound: failures, expiries, rate limits, operator actions
  MaxRequests \* bound on the leases of the fleet

VARIABLE faults

Faulty ==
  \/ \E n \in Node :
       \/ IdentityExpires(n)
       \/ RequestFails(n)
       \/ \E d \in Quotas : RateLimited(n, d)
       \/ ApplyHealthProbe(n, FALSE)
       \/ StageFails(n)
       \/ RouteStage(n, FALSE)
       \/ DockerEnds(n, FALSE)
       \/ VerifyFails(n)
       \/ BeginDrain(n)
       \/ RestartManually(n)
       \/ ManualFails(n)
  \/ \E n \in Node : ApplyIdentityResults([m \in {n} |-> NoIP])

Ordinary ==
  \/ Tick
  \/ Routing
  \/ \E n \in Node :
       \/ RequestSucceeds(n)
       \/ RateLimitCleared(n)
       \/ ApplyHealthProbe(n, TRUE)
       \/ RouteStage(n, TRUE)
       \/ CheckRestart(n)
       \/ RequeueBusy(n)
       \/ MarkRestarting(n)
       \/ DockerEnds(n, TRUE)
       \/ \E ip \in IP : AcceptIdentity(n, ip)
       \/ SettleFailure(n)
       \/ CancelDrain(n)
       \/ ManualEnds(n)
  \/ RecoverExpiredCooldowns
  \/ SnapshotTargets
  \/ \E results \in [Node -> IP] : ApplyIdentityResults(results)
  \/ SnapshotCandidates
  \/ DrainQueue

MCInit == Init /\ faults = 0

MCNext ==
  \/ Ordinary /\ UNCHANGED faults
  \/ faults < MaxFaults /\ Faulty /\ faults' = faults + 1

FewRequests == MapThenSumSet(LAMBDA n : leases[n], Node) <= MaxRequests

MCSpec == MCInit /\ [][MCNext]_<<vars, faults>>

=============================================================================
