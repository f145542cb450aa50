------------------------------ MODULE Containers ------------------------------
(***************************************************************************)
(* The containers of the local egress nodes, and everyone who gives Docker *)
(* commands about them: the reconciler and the restart worker of the       *)
(* server, its management API, and the commands server start, server stop, *)
(* proxy restart and proxy purge, which run in processes of their own and  *)
(* know nothing of the server's pool (docker/, reconcile/mod.rs,           *)
(* management/service.rs, dashboard/control/network.rs, app/proxy.rs,      *)
(* app/server.rs).                                                         *)
(*                                                                         *)
(* A Docker command is atomic; between two of them anyone else may give    *)
(* one.  A job goes through its nodes, and what it does next follows from  *)
(* what its last command said.  A volume holds the registration of a node  *)
(* and so its exit identity; volumes are numbered as they are made.        *)
(*                                                                         *)
(* The egress mode is "proxy": in "hybrid" the commands start and stop     *)
(* leave the containers alone.  Leases and the reservation of a node are   *)
(* in EgressPool.  The bootstrap sets up its nodes concurrently: here one  *)
(* after the other, which for each of them is the same.                    *)
(***************************************************************************)
EXTENDS Naturals, Sequences, SequencesExt

CONSTANTS
  Managed, Protected, \* ports: managed primaries, protected standbys
  Job,                \* slots for jobs other than the reconciler's cycle
  MaxJobs,            \* bound on the jobs ever begun
  MaxFaults           \* bound on commands that fail or time out

Port == Managed \cup Protected

VARIABLES
  serving, \* the server, and with it its workers, runs
  box,     \* the container of a port
  vol,     \* the volume with its registration, 0 if there is none
  made,    \* volumes made so far
  job,     \* what each slot is doing
  begun, faults

cvars == <<serving, box, vol, made, job, begun, faults>>

Reconciler == "reconciler"
Slot == Job \cup {Reconciler}

\* Managed or protected is a matter of the port's number.
ASSUME ContainersAssumption ==
  /\ IsFiniteSet(Port)
  /\ Managed \cap Protected = {}
  /\ Reconciler \notin Job

Idle == [op |-> "none", todo |-> <<>>, step |-> "none", since |-> 0]

Absent == [state |-> "absent", ours |-> FALSE]
Box(s, ours) == [state |-> s, ours |-> ours]

Boxes ==
  {Absent} \cup {Box(s, o) : s \in {"stopped", "running"}, o \in BOOLEAN}

-----------------------------------------------------------------------------
(* What Docker does with a command: said "ok", "missing" or "error".       *)

\* docker run makes the named volume if there is none, and refuses a name
\* that is taken.
Ran(p) ==
  IF box[p] = Absent
  THEN [said |-> "ok", box |-> Box("running", TRUE),
        vol |-> IF vol[p] = 0 THEN made + 1 ELSE vol[p]]
  ELSE [said |-> "error", box |-> box[p], vol |-> vol[p]]

Executed(command, p) ==
  LET nothing(said) == [said |-> said, box |-> box[p], vol |-> vol[p]]
      unlessAbsent(b) ==
        IF box[p] = Absent THEN nothing("missing")
        ELSE [nothing("ok") EXCEPT !.box = b]
  IN CASE command = "run" -> Ran(p)
       [] command \in {"start", "restart"} ->
            unlessAbsent([box[p] EXCEPT !.state = "running"])
       [] command = "stop" -> unlessAbsent([box[p] EXCEPT !.state = "stopped"])
       [] command = "rm" -> unlessAbsent(Absent)
       [] command = "rmvol" ->
            IF box[p].ours THEN nothing("error")
            ELSE [nothing("ok") EXCEPT !.vol = 0]

\* A command that times out or fails may have had its effect or not; a run
\* may also leave a container it could not start.
Failed(command, p) ==
  {[Executed(command, p) EXCEPT !.said = "error"],
   [said |-> "error", box |-> box[p], vol |-> vol[p]]}
  \cup (IF command = "run" /\ Ran(p).said = "ok"
        THEN {[Ran(p) EXCEPT !.said = "error", !.box = Box("stopped", TRUE)]}
        ELSE {})

-----------------------------------------------------------------------------
(* What each job does with its nodes, one after the other.                 *)

FirstStep(op) ==
  CASE op \in {"start", "reconcile"} -> "inspect"
    [] op = "verify" -> "probe"
    [] op \in {"recreate", "rotate", "renew", "discard"} -> "rm"
    [] op = "heal" -> "restart"
    [] op = "stop" -> "stop"

NodesOf(op) ==
  SetToSeq(IF op \in {"start", "verify", "reconcile"} THEN Port ELSE Managed)

Work(op, ports) ==
  [op |-> op, todo |-> ports, step |-> FirstStep(op),
   since |-> IF op = "rotate" THEN made ELSE 0]

\* Of the server: these end with it.
ServerOps == {"reconcile", "heal", "renew"}

\* Faulty: a protected container without its volume is migrated as well.
EnsureAll(p) ==
  IF box[p] = Absent THEN "check"
  ELSE IF ~ box[p].ours THEN "rm"
  ELSE IF box[p].state = "stopped" THEN "start"
  ELSE "next"

\* ensure_proxy: a protected container is created or started, never replaced;
\* a managed one without its volume is recreated.
Ensure(p) ==
  IF box[p] = Absent THEN "check"
  ELSE IF box[p].state = "running" /\ box[p].ours THEN "next"
  ELSE IF p \in Protected THEN IF box[p].state = "stopped" THEN "start" ELSE "next"
  ELSE IF box[p].state = "stopped" /\ box[p].ours THEN "start"
  ELSE "rm"

\* Faulty: a stopped container is left to the restart worker.
CreateOnly(p) == IF box[p] = Absent THEN "check" ELSE "next"

\* ensure_candidate of the reconciler looks at the state only.
EnsureCandidate(p) ==
  CASE box[p] = Absent -> "check"
    [] box[p].state = "stopped" -> "start"
    [] OTHER -> "next"

\* Faulty: rotate_managed ignores what became of the volume, as recreate does
\* for the container.
VolumeIgnored(said) == {"run"}

\* A rotation that could not remove the volume ends.
AfterVolume(said) == IF said = "error" THEN {"next"} ELSE {"run"}

\* What the next step may be after a command said what it said.  recreate
\* ignores a refused removal, but not one that could not be run; rotate goes
\* on only when container and volume are gone; a bulk stop and the bootstrap's
\* restart of a managed node give up on an error.
After(op, step, p, said) ==
  CASE step \in {"run", "start"} -> {"next"}
    [] step = "rm" /\ op \in {"start", "recreate", "heal"} ->
         IF said = "error" THEN {"run", "next"} ELSE {"run"}
    [] step = "rm" /\ op = "rotate" ->
         IF said = "error" THEN {"next"} ELSE {"rmvol"}
    [] step = "rm" /\ op = "renew" ->
         IF said = "error" THEN {"next"} ELSE {"check"}
    [] step = "rmvol" -> AfterVolume(said)
    [] step = "restart" /\ op = "heal" ->
         IF said = "ok" THEN {"next"} ELSE {"rm"}
    [] step = "restart" /\ op = "verify" ->
         IF said # "ok" /\ p \in Managed THEN {"abort"} ELSE {"next"}
    [] step \in {"stop", "rm"} /\ op \in {"stop", "discard"} ->
         IF said = "error" THEN {"abort"} ELSE {"next"}

-----------------------------------------------------------------------------
ContainersInit ==
  /\ serving \in BOOLEAN
  \* all as they were set up or left; what happens makes them differ
  /\ \E b \in Boxes : box = [p \in Port |-> b]
  /\ vol = [p \in Port |-> IF box[p].ours THEN 1 ELSE 0]
  /\ made = 1
  /\ job = [s \in Slot |-> Idle]
  /\ begun = 0
  /\ faults = 0

\* After a step a job goes on with the same node, the next one, or not at
\* all.  A start verifies what it set up, and ends with a server, whatever
\* came of the bootstrap.
Proceed(s, step) ==
  LET j == job[s]
      rest == CASE step = "next" -> Tail(j.todo)
                [] step = "abort" -> <<>>
                [] OTHER -> j.todo
      onward == IF step \in {"next", "abort"} THEN FirstStep(j.op) ELSE step
  IN /\ job' = [job EXCEPT ![s] =
                  IF rest # <<>> THEN [j EXCEPT !.todo = rest, !.step = onward]
                  ELSE IF j.op = "start" THEN Work("verify", NodesOf("verify"))
                  ELSE Idle]
     /\ serving' = (serving \/ (j.op = "verify" /\ rest = <<>>))

\* The job's next command, which may fail.
Give(s) ==
  /\ job[s].todo # <<>>
  /\ LET p == Head(job[s].todo)
         step == job[s].step
     IN /\ step \in {"run", "start", "restart", "stop", "rm", "rmvol"}
        /\ \E failed \in {0, 1} :
             /\ faults + failed <= MaxFaults
             /\ faults' = faults + failed
             /\ \E r \in IF failed = 0 THEN {Executed(step, p)} ELSE Failed(step, p) :
                  /\ box' = [box EXCEPT ![p] = r.box]
                  /\ vol' = [vol EXCEPT ![p] = r.vol]
                  /\ made' = IF r.vol > made THEN r.vol ELSE made
                  /\ \E next \in After(job[s].op, step, p, r.said) : Proceed(s, next)
  /\ UNCHANGED <<begun>>

\* inspect, before a decision; create_missing looks once more before it runs.
Look(s) ==
  /\ job[s].todo # <<>>
  /\ LET p == Head(job[s].todo)
     IN CASE job[s].step = "inspect" ->
               Proceed(s, IF s = Reconciler THEN EnsureCandidate(p) ELSE Ensure(p))
          [] job[s].step = "check" ->
               Proceed(s, IF box[p] = Absent THEN "run" ELSE "next")
          [] OTHER -> FALSE
  /\ UNCHANGED <<box, vol, made, begun, faults>>

\* verify_online: a container that does not run is offline, one that runs may be.
Probe(s) ==
  /\ job[s].todo # <<>>
  /\ job[s].step = "probe"
  /\ \/ /\ box[Head(job[s].todo)].state = "running"
        /\ Proceed(s, "next")
     \/ Proceed(s, "restart")
  /\ UNCHANGED <<box, vol, made, begun, faults>>

\* An inspect that fails, and a job that does not end: a reconcile cycle that
\* exceeds its time, a command that is interrupted.
GivesUp(s) ==
  /\ job[s].todo # <<>>
  /\ faults < MaxFaults
  /\ faults' = faults + 1
  /\ \/ job[s].step \in {"inspect", "check"} /\ Proceed(s, "next")
     \/ job' = [job EXCEPT ![s] = Idle] /\ UNCHANGED serving
  /\ UNCHANGED <<box, vol, made, begun>>

\* The reconciler's next cycle.
Cycle ==
  /\ serving
  /\ job[Reconciler] = Idle
  /\ job' = [job EXCEPT ![Reconciler] = Work("reconcile", NodesOf("reconcile"))]
  /\ UNCHANGED <<serving, box, vol, made, begun, faults>>

\* Someone begins something: an operator a command, an administrator through
\* the API, the restart worker the recovery of one node.
Undertake(s, op, ports) ==
  /\ job[s] = Idle
  /\ begun < MaxJobs
  /\ begun' = begun + 1
  /\ op \in ServerOps => serving
  /\ job' = [job EXCEPT ![s] = Work(op, ports)]
  /\ UNCHANGED <<serving, box, vol, made, faults>>

\* server stop ends the server, and what its workers were about to do, before
\* it turns to the containers.
StopServer(s, op) ==
  /\ job[s] = Idle
  /\ begun < MaxJobs
  /\ begun' = begun + 1
  /\ serving' = FALSE
  /\ job' = [t \in Slot |->
               IF t = s THEN Work(op, NodesOf(op))
               ELSE IF job[t].op \in ServerOps THEN Idle
               ELSE job[t]]
  /\ UNCHANGED <<box, vol, made, faults>>

Step(s) == Give(s) \/ Look(s) \/ Probe(s)

\* Slots are alike: the next job takes a free one.
Begins ==
  /\ \E s \in Job : job[s] = Idle
  /\ LET s == CHOOSE free \in Job : job[free] = Idle
     IN \/ \E op \in {"start", "recreate", "rotate", "renew"} : Undertake(s, op, NodesOf(op))
        \/ \E p \in Managed : Undertake(s, "heal", <<p>>)
        \/ \E op \in {"stop", "discard"} : StopServer(s, op)

ContainersNext ==
  \/ \E s \in Slot : Step(s) \/ GivesUp(s)
  \/ Cycle
  \/ Begins

ContainersSpec == ContainersInit /\ [][ContainersNext]_cvars

\* The reconciler's loop never ends while the server runs.  Nothing is asked of
\* the other jobs, which may be interrupted.
Reconciling == Cycle \/ Step(Reconciler)

ContainersFair == ContainersSpec /\ WF_cvars(Reconciling)

-----------------------------------------------------------------------------
ContainersTypeOK ==
  /\ box \in [Port -> Boxes]
  /\ \A p \in Port : vol[p] <= made
  /\ \A s \in Slot : job[s] = Idle \/ job[s].todo # <<>>

\* Whoever gives commands, and in whatever order they mix: the container of a
\* protected standby, once there, is never removed, and neither it nor anyone
\* loses the registration it holds.
ProtectedKept ==
  [][\A p \in Protected :
       box[p] # Absent =>
         /\ box'[p].state # "absent"
         /\ box'[p].ours = box[p].ours
         /\ vol[p] # 0 => vol'[p] = vol[p]]_cvars

\* A rotation that is reported done has given its node a registration made
\* after the rotation began, though others may have started, removed or
\* recreated the same container between its three commands.
RotationRenews ==
  [][\A s \in Job :
       /\ job[s].op = "rotate"
       /\ job[s].step = "run"
       /\ job'[s] # job[s]
       /\ box[Head(job[s].todo)] = Absent
       /\ box'[Head(job[s].todo)].state = "running"
       /\ faults' = faults
       => vol'[Head(job[s].todo)] > job[s].since]_cvars

\* While the server runs, every container that operators, failed commands or
\* interrupted jobs left missing or stopped comes to run again.
ContainersReturn ==
  <>[]serving => <>[](\A p \in Port : box[p].state = "running")

=============================================================================
