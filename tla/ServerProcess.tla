---------------------------- MODULE ServerProcess ----------------------------
(***************************************************************************)
(* The processes of the machine, as far as the gateway is concerned:       *)
(* servers from their start to their exit, with the request and the        *)
(* background task they are busy with when they are told to end, and       *)
(* processes of other programs that were given the number of one that      *)
(* ended.                                                                  *)
(*                                                                         *)
(* A process is told apart from an earlier one of the same number by its   *)
(* start marker.  Only one process can listen on the gateway's port.       *)
(***************************************************************************)
EXTENDS Naturals, FiniteSets

CONSTANTS
  Pids,       \* process numbers
  Commands,   \* invocations of the command line
  Shell,      \* the parent of a server that runs in the foreground
  MaxStarts,  \* bound: processes started
  MaxFaults   \* bound: crashes

ASSUME ProcessAssumption ==
  /\ Shell \notin Commands
  /\ MaxStarts \in Nat /\ MaxFaults \in Nat

VARIABLES
  proc,      \* proc[p]: the process of that number
  started,   \* processes started, the marker of the latest
  faults,
  exited     \* ghost: what the last server to exit with success left behind

processVars == <<proc, started, faults, exited>>

NoProcess == [kind |-> "none"]
Process == [kind : {"server"}, mark : 1 .. MaxStarts,
            at : {"starting", "serving", "draining", "joining", "zombie"},
            by : Commands \cup {Shell}, term : BOOLEAN, ok : BOOLEAN,
            busy : BOOLEAN, task : BOOLEAN]
           \cup [kind : {"other"}, mark : 1 .. MaxStarts]

IsServer(p) == proc[p].kind = "server"
Server(p, at) == IsServer(p) /\ proc[p].at = at
Corpse(p) == Server(p, "zombie")
Alive(p) == proc[p] # NoProcess /\ ~Corpse(p)
Serving == {p \in Pids : Server(p, "serving")}

(* A number whose process ended can be given out again; the corpse of a
   child its parent did not collect keeps it. *)
Free == {p \in Pids : proc[p] = NoProcess}

Enter(p, process) ==
  /\ started < MaxStarts /\ started' = started + 1
  /\ p \in Free
  /\ proc' = [proc EXCEPT ![p] = process]

Launched(by) == [kind |-> "server", mark |-> started + 1, at |-> "starting",
                 by |-> by, term |-> FALSE, ok |-> TRUE, busy |-> FALSE,
                 task |-> FALSE]

(* What is left of a process: a child of a running command is not collected. *)
Dead(p) == IF IsServer(p) /\ proc[p].by # Shell
           THEN [proc[p] EXCEPT !.at = "zombie"] ELSE NoProcess
Die(p) == proc' = [proc EXCEPT ![p] = Dead(p)]

(* The corpses of a command's children go when it ends. *)
Collected(c) ==
  [p \in Pids |-> IF Corpse(p) /\ proc[p].by = c THEN NoProcess
                  ELSE IF IsServer(p) /\ proc[p].by = c
                       THEN [proc[p] EXCEPT !.by = Shell] ELSE proc[p]]

(* SIGTERM: before its handler is installed it ends the process at once. *)
Terminated(p) ==
  IF Server(p, "starting") \/ proc[p].kind = "other" THEN Dead(p)
  ELSE IF IsServer(p) THEN [proc[p] EXCEPT !.term = TRUE] ELSE proc[p]

-----------------------------------------------------------------------------
(* bind_and_serve *)
Leave(p, ok) ==
  /\ Die(p)
  /\ exited' = IF ok THEN [busy |-> proc[p].busy, task |-> proc[p].task]
               ELSE exited

(* The listener is bound, or the port is taken: the workers that were
   registered already are stopped and the process exits with an error. *)
Bind(p) ==
  /\ Server(p, "starting")
  /\ IF Serving = {}
     THEN proc' = [proc EXCEPT ![p].at = "serving"] /\ UNCHANGED exited
     ELSE Leave(p, FALSE)
  /\ UNCHANGED <<started, faults>>

(* The signal is noticed: workers are cancelled, the listener is closed; a
   request and a background task may be under way. *)
Shutdown(p) ==
  /\ Server(p, "serving") /\ proc[p].term
  /\ \E busy, task \in BOOLEAN :
       proc' = [proc EXCEPT ![p].at = "draining", ![p].busy = busy,
                            ![p].task = task]
  /\ UNCHANGED <<started, faults, exited>>

(* spawn_ephemeral by the handler of a request: accepted at any time, also
   after the registry was closed. *)
SpawnTask(p) ==
  /\ IsServer(p) /\ ~Corpse(p) /\ proc[p].busy /\ ~proc[p].task
  /\ proc' = [proc EXCEPT ![p].task = TRUE]
  /\ UNCHANGED <<started, faults, exited>>

RequestEnds(p) ==
  /\ IsServer(p) /\ ~Corpse(p) /\ proc[p].busy
  /\ proc' = [proc EXCEPT ![p].busy = FALSE]
  /\ UNCHANGED <<started, faults, exited>>

TaskEnds(p) ==
  /\ IsServer(p) /\ ~Corpse(p) /\ proc[p].task
  /\ proc' = [proc EXCEPT ![p].task = FALSE]
  /\ UNCHANGED <<started, faults, exited>>

(* Faulty: the result of the drain is lost. *)
DrainedOk(busy) == TRUE

Drained(busy) == ~busy

(* Every connection has ended, or the deadline passed. *)
Drain(p) ==
  /\ Server(p, "draining")
  /\ proc' = [proc EXCEPT ![p].at = "joining", ![p].ok = Drained(proc[p].busy)]
  /\ UNCHANGED <<started, faults, exited>>

(* WorkerRegistry::shutdown: no task is left, or the deadline passed. *)
Join(p) ==
  /\ Server(p, "joining")
  /\ Leave(p, proc[p].ok /\ ~proc[p].task)
  /\ UNCHANGED <<started, faults>>

(* The terminal's interrupt, handled as SIGTERM is. *)
Interrupt(p) ==
  /\ Server(p, "serving") /\ ~proc[p].term
  /\ proc' = [proc EXCEPT ![p].term = TRUE]
  /\ UNCHANGED <<started, faults, exited>>

Crash(p) ==
  /\ IsServer(p) /\ ~Corpse(p)
  /\ faults < MaxFaults /\ faults' = faults + 1
  /\ Die(p)
  /\ UNCHANGED <<started, exited>>

(* Another program is given the number of a process that ended, and ends. *)
Reuse(p) ==
  /\ Enter(p, [kind |-> "other", mark |-> started + 1])
  /\ UNCHANGED <<faults, exited>>
Quit(p) ==
  /\ proc[p].kind = "other"
  /\ Die(p)
  /\ UNCHANGED <<started, faults, exited>>

Run(p) ==
  \/ Bind(p) \/ SpawnTask(p) \/ RequestEnds(p) \/ TaskEnds(p)
  \/ Shutdown(p) \/ Drain(p) \/ Join(p) \/ Interrupt(p) \/ Crash(p)
  \/ Reuse(p) \/ Quit(p)
=============================================================================
