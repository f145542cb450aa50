------------------------------ MODULE Supervisor ------------------------------
(***************************************************************************)
(* The command line that starts, stops, restarts and inspects the gateway, *)
(* and the PID file through which its invocations know of the process.     *)
(* Several invocations may run at once; nobody takes a lock.               *)
(*                                                                         *)
(* Time: a deadline may pass at any moment.  Finding out who has a process *)
(* number and signalling it are two steps: in between the process may end  *)
(* and the number be given out again.                                      *)
(***************************************************************************)
EXTENDS ServerProcess

CONSTANT NoMark   \* the marker in a PID file of a version that wrote none

ASSUME NoMarkAssumption == NoMark \notin 1 .. MaxStarts

VARIABLES
  pidfile,   \* <<>> or <<[pid, mark]>>
  cmd,       \* cmd[c]: what invocation c is doing
  signals,   \* ghost: where signals went
  irregular \* ghost: invocations overlapped, or a server was started
             \* without one

vars == <<processVars, pidfile, cmd, signals, irregular>>

(* astray: a signal reached a process that its sender did not mean; careless:
   one that had its number already when the signal was decided on.  aimed[c]:
   processes started by then, of the signal that c is about to send. *)
NoSignals == [astray |-> FALSE, careless |-> FALSE, aimed |-> [c \in Commands |-> 0]]

Tasks == {"start", "stop", "restart", "status", "run"}
Pcs == {"idle", "check", "stale", "probe", "spawn", "wait", "confirm", "write",
        "giveup", "discard", "stop", "silent", "adopt", "adoptWrite", "delay",
        "term", "signal", "await", "kill", "force", "remove", "refuse"}
Id == [pid : Pids, mark : 1 .. MaxStarts]
Entry == [pid : Pids, mark : (1 .. MaxStarts) \cup {NoMark}]
None == [pid |-> Shell, mark |-> NoMark]

Idle == [task |-> "stop", pc |-> "idle", adopting |-> FALSE, file |-> None,
         calm |-> FALSE]

Me(p) == [pid |-> p, mark |-> proc[p].mark]

(* PidFile::owns: the number, the marker and a readable executable. *)
Owns(entry) == Alive(entry.pid) /\ proc[entry.pid].mark = entry.mark
(* is_same_slot_corpse *)
IsCorpse(entry) == Corpse(entry.pid) /\ proc[entry.pid].mark = entry.mark

Tracked(p) == pidfile = <<Me(p)>>
Goto(c, pc) == cmd' = [cmd EXCEPT ![c].pc = pc]
At(c, pc) == cmd[c].pc = pc

(* The invocation ends; what it leaves of its children is collected. *)
End(c) == cmd' = [cmd EXCEPT ![c] = Idle] /\ proc' = Collected(c)

Unchanged == UNCHANGED <<started, faults, exited, signals, irregular>>

(* /health is answered within 250 ms or it is not. *)
Answers == IF Serving = {} THEN {FALSE} ELSE BOOLEAN

-----------------------------------------------------------------------------
(* An invocation is calm as long as no other one overlaps with it and no
   server is coming up but its own. *)
Begin(c, task, adopting, pc, entry) ==
  /\ At(c, "idle")
  /\ LET alone == /\ \A d \in Commands : At(d, "idle")
                  /\ \A p \in Pids : ~Server(p, "starting")
     IN /\ cmd' = [d \in Commands |->
                     IF d = c
                     THEN [task |-> task, pc |-> pc, adopting |-> adopting,
                           file |-> entry, calm |-> alone]
                     ELSE [cmd[d] EXCEPT !.calm = FALSE]]
        /\ irregular' = (irregular \/ ~alone)
  /\ UNCHANGED <<processVars, pidfile, signals>>

Invoke(c) ==
  \/ \E task \in {"start", "status", "run"} : Begin(c, task, FALSE, "check", None)
  \/ \E task \in {"stop", "restart"}, adopting \in BOOLEAN :
       Begin(c, task, adopting, "stop", None)

(* The dashboard's restart and stop buttons: the server that answers adopts
   itself, then has the command line run. *)
Dashboard(c) ==
  \E p \in Serving, task \in {"stop", "restart"} :
    Begin(c, task, FALSE, "adopt", Me(p))

-----------------------------------------------------------------------------
(* Supervisor::status, the part start, status and run have in common. *)
Check(c) ==
  /\ At(c, "check")
  /\ IF pidfile = <<>> THEN Goto(c, "probe") /\ UNCHANGED proc
     ELSE IF Owns(pidfile[1]) THEN End(c)
     ELSE Goto(c, "stale") /\ UNCHANGED proc
  /\ UNCHANGED pidfile /\ Unchanged

Stale(c) ==
  /\ At(c, "stale")
  /\ pidfile' = <<>>
  /\ Goto(c, "probe")
  /\ UNCHANGED proc /\ Unchanged

(* A listener that answers without a PID file is not managed. *)
Probe(c) ==
  /\ At(c, "probe")
  /\ \E healthy \in Answers :
       IF healthy \/ cmd[c].task = "status" THEN End(c)
       ELSE Goto(c, "spawn") /\ UNCHANGED proc
  /\ UNCHANGED pidfile /\ Unchanged

(* Supervisor::start: the port must be free for a child to be launched. *)
Spawn(c) ==
  /\ At(c, "spawn") /\ cmd[c].task # "run"
  /\ IF Serving # {} \/ started = MaxStarts
     THEN End(c) /\ UNCHANGED <<started, faults, exited>>
     ELSE \E p \in Free :
            /\ Enter(p, Launched(c))
            /\ cmd' = [cmd EXCEPT ![c].pc = "wait",
                                  ![c].file = [pid |-> p, mark |-> started']]
            /\ UNCHANGED <<faults, exited>>
  /\ UNCHANGED <<pidfile, signals, irregular>>

(* In the foreground the invocation becomes the server. *)
BecomeServer(c) ==
  /\ At(c, "spawn") /\ cmd[c].task = "run"
  /\ \E p \in Free : Enter(p, Launched(Shell))
  /\ cmd' = [d \in Commands |-> IF d = c THEN Idle ELSE [cmd[d] EXCEPT !.calm = FALSE]]
  /\ UNCHANGED <<pidfile, faults, exited, signals, irregular>>

(* wait_for_health: the child is gone, or somebody answers on its port, or
   the deadline passes. *)
Wait(c) ==
  /\ At(c, "wait")
  /\ IF ~Owns(cmd[c].file) THEN Goto(c, "giveup")
     ELSE \E healthy \in Answers : Goto(c, IF healthy THEN "confirm" ELSE "giveup")
  /\ UNCHANGED <<proc, pidfile>> /\ Unchanged

Confirm(c) ==
  /\ At(c, "confirm")
  /\ Goto(c, IF Owns(cmd[c].file) THEN "write" ELSE "giveup")
  /\ UNCHANGED <<proc, pidfile>> /\ Unchanged

WritePid(c) ==
  /\ At(c, "write")
  /\ pidfile' = <<cmd[c].file>>
  /\ End(c)
  /\ Unchanged

(* A signal by number, without looking at who has it; it was decided on when
   so many processes had been started. *)
Strike(c, process, decided) ==
  LET meant == cmd[c].file
      p == meant.pid
      wrong == Alive(p) /\ proc[p].mark # meant.mark
  IN  /\ proc' = [proc EXCEPT ![p] = process]
      /\ signals' = [astray |-> signals.astray \/ wrong,
                     careless |-> signals.careless \/ (wrong /\ proc[p].mark <= decided),
                     aimed |-> [signals.aimed EXCEPT ![c] = 0]]

GiveUp(c) ==
  /\ At(c, "giveup")
  /\ Strike(c, Terminated(cmd[c].file.pid), started)
  /\ Goto(c, "discard")
  /\ UNCHANGED <<pidfile, started, faults, exited, irregular>>

(* discard_failed_start *)
Discarded(child) == pidfile # <<>> /\ pidfile[1].pid = child.pid

Discard(c) ==
  /\ At(c, "discard")
  /\ pidfile' = IF Discarded(cmd[c].file) THEN <<>> ELSE pidfile
  /\ End(c)
  /\ Unchanged

-----------------------------------------------------------------------------
(* Supervisor::stop_inner and stop_managed *)
Stop(c) ==
  /\ At(c, "stop")
  /\ IF pidfile = <<>> THEN Goto(c, "silent") /\ UNCHANGED proc
     ELSE IF pidfile[1].mark = NoMark THEN End(c)
     ELSE /\ cmd' = [cmd EXCEPT ![c].pc = "term", ![c].file = pidfile[1]]
          /\ UNCHANGED proc
  /\ UNCHANGED pidfile /\ Unchanged

(* A restart goes on with the start, a stop has ended. *)
Stopped(c) ==
  IF cmd[c].task = "restart" THEN Goto(c, "check") /\ UNCHANGED proc ELSE End(c)

(* Who holds the listening socket, from the socket tables. *)
Listeners == Serving

(* Faulty: no PID file is taken for no server. *)
SilentUnasked(c) ==
  /\ At(c, "silent")
  /\ Stopped(c)
  /\ UNCHANGED pidfile /\ Unchanged

(* stop_without_pid_file: a listener is refused, or adopted first. *)
Silent(c) ==
  /\ At(c, "silent")
  /\ IF Serving = {} THEN Stopped(c)
     ELSE IF ~cmd[c].adopting THEN Goto(c, "refuse") /\ UNCHANGED proc
     ELSE \E p \in Listeners :
            /\ cmd' = [cmd EXCEPT ![c].pc = "adopt", ![c].file = Me(p)]
            /\ UNCHANGED proc
  /\ UNCHANGED pidfile /\ Unchanged

Refuse(c) ==
  /\ At(c, "refuse")
  /\ End(c)
  /\ UNCHANGED pidfile /\ Unchanged

(* adopt_identity_into_pid_file: never instead of an owner that lives. *)
Adopt(c) ==
  /\ At(c, "adopt")
  /\ IF pidfile # <<>> /\ Owns(pidfile[1])
     THEN IF pidfile[1].pid = cmd[c].file.pid
          THEN Goto(c, "delay") /\ UNCHANGED proc ELSE End(c)
     ELSE Goto(c, "adoptWrite") /\ UNCHANGED proc
  /\ UNCHANGED pidfile /\ Unchanged

AdoptWrite(c) ==
  /\ At(c, "adoptWrite")
  /\ pidfile' = <<cmd[c].file>>
  /\ Goto(c, "delay")
  /\ UNCHANGED proc /\ Unchanged

(* The command line runs 350 ms later, if the server that was to launch it
   still lives; `stop --unmanaged` goes on by itself. *)
Delay(c) ==
  /\ At(c, "delay")
  /\ IF cmd[c].adopting \/ Owns(cmd[c].file)
     THEN Goto(c, "stop") /\ UNCHANGED proc ELSE End(c)
  /\ UNCHANGED pidfile /\ Unchanged

Aim(c) == signals' = [signals EXCEPT !.aimed[c] = started]

(* verified_signal: who has the number is read and judged first. *)
VerifiedSignal(c, next) ==
  LET entry == cmd[c].file
  IN  IF Owns(entry) THEN Aim(c) /\ Goto(c, next) /\ UNCHANGED proc
      ELSE /\ UNCHANGED signals
           /\ IF proc[entry.pid] = NoProcess \/ IsCorpse(entry)
              THEN Goto(c, "remove") /\ UNCHANGED proc
              ELSE End(c)

(* signal_process: nobody may have the number any more, which is an error or
   not depending on when it is noticed. *)
Send(c, process, next) ==
  IF proc[cmd[c].file.pid] = NoProcess
  THEN /\ signals' = [signals EXCEPT !.aimed[c] = 0]
       /\ \/ Goto(c, next) /\ UNCHANGED proc
          \/ End(c)
  ELSE Strike(c, process, signals.aimed[c]) /\ Goto(c, next)

Term(c) ==
  /\ At(c, "term")
  /\ VerifiedSignal(c, "signal")
  /\ UNCHANGED <<pidfile, started, faults, exited, irregular>>

SendTerm(c) ==
  /\ At(c, "signal")
  /\ Send(c, Terminated(cmd[c].file.pid), "await")
  /\ UNCHANGED <<pidfile, started, faults, exited, irregular>>

(* Five seconds; a number that was given out again counts as the process. *)
Await(c) ==
  /\ At(c, "await")
  /\ Goto(c, IF Alive(cmd[c].file.pid) THEN "kill" ELSE "remove")
  /\ UNCHANGED <<proc, pidfile>> /\ Unchanged

(* Faulty: the second signal relies on the check before the first. *)
KillUnverified(c) ==
  /\ At(c, "kill")
  /\ Aim(c) /\ Goto(c, "force")
  /\ UNCHANGED <<proc, pidfile, started, faults, exited, irregular>>

Kill(c) ==
  /\ At(c, "kill")
  /\ VerifiedSignal(c, "force")
  /\ UNCHANGED <<pidfile, started, faults, exited, irregular>>

SendKill(c) ==
  /\ At(c, "force")
  /\ Send(c, Dead(cmd[c].file.pid), "remove")
  /\ UNCHANGED <<pidfile, started, faults, exited, irregular>>

Remove(c) ==
  /\ At(c, "remove")
  /\ pidfile' = <<>>
  /\ Stopped(c)
  /\ Unchanged

-----------------------------------------------------------------------------
Step(c) ==
  \/ Check(c) \/ Stale(c) \/ Probe(c) \/ Spawn(c) \/ BecomeServer(c)
  \/ Wait(c) \/ Confirm(c) \/ WritePid(c) \/ GiveUp(c) \/ Discard(c)
  \/ Stop(c) \/ Silent(c) \/ Refuse(c) \/ Adopt(c) \/ AdoptWrite(c) \/ Delay(c)
  \/ Term(c) \/ SendTerm(c) \/ Await(c) \/ Kill(c) \/ SendKill(c) \/ Remove(c)

Init ==
  /\ proc = [p \in Pids |-> NoProcess]
  /\ started = 0 /\ faults = 0
  /\ exited = [busy |-> FALSE, task |-> FALSE]
  /\ pidfile \in {<<>>} \cup {<<[pid |-> p, mark |-> NoMark]>> : p \in Pids}
  /\ cmd = [c \in Commands |-> Idle]
  /\ signals = NoSignals /\ irregular = FALSE

(* The server binary is run directly: nobody looks at the PID file. *)
LaunchDirectly(p) ==
  /\ Enter(p, Launched(Shell))
  /\ cmd' = [d \in Commands |-> [cmd[d] EXCEPT !.calm = FALSE]]
  /\ irregular' = TRUE
  /\ UNCHANGED <<pidfile, faults, exited, signals>>

Next ==
  \/ \E c \in Commands : Invoke(c) \/ Dashboard(c)
  \/ \E c \in Commands : Step(c)
  \/ \E p \in Pids : LaunchDirectly(p)
  \/ \E p \in Pids : Run(p) /\ UNCHANGED <<pidfile, cmd, signals, irregular>>

Spec == Init /\ [][Next]_vars

-----------------------------------------------------------------------------
TypeOK ==
  /\ proc \in [Pids -> Process \cup {NoProcess}]
  /\ started \in 0 .. MaxStarts /\ faults \in 0 .. MaxFaults
  /\ Cardinality(Serving) <= 1
  /\ pidfile = <<>> \/ pidfile[1] \in Entry
  /\ \A c \in Commands :
       /\ cmd[c].task \in Tasks /\ cmd[c].pc \in Pcs
       /\ cmd[c].file \in Entry \cup {None}
       /\ cmd[c].adopting \in BOOLEAN /\ cmd[c].calm \in BOOLEAN
  /\ signals.astray \in BOOLEAN /\ signals.careless \in BOOLEAN /\ irregular \in BOOLEAN

Goes(c, from, to) == At(c, from) /\ cmd'[c].pc \in to

(* A signal reaches a process other than the one it is meant for only if that
   one got its number after the signal was decided on, between two system
   calls: never because of a check that is five seconds old, nor after a
   failed start, whose child keeps its number. *)
SignalsVerified == ~signals.careless

(* The comment of stop_managed says that ownership is verified immediately
   before signaling, "closing the window in which a reused or exited PID could
   receive a signal meant for the bridge". *)
OnlyMeantProcessesSignalled == ~signals.astray

(* A start that fails does not lose track of a server other than its own
   child, however it overlaps with the invocation that tracks it. *)
FailedStartKeepsTracking ==
  [][\A c \in Commands :
       Goes(c, "discard", {"idle"}) =>
         \A p \in Serving \ {cmd[c].file.pid} :
           Tracked(p) => pidfile' = pidfile]_vars

HonestStop(c) ==
  (\E from \in {"silent", "remove"} : Goes(c, from, {"idle", "check"}))
    => Serving = {}

(* As long as servers are started by invocations that follow one another,
   these tell the truth, whatever crashes and whoever gets a number in
   between: after a start that succeeded whoever serves is tracked, after a
   stop nobody serves, and the file is taken from no server it describes. *)
AnswersTrueInTurn ==
  [][~irregular' =>
       \A c \in Commands :
         /\ Goes(c, "write", {"idle"}) => \A p \in Serving : Tracked(p)'
         /\ HonestStop(c)
         /\ Goes(c, "stale", {"probe"}) => \A p \in Serving : ~Tracked(p)]_vars

(* What the invocations make of the PID file and say of the server is true. *)
TrackingTruthful == FailedStartKeepsTracking /\ AnswersTrueInTurn

(* A stop that nothing overlaps with succeeds only over a silent port. *)
CalmStopIsHonest == [][\A c \in Commands : cmd[c].calm => HonestStop(c)]_vars

(* A server that exits with success has answered its requests and finished
   its tasks. *)
SuccessfulExitLosesNothing == ~exited.busy /\ ~exited.task
=============================================================================
