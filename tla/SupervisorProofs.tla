--------------------------- MODULE SupervisorProofs ---------------------------
(***************************************************************************)
(* Theorems about the supervisor and the server processes, for any number  *)
(* of process numbers, invocations, starts and crashes.                    *)
(*                                                                         *)
(* Four invariants carry them.  ProcInv is about the processes alone.      *)
(* ChildInv says why a failed start may signal by number: the corpse of a  *)
(* child nobody has collected keeps its number until its parent ends.      *)
(* SignalInv says who has the number of a process that is about to be      *)
(* signalled: the process, or one that came after it was verified.         *)
(* TurnInv says what the PID file and an invocation's steps tell about the *)
(* servers as long as invocations follow one another.                      *)
(***************************************************************************)
EXTENDS Supervisor, FiniteSetTheorems, TLAPS

-----------------------------------------------------------------------------
(* The processes.                                                          *)

Ats == {"starting", "serving", "draining", "joining", "zombie"}

Servers ==
  [kind : {"server"}, mark : 1 .. MaxStarts, at : Ats,
   by : Commands \cup {Shell}, term : BOOLEAN, ok : BOOLEAN,
   busy : BOOLEAN, task : BOOLEAN]
Others == [kind : {"other"}, mark : 1 .. MaxStarts]

\* Processes started so far; a server that is about to exit with success has
\* answered all its requests.
GoodProc(n) ==
  {s \in Servers : s.mark <= n /\ (s.at = "joining" /\ s.ok => ~s.busy)}
  \cup {o \in Others : o.mark <= n} \cup {NoProcess}

ProcInv ==
  /\ started \in 0 .. MaxStarts /\ faults \in 0 .. MaxFaults
  /\ proc \in [Pids -> GoodProc(started)]
  /\ \A p, q \in Serving : p = q
  /\ ~exited.busy /\ ~exited.task

\* What may become of the holder of a number, when command c or none ends: it
\* is never rejuvenated, and a child of another command stays at least as a
\* corpse.
Follows(old, new, c) ==
  \/ new = old
  \/ new = NoProcess /\ (old.kind = "server" => old.by \in {c, Shell})
  \/ /\ old.kind = "server" /\ new.kind = "server"
     /\ new.mark = old.mark
     /\ new.by = old.by \/ (old.by = c /\ new.by = Shell)
     /\ old.at = "zombie" => new.at = "zombie"
     /\ new.at = "starting" => old.at = "starting"
     /\ new.at = "serving" => old.at \in {"starting", "serving"}

Progress(c) ==
  /\ proc' \in [Pids -> GoodProc(started)]
  /\ \A p \in Pids : Follows(proc[p], proc'[p], c)

\* Nobody begins to serve.
NobodyBinds == \A p \in Pids : Server(p, "serving")' => Server(p, "serving")

\* The kinds of processes.
LEMMA Kinds ==
  ASSUME NEW n \in 0 .. MaxStarts, NEW x \in GoodProc(n)
  PROVE  /\ x.kind = "server" <=> x \in Servers
         /\ x.kind = "other" <=> x \in Others
         /\ x = NoProcess <=> x.kind = "none"
         /\ x # NoProcess => x.mark \in 1 .. n
         /\ x \in Servers /\ x.at = "joining" /\ x.ok => ~x.busy
BY DEF GoodProc, Servers, Others, NoProcess

\* GoodProc grows with the number of starts.
LEMMA Older ==
  ASSUME NEW n \in Nat, NEW m \in Nat, n <= m
  PROVE  GoodProc(n) \subseteq GoodProc(m)
BY DEF GoodProc, Servers, Others

\* One process changes.
LEMMA OneChanges ==
  ASSUME ProcInv, NEW p \in Pids, NEW new \in GoodProc(started),
         proc' = [proc EXCEPT ![p] = new], Follows(proc[p], new, Shell)
  PROVE  Progress(Shell)
BY DEF ProcInv, Progress, Follows

\* The updates a server makes of its record.
LEMMA ServerUpdated ==
  ASSUME NEW s \in Servers, NEW a \in Ats, NEW b \in BOOLEAN, NEW t \in BOOLEAN
  PROVE  /\ [s EXCEPT !.at = a] \in Servers
         /\ [s EXCEPT !.by = Shell] \in Servers
         /\ [s EXCEPT !.term = TRUE] \in Servers
         /\ [s EXCEPT !.busy = FALSE] \in Servers
         /\ [s EXCEPT !.task = b] \in Servers
         /\ [s EXCEPT !.at = a, !.ok = b] \in Servers
         /\ [s EXCEPT !.at = a, !.busy = b, !.task = t] \in Servers
<1>1. "zombie" \in Ats /\ Shell \in Commands \cup {Shell} /\ TRUE \in BOOLEAN /\ FALSE \in BOOLEAN
  BY DEF Ats
<1> QED BY <1>1 DEF Servers

\* What is left of a process that ends.
LEMMA DeadFollows ==
  ASSUME ProcInv, NEW p \in Pids
  PROVE  /\ Dead(p) \in GoodProc(started)
         /\ Follows(proc[p], Dead(p), Shell)
         /\ Dead(p) = NoProcess \/ Dead(p).at = "zombie"
         /\ ~(Dead(p).kind = "server" /\ Dead(p).at # "zombie")
<1>1. proc[p] \in GoodProc(started) /\ started \in 0 .. MaxStarts
  BY DEF ProcInv
<1>2. CASE IsServer(p) /\ proc[p].by # Shell
  <2> DEFINE s == proc[p]
             new == [s EXCEPT !.at = "zombie"]
  <2>1. s \in Servers /\ s.kind = "server" /\ s.mark \in 1 .. started
    BY <1>1, <1>2, Kinds DEF IsServer, NoProcess
  <2>2. "zombie" \in Ats
    BY DEF Ats
  <2>3. /\ new \in Servers /\ new.at = "zombie" /\ new.mark = s.mark
        /\ new.by = s.by /\ new.kind = "server"
    BY <2>1, <2>2 DEF Servers
  <2>4. Dead(p) = new
    BY <1>2 DEF Dead
  <2> HIDE DEF new
  <2> QED BY <2>1, <2>3, <2>4 DEF GoodProc, Follows
<1>3. CASE ~(IsServer(p) /\ proc[p].by # Shell)
  BY <1>3 DEF Dead, GoodProc, Follows, IsServer, NoProcess
<1> QED BY <1>2, <1>3

LEMMA TerminatedFollows ==
  ASSUME ProcInv, NEW p \in Pids
  PROVE  /\ Terminated(p) \in GoodProc(started)
         /\ Follows(proc[p], Terminated(p), Shell)
         /\ Terminated(p).kind = "server" /\ Terminated(p).at = "serving"
              => Server(p, "serving")
<1>1. proc[p] \in GoodProc(started) /\ started \in 0 .. MaxStarts
  BY DEF ProcInv
<1>2. CASE Server(p, "starting") \/ proc[p].kind = "other"
  <2>1. Terminated(p) = Dead(p)
    BY <1>2 DEF Terminated
  <2> QED BY <2>1, DeadFollows
<1>3. CASE ~(Server(p, "starting") \/ proc[p].kind = "other") /\ IsServer(p)
  <2> DEFINE s == proc[p]
             new == [s EXCEPT !.term = TRUE]
  <2>1. /\ s \in Servers /\ s.kind = "server" /\ s.mark \in 1 .. started
        /\ s.at = "joining" /\ s.ok => ~s.busy
    BY <1>1, <1>3, Kinds DEF IsServer, NoProcess
  <2>2. TRUE \in BOOLEAN
    OBVIOUS
  <2>3. /\ new \in Servers /\ new.at = s.at /\ new.mark = s.mark /\ new.ok = s.ok
        /\ new.by = s.by /\ new.kind = "server" /\ new.busy = s.busy
    BY <2>1, <2>2 DEF Servers
  <2>4. Terminated(p) = new
    BY <1>3 DEF Terminated
  <2> HIDE DEF new
  <2> QED BY <1>3, <2>1, <2>3, <2>4 DEF GoodProc, Follows, Server
<1>4. CASE ~(Server(p, "starting") \/ proc[p].kind = "other") /\ ~IsServer(p)
  <2>1. Terminated(p) = proc[p] /\ proc[p] = NoProcess
    BY <1>1, <1>4, Kinds DEF Terminated, IsServer, GoodProc, Servers, Others
  <2> QED BY <1>1, <2>1 DEF Follows, NoProcess
<1> QED BY <1>2, <1>3, <1>4

\* The end of a command collects its corpses and leaves its children behind.
LEMMA CollectedFollows ==
  ASSUME ProcInv, NEW c \in Commands, proc' = Collected(c)
  PROVE  Progress(c) /\ NobodyBinds
<1>1. ASSUME NEW p \in Pids
      PROVE  /\ proc'[p] \in GoodProc(started) /\ Follows(proc[p], proc'[p], c)
             /\ Server(p, "serving")' => Server(p, "serving")
  <2>1. proc[p] \in GoodProc(started) /\ started \in 0 .. MaxStarts
    BY DEF ProcInv
  <2>2. CASE Corpse(p) /\ proc[p].by = c
    BY <2>2 DEF Collected, GoodProc, Follows, Server, IsServer, NoProcess
  <2>3. CASE ~(Corpse(p) /\ proc[p].by = c) /\ IsServer(p) /\ proc[p].by = c
    <3> DEFINE s == proc[p]
               new == [s EXCEPT !.by = Shell]
    <3>1. /\ s \in Servers /\ s.kind = "server" /\ s.mark \in 1 .. started
          /\ s.at = "joining" /\ s.ok => ~s.busy
      BY <2>1, <2>3, Kinds DEF IsServer, NoProcess
    <3>2. Shell \in Commands \cup {Shell}
      OBVIOUS
    <3>3. /\ new \in Servers /\ new.at = s.at /\ new.mark = s.mark /\ new.ok = s.ok
          /\ new.by = Shell /\ new.kind = "server" /\ new.busy = s.busy
      BY <3>1, <3>2 DEF Servers
    <3>4. proc'[p] = new
      BY <2>3 DEF Collected
    <3> HIDE DEF new
    <3> QED BY <2>3, <3>1, <3>3, <3>4 DEF GoodProc, Follows, Server, IsServer
  <2>4. CASE ~(Corpse(p) /\ proc[p].by = c) /\ ~(IsServer(p) /\ proc[p].by = c)
    <3>1. proc'[p] = proc[p]
      BY <2>4 DEF Collected
    <3> QED BY <2>1, <3>1 DEF Follows, Server, IsServer
  <2> QED BY <2>2, <2>3, <2>4
<1>2. proc' \in [Pids -> GoodProc(started)]
  BY <1>1 DEF Collected
<1> QED BY <1>1, <1>2 DEF Progress, NobodyBinds

\* The record of a server, as the invariant has it.
LEMMA ServerFacts ==
  ASSUME ProcInv, NEW p \in Pids, IsServer(p)
  PROVE  /\ proc[p] \in Servers /\ proc[p].kind = "server"
         /\ proc[p].mark \in 1 .. started
         /\ proc[p].at = "joining" /\ proc[p].ok => ~proc[p].busy
         /\ started \in 0 .. MaxStarts
         /\ \A new \in Servers :
              new.mark = proc[p].mark /\ (new.at = "joining" /\ new.ok => ~new.busy)
                => new \in GoodProc(started)
<1>1. proc[p] \in GoodProc(started) /\ started \in 0 .. MaxStarts
  BY DEF ProcInv
<1>2. proc[p] \in Servers /\ proc[p] # NoProcess
  BY <1>1, Kinds DEF IsServer, NoProcess
<1>3. proc[p].mark \in 1 .. started
  BY <1>1, <1>2, Kinds
<1> QED BY <1>1, <1>2, <1>3, Kinds DEF GoodProc, IsServer

\* A server changes its own record.
LEMMA ServerChanges ==
  ASSUME ProcInv, NEW p \in Pids, IsServer(p), NEW new \in Servers,
         new.mark = proc[p].mark, new.by = proc[p].by,
         new.at = "joining" /\ new.ok => ~new.busy,
         proc[p].at = "zombie" => new.at = "zombie",
         new.at = "starting" => proc[p].at = "starting",
         new.at = "serving" => proc[p].at \in {"starting", "serving"},
         proc' = [proc EXCEPT ![p] = new]
  PROVE  /\ Progress(Shell)
         /\ (new.at = "serving" => proc[p].at = "serving") => NobodyBinds
         /\ \A q \in Pids \ {p} : proc'[q] = proc[q]
<1>1. new \in GoodProc(started) /\ new.kind = "server" /\ proc[p].kind = "server"
  BY ServerFacts DEF Servers, IsServer
<1>2. Follows(proc[p], new, Shell)
  BY <1>1 DEF Follows
<1>3. Progress(Shell)
  BY <1>1, <1>2, OneChanges
<1>4. proc'[p] = new /\ \A q \in Pids \ {p} : proc'[q] = proc[q]
  BY DEF ProcInv
<1> QED BY <1>1, <1>3, <1>4 DEF NobodyBinds, Server, IsServer

\* A process ends.
LEMMA DeathFollows ==
  ASSUME ProcInv, NEW p \in Pids, Die(p)
  PROVE  Progress(Shell) /\ NobodyBinds
<1>1. proc' = [proc EXCEPT ![p] = Dead(p)]
  BY DEF Die
<1>2. proc'[p] = Dead(p) /\ \A q \in Pids \ {p} : proc'[q] = proc[q]
  BY <1>1 DEF ProcInv
<1> QED BY <1>1, <1>2, DeadFollows, OneChanges DEF NobodyBinds, Server, IsServer

\* An action of a server, or of another program, by itself.
ServerStep(p) ==
  \/ Bind(p) \/ SpawnTask(p) \/ RequestEnds(p) \/ TaskEnds(p) \/ Shutdown(p)
  \/ Drain(p) \/ Join(p) \/ Interrupt(p) \/ Crash(p) \/ Quit(p)

\* Nothing but a server's own end is reported by exited.
SameReport == UNCHANGED <<started, faults, exited>>

\* A server that begins to serve was the only one to.
LEMMA ServerStepFollows ==
  ASSUME ProcInv, NEW p \in Pids, ServerStep(p)
  PROVE  /\ Progress(Shell)
         /\ NobodyBinds \/ (Serving = {} /\ \A q \in Pids \ {p} : proc'[q] = proc[q])
         /\ started' = started /\ faults' \in 0 .. MaxFaults
         /\ ~exited'.busy /\ ~exited'.task
<1> DEFINE s == proc[p]
<1>1. CASE Bind(p)
  <2>1. s.at = "starting" /\ IsServer(p) /\ UNCHANGED <<started, faults>>
    BY <1>1 DEF Bind, Server
  <2>2. CASE Serving = {}
    <3> DEFINE new == [s EXCEPT !.at = "serving"]
    <3>1. "serving" \in Ats
      BY DEF Ats
    <3>2. /\ new \in Servers /\ new.at = "serving" /\ new.mark = s.mark
          /\ new.by = s.by
      BY <2>1, <3>1, ServerFacts DEF Servers
    <3>3. proc' = [proc EXCEPT ![p] = new] /\ exited' = exited
      BY <1>1, <2>2 DEF Bind
    <3> HIDE DEF new
    <3>4. Progress(Shell) /\ \A q \in Pids \ {p} : proc'[q] = proc[q]
      BY <2>1, <3>2, <3>3, ServerChanges
    <3> QED BY <2>1, <2>2, <3>3, <3>4 DEF ProcInv
  <2>3. CASE Serving # {}
    <3>1. Die(p) /\ exited' = exited
      BY <1>1, <2>3 DEF Bind, Leave
    <3> QED BY <2>1, <3>1, DeathFollows DEF ProcInv
  <2> QED BY <2>2, <2>3
<1>2. CASE SpawnTask(p)
  <2> DEFINE new == [s EXCEPT !.task = TRUE]
  <2>1. IsServer(p) /\ SameReport
    BY <1>2 DEF SpawnTask, Server, SameReport
  <2>2. TRUE \in BOOLEAN
    OBVIOUS
  <2>3. /\ new \in Servers /\ new.at = s.at /\ new.mark = s.mark
        /\ new.by = s.by /\ (new.at = "joining" /\ new.ok => ~new.busy)
    BY <2>1, <2>2, ServerFacts DEF Servers
  <2>4. proc' = [proc EXCEPT ![p] = new]
    BY <1>2 DEF SpawnTask
  <2> HIDE DEF new
  <2>5. Progress(Shell) /\ NobodyBinds
    BY <2>1, <2>3, <2>4, ServerChanges
  <2> QED BY <2>1, <2>5 DEF ProcInv, SameReport
<1>3. CASE RequestEnds(p)
  <2> DEFINE new == [s EXCEPT !.busy = FALSE]
  <2>1. IsServer(p) /\ SameReport
    BY <1>3 DEF RequestEnds, Server, SameReport
  <2>2. FALSE \in BOOLEAN
    OBVIOUS
  <2>3. /\ new \in Servers /\ new.at = s.at /\ new.mark = s.mark
        /\ new.by = s.by /\ (new.at = "joining" /\ new.ok => ~new.busy)
    BY <2>1, <2>2, ServerFacts DEF Servers
  <2>4. proc' = [proc EXCEPT ![p] = new]
    BY <1>3 DEF RequestEnds
  <2> HIDE DEF new
  <2>5. Progress(Shell) /\ NobodyBinds
    BY <2>1, <2>3, <2>4, ServerChanges
  <2> QED BY <2>1, <2>5 DEF ProcInv, SameReport
<1>4. CASE TaskEnds(p)
  <2> DEFINE new == [s EXCEPT !.task = FALSE]
  <2>1. IsServer(p) /\ SameReport
    BY <1>4 DEF TaskEnds, Server, SameReport
  <2>2. FALSE \in BOOLEAN
    OBVIOUS
  <2>3. /\ new \in Servers /\ new.at = s.at /\ new.mark = s.mark
        /\ new.by = s.by /\ (new.at = "joining" /\ new.ok => ~new.busy)
    BY <2>1, <2>2, ServerFacts DEF Servers
  <2>4. proc' = [proc EXCEPT ![p] = new]
    BY <1>4 DEF TaskEnds
  <2> HIDE DEF new
  <2>5. Progress(Shell) /\ NobodyBinds
    BY <2>1, <2>3, <2>4, ServerChanges
  <2> QED BY <2>1, <2>5 DEF ProcInv, SameReport
<1>5. CASE Interrupt(p)
  <2> DEFINE new == [s EXCEPT !.term = TRUE]
  <2>1. IsServer(p) /\ SameReport
    BY <1>5 DEF Interrupt, Server, SameReport
  <2>2. TRUE \in BOOLEAN
    OBVIOUS
  <2>3. /\ new \in Servers /\ new.at = s.at /\ new.mark = s.mark
        /\ new.by = s.by /\ (new.at = "joining" /\ new.ok => ~new.busy)
    BY <2>1, <2>2, ServerFacts DEF Servers
  <2>4. proc' = [proc EXCEPT ![p] = new]
    BY <1>5 DEF Interrupt
  <2> HIDE DEF new
  <2>5. Progress(Shell) /\ NobodyBinds
    BY <2>1, <2>3, <2>4, ServerChanges
  <2> QED BY <2>1, <2>5 DEF ProcInv, SameReport
<1>6. CASE Shutdown(p)
  <2>1. IsServer(p) /\ s.at = "serving" /\ SameReport
    BY <1>6 DEF Shutdown, Server, SameReport
  <2>2. PICK busy \in BOOLEAN, task \in BOOLEAN :
          proc' = [proc EXCEPT ![p].at = "draining", ![p].busy = busy,
                               ![p].task = task]
    BY <1>6 DEF Shutdown
  <2> DEFINE new == [s EXCEPT !.at = "draining", !.busy = busy, !.task = task]
  <2>3. "draining" \in Ats
    BY DEF Ats
  <2>4. /\ new \in Servers /\ new.at = "draining" /\ new.mark = s.mark
        /\ new.by = s.by
    BY <2>1, <2>3, ServerFacts DEF Servers
  <2>5. proc' = [proc EXCEPT ![p] = new]
    BY <2>2 DEF ProcInv
  <2> HIDE DEF new
  <2>6. Progress(Shell) /\ NobodyBinds
    BY <2>1, <2>4, <2>5, ServerChanges
  <2> QED BY <2>1, <2>6 DEF ProcInv, SameReport
<1>7. CASE Drain(p)
  <2>1. IsServer(p) /\ s.at = "draining" /\ SameReport
    BY <1>7 DEF Drain, Server, SameReport
  <2> DEFINE ok == ~s.busy
             new == [s EXCEPT !.at = "joining", !.ok = ok]
  <2>2. "joining" \in Ats /\ ok \in BOOLEAN
    BY DEF Ats
  <2>3. /\ new \in Servers /\ new.at = "joining" /\ new.mark = s.mark
        /\ new.by = s.by /\ new.ok = ok /\ new.busy = s.busy
    <3> HIDE DEF ok
    <3> QED BY <2>1, <2>2, ServerFacts DEF Servers
  <2>4. new.ok => ~new.busy
    BY <2>3
  <2>5. proc' = [proc EXCEPT ![p] = new]
    BY <1>7 DEF Drain, Drained, ProcInv
  <2> HIDE DEF new, ok
  <2>6. Progress(Shell) /\ NobodyBinds
    BY <2>1, <2>3, <2>4, <2>5, ServerChanges
  <2> QED BY <2>1, <2>6 DEF ProcInv, SameReport
<1>8. CASE Join(p)
  <2>1. /\ IsServer(p) /\ s.at = "joining" /\ UNCHANGED <<started, faults>>
        /\ Die(p)
        /\ exited' = IF s.ok /\ ~s.task THEN [busy |-> s.busy, task |-> s.task]
                     ELSE exited
    BY <1>8 DEF Join, Leave, Server
  <2>2. s.ok => ~s.busy
    BY <2>1, ServerFacts
  <2>3. ~exited'.busy /\ ~exited'.task
    BY <2>1, <2>2 DEF ProcInv
  <2> QED BY <2>1, <2>3, DeathFollows DEF ProcInv
<1>9. CASE Crash(p) \/ Quit(p)
  <2>1. Die(p) /\ UNCHANGED <<started, exited>>
    BY <1>9 DEF Crash, Quit
  <2>2. faults' \in 0 .. MaxFaults
    BY <1>9, ProcessAssumption DEF Crash, Quit, ProcInv
  <2> QED BY <2>1, <2>2, DeathFollows DEF ProcInv
<1> QED
  BY <1>1, <1>2, <1>3, <1>4, <1>5, <1>6, <1>7, <1>8, <1>9 DEF ServerStep

\* A free number is given to a process.
LEMMA Entered ==
  ASSUME ProcInv, NEW p \in Pids, NEW new \in Servers \cup Others,
         new.mark = started + 1, new.kind = "server" => new.at = "starting",
         Enter(p, new), UNCHANGED <<faults, exited>>
  PROVE  /\ ProcInv'
         /\ started' = started + 1 /\ proc[p] = NoProcess
         /\ proc'[p] = new /\ \A q \in Pids \ {p} : proc'[q] = proc[q]
<1>1. /\ started < MaxStarts /\ started' = started + 1 /\ proc[p] = NoProcess
      /\ proc' = [proc EXCEPT ![p] = new]
  BY DEF Enter, Free
<1>2. started' \in 0 .. MaxStarts /\ started \in Nat
  BY <1>1, ProcessAssumption DEF ProcInv
<1>3. new \in GoodProc(started') /\ GoodProc(started) \subseteq GoodProc(started')
  BY <1>1, <1>2, Older DEF GoodProc, Servers, Others
<1>4. proc' \in [Pids -> GoodProc(started')]
  BY <1>1, <1>3 DEF ProcInv
<1>5. /\ proc'[p] = new /\ \A q \in Pids \ {p} : proc'[q] = proc[q]
  BY <1>1 DEF ProcInv
<1>6. \A q, r \in Serving' : q = r
  BY <1>5 DEF ProcInv, Serving, Server, IsServer
<1> QED BY <1>1, <1>2, <1>4, <1>5, <1>6 DEF ProcInv

\* A step that makes progress and lets nobody begin to serve beside another.
LEMMA ProgressInv ==
  ASSUME ProcInv, NEW c, Progress(c),
         NobodyBinds \/ \E p \in Pids :
           Serving = {} /\ \A q \in Pids \ {p} : proc'[q] = proc[q],
         started' = started, faults' \in 0 .. MaxFaults,
         ~exited'.busy /\ ~exited'.task
  PROVE  ProcInv'
BY DEF ProcInv, Progress, NobodyBinds, Serving, Server, IsServer

-----------------------------------------------------------------------------
(* The invocations.                                                        *)

FileEntry(n) == [pid : Pids, mark : (1 .. n) \cup {NoMark}]

Invocation(n) ==
  [task : Tasks, pc : Pcs, adopting : BOOLEAN,
   file : FileEntry(n) \cup {None}, calm : BOOLEAN]

\* Where an invocation has a process in mind, and where that is its child.
ChildPcs == {"wait", "confirm", "write", "giveup"}
NamingPcs == ChildPcs \cup
             {"discard", "adopt", "adoptWrite", "delay", "term", "signal", "await", "kill",
              "force"}

\* The process an invocation launched is still there, if only as a corpse.
IsChild(c, file) ==
  IsServer(file.pid) /\ proc[file.pid].by = c /\ proc[file.pid].mark = file.mark

FileOK(file) == file = <<>> \/ \E e \in FileEntry(started) : file = <<e>>

ChildInv ==
  /\ cmd \in [Commands -> Invocation(started)]
  /\ FileOK(pidfile)
  /\ irregular \in BOOLEAN
  /\ \A c \in Commands :
       /\ cmd[c].pc \in NamingPcs => cmd[c].file \in FileEntry(started)
       /\ cmd[c].pc \in ChildPcs => IsChild(c, cmd[c].file)

\* A child stays while its parent runs.
LEMMA ChildKept ==
  ASSUME ProcInv, NEW c \in Commands, NEW d, d # c, Progress(d),
         NEW file \in FileEntry(started), IsChild(c, file)
  PROVE  IsChild(c, file)'
<1>1. file.pid \in Pids
  BY DEF FileEntry
<1>2. Follows(proc[file.pid], proc'[file.pid], d)
  BY <1>1 DEF Progress
<1> QED BY <1>2, ProcessAssumption DEF IsChild, IsServer, Follows

\* Invocation c moves on to new, and no process is started.
LEMMA MovesOn ==
  ASSUME ProcInv, ChildInv, NEW c \in Commands, NEW d \in {c, Shell}, Progress(d),
         UNCHANGED <<started, irregular>>, FileOK(pidfile'),
         NEW new \in Invocation(started), cmd' = [cmd EXCEPT ![c] = new],
         new.pc \in NamingPcs => new.file \in FileEntry(started),
         new.pc \in ChildPcs =>
           d = Shell /\ cmd[c].pc \in ChildPcs /\ new.file = cmd[c].file
  PROVE  ChildInv'
<1>1. cmd' \in [Commands -> Invocation(started)]
  BY DEF ChildInv
<1>2. FileOK(pidfile)'
  BY DEF FileOK
<1>3. ASSUME NEW e \in Commands
      PROVE  /\ cmd'[e].pc \in NamingPcs => cmd'[e].file \in FileEntry(started)
             /\ cmd'[e].pc \in ChildPcs => IsChild(e, cmd[e].file)'
  <2>1. CASE e = c
    <3>1. cmd'[e] = new
      BY <2>1 DEF ChildInv
    <3>2. ASSUME new.pc \in ChildPcs PROVE IsChild(e, cmd[e].file)'
      <4>1. IsChild(c, new.file) /\ new.file \in FileEntry(started) /\ d # c
        BY <3>2, ProcessAssumption DEF ChildInv, NamingPcs
      <4>2. IsChild(c, new.file)'
        BY <4>1, ChildKept
      <4> QED BY <2>1, <3>1, <4>2 DEF IsChild, IsServer
    <3> QED BY <3>1, <3>2
  <2>2. CASE e # c
    <3>1. cmd'[e] = cmd[e] /\ d # e
      BY <2>2, ProcessAssumption DEF ChildInv
    <3>2. ASSUME cmd[e].pc \in ChildPcs PROVE IsChild(e, cmd[e].file)'
      <4>1. IsChild(e, cmd[e].file) /\ cmd[e].file \in FileEntry(started)
        BY <3>2 DEF ChildInv, NamingPcs
      <4>2. \A file \in FileEntry(started) : IsChild(e, file) => IsChild(e, file)'
        BY <3>1, ChildKept
      <4>3. PICK file \in FileEntry(started) : file = cmd[e].file
        BY <4>1
      <4> QED BY <3>1, <4>1, <4>2, <4>3 DEF IsChild, IsServer
    <3> QED BY <3>1, <3>2 DEF ChildInv, IsChild, IsServer
  <2> QED BY <2>1, <2>2
<1> QED BY <1>1, <1>2, <1>3 DEF ChildInv

\* The fields of an invocation that goes to another place.
LEMMA GotoFields ==
  ASSUME ChildInv, NEW c \in Commands, NEW pc \in Pcs, Goto(c, pc)
  PROVE  \E new \in Invocation(started) :
           /\ cmd' = [cmd EXCEPT ![c] = new]
           /\ new.pc = pc /\ new.file = cmd[c].file /\ new.task = cmd[c].task
           /\ new.calm = cmd[c].calm /\ new.adopting = cmd[c].adopting
<1> DEFINE old == cmd[c]
           new == [old EXCEPT !.pc = pc]
<1>1. old \in Invocation(started) /\ cmd' = [cmd EXCEPT ![c] = new]
  BY DEF ChildInv, Goto
<1>2. /\ new \in Invocation(started)
      /\ new.pc = pc /\ new.file = old.file /\ new.task = old.task
      /\ new.calm = old.calm /\ new.adopting = old.adopting
  BY <1>1 DEF Invocation
<1> HIDE DEF new
<1> QED BY <1>1, <1>2

LEMMA GotoInv ==
  ASSUME ProcInv, ChildInv, NEW c \in Commands, NEW pc \in Pcs, Goto(c, pc),
         Progress(Shell), UNCHANGED <<started, irregular>>,
         FileOK(pidfile'),
         pc \in NamingPcs => cmd[c].file \in FileEntry(started),
         pc \in ChildPcs => cmd[c].pc \in ChildPcs
  PROVE  ChildInv'
<1>1. PICK new \in Invocation(started) :
        /\ cmd' = [cmd EXCEPT ![c] = new]
        /\ new.pc = pc /\ new.file = cmd[c].file
  BY GotoFields
<1> QED BY <1>1, MovesOn

\* An invocation ends.
LEMMA EndInv ==
  ASSUME ProcInv, ChildInv, NEW c \in Commands, End(c),
         UNCHANGED <<started, irregular>>, FileOK(pidfile')
  PROVE  ChildInv' /\ Progress(c) /\ NobodyBinds
<1>1. Progress(c) /\ NobodyBinds
  BY CollectedFollows DEF End
<1>2. Idle \in Invocation(started) /\ Idle.pc \notin NamingPcs /\ Idle.pc \notin ChildPcs
  BY DEF Idle, Invocation, Tasks, Pcs, NamingPcs, ChildPcs
<1>3. cmd' = [cmd EXCEPT ![c] = Idle]
  BY DEF End
<1> HIDE DEF Idle
<1> QED BY <1>1, <1>2, <1>3, MovesOn

\* Nothing happens to the processes.
LEMMA NothingHappens ==
  ASSUME ProcInv, UNCHANGED proc
  PROVE  Progress(Shell) /\ NobodyBinds
BY DEF ProcInv, Progress, Follows, NobodyBinds, Server, IsServer

\* What steps that start no process have in common.
Quiet(c) ==
  /\ ProcInv' /\ ChildInv'
  /\ Progress(c) /\ NobodyBinds

LEMMA ShellProgress ==
  ASSUME NEW c, Progress(Shell)
  PROVE  Progress(c)
BY DEF Progress, Follows

LEMMA QuietGoto ==
  ASSUME ProcInv, ChildInv, NEW c \in Commands, NEW pc \in Pcs, Goto(c, pc),
         UNCHANGED <<proc, started, faults, exited, irregular>>,
         FileOK(pidfile'),
         pc \in NamingPcs => cmd[c].file \in FileEntry(started),
         pc \in ChildPcs => cmd[c].pc \in ChildPcs
  PROVE  Quiet(c)
<1>1. Progress(Shell) /\ NobodyBinds
  BY NothingHappens
<1>2. ProcInv'
  BY <1>1, ProgressInv DEF ProcInv
<1> QED BY <1>1, <1>2, GotoInv, ShellProgress DEF Quiet

\* A process is named and remembered.
LEMMA QuietName ==
  ASSUME ProcInv, ChildInv, NEW c \in Commands, NEW pc \in Pcs \ ChildPcs,
         NEW file \in FileEntry(started),
         cmd' = [cmd EXCEPT ![c].pc = pc, ![c].file = file],
         UNCHANGED <<proc, started, faults, exited, irregular, pidfile>>
  PROVE  Quiet(c)
<1>1. Progress(Shell) /\ NobodyBinds
  BY NothingHappens
<1>2. ProcInv'
  BY <1>1, ProgressInv DEF ProcInv
<1> DEFINE old == cmd[c]
           new == [old EXCEPT !.pc = pc, !.file = file]
<1>3. old \in Invocation(started) /\ cmd' = [cmd EXCEPT ![c] = new]
  BY DEF ChildInv
<1>4. file \in FileEntry(started) \cup {None} /\ pc \in Pcs
  OBVIOUS
<1>5. new \in Invocation(started) /\ new.pc = pc /\ new.file = file
  BY <1>3, <1>4 DEF Invocation
<1> HIDE DEF new
<1>6. FileOK(pidfile')
  BY DEF ChildInv, FileOK
<1>7. ChildInv'
  BY <1>1, <1>3, <1>5, <1>6, MovesOn
<1> QED BY <1>1, <1>2, <1>7, ShellProgress DEF Quiet

LEMMA QuietEnd ==
  ASSUME ProcInv, ChildInv, NEW c \in Commands, End(c),
         UNCHANGED <<started, faults, exited, irregular>>,
         FileOK(pidfile')
  PROVE  Quiet(c)
<1>1. ChildInv' /\ Progress(c) /\ NobodyBinds
  BY EndInv
<1>2. ProcInv'
  BY <1>1, ProgressInv DEF ProcInv
<1> QED BY <1>1, <1>2 DEF Quiet

\* A signal to whoever has a number.
LEMMA QuietStrike ==
  ASSUME ProcInv, ChildInv, NEW c \in Commands, NEW pc \in Pcs \ ChildPcs,
         Goto(c, pc), cmd[c].file \in FileEntry(started),
         NEW process \in {Dead(cmd[c].file.pid), Terminated(cmd[c].file.pid)},
         NEW decided, Strike(c, process, decided),
         UNCHANGED <<pidfile, started, faults, exited, irregular>>
  PROVE  Quiet(c)
<1> DEFINE p == cmd[c].file.pid
<1>0. p \in Pids
  BY DEF FileEntry
<1>1. /\ process \in GoodProc(started)
      /\ Follows(proc[p], process, Shell)
      /\ process.kind = "server" /\ process.at = "serving" => Server(p, "serving")
  BY <1>0, DeadFollows, TerminatedFollows
<1>2. proc' = [proc EXCEPT ![p] = process]
  BY DEF Strike
<1>3. Progress(Shell)
  BY <1>0, <1>1, <1>2, OneChanges
<1>4. NobodyBinds
  BY <1>1, <1>2 DEF NobodyBinds, Server, IsServer, ProcInv
<1>5. ProcInv'
  BY <1>3, <1>4, ProgressInv DEF ProcInv
<1>6. FileOK(pidfile')
  BY DEF ChildInv, FileOK
<1> QED BY <1>2, <1>3, <1>4, <1>5, <1>6, GotoInv, ShellProgress DEF Quiet

\* A check before a signal, or what follows where the process is not there.
LEMMA QuietCheck ==
  ASSUME ProcInv, ChildInv, NEW c \in Commands, At(c, "term") \/ At(c, "kill"),
         NEW next \in {"signal", "force"}, VerifiedSignal(c, next),
         UNCHANGED <<pidfile, started, faults, exited, irregular>>
  PROVE  Quiet(c)
<1>1. cmd[c].file \in FileEntry(started) /\ FileOK(pidfile')
  BY DEF ChildInv, At, NamingPcs, FileOK
<1>2. {next, "remove"} \subseteq Pcs \ ChildPcs
  BY DEF Pcs, ChildPcs
<1>3. \/ Goto(c, next) /\ UNCHANGED proc
      \/ Goto(c, "remove") /\ UNCHANGED proc
      \/ End(c)
  BY DEF VerifiedSignal
<1> QED BY <1>1, <1>2, <1>3, QuietGoto, QuietEnd

\* The signal itself, or what follows where nobody has the number.
LEMMA QuietSend ==
  ASSUME ProcInv, ChildInv, NEW c \in Commands, At(c, "signal") \/ At(c, "force"),
         NEW process \in {Dead(cmd[c].file.pid), Terminated(cmd[c].file.pid)},
         NEW next \in {"await", "remove"}, Send(c, process, next),
         UNCHANGED <<pidfile, started, faults, exited, irregular>>
  PROVE  Quiet(c)
<1>1. cmd[c].file \in FileEntry(started) /\ FileOK(pidfile')
  BY DEF ChildInv, At, NamingPcs, FileOK
<1>2. next \in Pcs \ ChildPcs
  BY DEF Pcs, ChildPcs
<1>3. CASE proc[cmd[c].file.pid] = NoProcess
  <2>1. (Goto(c, next) /\ UNCHANGED proc) \/ End(c)
    BY <1>3 DEF Send
  <2> QED BY <1>1, <1>2, <2>1, QuietGoto, QuietEnd
<1>4. CASE proc[cmd[c].file.pid] # NoProcess
  <2>1. Strike(c, process, signals.aimed[c]) /\ Goto(c, next)
    BY <1>4 DEF Send
  <2> QED BY <1>1, <1>2, <2>1, QuietStrike
<1> QED BY <1>3, <1>4

\* Every step of an invocation but a launch.
LEMMA StepQuiet ==
  ASSUME ProcInv, ChildInv, NEW c \in Commands, Step(c),
         ~(At(c, "spawn") /\ started' # started)
  PROVE  Quiet(c)
<1> USE DEF At
<1>1. /\ cmd[c] \in Invocation(started) /\ cmd[c].task \in Tasks
      /\ FileOK(pidfile) /\ FileOK(<<>>)
      /\ cmd[c].pc \in NamingPcs =>
           cmd[c].file \in FileEntry(started) /\ FileOK(<<cmd[c].file>>)
      /\ pidfile # <<>> => pidfile[1] \in FileEntry(started)
  BY DEF ChildInv, Invocation, FileOK
<1>2. {"check", "stale", "probe", "spawn", "discard", "stop", "silent",
       "adopt", "adoptWrite", "delay", "term", "signal", "await", "kill",
       "force", "remove", "refuse"} \subseteq Pcs \ ChildPcs
  BY DEF Pcs, ChildPcs
<1>3. {"wait", "confirm", "write", "giveup", "discard", "adopt", "adoptWrite",
       "delay", "term", "signal", "await", "kill", "force"} = NamingPcs
  BY DEF NamingPcs, ChildPcs
<1>4. {"wait", "confirm", "write", "giveup"} = ChildPcs /\ ChildPcs \subseteq Pcs
  BY DEF Pcs, ChildPcs
<1>5. CASE Check(c)
  BY <1>1, <1>2, <1>3, <1>4, <1>5, QuietGoto, QuietEnd DEF Check, Unchanged
<1>6. CASE Stale(c)
  BY <1>1, <1>2, <1>3, <1>4, <1>6, QuietGoto DEF Stale, Unchanged
<1>7. CASE Probe(c)
  BY <1>1, <1>2, <1>3, <1>4, <1>7, QuietGoto, QuietEnd DEF Probe, Unchanged
<1>8. CASE Spawn(c) \/ BecomeServer(c)
  <2>1. started \in Nat
    BY DEF ProcInv
  <2>2. End(c) /\ UNCHANGED <<started, faults, exited, pidfile, irregular>>
    BY <1>8, <2>1 DEF Spawn, BecomeServer, Enter
  <2> QED BY <1>1, <2>2, QuietEnd
<1>9. CASE Wait(c)
  BY <1>1, <1>2, <1>3, <1>4, <1>9, QuietGoto DEF Wait, Unchanged
<1>10. CASE Confirm(c)
  BY <1>1, <1>2, <1>3, <1>4, <1>10, QuietGoto DEF Confirm, Unchanged
<1>11. CASE WritePid(c)
  BY <1>1, <1>3, <1>11, QuietEnd DEF WritePid, Unchanged
<1>12. CASE GiveUp(c)
  <2> DEFINE file == cmd[c].file
  <2>1. file \in FileEntry(started)
    BY <1>1, <1>3, <1>12 DEF GiveUp
  <2>2. Strike(c, Terminated(file.pid), started) /\ Goto(c, "discard")
    BY <1>12 DEF GiveUp
  <2> QED BY <1>2, <1>12, <2>1, <2>2, QuietStrike DEF GiveUp
<1>13. CASE Discard(c)
  BY <1>1, <1>3, <1>13, QuietEnd DEF Discard, Unchanged
<1>14. CASE Stop(c)
  <2>1. CASE pidfile = <<>>
    BY <1>1, <1>2, <1>3, <1>4, <1>14, <2>1, QuietGoto DEF Stop, Unchanged
  <2>2. CASE pidfile # <<>> /\ pidfile[1].mark = NoMark
    BY <1>1, <1>14, <2>2, QuietEnd DEF Stop, Unchanged
  <2>3. CASE pidfile # <<>> /\ pidfile[1].mark # NoMark
    BY <1>1, <1>2, <1>14, <2>3, QuietName DEF Stop, Unchanged
  <2> QED BY <2>1, <2>2, <2>3
<1>15. CASE Silent(c)
  <2>1. CASE Serving = {}
    BY <1>1, <1>2, <1>3, <1>4, <1>15, <2>1, QuietGoto, QuietEnd
       DEF Silent, Stopped, Unchanged
  <2>2. CASE Serving # {} /\ ~cmd[c].adopting
    BY <1>1, <1>2, <1>3, <1>4, <1>15, <2>2, QuietGoto DEF Silent, Unchanged
  <2>3. CASE Serving # {} /\ cmd[c].adopting
    <3>1. PICK p \in Listeners :
            cmd' = [cmd EXCEPT ![c].pc = "adopt", ![c].file = Me(p)]
      BY <1>15, <2>3 DEF Silent
    <3>2. p \in Pids /\ IsServer(p)
      BY <3>1 DEF Listeners, Serving, Server
    <3>3. Me(p) \in FileEntry(started)
      BY <3>2, ServerFacts DEF Me, FileEntry
    <3> QED BY <1>2, <1>15, <2>3, <3>1, <3>3, QuietName DEF Silent, Unchanged
  <2> QED BY <2>1, <2>2, <2>3
<1>16. CASE Refuse(c)
  BY <1>1, <1>16, QuietEnd DEF Refuse, Unchanged
<1>17. CASE Adopt(c)
  BY <1>1, <1>2, <1>3, <1>4, <1>17, QuietGoto, QuietEnd DEF Adopt, Unchanged
<1>18. CASE AdoptWrite(c)
  BY <1>1, <1>2, <1>3, <1>4, <1>18, QuietGoto DEF AdoptWrite, Unchanged
<1>19. CASE Delay(c)
  BY <1>1, <1>2, <1>3, <1>4, <1>19, QuietGoto, QuietEnd DEF Delay, Unchanged
<1>20. CASE Term(c) \/ Kill(c)
  BY <1>20, QuietCheck DEF Term, Kill
<1>21. CASE Await(c)
  BY <1>1, <1>2, <1>3, <1>4, <1>21, QuietGoto DEF Await, Unchanged
<1>22. CASE SendTerm(c) \/ SendKill(c)
  BY <1>22, QuietSend DEF SendTerm, SendKill
<1>23. CASE Remove(c)
  BY <1>1, <1>2, <1>3, <1>4, <1>23, QuietGoto, QuietEnd
     DEF Remove, Stopped, Unchanged
<1> QED
  BY <1>5, <1>6, <1>7, <1>8, <1>9, <1>10, <1>11, <1>12, <1>13, <1>14, <1>15,
     <1>16, <1>17, <1>18, <1>19, <1>20, <1>21, <1>22, <1>23 DEF Step

\* One more process.
LEMMA EntriesGrow ==
  ASSUME NEW n \in Nat
  PROVE  /\ FileEntry(n) \subseteq FileEntry(n + 1)
         /\ Invocation(n) \subseteq Invocation(n + 1)
BY DEF FileEntry, Invocation

\* A process is started at a free number: what it means for the others.
LEMMA StartedInv ==
  ASSUME ProcInv, ChildInv, NEW p \in Pids, NEW new \in Servers \cup Others,
         new.mark = started + 1, new.kind = "server" => new.at = "starting",
         Enter(p, new), UNCHANGED <<faults, exited, pidfile>>,
         irregular' \in BOOLEAN,
         cmd' \in [Commands -> Invocation(started')],
         \A e \in Commands :
           \/ cmd'[e].pc = cmd[e].pc /\ cmd'[e].file = cmd[e].file
           \/ cmd'[e].pc \notin NamingPcs
           \/ cmd'[e].file \in FileEntry(started') /\ IsChild(e, cmd[e].file)'
  PROVE  ProcInv' /\ ChildInv'
<1>1. /\ ProcInv' /\ started' = started + 1 /\ proc[p] = NoProcess /\ started \in Nat
      /\ \A q \in Pids \ {p} : proc'[q] = proc[q]
  BY Entered DEF ProcInv
<1>2. FileEntry(started) \subseteq FileEntry(started')
  BY <1>1, EntriesGrow
<1>3. FileOK(pidfile)'
  BY <1>2 DEF ChildInv, FileOK
<1>4. ASSUME NEW e \in Commands
      PROVE  /\ cmd'[e].pc \in NamingPcs => cmd'[e].file \in FileEntry(started')
             /\ cmd'[e].pc \in ChildPcs => IsChild(e, cmd[e].file)'
  <2>1. CASE cmd'[e].pc = cmd[e].pc /\ cmd'[e].file = cmd[e].file
    <3>1. ASSUME cmd[e].pc \in ChildPcs PROVE IsChild(e, cmd[e].file)'
      <4>1. IsChild(e, cmd[e].file) /\ cmd[e].file \in FileEntry(started)
        BY <3>1 DEF ChildInv, NamingPcs
      <4>2. cmd[e].file.pid \in Pids \ {p}
        BY <1>1, <4>1 DEF FileEntry, IsChild, IsServer, NoProcess
      <4> QED BY <1>1, <2>1, <4>1, <4>2 DEF IsChild, IsServer
    <3> QED BY <1>2, <2>1, <3>1 DEF ChildInv
  <2>2. CASE cmd'[e].pc \notin NamingPcs
    BY <2>2 DEF NamingPcs
  <2>3. CASE cmd'[e].file \in FileEntry(started') /\ IsChild(e, cmd[e].file)'
    BY <2>3
  <2> QED BY <2>1, <2>2, <2>3
<1> QED BY <1>1, <1>3, <1>4 DEF ChildInv

\* The record of a server that is launched.
LEMMA LaunchedServer ==
  ASSUME NEW by \in Commands \cup {Shell}, started \in Nat, started < MaxStarts
  PROVE  /\ Launched(by) \in Servers
         /\ Launched(by).mark = started + 1 /\ Launched(by).at = "starting"
         /\ Launched(by).by = by /\ Launched(by).kind = "server"
BY ProcessAssumption DEF Launched, Servers, Ats

\* Invocations that an event elsewhere takes out of their calm.
LEMMA CalmLost ==
  ASSUME ChildInv, NEW n \in {started, started + 1}, started \in Nat,
         NEW d \in Commands, NEW b \in BOOLEAN
  PROVE  /\ [cmd[d] EXCEPT !.calm = b] \in Invocation(n)
         /\ [cmd[d] EXCEPT !.calm = b].pc = cmd[d].pc
         /\ [cmd[d] EXCEPT !.calm = b].file = cmd[d].file
<1> DEFINE old == cmd[d]
           new == [old EXCEPT !.calm = b]
<1>1. old \in Invocation(n)
  BY EntriesGrow DEF ChildInv
<1>2. new \in Invocation(n) /\ new.pc = old.pc /\ new.file = old.file
  BY <1>1 DEF Invocation
<1> QED BY <1>2

\* Supervisor::start launches its child.
LEMMA SpawnLaunches ==
  ASSUME ProcInv, ChildInv, NEW c \in Commands, Spawn(c), started' # started
  PROVE  /\ ProcInv' /\ ChildInv'
         /\ Serving = {} /\ UNCHANGED pidfile
         /\ \A d \in Commands \ {c} : cmd'[d] = cmd[d]
         /\ cmd'[c].pc = "wait"
         /\ LET p == cmd'[c].file.pid
            IN  /\ proc'[p].mark = cmd'[c].file.mark
                /\ \A q \in Pids \ {p} : proc'[q] = proc[q]
                /\ cmd'[c].file = [pid |-> p, mark |-> proc'[p].mark]
<1>1. PICK p \in Free :
        /\ Enter(p, Launched(c))
        /\ cmd' = [cmd EXCEPT ![c].pc = "wait",
                              ![c].file = [pid |-> p, mark |-> started']]
        /\ UNCHANGED <<faults, exited>>
  BY DEF Spawn
<1>2. /\ Serving = {} /\ UNCHANGED <<pidfile, irregular>> /\ At(c, "spawn")
  BY DEF Spawn
<1>3. /\ p \in Pids /\ started \in Nat /\ started < MaxStarts /\ started' = started + 1
      /\ started' \in 1 .. MaxStarts
  BY <1>1, ProcessAssumption DEF Enter, Free, ProcInv
<1>4. /\ Launched(c) \in Servers /\ Launched(c).mark = started + 1
      /\ Launched(c).at = "starting" /\ Launched(c).kind = "server"
      /\ Launched(c).by = c
  BY <1>3, LaunchedServer
<1>5. /\ proc'[p] = Launched(c) /\ \A q \in Pids \ {p} : proc'[q] = proc[q]
  BY <1>1, <1>3, <1>4, Entered
<1> DEFINE file == [pid |-> p, mark |-> started']
           old == cmd[c]
           new == [old EXCEPT !.pc = "wait", !.file = file]
<1>6. file \in FileEntry(started') /\ file.pid = p /\ file.mark = started'
  BY <1>3 DEF FileEntry
<1>7. old \in Invocation(started') /\ cmd' = [cmd EXCEPT ![c] = new]
  BY <1>1, <1>3, EntriesGrow DEF ChildInv
<1> HIDE DEF file
<1>8. /\ new \in Invocation(started') /\ new.pc = "wait" /\ new.file = file
  <2>1. "wait" \in Pcs /\ file \in FileEntry(started') \cup {None}
    BY <1>6 DEF Pcs
  <2> QED BY <1>7, <2>1 DEF Invocation
<1> HIDE DEF new
<1>9. /\ cmd' \in [Commands -> Invocation(started')]
      /\ cmd'[c] = new /\ \A d \in Commands \ {c} : cmd'[d] = cmd[d]
  BY <1>3, <1>7, <1>8, EntriesGrow DEF ChildInv
<1>10. IsChild(c, cmd[c].file)'
  BY <1>3, <1>4, <1>5, <1>6, <1>8, <1>9 DEF IsChild, IsServer
<1>11. irregular' \in BOOLEAN
  BY <1>2 DEF ChildInv
<1>12. ProcInv' /\ ChildInv'
  BY <1>1, <1>2, <1>3, <1>4, <1>6, <1>8, <1>9, <1>10, <1>11, StartedInv
<1>13. cmd'[c].file = [pid |-> p, mark |-> proc'[p].mark]
  BY <1>3, <1>4, <1>5, <1>8, <1>9 DEF file
<1> QED BY <1>2, <1>3, <1>4, <1>5, <1>6, <1>8, <1>9, <1>12, <1>13

\* A server is started by somebody else than an invocation that waits for it.
LEMMA ForeignLaunch ==
  ASSUME ProcInv, ChildInv, NEW p \in Pids, Enter(p, Launched(Shell)),
         UNCHANGED <<faults, exited, pidfile>>, irregular' \in BOOLEAN,
         NEW ended \in SUBSET Commands,
         cmd' = [d \in Commands |-> IF d \in ended THEN Idle
                                    ELSE [cmd[d] EXCEPT !.calm = FALSE]]
  PROVE  ProcInv' /\ ChildInv'
<1>1. /\ started \in Nat /\ started < MaxStarts /\ started' = started + 1
  BY ProcessAssumption DEF Enter, ProcInv
<1>2. /\ Launched(Shell) \in Servers /\ Launched(Shell).mark = started + 1
      /\ Launched(Shell).at = "starting"
  BY <1>1, LaunchedServer
<1>3. Idle \in Invocation(started') /\ Idle.pc \notin NamingPcs
  BY DEF Idle, Invocation, Tasks, Pcs, NamingPcs, ChildPcs
<1>4. ASSUME NEW d \in Commands
      PROVE  /\ cmd'[d] \in Invocation(started')
             /\ \/ cmd'[d].pc = cmd[d].pc /\ cmd'[d].file = cmd[d].file
                \/ cmd'[d].pc \notin NamingPcs
  <2>1. CASE d \in ended
    BY <1>3, <2>1
  <2>2. CASE d \notin ended
    <3>1. cmd'[d] = [cmd[d] EXCEPT !.calm = FALSE]
      BY <2>2
    <3> QED BY <1>1, <3>1, CalmLost
  <2> QED BY <2>1, <2>2
<1>5. cmd' \in [Commands -> Invocation(started')]
  BY <1>4
<1> QED BY <1>2, <1>4, <1>5, StartedInv

\* An invocation begins.
LEMMA BeginFields ==
  ASSUME ProcInv, ChildInv, NEW c \in Commands, NEW task \in Tasks,
         NEW adopting \in BOOLEAN, NEW pc \in {"check", "stop", "adopt"},
         NEW entry \in FileEntry(started) \cup {None},
         pc = "adopt" => entry \in FileEntry(started),
         Begin(c, task, adopting, pc, entry)
  PROVE  /\ ProcInv' /\ ChildInv'
         /\ UNCHANGED <<proc, pidfile>>
         /\ cmd'[c].pc = pc /\ cmd'[c].file = entry
         /\ irregular' = (irregular \/
              ~(/\ \A d \in Commands : At(d, "idle")
                /\ \A p \in Pids : ~Server(p, "starting")))
         /\ \A d \in Commands \ {c} :
              cmd'[d].pc = cmd[d].pc /\ cmd'[d].file = cmd[d].file
<1> DEFINE alone == /\ \A d \in Commands : At(d, "idle")
                    /\ \A p \in Pids : ~Server(p, "starting")
           mine == [task |-> task, pc |-> pc, adopting |-> adopting,
                    file |-> entry, calm |-> alone]
<1>1. /\ cmd' = [d \in Commands |-> IF d = c THEN mine
                                    ELSE [cmd[d] EXCEPT !.calm = FALSE]]
      /\ irregular' = (irregular \/ ~alone)
      /\ UNCHANGED <<processVars, pidfile>>
  BY DEF Begin
<1>2. /\ mine \in Invocation(started) /\ mine.pc = pc /\ mine.file = entry
  <2>1. pc \in Pcs /\ alone \in BOOLEAN
    BY DEF Pcs
  <2> HIDE DEF alone
  <2> QED BY <2>1 DEF Invocation
<1> HIDE DEF mine, alone
<1>3. ASSUME NEW d \in Commands, d # c
      PROVE  /\ cmd'[d] \in Invocation(started)
             /\ cmd'[d].pc = cmd[d].pc /\ cmd'[d].file = cmd[d].file
  <2>1. cmd'[d] = [cmd[d] EXCEPT !.calm = FALSE]
    BY <1>1, <1>3
  <2>2. started \in Nat /\ FALSE \in BOOLEAN
    BY DEF ProcInv
  <2> QED BY <2>1, <2>2, CalmLost
<1>4. cmd'[c] = mine
  BY <1>1
<1>5. cmd' \in [Commands -> Invocation(started)]
  BY <1>1, <1>2, <1>3, <1>4
<1>6. ProcInv'
  BY <1>1 DEF ProcInv, processVars, Serving, Server, IsServer
<1>7. irregular' \in BOOLEAN /\ FileOK(pidfile)'
  BY <1>1 DEF ChildInv, FileOK, alone, processVars
<1>8. ASSUME NEW d \in Commands
      PROVE  /\ cmd'[d].pc \in NamingPcs => cmd'[d].file \in FileEntry(started)
             /\ cmd'[d].pc \in ChildPcs => IsChild(d, cmd[d].file)'
  <2>1. CASE d = c
    BY <1>2, <1>4, <2>1 DEF NamingPcs, ChildPcs
  <2>2. CASE d # c
    BY <1>1, <1>3, <2>2 DEF ChildInv, IsChild, IsServer, processVars
  <2> QED BY <2>1, <2>2
<1>9. ChildInv'
  BY <1>1, <1>5, <1>7, <1>8 DEF ChildInv, processVars
<1> QED BY <1>1, <1>2, <1>3, <1>4, <1>6, <1>9 DEF processVars, alone

\* What the servers do by themselves, and the numbers others get.
LEMMA RunInv ==
  ASSUME ProcInv, ChildInv, NEW p \in Pids, Run(p),
         UNCHANGED <<pidfile, cmd, irregular>>
  PROVE  /\ ProcInv' /\ ChildInv'
         /\ Progress(Shell) \/ (Reuse(p) /\ started' = started + 1)
<1>1. CASE ServerStep(p)
  <2>1. /\ Progress(Shell) /\ started' = started
        /\ NobodyBinds \/ (Serving = {} /\ \A q \in Pids \ {p} : proc'[q] = proc[q])
        /\ faults' \in 0 .. MaxFaults /\ ~exited'.busy /\ ~exited'.task
    BY <1>1, ServerStepFollows
  <2>2. ProcInv'
    BY <2>1, ProgressInv
  <2>3. ASSUME NEW e \in Commands, cmd[e].pc \in ChildPcs
        PROVE  IsChild(e, cmd[e].file)'
    <3>1. PICK file \in FileEntry(started) : file = cmd[e].file
      BY <2>3 DEF ChildInv, NamingPcs
    <3>2. IsChild(e, file) => IsChild(e, file)'
      BY <2>1, ChildKept, ProcessAssumption
    <3> QED BY <2>3, <3>1, <3>2 DEF ChildInv, IsChild, IsServer
  <2>4. ChildInv'
    BY <2>1, <2>3 DEF ChildInv, FileOK
  <2> QED BY <2>1, <2>2, <2>4
<1>2. CASE Reuse(p)
  <2> DEFINE other == [kind |-> "other", mark |-> started + 1]
  <2>1. /\ started \in Nat /\ started < MaxStarts /\ started' = started + 1
        /\ Enter(p, other) /\ UNCHANGED <<faults, exited>>
    BY <1>2, ProcessAssumption DEF Reuse, Enter, ProcInv
  <2>2. other \in Others /\ other.mark = started + 1 /\ other.kind # "server"
    BY <2>1, ProcessAssumption DEF Others
  <2>3. cmd' \in [Commands -> Invocation(started')]
    BY <2>1, EntriesGrow DEF ChildInv
  <2>4. irregular' \in BOOLEAN
    BY DEF ChildInv
  <2> HIDE DEF other
  <2>5. ProcInv' /\ ChildInv'
    BY <2>1, <2>2, <2>3, <2>4, StartedInv
  <2> QED BY <1>2, <2>1, <2>5
<1> QED BY <1>1, <1>2 DEF Run, ServerStep

\* Every step keeps the two invariants.
LEMMA SupervisorNext ==
  ProcInv /\ ChildInv /\ [Next]_vars => ProcInv' /\ ChildInv'
<1> SUFFICES ASSUME ProcInv, ChildInv, [Next]_vars
             PROVE  ProcInv' /\ ChildInv'
  OBVIOUS
<1>1. ASSUME NEW c \in Commands, Invoke(c) PROVE ProcInv' /\ ChildInv'
  <2>1. {"start", "status", "run", "stop", "restart"} \subseteq Tasks
    BY DEF Tasks
  <2> QED BY <1>1, <2>1, BeginFields DEF Invoke
<1>2. ASSUME NEW c \in Commands, Dashboard(c) PROVE ProcInv' /\ ChildInv'
  <2>1. PICK p \in Serving, task \in {"stop", "restart"} :
          Begin(c, task, FALSE, "adopt", Me(p))
    BY <1>2 DEF Dashboard
  <2>2. Me(p) \in FileEntry(started) /\ task \in Tasks
    BY ServerFacts DEF Serving, Server, Me, FileEntry, Tasks
  <2> QED BY <2>1, <2>2, BeginFields
<1>3. ASSUME NEW c \in Commands, Step(c) PROVE ProcInv' /\ ChildInv'
  <2>1. CASE ~(At(c, "spawn") /\ started' # started)
    BY <1>3, <2>1, StepQuiet DEF Quiet
  <2>2. CASE At(c, "spawn") /\ started' # started
    <3>1. Spawn(c) \/ BecomeServer(c)
      BY <1>3, <2>2 DEF Step, At, Check, Stale, Probe, Wait, Confirm, WritePid,
         GiveUp, Discard, Stop, Silent, Refuse, Adopt, AdoptWrite, Delay, Term,
         SendTerm, Await, Kill, SendKill, Remove
    <3>2. CASE Spawn(c)
      BY <2>2, <3>2, SpawnLaunches
    <3>3. CASE BecomeServer(c)
      <4>1. PICK p \in Free : Enter(p, Launched(Shell))
        BY <3>3 DEF BecomeServer
      <4>2. /\ cmd' = [d \in Commands |-> IF d \in {c} THEN Idle
                                          ELSE [cmd[d] EXCEPT !.calm = FALSE]]
            /\ UNCHANGED <<faults, exited, pidfile, irregular>>
        BY <3>3 DEF BecomeServer
      <4>3. irregular' \in BOOLEAN /\ p \in Pids /\ {c} \in SUBSET Commands
        BY <4>2 DEF ChildInv, Free
      <4> QED BY <4>1, <4>2, <4>3, ForeignLaunch
    <3> QED BY <3>1, <3>2, <3>3
  <2> QED BY <2>1, <2>2
<1>4. ASSUME NEW p \in Pids, LaunchDirectly(p) PROVE ProcInv' /\ ChildInv'
  <2> DEFINE ended == {}
  <2>1. /\ Enter(p, Launched(Shell))
        /\ cmd' = [d \in Commands |-> IF d \in ended THEN Idle
                                      ELSE [cmd[d] EXCEPT !.calm = FALSE]]
        /\ irregular' \in BOOLEAN /\ ended \in SUBSET Commands
        /\ UNCHANGED <<pidfile, faults, exited>>
    BY <1>4 DEF LaunchDirectly
  <2> HIDE DEF ended
  <2> QED BY <2>1, ForeignLaunch
<1>5. ASSUME NEW p \in Pids, Run(p), UNCHANGED <<pidfile, cmd, irregular>>
      PROVE  ProcInv' /\ ChildInv'
  BY <1>5, RunInv
<1>6. ASSUME UNCHANGED vars PROVE ProcInv' /\ ChildInv'
  BY <1>6 DEF vars, processVars, ProcInv, ChildInv, FileOK, IsChild, IsServer,
     Serving, Server
<1> QED BY <1>1, <1>2, <1>3, <1>4, <1>5, <1>6 DEF Next

\* Where Goto and End lead, and what they leave to the others.
LEMMA Leads ==
  ASSUME ChildInv, NEW c \in Commands
  PROVE  /\ \A pc \in Pcs : Goto(c, pc) =>
              /\ cmd'[c].pc = pc /\ cmd'[c].file = cmd[c].file
              /\ \A d \in Commands \ {c} : cmd'[d] = cmd[d]
         /\ End(c) => /\ cmd'[c].pc = "idle"
                      /\ \A d \in Commands \ {c} : cmd'[d] = cmd[d]
BY DEF ChildInv, Goto, End, Idle, Invocation

LEMMA SupervisorInit == Init => ProcInv /\ ChildInv
<1> SUFFICES ASSUME Init PROVE ProcInv /\ ChildInv
  OBVIOUS
<1>1. proc \in [Pids -> GoodProc(started)]
  BY DEF Init, GoodProc
<1>2. Serving = {}
  BY DEF Init, Serving, Server, IsServer, NoProcess
<1>3. ProcInv
  BY <1>1, <1>2, ProcessAssumption DEF Init, ProcInv
<1>4. FileOK(pidfile)
  BY DEF Init, FileOK, FileEntry
<1>5. Idle \in Invocation(started) /\ Idle.pc \notin NamingPcs
  BY DEF Idle, Invocation, Tasks, Pcs, NamingPcs, ChildPcs
<1>6. ChildInv
  BY <1>4, <1>5 DEF Init, ChildInv, NamingPcs
<1> QED BY <1>3, <1>6

-----------------------------------------------------------------------------
(* The theorems that hold however invocations overlap.                     *)

\* The processes and the invocations' children are always as the invariants say.
THEOREM SupervisorInvariant == Spec => [](ProcInv /\ ChildInv)
BY SupervisorInit, SupervisorNext, PTL DEF Spec

\* Whoever has the number of a process that is about to be signalled.
Held(c) ==
  LET file == cmd[c].file
  IN  /\ signals.aimed[c] <= started
      /\ Alive(file.pid) =>
           proc[file.pid].mark = file.mark \/ proc[file.pid].mark > signals.aimed[c]

Aiming(c) == cmd[c].pc \in {"signal", "force"}

SignalInv ==
  /\ signals \in [astray : BOOLEAN, careless : {FALSE}, aimed : [Commands -> Nat]]
  /\ \A c \in Commands : Aiming(c) => Held(c)

\* A number is kept, lost, or given to a process that is started.
Inherited ==
  /\ started <= started'
  /\ \A p \in Pids :
       Alive(p)' => \/ Alive(p) /\ proc'[p].mark = proc[p].mark
                    \/ proc'[p].mark > started

LEMMA ProgressInherits ==
  ASSUME ProcInv, NEW c, Progress(c), started' = started
  PROVE  Inherited
<1>1. \A p \in Pids : Follows(proc[p], proc'[p], c)
  BY DEF Progress
<1>2. ASSUME NEW p \in Pids, Alive(p)' PROVE Alive(p) /\ proc'[p].mark = proc[p].mark
  BY <1>1, <1>2 DEF Follows, Alive, Corpse, Server, IsServer, NoProcess
<1> QED BY <1>2 DEF Inherited, ProcInv

LEMMA EntryInherits ==
  ASSUME ProcInv, NEW p \in Pids, NEW new, new.mark = started + 1, Enter(p, new)
  PROVE  Inherited
<1>1. /\ started' = started + 1 /\ started \in Nat
      /\ \A q \in Pids \ {p} : proc'[q] = proc[q]
      /\ proc'[p] = new
  BY DEF Enter, ProcInv
<1> QED BY <1>1 DEF Inherited, Alive, Corpse, Server, IsServer

\* What an invocation's step means for the signals of itself and the others.
LEMMA StepAims ==
  ASSUME ProcInv, ChildInv, NEW d \in Commands, Step(d)
  PROVE  /\ \A c \in Commands \ {d} :
              cmd'[c].pc = cmd[c].pc /\ cmd'[c].file = cmd[c].file
         /\ \/ ~Aiming(d)'
            \/ /\ Owns(cmd[d].file) /\ cmd'[d].file = cmd[d].file
               /\ Aim(d) /\ UNCHANGED <<proc, started>>
         /\ \/ UNCHANGED signals
            \/ Aim(d)
            \/ GiveUp(d)
            \/ \E process, next : Aiming(d) /\ Send(d, process, next)
<1>0. /\ Pcs \ {"signal", "force"} = {"idle", "check", "stale", "probe", "spawn",
           "wait", "confirm", "write", "giveup", "discard", "stop", "silent", "adopt",
           "adoptWrite", "delay", "term", "await", "kill", "remove", "refuse"}
      /\ {"signal", "force"} \subseteq Pcs
      /\ Idle.pc = "idle"
      /\ started \in Nat
  BY DEF Pcs, Idle, ProcInv
<1> DEFINE Bystanders(x) == \A c \in Commands \ {d} :
                              cmd'[c].pc = cmd[c].pc /\ cmd'[c].file = cmd[c].file
<1>1. ASSUME NEW pc \in Pcs \ {"signal", "force"}, Goto(d, pc)
      PROVE  Bystanders(0) /\ ~Aiming(d)'
  BY <1>1, Leads DEF Aiming
<1>2. ASSUME End(d) PROVE Bystanders(0) /\ ~Aiming(d)'
  BY <1>2, Leads DEF Aiming
<1>3. ASSUME NEW pc \in Pcs \ {"signal", "force"}, NEW file,
             cmd' = [cmd EXCEPT ![d].pc = pc, ![d].file = file]
      PROVE  Bystanders(0) /\ ~Aiming(d)'
  <2>1. cmd'[d].pc = pc
    BY <1>3 DEF ChildInv, Invocation
  <2> QED BY <1>3, <2>1 DEF ChildInv, Aiming
<1> HIDE DEF Bystanders
<1>4. CASE Check(d) \/ Stale(d) \/ Probe(d) \/ Wait(d) \/ Confirm(d) \/ WritePid(d)
  <2>1. Bystanders(0) /\ ~Aiming(d)'
    BY <1>0, <1>1, <1>2, <1>4 DEF Check, Stale, Probe, Wait, Confirm, WritePid
  <2> QED BY <1>4, <2>1
    DEF Check, Stale, Probe, Wait, Confirm, WritePid, Unchanged, Bystanders
<1>5. CASE Discard(d) \/ Refuse(d) \/ Adopt(d) \/ AdoptWrite(d) \/ Delay(d)
  <2>1. Bystanders(0) /\ ~Aiming(d)'
    BY <1>0, <1>1, <1>2, <1>5 DEF Discard, Refuse, Adopt, AdoptWrite, Delay
  <2> QED BY <1>5, <2>1
    DEF Discard, Refuse, Adopt, AdoptWrite, Delay, Unchanged, Bystanders
<1>6. CASE Await(d) \/ Remove(d)
  <2>1. Bystanders(0) /\ ~Aiming(d)'
    BY <1>0, <1>1, <1>2, <1>6 DEF Await, Remove, Stopped
  <2> QED BY <1>6, <2>1 DEF Await, Remove, Unchanged, Bystanders
<1>7. CASE Stop(d) \/ Silent(d)
  <2>1. Bystanders(0) /\ ~Aiming(d)'
    BY <1>0, <1>1, <1>2, <1>3, <1>7 DEF Stop, Silent, Stopped
  <2> QED BY <1>7, <2>1 DEF Stop, Silent, Unchanged, Bystanders
<1>8. CASE Spawn(d)
  <2>1. CASE End(d)
    BY <1>2, <1>8, <2>1 DEF Spawn, Bystanders
  <2>2. CASE ~End(d)
    <3>1. PICK p \in Free :
            cmd' = [cmd EXCEPT ![d].pc = "wait", ![d].file = [pid |-> p, mark |-> started']]
      BY <1>8, <2>2 DEF Spawn
    <3>2. Bystanders(0) /\ ~Aiming(d)'
      BY <1>0, <1>3, <3>1
    <3> QED BY <1>8, <3>2 DEF Spawn, Bystanders
  <2> QED BY <2>1, <2>2
<1>9. CASE BecomeServer(d)
  <2>1. /\ cmd'[d] = Idle /\ UNCHANGED signals
        /\ \A c \in Commands \ {d} : cmd'[c] = [cmd[c] EXCEPT !.calm = FALSE]
    BY <1>9 DEF BecomeServer
  <2>2. \A c \in Commands \ {d} : cmd'[c].pc = cmd[c].pc /\ cmd'[c].file = cmd[c].file
    BY <1>0, <2>1, CalmLost
  <2> QED BY <1>0, <2>1, <2>2 DEF Aiming
<1>10. CASE GiveUp(d)
  <2>1. Bystanders(0) /\ ~Aiming(d)'
    BY <1>0, <1>1, <1>10 DEF GiveUp
  <2> QED BY <1>10, <2>1 DEF Bystanders
<1>11. CASE Term(d) \/ Kill(d)
  <2>1. CASE Owns(cmd[d].file)
    <3>1. PICK next \in {"signal", "force"} : Goto(d, next)
      BY <1>11, <2>1 DEF Term, Kill, VerifiedSignal
    <3>2. /\ cmd'[d].file = cmd[d].file
          /\ \A c \in Commands \ {d} : cmd'[c] = cmd[c]
      BY <1>0, <3>1, Leads
    <3> QED BY <1>11, <2>1, <3>2 DEF Term, Kill, VerifiedSignal
  <2>2. CASE ~Owns(cmd[d].file)
    <3>1. Bystanders(0) /\ ~Aiming(d)'
      BY <1>0, <1>1, <1>2, <1>11, <2>2 DEF Term, Kill, VerifiedSignal
    <3> QED BY <1>11, <2>2, <3>1 DEF Term, Kill, VerifiedSignal, Bystanders
  <2> QED BY <2>1, <2>2
<1>12. CASE SendTerm(d) \/ SendKill(d)
  <2>1. Bystanders(0) /\ ~Aiming(d)'
    BY <1>0, <1>1, <1>2, <1>12 DEF SendTerm, SendKill, Send
  <2> QED BY <1>12, <2>1 DEF SendTerm, SendKill, Bystanders, Aiming, At
<1> QED
  BY <1>4, <1>5, <1>6, <1>7, <1>8, <1>9, <1>10, <1>11, <1>12 DEF Step

\* What is known of a number stays known of who inherits it.
LEMMA HeldKept ==
  ASSUME ProcInv, ChildInv, SignalInv, ProcInv', Inherited,
         NEW c \in Commands, Aiming(c),
         cmd'[c].file = cmd[c].file, signals'.aimed[c] = signals.aimed[c]
  PROVE  Held(c)'
<1> DEFINE file == cmd[c].file
<1>1. /\ file.pid \in Pids /\ Held(c)
      /\ started \in Nat /\ started' \in Nat /\ started <= started'
      /\ signals.aimed[c] \in Nat
  BY DEF ChildInv, Aiming, NamingPcs, FileEntry, SignalInv, ProcInv, Inherited
<1>2. Alive(file.pid)' => proc'[file.pid].mark \in Nat
  <2>1. started' \in 0 .. MaxStarts /\ proc'[file.pid] \in GoodProc(started')
    BY <1>1 DEF ProcInv
  <2> QED BY <2>1, <1>1, Kinds DEF Alive
<1>3. Alive(file.pid)' => \/ Alive(file.pid) /\ proc'[file.pid].mark = proc[file.pid].mark
                          \/ proc'[file.pid].mark > started
  BY <1>1 DEF Inherited
<1> QED BY <1>1, <1>2, <1>3 DEF Held

\* A step without a signal, after which nobody else is about to send one.
LEMMA NoSignal ==
  ASSUME ProcInv, ChildInv, SignalInv, ProcInv', Inherited, UNCHANGED signals,
         \A c \in Commands : Aiming(c)' => Aiming(c) /\ cmd'[c].file = cmd[c].file
  PROVE  SignalInv'
BY HeldKept DEF SignalInv

\* A signal that is not careless, and whom else it leaves alone.
LEMMA Struck ==
  ASSUME SignalInv, NEW d \in Commands, NEW process, NEW decided,
         Strike(d, process, decided),
         LET p == cmd[d].file.pid
         IN  ~(Alive(p) /\ proc[p].mark # cmd[d].file.mark /\ proc[p].mark <= decided)
  PROVE  /\ signals' \in [astray : BOOLEAN, careless : {FALSE}, aimed : [Commands -> Nat]]
         /\ \A c \in Commands \ {d} : signals'.aimed[c] = signals.aimed[c]
<1> DEFINE aimed == [signals.aimed EXCEPT ![d] = 0]
<1>1. aimed \in [Commands -> Nat] /\ \A c \in Commands \ {d} : aimed[c] = signals.aimed[c]
  BY DEF SignalInv
<1>2. signals'.astray \in BOOLEAN /\ signals'.careless = FALSE /\ signals'.aimed = aimed
  BY DEF Strike, SignalInv
<1>3. signals' = [astray |-> signals'.astray, careless |-> signals'.careless,
                  aimed |-> aimed]
  BY DEF Strike
<1> QED BY <1>1, <1>2, <1>3

\* The processes that an invocation's step leaves inherit their numbers.
LEMMA StepInherits ==
  ASSUME ProcInv, ChildInv, NEW d \in Commands, Step(d)
  PROVE  Inherited
<1>1. CASE At(d, "spawn") /\ started' # started
  <2>1. Spawn(d) \/ BecomeServer(d)
    BY <1>1 DEF Step, At, Check, Stale, Probe, Wait, Confirm, WritePid, GiveUp, Discard,
       Stop, Silent, Refuse, Adopt, AdoptWrite, Delay, Term, SendTerm, Await, Kill, SendKill,
       Remove
  <2>2. PICK p \in Pids, by \in Commands \cup {Shell} : Enter(p, Launched(by))
    BY <1>1, <2>1 DEF Spawn, BecomeServer, Free
  <2> QED BY <2>2, EntryInherits DEF Launched
<1>2. CASE ~(At(d, "spawn") /\ started' # started)
  <2>1. Progress(d)
    BY <1>2, StepQuiet DEF Quiet
  <2>2. started' = started
    BY <1>2 DEF Step, At, Unchanged, Check, Stale, Probe, Spawn, BecomeServer, Wait,
       Confirm, WritePid, GiveUp, Discard, Stop, Silent, Refuse, Adopt, AdoptWrite,
       Delay, Term, SendTerm, Await, Kill, SendKill, Remove
  <2> QED BY <2>1, <2>2, ProgressInherits
<1> QED BY <1>1, <1>2

LEMMA SignalInit == Init => SignalInv
BY DEF Init, SignalInv, NoSignals, Aiming, Idle

LEMMA SignalNext ==
  ProcInv /\ ChildInv /\ SignalInv /\ [Next]_vars => SignalInv'
<1> SUFFICES ASSUME ProcInv, ChildInv, SignalInv, [Next]_vars
             PROVE  SignalInv'
  OBVIOUS
<1> DEFINE Type == [astray : BOOLEAN, careless : {FALSE}, aimed : [Commands -> Nat]]
<1>0. ProcInv' /\ ChildInv' /\ started \in Nat
  BY SupervisorNext DEF ProcInv
<1>1. ASSUME NEW c \in Commands, NEW task \in Tasks, NEW adopting \in BOOLEAN,
             NEW pc \in {"check", "stop", "adopt"},
             NEW entry \in FileEntry(started) \cup {None},
             pc = "adopt" => entry \in FileEntry(started),
             Begin(c, task, adopting, pc, entry)
      PROVE  SignalInv'
  <2>1. UNCHANGED <<proc, started, signals>>
    BY <1>1 DEF Begin, processVars
  <2>2. Inherited
    BY <1>0, <2>1, NothingHappens, ProgressInherits
  <2>3. /\ cmd'[c].pc = pc
        /\ \A d \in Commands \ {c} :
             cmd'[d].pc = cmd[d].pc /\ cmd'[d].file = cmd[d].file
    BY <1>1, BeginFields
  <2>4. \A d \in Commands : Aiming(d)' => Aiming(d) /\ cmd'[d].file = cmd[d].file
    BY <2>3 DEF Aiming
  <2> QED BY <1>0, <2>1, <2>2, <2>4, NoSignal
<1>2. ASSUME NEW c \in Commands, Invoke(c) PROVE SignalInv'
  <2>1. {"start", "status", "run", "stop", "restart"} \subseteq Tasks
    BY DEF Tasks
  <2> QED BY <1>1, <1>2, <2>1 DEF Invoke
<1>3. ASSUME NEW c \in Commands, Dashboard(c) PROVE SignalInv'
  <2>1. PICK p \in Serving, task \in {"stop", "restart"} :
          Begin(c, task, FALSE, "adopt", Me(p))
    BY <1>3 DEF Dashboard
  <2>2. Me(p) \in FileEntry(started) /\ task \in Tasks
    BY ServerFacts DEF Serving, Server, Me, FileEntry, Tasks
  <2> QED BY <1>1, <2>1, <2>2
<1>4. ASSUME NEW d \in Commands, Step(d) PROVE SignalInv'
  <2>1. Inherited
    BY <1>4, StepInherits
  <2>2. /\ \A c \in Commands \ {d} :
              cmd'[c].pc = cmd[c].pc /\ cmd'[c].file = cmd[c].file
        /\ \/ ~Aiming(d)'
           \/ /\ Owns(cmd[d].file) /\ cmd'[d].file = cmd[d].file
              /\ Aim(d) /\ UNCHANGED <<proc, started>>
    BY <1>4, StepAims
  <2>3. /\ signals' \in Type
        /\ \A c \in Commands \ {d} : signals'.aimed[c] = signals.aimed[c]
    <3>1. CASE UNCHANGED signals
      BY <3>1 DEF SignalInv
    <3>2. CASE Aim(d)
      <4>1. signals \in Type /\ started \in Nat
        BY <1>0 DEF SignalInv
      <4> QED BY <3>2, <4>1 DEF Aim
    <3>3. CASE GiveUp(d)
      <4>1. IsChild(d, cmd[d].file) /\ Strike(d, Terminated(cmd[d].file.pid), started)
        BY <3>3 DEF GiveUp, At, ChildInv, ChildPcs
      <4> QED BY <4>1, Struck DEF IsChild
    <3>4. CASE \E process, next : Aiming(d) /\ Send(d, process, next)
      <4>1. PICK process, next : Aiming(d) /\ Send(d, process, next)
        BY <3>4
      <4>2. CASE proc[cmd[d].file.pid] = NoProcess
        <5>1. signals \in Type /\ signals' = [signals EXCEPT !.aimed[d] = 0]
          BY <4>1, <4>2 DEF Send, SignalInv
        <5> QED BY <5>1
      <4>3. CASE proc[cmd[d].file.pid] # NoProcess
        <5>1. Strike(d, process, signals.aimed[d]) /\ Held(d)
          BY <4>1, <4>3 DEF Send, SignalInv
        <5>2. cmd[d].file.pid \in Pids /\ signals.aimed[d] \in Nat
          BY <4>1 DEF ChildInv, Aiming, NamingPcs, FileEntry, SignalInv
        <5>3. proc[cmd[d].file.pid].mark \in Nat
          <6>1. started \in 0 .. MaxStarts /\ proc[cmd[d].file.pid] \in GoodProc(started)
            BY <5>2 DEF ProcInv
          <6> QED BY <1>0, <4>3, <6>1, Kinds
        <5>4. ~(/\ Alive(cmd[d].file.pid) /\ proc[cmd[d].file.pid].mark # cmd[d].file.mark
                /\ proc[cmd[d].file.pid].mark <= signals.aimed[d])
          BY <5>1, <5>2, <5>3 DEF Held
        <5> QED BY <5>1, <5>4, Struck
      <4> QED BY <4>2, <4>3
    <3> QED BY <1>4, <3>1, <3>2, <3>3, <3>4, StepAims
  <2>4. ASSUME NEW c \in Commands, Aiming(c)' PROVE Held(c)'
    <3>1. CASE c = d
      <4>1. /\ Owns(cmd[d].file) /\ cmd'[d].file = cmd[d].file
            /\ Aim(d) /\ UNCHANGED <<proc, started>>
        BY <2>2, <2>4, <3>1
      <4>2. signals'.aimed[d] = started
        BY <4>1 DEF Aim, SignalInv
      <4> QED BY <1>0, <3>1, <4>1, <4>2
        DEF Held, Owns, Alive, Corpse, Server, IsServer
    <3>2. CASE c # d
      BY <1>0, <2>1, <2>2, <2>3, <2>4, <3>2, HeldKept DEF Aiming
    <3> QED BY <3>1, <3>2
  <2> QED BY <2>3, <2>4 DEF SignalInv
<1>5. ASSUME NEW p \in Pids, LaunchDirectly(p) PROVE SignalInv'
  <2>1. /\ Enter(p, Launched(Shell)) /\ UNCHANGED signals
        /\ \A d \in Commands : cmd'[d] = [cmd[d] EXCEPT !.calm = FALSE]
    BY <1>5 DEF LaunchDirectly
  <2>2. Inherited
    BY <2>1, EntryInherits DEF Launched
  <2>3. \A d \in Commands : Aiming(d)' => Aiming(d) /\ cmd'[d].file = cmd[d].file
    BY <1>0, <2>1, CalmLost DEF Aiming
  <2> QED BY <1>0, <2>1, <2>2, <2>3, NoSignal
<1>6. ASSUME NEW p \in Pids, Run(p), UNCHANGED <<pidfile, cmd, signals, irregular>>
      PROVE  SignalInv'
  <2>1. Inherited
    <3>1. CASE Reuse(p)
      BY <3>1, EntryInherits DEF Reuse
    <3>2. CASE ~Reuse(p)
      <4>1. started' = started
        BY <1>6, <3>2 DEF Run, Bind, SpawnTask, RequestEnds, TaskEnds, Shutdown, Drain,
           Join, Interrupt, Crash, Quit
      <4> QED BY <1>6, <3>2, <4>1, RunInv, ProgressInherits
    <3> QED BY <3>1, <3>2
  <2> QED BY <1>0, <1>6, <2>1, NoSignal DEF Aiming
<1>7. ASSUME UNCHANGED vars PROVE SignalInv'
  <2>1. UNCHANGED <<proc, started, cmd, signals>>
    BY <1>7 DEF vars, processVars
  <2>2. Inherited
    BY <1>0, <2>1, NothingHappens, ProgressInherits
  <2> QED BY <1>0, <2>1, <2>2, NoSignal DEF Aiming
<1> QED BY <1>2, <1>3, <1>4, <1>5, <1>6, <1>7 DEF Next

\* Whoever has the number of a process that is about to be signalled is that
\* process, or came after it was verified; no signal reached another one.
THEOREM SignalInvariant == Spec => []SignalInv
BY SupervisorInvariant, SignalInit, SignalNext, PTL DEF Spec

\* Every state is well-typed, and one process at most holds the port.
THEOREM SupervisorTypeCorrect == Spec => []TypeOK
<1>1. ProcInv /\ ChildInv /\ SignalInv => TypeOK
  <2> SUFFICES ASSUME ProcInv, ChildInv, SignalInv PROVE TypeOK
    OBVIOUS
  <2>1. GoodProc(started) \subseteq Process \cup {NoProcess}
    BY DEF GoodProc, Servers, Others, Process, Ats
  <2>2. Cardinality(Serving) <= 1
    <3>1. CASE Serving = {}
      BY <3>1, FS_EmptySet
    <3>2. CASE Serving # {}
      <4>1. PICK p \in Serving : Serving = {p}
        BY <3>2 DEF ProcInv
      <4> QED BY <4>1, FS_Singleton
    <3> QED BY <3>1, <3>2
  <2>3. FileEntry(started) \subseteq Entry
    <3>1. 1 .. started \subseteq 1 .. MaxStarts
      BY ProcessAssumption DEF ProcInv
    <3> QED BY <3>1 DEF FileEntry, Entry
  <2>4. \A c \in Commands : cmd[c] \in Invocation(started)
    BY DEF ChildInv
  <2>5. pidfile = <<>> \/ pidfile[1] \in Entry
    BY <2>3 DEF ChildInv, FileOK
  <2>6. \A c \in Commands :
          /\ cmd[c].task \in Tasks /\ cmd[c].pc \in Pcs
          /\ cmd[c].file \in Entry \cup {None}
          /\ cmd[c].adopting \in BOOLEAN /\ cmd[c].calm \in BOOLEAN
    BY <2>3, <2>4 DEF Invocation
  <2>7. /\ proc \in [Pids -> Process \cup {NoProcess}]
        /\ started \in 0 .. MaxStarts /\ faults \in 0 .. MaxFaults
        /\ signals.astray \in BOOLEAN /\ signals.careless \in BOOLEAN
        /\ irregular \in BOOLEAN
    BY <2>1 DEF ProcInv, ChildInv, SignalInv
  <2> QED BY <2>2, <2>5, <2>6, <2>7 DEF TypeOK
<1> QED BY <1>1, SupervisorInvariant, SignalInvariant, PTL

\* A signal reaches a process it is not meant for only if that one got its number
\* after the signal was decided on: those of a stop because they follow a check,
\* the one after a failed start because a corpse keeps its number.
THEOREM SignalsAreVerified == Spec => []SignalsVerified
<1>1. SignalInv => SignalsVerified
  BY DEF SignalInv, SignalsVerified
<1> QED BY <1>1, SignalInvariant, PTL

\* A server that exits with success left no request and no task behind.
THEOREM SuccessLosesNothing == Spec => []SuccessfulExitLosesNothing
<1>1. ProcInv /\ ChildInv => SuccessfulExitLosesNothing
  BY DEF ProcInv, SuccessfulExitLosesNothing
<1> QED BY <1>1, SupervisorInvariant, PTL

-----------------------------------------------------------------------------
(* What holds as long as invocations follow one another.                   *)

\* A server that serves, or is about to.
Coming(p) == Server(p, "starting") \/ Server(p, "serving")

\* The steps of a start from its launch on.
LaunchedPcs == ChildPcs \cup {"discard"}

\* What invocation c may rely on at its place.
View(c) ==
  LET file == cmd[c].file
  IN  /\ cmd[c].pc \in LaunchedPcs =>
           pidfile = <<>> /\ \A p \in Pids : Coming(p) => Me(p) = file
      /\ cmd[c].pc \notin LaunchedPcs \cup {"idle"} =>
           \A p \in Pids : ~Server(p, "starting")
      /\ cmd[c].pc \in {"probe", "spawn"} => pidfile = <<>>
      /\ At(c, "stale") => pidfile # <<>> /\ ~Owns(pidfile[1])
      /\ cmd[c].pc \in {"adopt", "adoptWrite"} => \A p \in Serving : Me(p) = file
      /\ cmd[c].pc \in {"term", "signal", "await", "kill", "force"} => pidfile = <<file>>
      /\ At(c, "remove") => Serving = {}

\* The PID file names whoever serves, or nobody.
FileTruthful == pidfile # <<>> => \A p \in Pids : Coming(p) => Tracked(p)

TurnInv ==
  ~irregular =>
    /\ \A c, d \in Commands : ~At(c, "idle") /\ ~At(d, "idle") => c = d
    /\ FileTruthful
    /\ \A c \in Commands : View(c)

\* No server comes up, and none comes back.
NoneComes ==
  \A p \in Pids :
    /\ Coming(p)' => Coming(p) /\ Me(p)' = Me(p)
    /\ Server(p, "starting")' => Server(p, "starting")
    /\ Alive(p)' => \/ Alive(p) /\ proc'[p].mark = proc[p].mark
                    \/ proc'[p].mark = started + 1

LEMMA ProgressSeen ==
  ASSUME ProcInv, NEW d, Progress(d)
  PROVE  NoneComes
<1> SUFFICES ASSUME NEW p \in Pids
             PROVE  /\ Coming(p)' => Coming(p) /\ Me(p)' = Me(p)
                    /\ Server(p, "starting")' => Server(p, "starting")
                    /\ Alive(p)' => Alive(p) /\ proc'[p].mark = proc[p].mark
  BY DEF NoneComes
<1>1. Follows(proc[p], proc'[p], d) /\ proc[p] \in GoodProc(started)
  BY DEF Progress, ProcInv
<1>2. CASE proc'[p] = proc[p]
  BY <1>2 DEF Coming, Server, IsServer, Alive, Corpse, Me
<1>3. CASE proc'[p] = NoProcess
  BY <1>3 DEF Coming, Server, IsServer, Alive, Corpse, Me, NoProcess
<1>4. CASE /\ proc[p].kind = "server" /\ proc'[p].kind = "server"
           /\ proc'[p].mark = proc[p].mark
           /\ proc[p].at = "zombie" => proc'[p].at = "zombie"
           /\ proc'[p].at = "starting" => proc[p].at = "starting"
           /\ proc'[p].at = "serving" => proc[p].at \in {"starting", "serving"}
  <2>1. proc[p] # NoProcess
    BY <1>4 DEF NoProcess
  <2> QED BY <1>4, <2>1 DEF Coming, Server, IsServer, Alive, Corpse, Me
<1> QED BY <1>1, <1>2, <1>3, <1>4 DEF Follows

\* The process of another program is no server and has a marker of its own.
LEMMA ReuseSeen ==
  ASSUME ProcInv, NEW p \in Pids, Reuse(p)
  PROVE  NoneComes
<1>1. /\ proc' = [proc EXCEPT ![p] = [kind |-> "other", mark |-> started + 1]]
      /\ proc[p] = NoProcess
  BY DEF Reuse, Enter, Free
<1> QED BY <1>1 DEF ProcInv, NoneComes, Coming, Server, IsServer, Alive, Corpse, Me

\* An owner that is gone does not come back.
LEMMA OwnerGone ==
  ASSUME ProcInv, NoneComes, started < MaxStarts \/ started' = started,
         NEW e \in FileEntry(started), ~Owns(e),
         \A p \in Pids : proc'[p] # NoProcess => proc'[p].mark \in 1 .. started'
  PROVE  ~Owns(e)'
<1>1. /\ e.pid \in Pids /\ e.mark \in (1 .. started) \cup {NoMark}
      /\ started \in Nat /\ started <= MaxStarts
  BY ProcessAssumption DEF FileEntry, ProcInv
<1>2. SUFFICES ASSUME Alive(e.pid)', proc'[e.pid].mark = e.mark PROVE FALSE
  BY DEF Owns
<1>3. proc'[e.pid].mark = started + 1
  BY <1>1, <1>2 DEF NoneComes, Owns
<1>4. proc'[e.pid].mark \in 1 .. started'
  BY <1>1, <1>2 DEF Alive
<1> QED BY <1>1, <1>2, <1>3, <1>4, NoMarkAssumption, ProcessAssumption

\* What an invocation relies on stays so while others do nothing to the file.
LEMMA ViewKept ==
  ASSUME ProcInv, ProcInv', ChildInv, NoneComes,
         started < MaxStarts \/ started' = started,
         NEW c \in Commands, View(c), UNCHANGED pidfile,
         cmd'[c].pc = cmd[c].pc, cmd'[c].file = cmd[c].file
  PROVE  View(c)'
<1>1. \A p \in Pids : proc'[p] # NoProcess => proc'[p].mark \in 1 .. started'
  <2> SUFFICES ASSUME NEW p \in Pids, proc'[p] # NoProcess
               PROVE  proc'[p].mark \in 1 .. started'
    OBVIOUS
  <2>1. proc'[p] \in GoodProc(started') /\ started' \in 0 .. MaxStarts
    BY DEF ProcInv
  <2> QED BY <2>1, Kinds
<1>2. At(c, "stale") => ~Owns(pidfile[1])'
  <2>1. SUFFICES ASSUME At(c, "stale") PROVE ~Owns(pidfile[1])'
    OBVIOUS
  <2>2. PICK e \in FileEntry(started) : e = pidfile[1]
    BY <2>1 DEF View, ChildInv, FileOK
  <2>3. ~Owns(e)
    BY <2>1, <2>2 DEF View
  <2>4. ~Owns(e)'
    BY <1>1, <2>3, OwnerGone
  <2> QED BY <2>2, <2>4 DEF Owns, Alive, Corpse, Server, IsServer
<1>3. \A p \in Serving' : p \in Pids /\ (p \in Serving \/ Server(p, "starting"))
                          /\ Me(p)' = Me(p)
  BY DEF NoneComes, Serving, Coming
<1>4. cmd'[c].pc \in LaunchedPcs =>
        pidfile' = <<>> /\ \A p \in Pids : Coming(p)' => Me(p)' = cmd'[c].file
  BY DEF View, NoneComes
<1>5. cmd'[c].pc \notin LaunchedPcs \cup {"idle"} =>
        \A p \in Pids : ~Server(p, "starting")'
  BY DEF View, NoneComes
<1>6. cmd'[c].pc \in {"adopt", "adoptWrite"} =>
        \A p \in Serving' : Me(p)' = cmd'[c].file
  <2>1. SUFFICES ASSUME cmd[c].pc \in {"adopt", "adoptWrite"}
                 PROVE  \A p \in Serving' : Me(p)' = cmd[c].file
    OBVIOUS
  <2>2. cmd[c].pc \notin LaunchedPcs \cup {"idle"}
    BY <2>1 DEF LaunchedPcs, ChildPcs
  <2> QED BY <1>3, <2>1, <2>2 DEF View
<1>7. At(c, "remove")' => Serving' = {}
  <2>1. SUFFICES ASSUME At(c, "remove") PROVE Serving' = {}
    BY DEF At
  <2>2. cmd[c].pc \notin LaunchedPcs \cup {"idle"}
    BY <2>1 DEF LaunchedPcs, ChildPcs, At
  <2> QED BY <1>3, <2>1, <2>2 DEF View, At
<1> QED BY <1>2, <1>4, <1>5, <1>6, <1>7 DEF View, At

LEMMA FileTruthfulKept ==
  ASSUME FileTruthful, NoneComes, UNCHANGED pidfile
  PROVE  FileTruthful'
BY DEF FileTruthful, NoneComes, Tracked

\* The others are idle, so one invocation's view is all there is to show.
LEMMA AloneInTurn ==
  ASSUME NEW c \in Commands, \A d \in Commands \ {c} : cmd'[d].pc = "idle",
         FileTruthful', View(c)'
  PROVE  TurnInv'
<1>1. ASSUME NEW d \in Commands, d # c PROVE View(d)'
  BY <1>1 DEF View, At, LaunchedPcs, ChildPcs
<1>2. \A d, e \in Commands : ~At(d, "idle")' /\ ~At(e, "idle")' => d = e
  BY DEF At
<1> QED BY <1>1, <1>2 DEF TurnInv

LEMMA IdleView ==
  ASSUME NEW c \in Commands, cmd'[c].pc = "idle"
  PROVE  View(c)'
BY DEF View, At, LaunchedPcs, ChildPcs

\* Every step of the invocation whose turn it is, but a launch.
LEMMA StepInTurn ==
  ASSUME ProcInv, ChildInv, TurnInv, ~irregular, NEW c \in Commands, Step(c),
         ~(At(c, "spawn") /\ started' # started)
  PROVE  /\ FileTruthful' /\ View(c)'
         /\ \A d \in Commands \ {c} : cmd'[d].pc = cmd[d].pc
<1> USE DEF At
<1>0. /\ FileTruthful /\ View(c)
      /\ NoneComes /\ NobodyBinds /\ Serving' \subseteq Serving
      /\ {"check", "stale", "probe", "spawn", "wait", "confirm", "write", "giveup",
          "discard", "stop", "silent", "adopt", "adoptWrite", "delay", "term",
          "signal", "await", "kill", "force", "remove", "refuse"} \subseteq Pcs
  BY StepQuiet, ProgressSeen DEF Quiet, TurnInv, NobodyBinds, Serving, Pcs
<1>1. UNCHANGED pidfile => FileTruthful'
  BY <1>0, FileTruthfulKept
<1>2. pidfile' = <<>> => FileTruthful'
  BY DEF FileTruthful
<1>3. cmd[c].pc \notin LaunchedPcs \cup {"idle"} =>
        \A p \in Pids : ~Server(p, "starting") /\ ~Server(p, "starting")'
  BY <1>0 DEF View, NoneComes
<1> USE DEF LaunchedPcs, ChildPcs
<1>e. ASSUME End(c), UNCHANGED pidfile \/ pidfile' = <<>>
      PROVE  /\ FileTruthful' /\ View(c)'
             /\ \A d \in Commands \ {c} : cmd'[d].pc = cmd[d].pc
  BY <1>1, <1>2, <1>e, Leads, IdleView
<1>4. CASE Check(c)
  <2>1. CASE pidfile = <<>>
    BY <1>0, <1>1, <1>3, <1>4, <2>1, Leads DEF Check, View
  <2>2. CASE pidfile # <<>> /\ Owns(pidfile[1])
    BY <1>4, <1>e, <2>2 DEF Check
  <2>3. CASE pidfile # <<>> /\ ~Owns(pidfile[1])
    <3>1. /\ cmd'[c].pc = "stale" /\ UNCHANGED <<proc, pidfile>>
          /\ \A d \in Commands \ {c} : cmd'[d].pc = cmd[d].pc
      BY <1>0, <1>4, <2>3, Leads DEF Check
    <3>2. ~Owns(pidfile[1])'
      BY <2>3, <3>1 DEF Owns, Alive, Corpse, Server, IsServer
    <3> QED BY <1>1, <1>3, <1>4, <2>3, <3>1, <3>2 DEF Check, View
  <2> QED BY <2>1, <2>2, <2>3
<1>5. CASE Stale(c)
  BY <1>0, <1>2, <1>3, <1>5, Leads DEF Stale, View
<1>6. CASE Probe(c)
  <2>1. CASE End(c)
    BY <1>6, <1>e, <2>1 DEF Probe
  <2>2. CASE Goto(c, "spawn")
    BY <1>0, <1>1, <1>3, <1>6, <2>2, Leads DEF Probe, View
  <2> QED BY <1>6, <2>1, <2>2 DEF Probe
<1>7. CASE Spawn(c) \/ BecomeServer(c)
  <2>1. started \in Nat
    BY DEF ProcInv
  <2>2. End(c) /\ UNCHANGED pidfile
    BY <1>7, <2>1 DEF Spawn, BecomeServer, Enter
  <2> QED BY <1>e, <2>2
<1>8. CASE Wait(c) \/ Confirm(c) \/ GiveUp(c)
  <2>1. PICK pc \in {"confirm", "write", "giveup", "discard"} : Goto(c, pc)
    BY <1>8 DEF Wait, Confirm, GiveUp
  <2>2. UNCHANGED pidfile /\ cmd[c].pc \in {"wait", "confirm", "giveup"}
    BY <1>8 DEF Wait, Confirm, GiveUp
  <2> QED BY <1>0, <1>1, <2>1, <2>2, Leads DEF View, NoneComes
<1>9. CASE WritePid(c)
  <2>1. /\ pidfile' = <<cmd[c].file>> /\ End(c)
        /\ \A p \in Pids : Coming(p) => Me(p) = cmd[c].file
    BY <1>0, <1>9 DEF WritePid, View
  <2>2. FileTruthful'
    BY <1>0, <2>1 DEF FileTruthful, NoneComes, Tracked
  <2> QED BY <2>1, <2>2, Leads, IdleView
<1>10. CASE Discard(c)
  BY <1>10, <1>e DEF Discard
<1>11. CASE Stop(c)
  <2>1. CASE pidfile = <<>>
    BY <1>0, <1>1, <1>3, <1>11, <2>1, Leads DEF Stop, View
  <2>2. CASE pidfile # <<>> /\ pidfile[1].mark = NoMark
    BY <1>11, <1>e, <2>2 DEF Stop
  <2>3. CASE pidfile # <<>> /\ pidfile[1].mark # NoMark
    <3>1. /\ cmd' = [cmd EXCEPT ![c].pc = "term", ![c].file = pidfile[1]]
          /\ UNCHANGED pidfile /\ cmd[c].pc = "stop"
      BY <1>11, <2>3 DEF Stop
    <3>2. /\ cmd'[c].pc = "term" /\ cmd'[c].file = pidfile[1]
          /\ \A d \in Commands \ {c} : cmd'[d].pc = cmd[d].pc
      BY <3>1 DEF ChildInv, Invocation
    <3>3. pidfile = <<pidfile[1]>>
      BY <2>3 DEF ChildInv, FileOK
    <3> QED BY <1>1, <1>3, <3>1, <3>2, <3>3 DEF View
  <2> QED BY <2>1, <2>2, <2>3
<1>12. CASE Silent(c)
  <2>1. CASE Serving = {}
    <3>1. CASE cmd[c].task = "restart"
      BY <1>0, <1>1, <1>3, <1>12, <2>1, <3>1, Leads DEF Silent, Stopped, View
    <3>2. CASE cmd[c].task # "restart"
      BY <1>12, <1>e, <2>1, <3>2 DEF Silent, Stopped
    <3> QED BY <3>1, <3>2
  <2>2. CASE Serving # {} /\ ~cmd[c].adopting
    BY <1>0, <1>1, <1>3, <1>12, <2>2, Leads DEF Silent, View
  <2>3. CASE Serving # {} /\ cmd[c].adopting
    <3>1. PICK p \in Serving :
            cmd' = [cmd EXCEPT ![c].pc = "adopt", ![c].file = Me(p)]
      BY <1>12, <2>3 DEF Silent, Listeners
    <3>2. /\ cmd'[c].pc = "adopt" /\ cmd'[c].file = Me(p)
          /\ \A d \in Commands \ {c} : cmd'[d].pc = cmd[d].pc
      BY <3>1 DEF ChildInv, Invocation
    <3>3. UNCHANGED <<proc, pidfile>> /\ cmd[c].pc = "silent"
      BY <1>12, <2>3 DEF Silent
    <3>4. \A q \in Serving' : Me(q)' = Me(p)
      BY <1>0, <3>3 DEF ProcInv, Me
    <3> QED BY <1>1, <1>3, <3>2, <3>3, <3>4 DEF View
  <2> QED BY <2>1, <2>2, <2>3
<1>13. CASE Refuse(c)
  BY <1>13, <1>e DEF Refuse
<1>14. CASE Adopt(c)
  <2>1. CASE End(c)
    BY <1>14, <1>e, <2>1 DEF Adopt
  <2>2. CASE Goto(c, "delay")
    BY <1>0, <1>1, <1>3, <1>14, <2>2, Leads DEF Adopt, View
  <2>3. CASE Goto(c, "adoptWrite") /\ UNCHANGED proc
    <3>1. \A p \in Serving' : Me(p)' = cmd[c].file
      BY <1>0, <1>14, <2>3 DEF Adopt, View, Me
    <3> QED BY <1>0, <1>1, <1>3, <1>14, <2>3, <3>1, Leads DEF Adopt, View
  <2> QED BY <1>14, <2>1, <2>2, <2>3 DEF Adopt
<1>15. CASE AdoptWrite(c)
  <2>1. /\ pidfile' = <<cmd[c].file>> /\ Goto(c, "delay")
        /\ \A p \in Serving : Me(p) = cmd[c].file
        /\ cmd[c].pc = "adoptWrite"
    BY <1>0, <1>15 DEF AdoptWrite, View
  <2>2. \A p \in Pids : Coming(p)' => p \in Serving /\ Me(p)' = Me(p)
    BY <1>0, <1>3, <2>1 DEF NoneComes, Coming, Serving
  <2>3. FileTruthful'
    BY <2>1, <2>2 DEF FileTruthful, Tracked
  <2> QED BY <1>0, <1>3, <2>1, <2>3, Leads DEF View
<1>16. CASE Delay(c)
  <2>1. CASE End(c)
    BY <1>16, <1>e, <2>1 DEF Delay
  <2>2. CASE Goto(c, "stop")
    BY <1>0, <1>1, <1>3, <1>16, <2>2, Leads DEF Delay, View
  <2> QED BY <1>16, <2>1, <2>2 DEF Delay
<1>17. ASSUME cmd[c].pc \in {"term", "await", "kill", "force"}, UNCHANGED pidfile,
              Goto(c, "remove"), ~Alive(cmd[c].file.pid)'
       PROVE  /\ FileTruthful' /\ View(c)'
              /\ \A d \in Commands \ {c} : cmd'[d].pc = cmd[d].pc
  <2>1. pidfile = <<cmd[c].file>>
    BY <1>0, <1>17 DEF View
  <2>2. \A p \in Serving' : FALSE
    <3>1. SUFFICES ASSUME NEW p \in Serving' PROVE FALSE
      OBVIOUS
    <3>2. p \in Pids /\ Coming(p)'
      BY DEF Serving, Coming
    <3>3. Tracked(p) /\ Me(p) = cmd[c].file
      BY <1>0, <2>1, <3>2 DEF NoneComes, FileTruthful, Tracked
    <3>4. p = cmd[c].file.pid
      BY <3>3 DEF Me
    <3>5. Alive(p)'
      BY <3>2 DEF Coming, Alive, Corpse, Server, IsServer, NoProcess
    <3>6. cmd'[c].file = cmd[c].file
      BY <1>0, <1>17, Leads
    <3> QED BY <1>17, <3>4, <3>5, <3>6 DEF Alive, Corpse, Server, IsServer
  <2> QED BY <1>0, <1>1, <1>3, <1>17, <2>2, Leads DEF View
<1>18. CASE Term(c) \/ Kill(c)
  <2> DEFINE entry == cmd[c].file
  <2>1. cmd[c].pc \in {"term", "kill"} /\ UNCHANGED pidfile
    BY <1>18 DEF Term, Kill
  <2>2. CASE Owns(entry)
    <3>1. PICK next \in {"signal", "force"} : Goto(c, next)
      BY <1>18, <2>2 DEF Term, Kill, VerifiedSignal
    <3> QED BY <1>0, <1>1, <1>3, <2>1, <3>1, Leads DEF View
  <2>3. CASE ~Owns(entry) /\ (proc[entry.pid] = NoProcess \/ IsCorpse(entry))
    <3>1. Goto(c, "remove") /\ UNCHANGED proc
      BY <1>18, <2>3 DEF Term, Kill, VerifiedSignal
    <3>2. ~Alive(entry.pid)
      BY <2>3 DEF Alive, IsCorpse
    <3>3. ~Alive(cmd[c].file.pid)'
      BY <3>1, <3>2, <1>0, Leads DEF Alive, Corpse, Server, IsServer
    <3> QED BY <1>17, <2>1, <3>1, <3>3
  <2>4. CASE ~Owns(entry) /\ ~(proc[entry.pid] = NoProcess \/ IsCorpse(entry))
    <3>1. End(c)
      BY <1>18, <2>4 DEF Term, Kill, VerifiedSignal
    <3> QED BY <1>e, <2>1, <3>1
  <2> QED BY <2>2, <2>3, <2>4
<1>21. CASE SendTerm(c) \/ SendKill(c)
  <2> DEFINE entry == cmd[c].file
  <2>1. cmd[c].pc \in {"signal", "force"} /\ UNCHANGED pidfile
    BY <1>21 DEF SendTerm, SendKill
  <2>2. entry.pid \in Pids
    BY <2>1 DEF ChildInv, NamingPcs, FileEntry
  <2>3. CASE End(c)
    BY <1>e, <2>1, <2>3
  <2>4. CASE SendTerm(c) /\ ~End(c)
    <3>1. Goto(c, "await")
      BY <2>4 DEF SendTerm, Send
    <3> QED BY <1>0, <1>1, <1>3, <2>1, <3>1, Leads DEF View
  <2>5. CASE SendKill(c) /\ ~End(c)
    <3>1. /\ Goto(c, "remove") /\ cmd'[c].file = entry
          /\ \/ proc[entry.pid] = NoProcess /\ UNCHANGED proc
             \/ proc' = [proc EXCEPT ![entry.pid] = Dead(entry.pid)]
      BY <1>0, <2>5, Leads DEF SendKill, Send, Strike
    <3>2. ~Alive(cmd[c].file.pid)'
      <4>1. CASE proc[entry.pid] = NoProcess /\ UNCHANGED proc
        BY <3>1, <4>1 DEF Alive
      <4>2. CASE proc' = [proc EXCEPT ![entry.pid] = Dead(entry.pid)]
        <5>1. proc'[entry.pid] = Dead(entry.pid)
          BY <2>2, <4>2 DEF ProcInv
        <5>2. CASE IsServer(entry.pid) /\ proc[entry.pid].by # Shell
          <6> DEFINE s == proc[entry.pid]
                     new == [s EXCEPT !.at = "zombie"]
          <6>1. s \in Servers
            BY <2>2, <5>2, ServerFacts
          <6>2. new.at = "zombie" /\ new.kind = "server"
            BY <6>1 DEF Servers
          <6>3. Dead(entry.pid) = new
            BY <5>2 DEF Dead
          <6> HIDE DEF new
          <6> QED BY <3>1, <5>1, <6>2, <6>3 DEF Alive, Corpse, Server, IsServer
        <5>3. CASE ~(IsServer(entry.pid) /\ proc[entry.pid].by # Shell)
          BY <3>1, <5>1, <5>3 DEF Dead, Alive
        <5> QED BY <5>2, <5>3
      <4> QED BY <3>1, <4>1, <4>2
    <3>3. cmd[c].pc = "force"
      BY <2>5 DEF SendKill
    <3> QED BY <1>17, <2>1, <3>1, <3>2, <3>3
  <2> QED BY <1>21, <2>3, <2>4, <2>5
<1>19. CASE Await(c)
  <2>1. CASE Alive(cmd[c].file.pid)
    BY <1>0, <1>1, <1>3, <1>19, <2>1, Leads DEF Await, View
  <2>2. CASE ~Alive(cmd[c].file.pid)
    <3>1. /\ Goto(c, "remove") /\ UNCHANGED <<proc, pidfile>>
          /\ cmd[c].pc = "await"
      BY <1>19, <2>2 DEF Await
    <3>2. ~Alive(cmd[c].file.pid)'
      BY <1>0, <2>2, <3>1, Leads DEF Alive, Corpse, Server, IsServer
    <3> QED BY <1>17, <3>1, <3>2
  <2> QED BY <2>1, <2>2
<1>20. CASE Remove(c)
  <2>1. CASE cmd[c].task = "restart"
    BY <1>0, <1>2, <1>3, <1>20, <2>1, Leads DEF Remove, Stopped, View
  <2>2. CASE cmd[c].task # "restart"
    BY <1>20, <1>e, <2>2 DEF Remove, Stopped
  <2> QED BY <2>1, <2>2
<1> QED
  BY <1>4, <1>5, <1>6, <1>7, <1>8, <1>9, <1>10, <1>11, <1>12, <1>13, <1>14,
     <1>15, <1>16, <1>18, <1>19, <1>20, <1>21 DEF Step

\* A launch in turn.
LEMMA LaunchInTurn ==
  ASSUME ProcInv, ChildInv, TurnInv, ~irregular, NEW c \in Commands, Step(c),
         At(c, "spawn"), started' # started
  PROVE  /\ FileTruthful' /\ View(c)'
         /\ \A d \in Commands \ {c} : cmd'[d].pc = cmd[d].pc
<1>1. /\ pidfile = <<>> /\ \A p \in Pids : ~Server(p, "starting")
      /\ Spawn(c) \/ BecomeServer(c)
  BY DEF TurnInv, View, LaunchedPcs, ChildPcs, Step, At, Check, Stale, Probe, Wait,
     Confirm, WritePid, GiveUp, Discard, Stop, Silent, Refuse, Adopt, AdoptWrite,
     Delay, Term, SendTerm, Await, Kill, SendKill, Remove
<1>2. CASE Spawn(c)
  <2> DEFINE file == cmd'[c].file
  <2>1. /\ pidfile' = <<>> /\ Serving = {} /\ cmd'[c].pc = "wait"
        /\ \A d \in Commands \ {c} : cmd'[d] = cmd[d]
        /\ \A q \in Pids \ {file.pid} : proc'[q] = proc[q]
        /\ file = [pid |-> file.pid, mark |-> proc'[file.pid].mark]
    BY <1>1, <1>2, SpawnLaunches
  <2>2. \A p \in Pids : Coming(p)' => Me(p)' = file
    BY <1>1, <2>1 DEF Coming, Serving, Server, IsServer, Me
  <2> QED
    BY <2>1, <2>2 DEF FileTruthful, View, At, LaunchedPcs, ChildPcs
<1>3. CASE BecomeServer(c)
  <2>1. /\ pidfile' = <<>> /\ cmd'[c].pc = "idle"
        /\ \A d \in Commands \ {c} : cmd'[d] = [cmd[d] EXCEPT !.calm = FALSE]
    BY <1>1, <1>3 DEF BecomeServer, Idle
  <2>2. started \in Nat
    BY DEF ProcInv
  <2>3. \A d \in Commands \ {c} : cmd'[d].pc = cmd[d].pc
    BY <2>1, <2>2, CalmLost
  <2> QED BY <2>1, <2>3, IdleView DEF FileTruthful
<1> QED BY <1>1, <1>2, <1>3

\* An invocation that begins alone.
LEMMA BeginInTurn ==
  ASSUME ProcInv, ChildInv, TurnInv, ~irregular', NEW c \in Commands, NEW task \in Tasks,
         NEW adopting \in BOOLEAN, NEW pc \in {"check", "stop", "adopt"},
         NEW entry \in FileEntry(started) \cup {None},
         pc = "adopt" => entry \in FileEntry(started) /\ \A p \in Serving : Me(p) = entry,
         Begin(c, task, adopting, pc, entry)
  PROVE  TurnInv'
<1>1. /\ UNCHANGED <<proc, pidfile>>
      /\ cmd'[c].pc = pc /\ cmd'[c].file = entry
      /\ irregular' = (irregular \/
           ~(/\ \A d \in Commands : At(d, "idle")
             /\ \A p \in Pids : ~Server(p, "starting")))
      /\ \A d \in Commands \ {c} :
           cmd'[d].pc = cmd[d].pc /\ cmd'[d].file = cmd[d].file
  BY BeginFields
<1>2. /\ ~irregular /\ \A d \in Commands : At(d, "idle")
      /\ \A p \in Pids : ~Server(p, "starting")
  BY <1>1
<1>3. FileTruthful'
  BY <1>1, <1>2 DEF TurnInv, FileTruthful, Coming, Server, IsServer, Tracked, Me
<1>4. /\ \A p \in Pids : ~Server(p, "starting")'
      /\ pc = "adopt" => \A p \in Serving' : Me(p)' = entry
  BY <1>1, <1>2 DEF Serving, Server, IsServer, Me
<1>5. View(c)'
  BY <1>1, <1>4 DEF View, At, LaunchedPcs, ChildPcs
<1>6. \A d \in Commands \ {c} : cmd'[d].pc = "idle"
  BY <1>1, <1>2 DEF At
<1> QED BY <1>3, <1>5, <1>6, AloneInTurn

LEMMA TurnNext ==
  ProcInv /\ ChildInv /\ TurnInv /\ [Next]_vars => TurnInv'
<1> SUFFICES ASSUME ProcInv, ChildInv, TurnInv, [Next]_vars, ~irregular'
             PROVE  TurnInv'
  BY DEF TurnInv
<1>0. ProcInv' /\ ChildInv'
  BY SupervisorNext
<1>1. ASSUME NEW c \in Commands, Invoke(c) PROVE TurnInv'
  <2>1. {"start", "status", "run", "stop", "restart"} \subseteq Tasks
    BY DEF Tasks
  <2> QED BY <1>1, <2>1, BeginInTurn DEF Invoke
<1>2. ASSUME NEW c \in Commands, Dashboard(c) PROVE TurnInv'
  <2>1. PICK p \in Serving, task \in {"stop", "restart"} :
          Begin(c, task, FALSE, "adopt", Me(p))
    BY <1>2 DEF Dashboard
  <2>2. /\ Me(p) \in FileEntry(started) /\ task \in Tasks
        /\ \A q \in Serving : Me(q) = Me(p)
    BY ServerFacts DEF Serving, Server, Me, FileEntry, Tasks, ProcInv
  <2> QED BY <2>1, <2>2, BeginInTurn
<1>3. ASSUME NEW c \in Commands, Step(c) PROVE TurnInv'
  <2>1. irregular' = irregular /\ ~At(c, "idle")
    BY <1>3 DEF Step, At, Unchanged, Check, Stale, Probe, Spawn, BecomeServer, Wait,
       Confirm, WritePid, GiveUp, Discard, Stop, Silent, Refuse, Adopt, AdoptWrite,
       Delay, Term, SendTerm, Await, Kill, SendKill, Remove
  <2>2. /\ FileTruthful' /\ View(c)'
        /\ \A d \in Commands \ {c} : cmd'[d].pc = cmd[d].pc
    BY <1>3, <2>1, StepInTurn, LaunchInTurn
  <2>3. \A d \in Commands \ {c} : cmd'[d].pc = "idle"
    BY <2>1, <2>2 DEF TurnInv, At
  <2> QED BY <2>2, <2>3, AloneInTurn
<1>4. ASSUME NEW p \in Pids, LaunchDirectly(p) PROVE TurnInv'
  BY <1>4 DEF LaunchDirectly
<1>5. ASSUME NEW p \in Pids, Run(p), UNCHANGED <<pidfile, cmd, irregular>>
      PROVE  TurnInv'
  <2>1. NoneComes
    BY <1>5, RunInv, ProgressSeen, ReuseSeen
  <2>2. started < MaxStarts \/ started' = started
    BY <1>5 DEF Run, Bind, SpawnTask, RequestEnds, TaskEnds, Shutdown, Drain, Join,
       Interrupt, Crash, Reuse, Quit, Enter
  <2>3. ~irregular /\ FileTruthful /\ \A c \in Commands : View(c)
    BY <1>5 DEF TurnInv
  <2>4. FileTruthful'
    BY <1>5, <2>1, <2>3, FileTruthfulKept
  <2>5. ASSUME NEW c \in Commands PROVE View(c)'
    BY <1>0, <1>5, <2>1, <2>2, <2>3, ViewKept
  <2> QED BY <1>5, <2>3, <2>4, <2>5 DEF TurnInv, At
<1>6. ASSUME UNCHANGED vars PROVE TurnInv'
  <2>1. Progress(Shell)
    BY <1>6, NothingHappens DEF vars, processVars
  <2>2. NoneComes /\ UNCHANGED <<pidfile, cmd, started, irregular>>
    BY <1>6, <2>1, ProgressSeen DEF vars, processVars
  <2>3. FileTruthful' /\ \A c \in Commands : View(c)'
    BY <1>0, <2>2, FileTruthfulKept, ViewKept DEF TurnInv
  <2> QED BY <2>2, <2>3 DEF TurnInv, At
<1> QED BY <1>1, <1>2, <1>3, <1>4, <1>5, <1>6 DEF Next

LEMMA TurnInit == Init => TurnInv
<1> SUFFICES ASSUME Init PROVE TurnInv
  OBVIOUS
<1>1. \A p \in Pids : ~Coming(p)
  BY DEF Init, Coming, Server, IsServer, NoProcess
<1>2. \A c \in Commands : At(c, "idle")
  BY DEF Init, Idle, At
<1> QED
  BY <1>1, <1>2 DEF TurnInv, FileTruthful, View, At, LaunchedPcs, ChildPcs

\* An invocation moves by its own steps only.
LEMMA OwnSteps ==
  ASSUME ProcInv, ChildInv, [Next]_vars, NEW c \in Commands,
         ~At(c, "idle"), cmd'[c].pc # cmd[c].pc
  PROVE  Step(c) /\ irregular' = irregular
<1>0. {"check", "stale", "probe", "spawn", "wait", "confirm", "write", "giveup",
       "discard", "stop", "silent", "adopt", "adoptWrite", "delay", "term",
       "signal", "await", "kill", "force", "remove", "refuse"} \subseteq Pcs
  BY DEF Pcs
<1>c. started \in Nat
  BY DEF ProcInv
<1>1. ASSUME NEW d \in Commands, Invoke(d) \/ Dashboard(d) PROVE FALSE
  <2>1. /\ At(d, "idle")
        /\ c # d => cmd'[c] = [cmd[c] EXCEPT !.calm = FALSE]
    BY <1>1 DEF Invoke, Dashboard, Begin
  <2> QED BY <1>c, <2>1, CalmLost
<1>2. ASSUME NEW d \in Commands, Step(d), d # c PROVE FALSE
  <2>1. CASE Stop(d)
    BY <1>0, <1>2, <2>1, Leads DEF Stop, ChildInv
  <2>2. CASE Silent(d)
    BY <1>0, <1>2, <2>2, Leads DEF Silent, Stopped, ChildInv
  <2>3. CASE Spawn(d)
    BY <1>2, <2>3, Leads DEF Spawn, ChildInv
  <2>4. CASE BecomeServer(d)
    <3>1. cmd'[c] = [cmd[c] EXCEPT !.calm = FALSE]
      BY <1>2, <2>4 DEF BecomeServer
    <3> QED BY <1>c, <3>1, CalmLost
  <2>5. CASE Term(d) \/ Kill(d) \/ SendTerm(d) \/ SendKill(d)
    BY <1>0, <1>2, <2>5, Leads DEF Term, Kill, VerifiedSignal, SendTerm, SendKill, Send
  <2>6. CASE Check(d) \/ Stale(d) \/ Probe(d) \/ Wait(d) \/ Confirm(d) \/ WritePid(d)
    BY <1>0, <1>2, <2>6, Leads DEF Check, Stale, Probe, Wait, Confirm, WritePid
  <2>7. CASE GiveUp(d) \/ Discard(d) \/ Refuse(d) \/ Adopt(d) \/ AdoptWrite(d)
    BY <1>0, <1>2, <2>7, Leads DEF GiveUp, Discard, Refuse, Adopt, AdoptWrite
  <2>8. CASE Delay(d) \/ Await(d) \/ Remove(d)
    BY <1>0, <1>2, <2>8, Leads DEF Delay, Await, Remove, Stopped
  <2> QED BY <1>2, <2>1, <2>2, <2>3, <2>4, <2>5, <2>6, <2>7, <2>8 DEF Step
<1>3. ASSUME NEW p \in Pids, LaunchDirectly(p) PROVE FALSE
  <2>1. cmd'[c] = [cmd[c] EXCEPT !.calm = FALSE]
    BY <1>3 DEF LaunchDirectly
  <2> QED BY <1>c, <2>1, CalmLost
<1>4. ASSUME UNCHANGED cmd PROVE FALSE
  BY <1>4
<1>5. Step(c)
  BY <1>1, <1>2, <1>3, <1>4 DEF Next, vars
<1>6. irregular' = irregular
  BY <1>5 DEF Step, Unchanged, Check, Stale, Probe, Spawn, BecomeServer, Wait,
     Confirm, WritePid, GiveUp, Discard, Stop, Silent, Refuse, Adopt, AdoptWrite,
     Delay, Term, SendTerm, Await, Kill, SendKill, Remove
<1> QED BY <1>5, <1>6

\* At each place there is one step to take.
LEMMA TheStep ==
  ASSUME NEW c \in Commands, Step(c)
  PROVE  /\ At(c, "discard") => Discard(c)
         /\ At(c, "write") => WritePid(c)
         /\ At(c, "silent") => Silent(c)
         /\ At(c, "remove") => Remove(c)
         /\ At(c, "stale") => Stale(c)
BY DEF Step, At, Check, Stale, Probe, Spawn, BecomeServer, Wait, Confirm, WritePid,
       GiveUp, Discard, Stop, Silent, Refuse, Adopt, AdoptWrite, Delay, Term,
       SendTerm, Await, Kill, SendKill, Remove

\* A failed start takes the file only from its own child.
LEMMA DiscardKeepsOthers ==
  ASSUME ProcInv, ChildInv, [Next]_vars, NEW c \in Commands,
         Goes(c, "discard", {"idle"}),
         NEW p \in Serving \ {cmd[c].file.pid}, Tracked(p)
  PROVE  pidfile' = pidfile
<1>1. Discard(c)
  BY OwnSteps, TheStep DEF Goes, At
<1>2. pidfile[1].pid = p
  BY DEF Tracked, Me
<1> QED BY <1>1, <1>2 DEF Discard, Discarded

\* What the last step of an invocation in turn says is so.
LEMMA TruthInTurn ==
  ASSUME ProcInv, ChildInv, TurnInv, [Next]_vars, ~irregular', NEW c \in Commands
  PROVE  /\ Goes(c, "write", {"idle"}) => \A p \in Serving : Tracked(p)'
         /\ HonestStop(c)
         /\ Goes(c, "stale", {"probe"}) => \A p \in Serving : ~Tracked(p)
<1>1. ASSUME cmd'[c].pc # cmd[c].pc, ~At(c, "idle")
      PROVE  Step(c) /\ View(c)
  BY <1>1, OwnSteps DEF TurnInv
<1>2. ASSUME Goes(c, "write", {"idle"}), NEW p \in Serving PROVE Tracked(p)'
  <2>1. WritePid(c) /\ Me(p) = cmd[c].file
    BY <1>1, <1>2, TheStep
       DEF Goes, At, View, Serving, Coming, LaunchedPcs, ChildPcs
  <2>2. proc'[p].mark = proc[p].mark
    <3>1. proc[p] \in Servers /\ p \in Pids
      BY ServerFacts DEF Serving, Server
    <3>2. proc'[p] = IF Corpse(p) /\ proc[p].by = c THEN NoProcess
                     ELSE IF IsServer(p) /\ proc[p].by = c
                          THEN [proc[p] EXCEPT !.by = Shell] ELSE proc[p]
      BY <2>1, <3>1 DEF WritePid, End, Collected
    <3>3. ~Corpse(p)
      BY DEF Serving, Corpse, Server
    <3>4. [proc[p] EXCEPT !.by = Shell].mark = proc[p].mark
      BY <3>1 DEF Servers
    <3> QED BY <3>2, <3>3, <3>4
  <2> QED BY <2>1, <2>2 DEF WritePid, Tracked, Me
<1>3. HonestStop(c)
  <2>1. ASSUME Goes(c, "silent", {"idle", "check"}) PROVE Serving = {}
    <3>1. Silent(c)
      BY <1>1, <2>1, TheStep DEF Goes, At
    <3>2. {"refuse", "adopt"} \subseteq Pcs /\ cmd[c] \in Invocation(started)
      BY DEF Pcs, ChildInv
    <3>3. SUFFICES ASSUME Serving # {} PROVE FALSE
      OBVIOUS
    <3>4. CASE ~cmd[c].adopting
      <4>1. Goto(c, "refuse")
        BY <3>1, <3>3, <3>4 DEF Silent
      <4> QED BY <2>1, <3>2, <4>1, Leads DEF Goes
    <3>5. CASE cmd[c].adopting
      <4>1. PICK p \in Listeners :
              cmd' = [cmd EXCEPT ![c].pc = "adopt", ![c].file = Me(p)]
        BY <3>1, <3>3, <3>5 DEF Silent
      <4>2. cmd'[c].pc = "adopt"
        BY <3>2, <4>1 DEF ChildInv, Invocation
      <4> QED BY <2>1, <4>2 DEF Goes
    <3> QED BY <3>4, <3>5
  <2>2. ASSUME Goes(c, "remove", {"idle", "check"}) PROVE Serving = {}
    BY <1>1, <2>2 DEF Goes, At, View
  <2> QED BY <2>1, <2>2 DEF HonestStop
<1>4. ASSUME Goes(c, "stale", {"probe"}), NEW p \in Serving, Tracked(p) PROVE FALSE
  <2>1. ~Owns(pidfile[1]) /\ pidfile[1] = Me(p)
    BY <1>1, <1>4 DEF Goes, At, View, Tracked
  <2>2. Alive(p)
    BY DEF Serving, Server, Alive, Corpse, IsServer, NoProcess
  <2> QED BY <2>1, <2>2 DEF Owns, Me
<1> QED BY <1>2, <1>3, <1>4

-----------------------------------------------------------------------------
(* The theorems about what invocations say.                                *)

\* The invariant of invocations that follow one another.
THEOREM InTurnInvariant == Spec => []TurnInv
BY SupervisorInvariant, TurnInit, TurnNext, PTL DEF Spec

\* A failed start never loses track of a server other than its own child, and
\* as long as invocations follow one another whoever serves after a start that
\* succeeded is tracked, nobody serves after a stop, and a stale file is taken
\* from no server it describes.
THEOREM TrackingIsTruthful == Spec => TrackingTruthful
<1>1. ProcInv /\ ChildInv /\ [Next]_vars =>
        [\A c \in Commands :
           Goes(c, "discard", {"idle"}) =>
             \A p \in Serving \ {cmd[c].file.pid} :
               Tracked(p) => pidfile' = pidfile]_vars
  BY DiscardKeepsOthers
<1>2. ProcInv /\ ChildInv /\ TurnInv /\ [Next]_vars =>
        [~irregular' =>
           \A c \in Commands :
             /\ Goes(c, "write", {"idle"}) => \A p \in Serving : Tracked(p)'
             /\ HonestStop(c)
             /\ Goes(c, "stale", {"probe"}) => \A p \in Serving : ~Tracked(p)]_vars
  BY TruthInTurn
<1>3. Spec => FailedStartKeepsTracking
  BY <1>1, SupervisorInvariant, PTL DEF Spec, FailedStartKeepsTracking
<1>4. Spec => AnswersTrueInTurn
  BY <1>2, SupervisorInvariant, InTurnInvariant, PTL DEF Spec, AnswersTrueInTurn
<1> QED BY <1>3, <1>4 DEF TrackingTruthful

===============================================================================
