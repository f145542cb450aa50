----------------------------- MODULE MCSupervisor -----------------------------
(***************************************************************************)
(* Supervisor for TLC: process numbers and invocations are                 *)
(* interchangeable.                                                        *)
(***************************************************************************)
EXTENDS Supervisor, TLC

Symmetry == Permutations(Pids) \cup Permutations(Commands)

\* What a server is busy with concerns nobody but itself: it is explored
\* while no invocation is running.
Apart ==
  (\E p \in Pids : IsServer(p) /\ (proc[p].busy \/ proc[p].task))
    => \A c \in Commands : At(c, "idle")
=============================================================================
