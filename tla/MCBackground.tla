----------------------------- MODULE MCBackground ------------------------------
(***************************************************************************)
(* What goes on behind the requests, in two parts that share no state: the *)
(* writer of the history, and the containers of the exits.  A behaviour is *)
(* of one part; the other stays as it starts.                              *)
(***************************************************************************)
EXTENDS MCHistoryStore, Containers

VARIABLE part

containerVars == cvars
backgroundVars == <<part, vars, containerVars>>

BackgroundInit ==
  /\ part \in {"history", "containers"}
  /\ Init
  /\ ContainersInit
  /\ part # "history" => enabled
  /\ part # "containers" =>
       serving /\ box = [p \in Port |-> Box("running", TRUE)]

OfHistory(A) == part = "history" /\ A /\ UNCHANGED <<part, containerVars>>
OfContainers(A) == part = "containers" /\ A /\ UNCHANGED <<part, vars>>

BackgroundSpec ==
  BackgroundInit
    /\ [][OfHistory(Next) \/ OfContainers(ContainersNext)]_backgroundVars

\* The fairness of each part; a behaviour is of one part only.
FairBackgroundSpec ==
  /\ BackgroundSpec
  /\ WF_backgroundVars(OfHistory(Receive) \/ OfContainers(Reconciling))
  /\ WF_backgroundVars(OfHistory(Writes))
  /\ \A r \in Request : WF_backgroundVars(OfHistory(Applies(r)))

=============================================================================
