------------------------------- MODULE MCAnswers -------------------------------
(***************************************************************************)
(* The two stages of an answer, which share no state: the upstream request *)
(* and its attempts, and the turns that make one message of their answers. *)
(* A behaviour is of one of them, its part; the other stays as it starts.  *)
(***************************************************************************)
EXTENDS RetryLoop, SyncMessage

VARIABLE part

allVars == <<part, vars, streamVars>>

AnswersInit ==
  /\ part \in {"request", "message"}
  /\ Init
  /\ part # "request" =>
       /\ mode = "hybrid"
       /\ request = [tools |-> FALSE, missing |-> FALSE, reasoning |-> FALSE,
                     format |-> FALSE]
  /\ MessagesInit /\ (part # "message" => stage = "turn")

Requesting == part = "request" /\ Next /\ UNCHANGED <<part, streamVars>>
Composing == part = "message" /\ MessagesNext /\ UNCHANGED <<part, vars>>

AnswersSpec == AnswersInit /\ [][Requesting \/ Composing]_allVars

\* The fairness of RetryLoop and of SyncMessage: the step of the part.
Answering ==
  \/ part = "request" /\ (Select \/ Respond) /\ UNCHANGED <<part, streamVars>>
  \/ Composing

FairAnswersSpec ==
  AnswersSpec /\ WF_allVars(Answering) /\ []<>(stage # "read")

-----------------------------------------------------------------------------
\* Every upstream request ends, and every message comes to its recorded end.
EveryAnswerEnds ==
  <>(IF part = "request" THEN pc = "done" ELSE verdict # "none" /\ Idle)

=============================================================================
