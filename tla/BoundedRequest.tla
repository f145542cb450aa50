--------------------------- MODULE BoundedRequest ---------------------------
(***************************************************************************)
(* What the retry layer promises its caller: every further attempt of a    *)
(* request is paid for from a budget fixed when the request starts, a      *)
(* request ends once, and after its end nothing more is sent for it.       *)
(***************************************************************************)
EXTENDS Integers

CONSTANT Budget  \* a natural number

VARIABLES running, fuel

Init == running = TRUE /\ fuel = Budget

Retry ==
  /\ running
  /\ running' = TRUE
  /\ fuel' \in 0 .. fuel - 1

Finish ==
  /\ running
  /\ running' = FALSE
  /\ fuel' = 0

Next == Retry \/ Finish

Spec == Init /\ [][Next]_<<running, fuel>>

=============================================================================
