--------------------------- MODULE MCHistoryStore ---------------------------
(***************************************************************************)
(* HistoryStore for TLC: a request, and the recovery of its response.      *)
(***************************************************************************)
EXTENDS HistoryStore

CONSTANTS original, recovery

MCRequest == {original, recovery}
MCParent == [r \in MCRequest |-> IF r = recovery THEN original ELSE NoRequest]

=============================================================================
