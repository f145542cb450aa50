------------------------------ MODULE MCApiKeys ------------------------------
(***************************************************************************)
(* ApiKeys for TLC: operators, settings and providers are interchangeable. *)
(***************************************************************************)
EXTENDS ApiKeys

Symmetry == Permutations(Operators) \cup Permutations(Settings)
            \cup Permutations(Providers)

\* Requests read and write nothing that the apply workflow or a provider
\* switch reads or writes: their interleavings with these are not explored,
\* and those with the edits of keys for one fault only.
Apart ==
  (\E r \in Requests : req[r] # NoRequest) \/ (\E k \in Secrets : admitted[k] > 0)
    => /\ \A o \in Operators : op[o].kind \notin {"apply", "switch"}
       /\ acked = {} /\ ~parted
       /\ faults <= 1
=============================================================================
