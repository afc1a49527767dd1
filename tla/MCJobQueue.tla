----------------------------- MODULE MCJobQueue -----------------------------
(***************************************************************************)
(* Small instances of JobQueue for TLC.                                    *)
(***************************************************************************)
EXTENDS JobQueue, TLC

CONSTANTS w1, a, b, c

\* One minute-like unit of backoff, doubled per attempt and capped at two.
MCBackoff == [n \in 0..MaxAttempts |-> CalculateBackoff(n, 1, 2, 2)]

\* Every job belongs to one workflow: an entry job a, the successor b that
\* a's result creates and that also waits for a, and a build job c.
ChainWorkflowOf   == [j \in Jobs |-> w1]
ChainSuccessorsOf == [j \in Jobs |-> IF j = a THEN Jobs \cap {b} ELSE {}]
ChainDependsOn    == [j \in Jobs |-> IF j = b THEN Jobs \cap {a} ELSE {}]
ChainRetryClassOf ==
  [j \in Jobs |-> IF j = a THEN "SAFE" ELSE IF j = b THEN "NEVER" ELSE "RECONCILE_FIRST"]

Symmetry == Permutations(Workers) \cup Permutations(Holders)
=============================================================================
