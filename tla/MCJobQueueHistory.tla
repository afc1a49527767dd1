------------------------- MODULE MCJobQueueHistory --------------------------
(***************************************************************************)
(* Small instances of JobQueueHistory for TLC.                             *)
(***************************************************************************)
EXTENDS JobQueueHistory

CONSTANT w1

MCBackoff == [n \in 0..MaxAttempts |-> 0]

OneWorkflowOf == [j \in Jobs |-> w1]
NoSuccessors  == [j \in Jobs |-> {}]
AllSafe       == [j \in Jobs |-> "SAFE"]
=============================================================================
