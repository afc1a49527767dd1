------------------------- MODULE MultiplySuccessor -------------------------
(***************************************************************************)
(* EventDispatcher.dispatch_decision and the MULTIPLY boundary: a winning  *)
(* product's workflow returns to OBSERVING and a NEW workflow starts at    *)
(* DEDUPE_CHECK with one DedupeJob.  One parent workflow, several          *)
(* decisions about it, and calls that may run in overlapping transactions: *)
(* the same decision dispatched again, or two decisions of one review.     *)
(*                                                                         *)
(* A call is a transaction.  Its rows are invisible until the commit; an   *)
(* INSERT of a key that another open transaction has inserted waits for    *)
(* that one, an UPDATE waits for the row lock and then fails if the        *)
(* version it read is gone (StaleDataError).                               *)
(***************************************************************************)
EXTENDS TransitionGuard, Naturals

CONSTANTS
  Dispatches,         \* transactions that run dispatch_decision
  Decisions,
  MultiplyDecisions,  \* decisions of type MULTIPLY; the others are HOLD, REPAIR or CULL
  Parent,             \* the parent's workflow id
  Workflows,          \* workflow ids
  DecisionOf,         \* the decision of each call
  JobOf,              \* parent_job_id of each call
  SuccessorOf,        \* successor_workflow_id of each MULTIPLY decision
  SpecOf,             \* successor_spec_id of each MULTIPLY decision
  MaxParentVersion    \* bound on the parent row's version, for model checking

VARIABLES
  parent,         \* the parent's committed workflow_runs row: product_state and version
  multiply_rows,  \* committed workflow, job and event rows, each named by its unique keys
  multiply_call   \* per call: where it is, the parent it read, the rows it has inserted

multiplyVars == <<parent, multiply_rows, multiply_call>>

\* The rows a decision leads to.  The entry job's id is derived from workflow
\* and spec, and its idempotency key is DEDUPE:spec.
WorkflowRow(d)   == [table |-> "workflow", id |-> SuccessorOf[d], decision |-> d]
JobRow(d)        == [table |-> "job", id |-> <<SuccessorOf[d], SpecOf[d]>>, spec |-> SpecOf[d]]
WinnerRow(d, j)  == [table |-> "event", name |-> "WINNER_DETECTED", decision |-> d, job |-> j]
CreatedRow(d)    == [table |-> "event", name |-> "SUCCESSOR_CREATED", decision |-> d]

\* Two rows that no table can hold both of.
Collide(r, s) ==
  /\ r.table = s.table
  /\ \/ r.table = "workflow" /\ r.id = s.id
     \/ r.table = "job" /\ (r.id = s.id \/ r.spec = s.spec)
     \/ r.table = "event" /\ r = s

OpenDispatch == {"check", "read", "update", "workflow", "job", "winner", "insert_winner",
         "created", "commit"}

\* start_workflow lets its caller name any product state.
MultiplyInit ==
  /\ parent \in [state : ProductLifecycleState, version : {1}]
  /\ multiply_rows = {}
  /\ multiply_call = [c \in Dispatches |-> [at |-> "check", seen |-> 0, new |-> {}]]

-----------------------------------------------------------------------------
(* Transactions.                                                           *)

InTransaction(c) == multiply_call[c].at \in OpenDispatch

DispatchGoto(c, step) == multiply_call' = [multiply_call EXCEPT ![c].at = step]

\* A flush that fails, or an exception: everything is rolled back.
RaiseDispatch(c) == multiply_call' = [multiply_call EXCEPT ![c].at = "raised", ![c].new = {}]

\* The flush of one INSERT.
Insert(c, row, step) ==
  /\ \A o \in Dispatches \ {c} : \A r \in multiply_call[o].new : ~Collide(r, row)
  /\ IF \E r \in multiply_rows : Collide(r, row)
     THEN RaiseDispatch(c)
     ELSE multiply_call' = [multiply_call EXCEPT ![c].at = step, ![c].new = @ \cup {row}]

\* A call that has flushed the parent's UPDATE, and inserted the successor
\* workflow right after it, holds the row's lock until it ends.
HoldsParent(c) == multiply_call[c].at = "workflow" \/ \E r \in multiply_call[c].new : r.table = "workflow"

ParentUnlocked == \A c \in Dispatches : ~HoldsParent(c)

-----------------------------------------------------------------------------
(* dispatch_decision, one action per statement that reaches the database.  *)

\* The look-up of WINNER_DETECTED.  A MULTIPLY decision already dispatched
\* returns its successor job without creating another.
CheckWinner(c) ==
  LET d == DecisionOf[c]
  IN  /\ multiply_call[c].at = "check"
      /\ DispatchGoto(c, IF d \notin MultiplyDecisions THEN "winner"
                         ELSE IF WinnerRow(d, JobOf[c]) \in multiply_rows THEN "returned" ELSE "read")
      /\ UNCHANGED <<parent, multiply_rows>>

\* create_multiply_successor reads the parent and asks both guards.
ReadParent(c) ==
  /\ multiply_call[c].at = "read"
  /\ IF /\ RequireSuccessorSpawn(parent.state, Parent, SuccessorOf[DecisionOf[c]])
        /\ RequireProductTransition(parent.state, "OBSERVING")
     THEN multiply_call' = [multiply_call EXCEPT ![c].at = "update", ![c].seen = parent.version]
     ELSE RaiseDispatch(c)
  /\ UNCHANGED <<parent, multiply_rows>>

\* A plausible slip: the row has no version column to compare.
UpdateParent_Unversioned(c) ==
  /\ multiply_call[c].at = "update"
  /\ ParentUnlocked
  /\ DispatchGoto(c, "workflow")
  /\ UNCHANGED <<parent, multiply_rows>>

\* The UPDATE of product_state, guarded by the version that was read.
UpdateParent(c) ==
  /\ multiply_call[c].at = "update"
  /\ ParentUnlocked
  /\ IF parent.version = multiply_call[c].seen THEN DispatchGoto(c, "workflow") ELSE RaiseDispatch(c)
  /\ UNCHANGED <<parent, multiply_rows>>

CreateSuccessorWorkflow(c) ==
  /\ multiply_call[c].at = "workflow"
  /\ Insert(c, WorkflowRow(DecisionOf[c]), "job")
  /\ UNCHANGED <<parent, multiply_rows>>

\* A plausible slip: a job that already holds the key is taken for this one.
CreateSuccessorEntryJob_Adopts(c) ==
  /\ multiply_call[c].at = "job"
  /\ IF \E r \in multiply_rows : Collide(r, JobRow(DecisionOf[c]))
     THEN DispatchGoto(c, "winner")
     ELSE Insert(c, JobRow(DecisionOf[c]), "winner")
  /\ UNCHANGED <<parent, multiply_rows>>

CreateSuccessorEntryJob(c) ==
  /\ multiply_call[c].at = "job"
  /\ Insert(c, JobRow(DecisionOf[c]), "winner")
  /\ UNCHANGED <<parent, multiply_rows>>

AfterWinner(c) == IF DecisionOf[c] \in MultiplyDecisions THEN "created" ELSE "commit"

\* EventRepository.append looks the key up first; a row found is accepted.
LookUpWinner(c) ==
  /\ multiply_call[c].at = "winner"
  /\ DispatchGoto(c, IF WinnerRow(DecisionOf[c], JobOf[c]) \in multiply_rows THEN AfterWinner(c)
                     ELSE "insert_winner")
  /\ UNCHANGED <<parent, multiply_rows>>

\* WINNER_DETECTED is appended for every decision that was not refused.
AppendWinner(c) ==
  /\ multiply_call[c].at = "insert_winner"
  /\ Insert(c, WinnerRow(DecisionOf[c], JobOf[c]), AfterWinner(c))
  /\ UNCHANGED <<parent, multiply_rows>>

\* SUCCESSOR_CREATED carries the workflow and job this transaction inserted.
AppendSuccessorCreated(c) ==
  /\ multiply_call[c].at = "created"
  /\ Insert(c, CreatedRow(DecisionOf[c]), "commit")
  /\ UNCHANGED <<parent, multiply_rows>>

ParentAfterCommit(c) ==
  IF HoldsParent(c) THEN [state |-> "OBSERVING", version |-> parent.version + 1] ELSE parent

CommitDispatch(c) ==
  /\ multiply_call[c].at = "commit"
  /\ parent' = ParentAfterCommit(c)
  /\ multiply_rows' = multiply_rows \cup multiply_call[c].new
  /\ multiply_call' = [multiply_call EXCEPT ![c].at = "returned", ![c].new = {}]

\* The caller rolls back, or its process dies.
AbandonDispatch(c) ==
  /\ InTransaction(c)
  /\ RaiseDispatch(c)
  /\ UNCHANGED <<parent, multiply_rows>>

\* The rest of the product's life: any canonical edge, in somebody's transaction.
ParentAdvances ==
  /\ ParentUnlocked
  /\ parent.version < MaxParentVersion
  /\ \E s \in ProductLifecycleState :
       /\ RequireProductTransition(parent.state, s)
       /\ parent' = [state |-> s, version |-> parent.version + 1]
  /\ UNCHANGED <<multiply_rows, multiply_call>>

DispatchDecision(c) ==
  \/ CheckWinner(c)
  \/ ReadParent(c)
  \/ UpdateParent(c)
  \/ CreateSuccessorWorkflow(c)
  \/ CreateSuccessorEntryJob(c)
  \/ LookUpWinner(c)
  \/ AppendWinner(c)
  \/ AppendSuccessorCreated(c)
  \/ CommitDispatch(c)
  \/ AbandonDispatch(c)

MultiplyNext == ParentAdvances \/ \E c \in Dispatches : DispatchDecision(c)

MultiplySpec == MultiplyInit /\ [][MultiplyNext]_multiplyVars

-----------------------------------------------------------------------------
\* A MULTIPLY decision is dispatched whole or not at all, however often and by
\* however many transactions: its WINNER_DETECTED row, the successor workflow,
\* the entry job and SUCCESSOR_CREATED are all committed or none is, and there
\* is one WINNER_DETECTED row whichever job reported the decision.
DecisionAtomic ==
  \A d \in MultiplyDecisions :
    LET winners == {r \in multiply_rows : r.table = "event" /\ r.name = "WINNER_DETECTED" /\ r.decision = d}
    IN  IF winners = {}
        THEN multiply_rows \cap {WorkflowRow(d), CreatedRow(d)} = {}
        ELSE /\ {WorkflowRow(d), JobRow(d), CreatedRow(d)} \subseteq multiply_rows
             /\ \A r, s \in winners : r = s

\* A successor workflow appears only in the commit that takes its parent from
\* SUCCESSOR_SPEC to OBSERVING: of two decisions that both read SUCCESSOR_SPEC
\* one loses, so one visit to SUCCESSOR_SPEC spawns at most one successor.
SpawnLeavesSuccessorSpec ==
  [][\A d \in MultiplyDecisions :
       WorkflowRow(d) \in multiply_rows' \ multiply_rows =>
         /\ parent.state = "SUCCESSOR_SPEC" /\ parent'.state = "OBSERVING"
         /\ SuccessorOf[d] # Parent
         /\ \A e \in MultiplyDecisions :
              WorkflowRow(e) \in multiply_rows' \ multiply_rows => e = d]_multiplyVars
=============================================================================
