-------------------------- MODULE JobQueueHistory ---------------------------
(***************************************************************************)
(* JobQueue with a history variable that no code keeps: which FAILED jobs  *)
(* the stall detector failed.                                              *)
(***************************************************************************)
EXTENDS JobQueue

VARIABLE stalledOut

historyVars == <<vars, stalledOut>>

HistoryInit ==
  /\ Init
  /\ stalledOut = {}

\* For a SAFE job only the stall detector spends an attempt and leaves FAILED.
StalledNow(j) == status[j] = "RUNNING" /\ attempt'[j] = attempt[j] + 1

HistoryNext ==
  /\ Next
  /\ stalledOut' = {j \in Jobs : status'[j] = "FAILED" /\ (j \in stalledOut \/ StalledNow(j))}

HistorySpec == HistoryInit /\ [][HistoryNext]_historyVars

FairHistorySpec ==
  HistorySpec /\ WF_historyVars(SchedulerCycle /\ HistoryNext) /\ WF_historyVars(Tick /\ HistoryNext)

\* The comment in detect_stalled_jobs: a stalled job "will be retried by the
\* next promote_due_jobs pass if budget remains".
StalledJobRetried ==
  \A j \in Jobs :
    (j \in stalledOut /\ RetryClassOf[j] = "SAFE" /\ attempt[j] < MaxAttempts)
      ~> status[j] # "FAILED"
=============================================================================
