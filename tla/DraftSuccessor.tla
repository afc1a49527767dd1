--------------------------- MODULE DraftSuccessor ---------------------------
(***************************************************************************)
(* assets/draft_listing_successor.py: when a product's assets are complete *)
(* its one DraftListingJob is created by the ASSETS_COMPLETED event and    *)
(* moved to READY, in a savepoint of the caller's transaction.  Several    *)
(* workflows may report the same product, in overlapping transactions,     *)
(* while the queue (JobQueue) goes on moving the job.                      *)
(*                                                                         *)
(* One product.  The event rows that matter are the product's own key and  *)
(* the keys ASSETS_COMPLETED:{product}:{workflow}:null that earlier        *)
(* releases wrote (D-0035).  The session does not refresh a row it has     *)
(* already loaded; the UPDATE compares the version instead.                *)
(***************************************************************************)
EXTENDS TransitionGuard, Naturals, FiniteSets

CONSTANTS
  Reports,       \* transactions that run create_ready_draft_listing_job
  ReportedBy,    \* the workflow each call reports for
  LegacyOf,      \* workflows whose completion an earlier release may have recorded
  MaxJobVersion  \* bound on the job row's version, for model checking

VARIABLES
  events,     \* committed dedupe keys: Product, or the workflow of a legacy key
  draft_job,  \* the committed DraftListingJob row: status and version
  draft_call  \* per call: where it is, its copy of the job, the rows it has written

draftVars == <<events, draft_job, draft_call>>

Product == "product"

\* The keys differ.
ASSUME LegacyAssumption == Product \notin LegacyOf

NoDraftJob == [status |-> "NO_ROW", version |-> 0]

OpenReport == {"load", "look_up", "insert_event", "create", "insert_job", "ready", "commit"}

\* A legacy key, if there is one, stands beside the PENDING job it was recorded with.
DraftInit ==
  /\ events \in {{}, LegacyOf}
  /\ draft_job = IF events = {} THEN NoDraftJob ELSE [status |-> "PENDING", version |-> 1]
  /\ draft_call = [c \in Reports |-> [at |-> "load", copy |-> NoDraftJob, wrote |-> {}]]

-----------------------------------------------------------------------------
(* Transactions.                                                           *)

ReportGoto(c, step) == draft_call' = [draft_call EXCEPT ![c].at = step]

\* The savepoint is rolled back and the exception goes to the caller.
RaiseReport(c) == draft_call' = [draft_call EXCEPT ![c].at = "raised", ![c].wrote = {}]

\* No other open transaction has written the row called what.
Free(c, what) == \A o \in Reports \ {c} : what \notin draft_call[o].wrote

\* The row lock of an UPDATE that has not been committed.
DraftJobUnlocked == \A c \in Reports : draft_call[c].wrote \cap {"job", "ready"} = {}

-----------------------------------------------------------------------------
(* create_ready_draft_listing_job.  The draft itself is EtsyDraft's.       *)

\* session.get(Job): a READY job needs nothing more.
LoadDraftJob(c) ==
  /\ draft_call[c].at = "load"
  /\ draft_call' = [draft_call EXCEPT ![c].copy = draft_job,
                                      ![c].at = IF draft_job.status = "READY" THEN "commit" ELSE "look_up"]
  /\ UNCHANGED <<events, draft_job>>

\* A plausible slip: only the product's new key is looked up.
Recorded_NewKeyOnly(c) == Product \in events

\* dispatch: this workflow's legacy key, or the product's key in append.
Recorded(c) == ReportedBy[c] \in events \/ Product \in events

\* An event on record creates no job; the job loaded before is still moved.
LookUpEvent(c) ==
  /\ draft_call[c].at = "look_up"
  /\ ReportGoto(c, IF ~Recorded(c) THEN "insert_event"
                   ELSE IF draft_call[c].copy = NoDraftJob THEN "commit" ELSE "ready")
  /\ UNCHANGED <<events, draft_job>>

InsertEvent(c) ==
  /\ draft_call[c].at = "insert_event"
  /\ Free(c, "event")
  /\ IF Product \in events
     THEN RaiseReport(c)
     ELSE draft_call' = [draft_call EXCEPT ![c].at = "create", ![c].wrote = @ \cup {"event"}]
  /\ UNCHANGED <<events, draft_job>>

\* _create_successor_job: session.get returns the copy it has, or reads again.
FindSuccessor(c) ==
  LET hit == IF draft_call[c].copy # NoDraftJob THEN draft_call[c].copy ELSE draft_job
  IN  /\ draft_call[c].at = "create"
      /\ draft_call' = [draft_call EXCEPT ![c].copy = hit,
                                          ![c].at = IF hit = NoDraftJob THEN "insert_job" ELSE "ready"]
      /\ UNCHANGED <<events, draft_job>>

\* The id and the idempotency key are the product's: a second row is refused.
InsertSuccessor(c) ==
  /\ draft_call[c].at = "insert_job"
  /\ Free(c, "job")
  /\ IF draft_job # NoDraftJob
     THEN RaiseReport(c)
     ELSE draft_call' = [draft_call EXCEPT ![c].at = "ready", ![c].wrote = @ \cup {"job"},
                                           ![c].copy = [status |-> "PENDING", version |-> 1]]
  /\ UNCHANGED <<events, draft_job>>

\* A plausible slip: the UPDATE does not compare the version that was read.
MayReady_Unversioned(c) == RequireJobTransition(draft_call[c].copy.status, "READY")

\* The guard sees the loaded copy; the UPDATE finds no row if it is stale.
MayReady(c) ==
  /\ RequireJobTransition(draft_call[c].copy.status, "READY")
  /\ "job" \in draft_call[c].wrote \/ draft_call[c].copy.version = draft_job.version

MakeReady(c) ==
  /\ draft_call[c].at = "ready"
  /\ Free(c, "ready") /\ Free(c, "job")
  /\ IF MayReady(c)
     THEN draft_call' = [draft_call EXCEPT ![c].at = "commit", ![c].wrote = @ \cup {"ready"}]
     ELSE RaiseReport(c)
  /\ UNCHANGED <<events, draft_job>>

CommitReport(c) ==
  /\ draft_call[c].at = "commit"
  /\ events' = IF "event" \in draft_call[c].wrote THEN events \cup {Product} ELSE events
  /\ draft_job' = IF "ready" \in draft_call[c].wrote
                  THEN [status |-> "READY", version |-> draft_call[c].copy.version + 1] ELSE draft_job
  /\ draft_call' = [draft_call EXCEPT ![c].at = "returned", ![c].wrote = {}]

\* A cancellation, a failure in the caller, or the death of its process.
AbandonReport(c) ==
  /\ draft_call[c].at \in OpenReport
  /\ RaiseReport(c)
  /\ UNCHANGED <<events, draft_job>>

\* Worker, scheduler and operator transactions on the job, along the graph.
QueueMovesJob ==
  /\ draft_job # NoDraftJob /\ DraftJobUnlocked
  /\ draft_job.version < MaxJobVersion
  /\ \E s \in JobStatus : /\ RequireJobTransition(draft_job.status, s)
                          /\ draft_job' = [status |-> s, version |-> draft_job.version + 1]
  /\ UNCHANGED <<events, draft_call>>

CreateReadyDraftListingJob(c) ==
  \/ LoadDraftJob(c)
  \/ LookUpEvent(c)
  \/ InsertEvent(c)
  \/ FindSuccessor(c)
  \/ InsertSuccessor(c)
  \/ MakeReady(c)
  \/ CommitReport(c)
  \/ AbandonReport(c)

DraftNext == QueueMovesJob \/ \E c \in Reports : CreateReadyDraftListingJob(c)

DraftSpec == DraftInit /\ [][DraftNext]_draftVars

-----------------------------------------------------------------------------
\* One product has one completion and one draft job, and they come together.
\* However many workflows report the product, the completion is recorded once;
\* beside a legacy key dispatch appends the product's key only for a workflow
\* other than the one the legacy key names, because it looks up no other.  The
\* job row exists exactly when an event does, and after every call that returned,
\* even if another call's event made it skip the creation.
OneCompletion ==
  /\ LegacyOf \cap events # {} /\ Product \in events =>
       \E c \in Reports : draft_call[c].at = "returned" /\ ReportedBy[c] \notin LegacyOf
  /\ draft_job # NoDraftJob <=> events # {}
  /\ \A c \in Reports : draft_call[c].at = "returned" => draft_job # NoDraftJob

\* No call revives a job from a status it only remembers: a job that was
\* cancelled or has succeeded since this transaction loaded it stays so, and
\* every committed move is an edge of the graph from the status it replaces.
NoStaleRevival ==
  [][draft_job' # draft_job =>
       \/ draft_job = NoDraftJob /\ draft_job'.status = "READY"
       \/ /\ RequireJobTransition(draft_job.status, draft_job'.status)
          /\ draft_job'.version = draft_job.version + 1]_draftVars
=============================================================================
