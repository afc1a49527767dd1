---------------------------- MODULE DraftEffects ----------------------------
(***************************************************************************)
(* SqlDraftEffects.execute (application/real_draft_effects.py) for one     *)
(* operation key, called by any number of CLI runs of the same build job.  *)
(* Every transaction locks the job row, so each is one atomic step; the    *)
(* provider is called between transactions, and there a run can crash, its *)
(* lease can go to another run and the answer to its write can get lost.   *)
(*                                                                         *)
(* A provider object carries the name of the run whose POST created it.    *)
(***************************************************************************)
CONSTANTS Runs, NoId

ASSUME IdAssumption == NoId \notin Runs

VARIABLES
  holder,     \* the run with a RUNNING, unexpired lease on the job, or NoId
  pc,         \* the next step of each run's execute
  mayCreate,  \* execute's may_create
  known,      \* execute's known_id
  seen,       \* execute's created_id, then object_id
  latest,     \* the newest effect_attempts row; state NONE: no reservation
  completed,  \* the reservation's completed_at is set
  receipts,   \* the receipt rows: who wrote it, for which object
  inflight,   \* the runs whose POST is on its way to the provider
  objects     \* the provider's objects for this key

dbVars == <<latest, completed, receipts>>
netVars == <<inflight, objects>>
vars == <<holder, pc, mayCreate, known, seen, dbVars, netVars>>

Row(state, id) == [state |-> state, id |-> id]

TypeOK ==
  /\ holder \in Runs \cup {NoId}
  /\ pc \in [Runs -> {"new", "ready", "look", "recheck", "guard", "send", "wait", "created",
                      "readback", "reread", "confirm", "absent", "unknown", "done"}]
  /\ mayCreate \in [Runs -> BOOLEAN]
  /\ known \in [Runs -> Runs \cup {NoId}]
  /\ seen \in [Runs -> Runs \cup {NoId}]
  /\ latest \in [state : {"NONE", "UNKNOWN", "ABSENT", "CONFIRMED"}, id : Runs \cup {NoId}]
  /\ completed \in BOOLEAN
  /\ receipts \in SUBSET (Runs \X (Runs \cup {NoId}))
  /\ inflight \in SUBSET Runs
  /\ objects \in SUBSET Runs

Init ==
  /\ holder = NoId
  /\ pc = [r \in Runs |-> "new"]
  /\ mayCreate = [r \in Runs |-> FALSE]
  /\ known = [r \in Runs |-> NoId]
  /\ seen = [r \in Runs |-> NoId]
  /\ latest = Row("NONE", NoId)
  /\ completed = FALSE
  /\ receipts = {}
  /\ inflight = {}
  /\ objects = {}

Goto(r, label) == pc' = [pc EXCEPT ![r] = label]

-----------------------------------------------------------------------------
(* The job's lease, as execute sees it.                                    *)

\* claim_build_job for a run of its own owner name.
Claim(r) ==
  /\ pc[r] = "new" /\ holder = NoId
  /\ holder' = r
  /\ Goto(r, "ready")
  /\ UNCHANGED <<mayCreate, known, seen, dbVars, netVars>>

\* Expiry, reclaim, stall detection, or the run's own finally clause.
LoseLease ==
  /\ holder # NoId
  /\ holder' = NoId
  /\ UNCHANGED <<pc, mayCreate, known, seen, dbVars, netVars>>

\* A run dies, or leaves execute because the job row is no longer its own.
Stop(r) ==
  /\ pc[r] # "done"
  /\ Goto(r, "done")
  /\ UNCHANGED <<holder, mayCreate, known, seen, dbVars, netVars>>

-----------------------------------------------------------------------------
(* execute, one action per transaction or provider call.                   *)

\* A plausible slip: a reservation whose outcome is not known may be retried.
MayCreate_RetriesUnknown == latest.state # "CONFIRMED"

\* get_idempotency_record finds the key's reservation.
Reserved == latest.state # "NONE"

\* A new reservation, or one whose write is known not to have happened.
MayCreate == ~Reserved \/ (latest.state = "ABSENT" /\ ~completed)

\* The reservation row, inserted once, and the UNKNOWN attempt that claims it.
ReserveKey == latest' = Row("UNKNOWN", latest.id)

\* The first transaction reserves the key and writes the in-flight claim.
Reserve(r) ==
  /\ pc[r] = "ready" /\ holder = r
  /\ known' = [known EXCEPT ![r] = latest.id]
  /\ mayCreate' = [mayCreate EXCEPT ![r] = MayCreate]
  /\ IF MayCreate THEN ReserveKey ELSE UNCHANGED latest
  /\ Goto(r, "look")
  /\ UNCHANGED <<holder, seen, completed, receipts, netVars>>

\* An exception before the write: nothing was sent if this run may create.
BeforeWriteFailure(r) == IF mayCreate[r] THEN "absent" ELSE "unknown"

\* reconcile(known_id) finds an object: the known one, if there is one.
LookFound(r, i) ==
  /\ pc[r] = "look" /\ i \in objects
  /\ seen' = [seen EXCEPT ![r] = i]
  /\ Goto(r, IF known[r] \in {NoId, i} THEN "confirm" ELSE BeforeWriteFailure(r))
  /\ UNCHANGED <<holder, mayCreate, known, dbVars, netVars>>

\* It finds nothing (searches lag behind writes): only a creator goes on.
LookNothing(r) ==
  /\ pc[r] = "look"
  /\ Goto(r, IF mayCreate[r] THEN "recheck" ELSE "unknown")
  /\ UNCHANGED <<holder, mayCreate, known, seen, dbVars, netVars>>

LookFails(r) ==
  /\ pc[r] = "look"
  /\ Goto(r, BeforeWriteFailure(r))
  /\ UNCHANGED <<holder, mayCreate, known, seen, dbVars, netVars>>

\* The second transaction: the lease and the open reservation, again.
Recheck(r) ==
  /\ pc[r] = "recheck"
  /\ Goto(r, IF holder = r /\ ~completed THEN "guard" ELSE "absent")
  /\ UNCHANGED <<holder, mayCreate, known, seen, dbVars, netVars>>

\* create(): the adapter's own reads, then assert_lease just before its write.
\* Anything refused here is a DraftRunRefused before create returned.
AssertLease(r) ==
  /\ pc[r] = "guard"
  /\ \/ holder = r /\ ~completed /\ Goto(r, "send")
     \/ Goto(r, "absent")
  /\ UNCHANGED <<holder, mayCreate, known, seen, dbVars, netVars>>

Send(r) ==
  /\ pc[r] = "send"
  /\ Goto(r, "wait")
  /\ inflight' = inflight \cup {r}
  /\ UNCHANGED <<holder, mayCreate, known, seen, dbVars, objects>>

\* The provider applies a request, whether or not its sender still waits.
ProviderCreates(r) ==
  /\ r \in inflight
  /\ inflight' = inflight \ {r}
  /\ objects' = objects \cup {r}
  /\ UNCHANGED <<holder, pc, mayCreate, known, seen, dbVars>>

\* A 4xx answer is a definite refusal; it becomes DraftRunRefused.
ProviderRefuses(r) ==
  /\ pc[r] = "wait" /\ r \in inflight
  /\ inflight' = inflight \ {r}
  /\ Goto(r, "absent")
  /\ UNCHANGED <<holder, mayCreate, known, seen, dbVars, objects>>

CreateReturns(r) ==
  /\ pc[r] = "wait" /\ r \in objects
  /\ seen' = [seen EXCEPT ![r] = r]
  /\ known' = [known EXCEPT ![r] = r]
  /\ Goto(r, "created")
  /\ UNCHANGED <<holder, mayCreate, dbVars, netVars>>

\* A timeout, a 5xx or an unreadable answer: the write may still happen.
WriteUncertain(r) ==
  /\ pc[r] = "wait"
  /\ Goto(r, "unknown")
  /\ UNCHANGED <<holder, mayCreate, known, seen, dbVars, netVars>>

\* The third transaction records the accepted id whoever holds the lease.
RecordAccepted(r) ==
  /\ pc[r] = "created"
  /\ \/ /\ ~completed
        /\ latest' = Row("UNKNOWN", seen[r])
        /\ Goto(r, "readback")
     \/ /\ completed
        /\ Goto(r, IF latest = Row("CONFIRMED", seen[r]) THEN "readback" ELSE "unknown")
        /\ UNCHANGED latest
  /\ UNCHANGED <<holder, mayCreate, known, seen, completed, receipts, netVars>>

\* The fourth transaction only checks the lease before the readback.
CheckBeforeReadback(r) ==
  /\ pc[r] = "readback"
  /\ Goto(r, IF holder = r THEN "reread" ELSE "unknown")
  /\ UNCHANGED <<holder, mayCreate, known, seen, dbVars, netVars>>

Readback(r) ==
  /\ pc[r] = "reread"
  /\ \/ seen[r] \in objects /\ Goto(r, "confirm")
     \/ Goto(r, "unknown")
  /\ UNCHANGED <<holder, mayCreate, known, seen, dbVars, netVars>>

\* The except branch: the verdict is recorded under the lease, unless the
\* reservation has been completed meanwhile.
RecordFailure(r) ==
  /\ pc[r] \in {"absent", "unknown"} /\ holder = r
  /\ latest' = IF completed THEN latest
               ELSE IF pc[r] = "absent" THEN Row("ABSENT", NoId) ELSE Row("UNKNOWN", known[r])
  /\ Goto(r, "done")
  /\ UNCHANGED <<holder, mayCreate, known, seen, completed, receipts, netVars>>

\* record_receipt appends the receipt of the object; receipts are never updated.
RecordReceipt(r) == receipts' = receipts \cup {<<r, seen[r]>>}

\* mark_idempotency_completed.
MarkCompleted == completed' = TRUE

\* The last transaction: CONFIRMED row, receipt and completion together.
RecordConfirmed(r) ==
  /\ pc[r] = "confirm" /\ holder = r
  /\ \/ /\ ~completed
        /\ latest' = Row("CONFIRMED", seen[r])
        /\ RecordReceipt(r)
        /\ MarkCompleted
     \/ completed /\ UNCHANGED dbVars
  /\ Goto(r, "done")
  /\ UNCHANGED <<holder, mayCreate, known, seen, netVars>>

-----------------------------------------------------------------------------
Execute(r) ==
  \/ Reserve(r)
  \/ \E i \in Runs : LookFound(r, i)
  \/ LookNothing(r)
  \/ LookFails(r)
  \/ Recheck(r)
  \/ AssertLease(r)
  \/ Send(r)
  \/ CreateReturns(r)
  \/ WriteUncertain(r)
  \/ RecordAccepted(r)
  \/ CheckBeforeReadback(r)
  \/ Readback(r)
  \/ RecordFailure(r)
  \/ RecordConfirmed(r)

Provider(r) == ProviderCreates(r) \/ ProviderRefuses(r)

Next ==
  \/ LoseLease
  \/ \E r \in Runs : Claim(r) \/ Stop(r) \/ Execute(r) \/ Provider(r)

Spec == Init /\ [][Next]_vars

-----------------------------------------------------------------------------
(* Safety.                                                                 *)

\* "A missing result after an uncertain write never authorizes another POST":
\* whoever crashes, is late or loses its lease, the provider ends up with one
\* object for the key, and no second write is on its way to it.
AtMostOneWrite == \A r, s \in inflight \cup objects : r = s

\* An ABSENT row, which licenses the next run to write, is the truth: nothing
\* was created, nothing is in flight and no run is on its way to a write.
AbsentIsTrue ==
  latest.state = "ABSENT" =>
    /\ inflight \cup objects = {}
    /\ \A r \in Runs : pc[r] \notin {"recheck", "guard", "send", "wait"}

\* The reservation is completed together with one CONFIRMED row and one
\* receipt, and both name the provider's object.
CompletedOnce ==
  /\ completed <=> latest.state = "CONFIRMED"
  /\ completed <=> receipts # {}
  /\ \A p \in receipts : p[2] = latest.id /\ p[2] \in objects
  /\ \A p, q \in receipts : p = q

\* Late transactions of slower runs (RecordAccepted needs no lease, and the
\* except branch writes what it knew) never reopen a completed reservation.
ConfirmedIsFinal == [][completed => UNCHANGED dbVars]_vars

-----------------------------------------------------------------------------
(* The promise.                                                            *)

Confirmed == {p[2] : p \in receipts}

Once == INSTANCE OnceOnly WITH Ids <- Runs, confirmed <- Confirmed

\* Seen from outside, execute creates at most once and confirms what exists.
OncePromise == Once!Spec
=============================================================================
