--------------------------- MODULE ControlJournal ---------------------------
(***************************************************************************)
(* The implementation state of the programme (control/state.py, cli.py)    *)
(* and its one audited recovery (control/recovery.py).                     *)
(*                                                                         *)
(* docs/control/IMPLEMENTATION_STATE.json names the current session.  A    *)
(* command takes the lock file, reads the state and a candidate prepared   *)
(* by the operator, validates the step from one to the other, verifies it  *)
(* against the repository and replaces the file.  The recovery writes an   *)
(* intent receipt, the state and a final receipt, in this order.  A death  *)
(* leaves the lock file behind, and somebody has to remove it.             *)
(***************************************************************************)
EXTENDS Naturals, Sequences

CONSTANTS
  Procs,        \* processes that run the control command
  Legacy7,      \* the session that was closed without evidence
  LastSession,  \* the last session that has a prompt
  Contracts,    \* the sessions that have an evidence contract
  Free, Stale,  \* values of the lock besides a process
  MaxCommits,   \* bound: commits of the repository
  MaxDeaths     \* bound: deaths of a process

VARIABLES
  file,         \* the state file in the working tree
  candidate,    \* the candidate file
  commits,      \* the state file in every commit; the last one is HEAD
  lock,         \* the lock file
  at, view,     \* the step of each process and what it has read
  intent,       \* the intent receipt of the recovery
  final,        \* its final receipt
  deaths

\* The values of the lock are different things.
ASSUME JournalAssumption == Free \notin Procs /\ Stale \notin Procs

docs == <<file, candidate, intent, final>>
journalVars == <<docs, commits, lock, at, view, deaths>>
-----------------------------------------------------------------------------
(* State documents.  done stands for completed_sessions = 0 .. done - 1,   *)
(* the evidence contract of a session for its work keys and its closure    *)
(* key, and commit ids are positions in the history.                       *)

EvidenceKeys == {"work", "evidence_closure_commit_recorded"}

\* The operator's close of the session: complete, with no evidence.
LegacyState ==
  [rev |-> 64, status |-> "complete", session |-> Legacy7, done |-> Legacy7 + 1, next |-> Legacy7 + 1,
   ev |-> {}, closure |-> 1, head |-> 2, stamp |-> 0]

HEAD == Len(commits)
NoReceipt == [is |-> "none"]
Idle == [op |-> "none"]

RecoveryCandidate(stamp) ==
  [LegacyState EXCEPT !.rev = @ + 1, !.status = "incomplete", !.done = Legacy7, !.next = Legacy7,
                      !.head = LegacyState.closure, !.stamp = stamp]

Completed(s, commit) ==
  [s EXCEPT !.rev = @ + 1, !.status = "complete", !.done = s.session + 1, !.next = s.session + 1,
            !.ev = EvidenceKeys, !.closure = commit, !.head = commit, !.stamp = @ + 1]

Activated(s) ==
  [s EXCEPT !.rev = @ + 1, !.status = "incomplete", !.session = s.next, !.ev = {}, !.stamp = @ + 1]
-----------------------------------------------------------------------------
(* The checks of a step from previous to current.                          *)

SameBut(previous, current, fields) == \A f \in DOMAIN previous \ fields : previous[f] = current[f]

ValidCompletion(previous, current) ==
  /\ previous.session < LastSession /\ previous.session \in Contracts
  /\ previous.status = "incomplete" /\ current.status = "complete"
  /\ SameBut(previous, current, {"rev", "status", "done", "next", "ev", "closure", "head", "stamp"})
  /\ current.rev = previous.rev + 1 /\ current.stamp # previous.stamp
  /\ previous.done = previous.session /\ current.done = previous.session + 1
  /\ current.next = current.session + 1
  /\ previous.ev = EvidenceKeys \ {"evidence_closure_commit_recorded"} /\ current.ev = EvidenceKeys
  /\ previous.head = previous.closure /\ current.closure # previous.closure
  /\ current.head = current.closure

ValidActivation(previous, current) ==
  /\ previous.status = "complete" /\ current.status = "incomplete"
  /\ previous.next <= LastSession /\ previous.next = previous.session + 1
  /\ current.session = previous.next
  /\ SameBut(previous, current, {"rev", "status", "session", "stamp", "ev"})
  /\ current.rev = previous.rev + 1 /\ current.stamp # previous.stamp
  /\ previous.done = previous.next
  /\ previous.session \in Contracts /\ previous.ev = EvidenceKeys
  /\ current.session \in Contracts /\ current.ev = {}

\* A plausible slip: neither the tree nor the commit is compared with the state.
RepositoryAtClosure_AnyState(previous, current) ==
  HEAD = current.closure /\ previous.head < current.closure

\* HEAD is the new closure commit, the tree is clean, the earlier closure is an
\* ancestor, and the commit holds exactly the state before the step.
RepositoryAtClosure(previous, current) ==
  /\ HEAD = current.closure /\ file = commits[HEAD]
  /\ previous.head < current.closure
  /\ commits[current.closure] = previous

\* A plausible slip: a replay asks for a clean tree like a first run.
RecoverableTree_Clean(replay) == commits[HEAD] = LegacyState /\ file = commits[HEAD]

\* HEAD has the legacy state; only a replay may find the state file changed.
RecoverableTree(replay) == commits[HEAD] = LegacyState /\ (file = commits[HEAD] \/ replay)
-----------------------------------------------------------------------------
(* A command.                                                              *)

Go(p, label) == at' = [at EXCEPT ![p] = label]

\* A plausible slip: the lock file is opened whether or not it is there.
TakesLock_Shared(p) == lock' = p

\* _state_transition_lock: exclusive creation; a command that finds the file is
\* refused and changes nothing.
TakesLock(p) == lock = Free /\ lock' = p

Begin(p, op) ==
  /\ at[p] = "idle"
  /\ TakesLock(p)
  /\ Go(p, IF op = "recover" THEN "read_intent" ELSE "read")
  /\ view' = [view EXCEPT ![p] = [op |-> op]]
  /\ UNCHANGED <<docs, commits, deaths>>

Valid(op, previous, current) ==
  IF op = "complete" THEN ValidCompletion(previous, current) ELSE ValidActivation(previous, current)

ReadStates(p) ==
  /\ at[p] = "read"
  /\ view' = [view EXCEPT ![p] = [op |-> @.op, previous |-> file, current |-> candidate]]
  /\ Go(p, IF Valid(view[p].op, file, candidate) THEN "verify" ELSE "unlock")
  /\ UNCHANGED <<docs, commits, lock, deaths>>

VerifyRepository(p) ==
  /\ at[p] = "verify"
  /\ LET v == view[p] IN
       Go(p, IF v.op = "complete" => RepositoryAtClosure(v.previous, v.current) THEN "write" ELSE "unlock")
  /\ UNCHANGED <<docs, commits, lock, view, deaths>>

ReplaceState(p) ==
  /\ at[p] = "write"
  /\ file' = view[p].current
  /\ Go(p, "unlock")
  /\ UNCHANGED <<candidate, intent, final, commits, lock, view, deaths>>

Unlock(p) ==
  /\ at[p] = "unlock"
  /\ lock' = Free /\ Go(p, "idle") /\ view' = [view EXCEPT ![p] = Idle]
  /\ UNCHANGED <<docs, commits, deaths>>
-----------------------------------------------------------------------------
(* The recovery.                                                           *)

\* A receipt of an earlier attempt decides the candidate; without one the
\* state must be the legacy state and the clock gives a new candidate.
ReadIntent(p) ==
  /\ at[p] = "read_intent"
  /\ LET replay == intent.is = "intent"
         current == IF replay THEN intent.after ELSE RecoveryCandidate(deaths + 1)
         readable == IF replay THEN intent.head = HEAD /\ file \in {LegacyState, intent.after}
                     ELSE file = LegacyState
     IN  /\ view' = [view EXCEPT ![p] = [op |-> "recover", replay |-> replay, head |-> HEAD,
                                          previous |-> file, current |-> current]]
         /\ Go(p, IF readable THEN "verify_recovery" ELSE "unlock")
  /\ UNCHANGED <<docs, commits, lock, deaths>>

VerifyRecovery(p) ==
  /\ at[p] = "verify_recovery"
  /\ LET v == view[p] IN
       Go(p, IF /\ HEAD = v.head /\ RecoverableTree(v.replay)
                /\ final.is = "final" => final.after = v.current /\ v.previous = v.current
             THEN "write_intent" ELSE "unlock")
  /\ UNCHANGED <<docs, commits, lock, view, deaths>>

WriteIntent(p) ==
  /\ at[p] = "write_intent"
  /\ intent' = IF view[p].replay THEN intent
               ELSE [is |-> "intent", after |-> view[p].current, head |-> view[p].head]
  /\ Go(p, "write_recovered")
  /\ UNCHANGED <<file, candidate, final, commits, lock, view, deaths>>

WriteRecovered(p) ==
  /\ at[p] = "write_recovered"
  /\ file' = view[p].current
  /\ Go(p, "write_final")
  /\ UNCHANGED <<candidate, intent, final, commits, lock, view, deaths>>

WriteFinal(p) ==
  /\ at[p] = "write_final"
  /\ final' = [is |-> "final", after |-> view[p].current]
  /\ Go(p, "unlock")
  /\ UNCHANGED <<file, candidate, intent, commits, lock, view, deaths>>
-----------------------------------------------------------------------------
(* The operator and the repository.                                        *)

Dies(p) ==
  /\ at[p] # "idle" /\ deaths < MaxDeaths /\ deaths' = deaths + 1
  /\ lock' = Stale /\ Go(p, "idle") /\ view' = [view EXCEPT ![p] = Idle]
  /\ UNCHANGED <<docs, commits>>

RemoveStaleLock ==
  /\ lock = Stale /\ lock' = Free
  /\ UNCHANGED <<docs, commits, at, view, deaths>>

PrepareCompletion ==
  /\ candidate' = Completed(file, HEAD)
  /\ UNCHANGED <<file, intent, final, commits, lock, at, view, deaths>>

PrepareActivation ==
  /\ file.next <= LastSession
  /\ candidate' = Activated(file)
  /\ UNCHANGED <<file, intent, final, commits, lock, at, view, deaths>>

\* The operator records evidence by hand, while no command runs.
RecordEvidence ==
  /\ lock = Free /\ file.status = "incomplete" /\ "work" \notin file.ev
  /\ file' = [file EXCEPT !.ev = @ \cup {"work"}, !.rev = @ + 1]
  /\ UNCHANGED <<candidate, intent, final, commits, lock, at, view, deaths>>

Commit ==
  /\ HEAD < MaxCommits
  /\ commits' = Append(commits, file)
  /\ UNCHANGED <<docs, lock, at, view, deaths>>

Init ==
  /\ file = LegacyState /\ candidate = LegacyState
  /\ commits = <<LegacyState, LegacyState, LegacyState>>
  /\ lock = Free
  /\ at = [p \in Procs |-> "idle"] /\ view = [p \in Procs |-> Idle]
  /\ intent = NoReceipt /\ final = NoReceipt
  /\ deaths = 0

Command(p) ==
  \/ ReadStates(p) \/ VerifyRepository(p) \/ ReplaceState(p) \/ Unlock(p)
  \/ ReadIntent(p) \/ VerifyRecovery(p) \/ WriteIntent(p) \/ WriteRecovered(p) \/ WriteFinal(p)

Operator == PrepareCompletion \/ PrepareActivation \/ RecordEvidence \/ Commit \/ RemoveStaleLock

Next ==
  \/ \E p \in Procs : \E op \in {"complete", "activate", "recover"} : Begin(p, op)
  \/ \E p \in Procs : Command(p) \/ Dies(p)
  \/ Operator

Spec == Init /\ [][Next]_journalVars

\* Commands end, stale locks are removed, and somebody keeps trying to recover.
FairSpec ==
  /\ Spec /\ WF_journalVars(RemoveStaleLock)
  /\ \A p \in Procs : WF_journalVars(Command(p))
  /\ SF_journalVars(\E p \in Procs : Begin(p, "recover"))
-----------------------------------------------------------------------------
(* Properties.                                                             *)

\* A session is complete only on evidence: its closure commit holds the state
\* just before the completion, with every key true but the closure's own
\* (_validate_git_evidence).  Only the operator's close has none, and its
\* recovery leaves a trace before its effect: the reopened session is the one of
\* the intent receipt, and a final receipt names the same document.
CompleteIsProved ==
  /\ file.status = "complete" /\ file # LegacyState =>
       /\ file.ev = EvidenceKeys
       /\ LET before == commits[file.closure]
          IN  before.session = file.session /\ before.rev + 1 = file.rev
              /\ before.ev = EvidenceKeys \ {"evidence_closure_commit_recorded"}
  /\ file # LegacyState => intent.is = "intent"
  /\ file.rev = LegacyState.rev + 1 => file = intent.after
  /\ final.is = "final" => final.after = intent.after /\ file # LegacyState

\* The state never skips or repeats a revision: two commands never both replace
\* the state they read, whatever dies in between (_state_transition_lock).
RevisionsAdvanceOnce == [][file' # file => file'.rev = file.rev + 1]_file

\* A recovery that dies anywhere is finished by a later one, unless somebody has
\* committed or has worked on the reopened session in between.
RecoveryFinishes == [](HEAD = 3 /\ file.ev = {}) => <>(final.is = "final")
=============================================================================
