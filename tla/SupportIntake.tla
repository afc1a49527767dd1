---------------------------- MODULE SupportIntake ---------------------------
(***************************************************************************)
(* Support incidents (assets/support_intake.py): buyers report an issue,   *)
(* perhaps more than once and in other words; repair jobs replace the      *)
(* delivered artifact and record a version; verification jobs read the     *)
(* artifact; and an incident is resolved, and a reply drafted, from one    *)
(* repair and one read.  Repairs, reads and reports overlap in any order.  *)
(***************************************************************************)
EXTENDS Naturals, Sequences, FiniteSets

CONSTANTS
  IssueReports,  \* (shop, buyer reference, received_at): the key of an incident
  RepairKeys,    \* idempotency keys of repairs
  Hashes,        \* hashes of the delivered artifact
  MaxTime,       \* bound: events
  None

\* _SPECS, one code for each different row: what it plans and how it starts.
Specs ==
  [delivery    |-> [type |-> "BROKEN_LINK", preempts |-> TRUE, status |-> "OPEN"],
   deactivated |-> [type |-> "LISTING_DEFECT", preempts |-> FALSE, status |-> "OPEN"],
   account     |-> [type |-> "CREDENTIAL_FAILURE", preempts |-> FALSE, status |-> "BLOCKED"],
   interrupted |-> [type |-> "TERMINAL_JOB_FAILURE", preempts |-> FALSE, status |-> "OPEN"]]
Codes == DOMAIN Specs

VARIABLES
  now,         \* time, one tick per event
  artifact,    \* hash of the delivered artifact
  history,     \* its hash at every time so far
  issues,      \* the ledger's incidents by key, or None
  told,        \* what callers of open_issue were given, by key
  repairs,     \* the ledger's repair versions by (incident, key), or None
  repaired,    \* repair jobs done: (incident, hash, time)
  reads,       \* verification reads made: (job, hash, time)
  resolved     \* resolutions with status RESOLVED: (incident, hash, repaired_at, read_at)

supportVars == <<now, artifact, history, issues, told, repairs, repaired, reads, resolved>>

SupportInit ==
  /\ now = 0
  /\ \E hash \in Hashes : artifact = hash /\ history = <<hash>>
  /\ issues = [report \in IssueReports |-> None]
  /\ told = [report \in IssueReports |-> {}]
  /\ repairs = [pair \in IssueReports \X RepairKeys |-> None]
  /\ repaired = {} /\ reads = {} /\ resolved = {}

\* An event takes the clock forward; the artifact keeps its hash or changes.
Tick(hash) ==
  /\ now < MaxTime
  /\ now' = now + 1
  /\ artifact' = hash
  /\ history' = Append(history, hash)

\* open_issue's refusals that depend on the code.
Accepted(code, notice, phase) ==
  /\ code = "deactivated" => notice
  /\ code = "interrupted" => phase >= 1

IncidentRecord(code) ==
  [code |-> code, type |-> Specs[code].type,
   preempts |-> Specs[code].preempts, status |-> Specs[code].status]

\* None is neither a hash nor a record.
ASSUME SupportAssumption == None \notin Hashes /\ \A code \in Codes : IncidentRecord(code) # None

\* What open_issue stores and returns: the first record of the key.
Stored(report, code) == IF issues[report] # None THEN issues[report] ELSE IncidentRecord(code)

OpenIssue(report, code) ==
  /\ \E notice \in BOOLEAN, phase \in {0, 1} : Accepted(code, notice, phase)
  /\ issues' = [issues EXCEPT ![report] = Stored(report, code)]
  /\ told' = [told EXCEPT ![report] = @ \union {Stored(report, code)}]
  /\ UNCHANGED <<now, artifact, history, repairs, repaired, reads, resolved>>

\* The artifact changes by itself: the defect returns, or someone edits it.
ArtifactChanges(hash) ==
  /\ hash # artifact
  /\ Tick(hash)
  /\ UNCHANGED <<issues, told, repairs, repaired, reads, resolved>>

\* A repair job replaces the artifact, then records its version.  A retried key
\* is answered with the first version, whatever this attempt made.
RecordRepair(report, key, hash) ==
  /\ issues[report] # None
  /\ Tick(hash)
  /\ repairs' = [repairs EXCEPT ![<<report, key>>] = IF @ # None THEN @ ELSE hash]
  /\ repaired' = repaired \union
       {[incident |-> report, hash |-> repairs'[<<report, key>>], time |-> now']}
  /\ UNCHANGED <<issues, told, reads, resolved>>

\* A job reads the artifact: a verification job, or the repair job itself.
ReadArtifact(job) ==
  /\ Tick(artifact)
  /\ reads' = reads \union {[job |-> job, hash |-> artifact, time |-> now']}
  /\ UNCHANGED <<issues, told, repairs, repaired, resolved>>

\* A plausible slip: any matching read verifies the repair.
Verified_AnyTime(repair, read) ==
  /\ read.job = "verification"
  /\ read.hash = repair.hash

Verified(repair, read) ==
  /\ read.job = "verification"
  /\ read.hash = repair.hash
  /\ read.time > repair.time

\* resolve_issue: the ledger is not written, and the incident's record keeps
\* its status.  A read that does not verify leaves the incident open.
ResolveIssue(repair, read) ==
  /\ Verified(repair, read)
  /\ resolved' = resolved \union
       {[incident |-> repair.incident, hash |-> read.hash,
         repaired_at |-> repair.time, resolved_at |-> read.time]}
  /\ UNCHANGED <<now, artifact, history, issues, told, repairs, repaired, reads>>

SupportNext ==
  \/ \E report \in IssueReports, code \in Codes : OpenIssue(report, code)
  \/ \E hash \in Hashes : ArtifactChanges(hash)
  \/ \E report \in IssueReports, key \in RepairKeys, hash \in Hashes : RecordRepair(report, key, hash)
  \/ \E job \in {"repair", "verification"} : ReadArtifact(job)
  \/ \E repair \in repaired, read \in reads : ResolveIssue(repair, read)

SupportSpec == SupportInit /\ [][SupportNext]_supportVars

-----------------------------------------------------------------------------
\* All callers that report one issue are given the incident the ledger keeps,
\* however their reports differ, and it is resolved only when the artifact had, at
\* some time after the repair, the hash the ledger keeps for a repair of it.
ResolvedOnLaterRead ==
  /\ \A report \in IssueReports : told[report] \subseteq {issues[report]}
  /\ \A res \in resolved :
       /\ \E key \in RepairKeys : repairs[<<res.incident, key>>] = res.hash
       /\ \E time \in (res.repaired_at + 1)..now : history[time + 1] = res.hash
=============================================================================
