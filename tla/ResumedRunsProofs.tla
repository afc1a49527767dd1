-------------------------- MODULE ResumedRunsProofs --------------------------
(***************************************************************************)
(* Proofs about the commands that die and are repeated: ControlJournal and *)
(* FixtureRun, whose files outlive every process that writes them.  They   *)
(* share no state; each section states an inductive invariant (what a      *)
(* process at each step has read or made, and that it is still so) and     *)
(* derives from it the properties that MCResumedRuns checks on small       *)
(* instances.                                                              *)
(***************************************************************************)
EXTENDS ControlJournal, FixtureRun, TLAPS

\* How long, in seconds, a prover may work on a step.
USE SMTT(30), ZenonT(30)

-----------------------------------------------------------------------------
(* ControlJournal.                                                         *)

\* The records of the state file.
Fields == {"rev", "status", "session", "done", "next", "ev", "closure", "head", "stamp"}
IsState(s) == DOMAIN s = Fields /\ s.rev \in Nat

\* The steps of a command.
JournalSteps ==
  {"idle", "read", "verify", "write", "unlock", "read_intent", "verify_recovery", "write_intent",
   "write_recovered", "write_final"}

\* What a command has read is still so: it holds the lock, and nobody else
\* writes the state.
ViewStill(p) ==
  LET v == view[p]
  IN  /\ at[p] \in {"verify", "write"} =>
           /\ v.previous = file /\ Valid(v.op, file, v.current) /\ IsState(v.current)
      /\ at[p] = "write" /\ v.op = "complete" =>
           v.current.closure \in DOMAIN commits /\ commits[v.current.closure] = file
      /\ at[p] \in {"verify_recovery", "write_intent"} =>
           /\ v.previous = file /\ v.replay = (intent.is = "intent")
           /\ v.replay => v.current = intent.after /\ file \in {LegacyState, intent.after}
           /\ ~v.replay => file = LegacyState /\ \E n : v.current = RecoveryCandidate(n)
      /\ at[p] = "write_intent" /\ final.is = "final" => final.after = v.current
      /\ at[p] \in {"write_recovered", "write_final"} =>
           intent.is = "intent" /\ v.current = intent.after /\ file \in {LegacyState, intent.after}
      /\ at[p] = "write_final" => file = intent.after

\* The state is the operator's close, or has a later revision and a receipt
\* behind it.
Traced ==
  /\ file = LegacyState \/ (file.rev > LegacyState.rev /\ intent.is = "intent")
  /\ intent.is = "intent" => \E n : intent.after = RecoveryCandidate(n)
  /\ file.status = "complete" /\ file # LegacyState => file.closure \in DOMAIN commits

\* The inductive invariant.
JournalInv ==
  /\ at \in [Procs -> JournalSteps] /\ DOMAIN view = Procs
  /\ \A p \in Procs : at[p] # "idle" => lock = p
  /\ IsState(file) /\ IsState(candidate)
  /\ (\E S : commits \in Seq(S)) /\ HEAD > 0
  /\ \A p \in Procs : ViewStill(p)
  /\ Traced /\ CompleteIsProved

\* The operator's close, and the state a recovery makes of it.
LEMMA LegacyIs ==
  /\ IsState(LegacyState) /\ LegacyState.status = "complete" /\ LegacyState.rev = 64
  /\ LegacyState.ev = {} /\ LegacyState.ev # EvidenceKeys
  BY DEF IsState, LegacyState, Fields, EvidenceKeys

\* The state a recovery proposes differs from the one it recovers from.
LEMMA RecoveryIs ==
  ASSUME NEW n
  PROVE  /\ IsState(RecoveryCandidate(n)) /\ RecoveryCandidate(n).rev = 65
         /\ RecoveryCandidate(n).status = "incomplete" /\ RecoveryCandidate(n) # LegacyState
  <1>1. RecoveryCandidate(n).rev = 65 /\ RecoveryCandidate(n).status = "incomplete"
    BY DEF RecoveryCandidate, LegacyState
  <1>2. IsState(RecoveryCandidate(n))
    BY <1>1, LegacyIs DEF RecoveryCandidate, IsState
  <1> QED
    BY <1>1, <1>2, LegacyIs

\* The first state.
LEMMA JournalInit == Init => JournalInv
  <1> SUFFICES ASSUME Init PROVE JournalInv
    OBVIOUS
  <1>1. commits \in Seq({LegacyState}) /\ HEAD > 0
    BY DEF Init, HEAD
  <1>2. file = LegacyState /\ intent.is = "none" /\ final.is = "none"
    BY DEF Init, NoReceipt
  <1>3. Traced /\ CompleteIsProved
    BY <1>2, LegacyIs DEF Traced, CompleteIsProved
  <1>4. \A p \in Procs : ViewStill(p)
    BY Zenon DEF Init, ViewStill
  <1> QED
    BY Zenon, <1>1, <1>3, <1>4, LegacyIs DEF Init, JournalInv, JournalSteps

\* A valid step begins at a state that is not the operator's close, and goes to
\* the next revision.
LEMMA ValidStep ==
  ASSUME NEW op, NEW s, NEW t, IsState(s), Valid(op, s, t)
  PROVE  /\ s # LegacyState /\ t.rev = s.rev + 1 /\ t # s
         /\ t.status = "complete" =>
              /\ op = "complete" /\ t.ev = EvidenceKeys /\ s.session = t.session
              /\ s.ev = EvidenceKeys \ {"evidence_closure_commit_recorded"}
  <1>1. CASE ValidCompletion(s, t)
    <2>1. s.session = t.session
      BY <1>1 DEF ValidCompletion, SameBut, IsState, Fields
    <2> QED
      BY <1>1, <2>1, LegacyIs DEF ValidCompletion, Valid, ValidActivation, IsState
  <1>2. CASE ~ValidCompletion(s, t)
    BY <1>2, LegacyIs DEF Valid, ValidActivation, IsState
  <1> QED
    BY <1>1, <1>2

\* While a command runs it is the only one.
LEMMA OneCommand ==
  ASSUME JournalInv
  PROVE  /\ \A p, q \in Procs : at[p] # "idle" /\ at[q] # "idle" => p = q
         /\ lock \in {Free, Stale} => \A p \in Procs : at[p] = "idle"
  BY JournalAssumption DEF JournalInv

\* What a step that writes no file keeps.
LEMMA FilesUnchanged ==
  ASSUME JournalInv, UNCHANGED <<file, intent, final, commits>>
  PROVE  IsState(file)' /\ (\E S : commits' \in Seq(S)) /\ HEAD' > 0 /\ Traced' /\ CompleteIsProved'
  BY DEF JournalInv, HEAD, IsState, Traced, CompleteIsProved

\* The steps of a command that write nothing.
LEMMA ReadersKeep ==
  ASSUME JournalInv, NEW p \in Procs,
         \/ \E op \in {"complete", "activate", "recover"} : Begin(p, op)
         \/ ReadStates(p) \/ VerifyRepository(p) \/ Unlock(p) \/ ReadIntent(p)
            \/ VerifyRecovery(p) \/ Dies(p)
  PROVE  JournalInv'
  <1>1. UNCHANGED <<file, candidate, intent, final, commits>>
    BY DEF Begin, ReadStates, VerifyRepository, Unlock, ReadIntent, VerifyRecovery, Dies, docs
  <1>2. \A q \in Procs : q # p => at[q] = "idle"
    BY OneCommand DEF Begin, TakesLock, ReadStates, VerifyRepository, Unlock, ReadIntent,
       VerifyRecovery, Dies
  <1>3. PICK x \in JournalSteps : Go(p, x)
    BY DEF Begin, ReadStates, VerifyRepository, Unlock, ReadIntent, VerifyRecovery, Dies,
       JournalSteps
  <1>4. at' \in [Procs -> JournalSteps] /\ at'[p] = x /\ \A q \in Procs : q # p => at'[q] = "idle"
    BY <1>2, <1>3 DEF Go, JournalInv
  <1>5. \A q \in Procs : at'[q] # "idle" => lock' = q
    BY <1>4 DEF Begin, TakesLock, ReadStates, VerifyRepository, Unlock, ReadIntent,
       VerifyRecovery, Dies, Go, JournalInv
  <1>6. DOMAIN view' = Procs
    BY DEF Begin, ReadStates, VerifyRepository, Unlock, ReadIntent, VerifyRecovery, Dies,
       JournalInv
  <1>7. ViewStill(p)'
    <2>1. CASE x \in {"idle", "read", "read_intent", "unlock"}
      BY <1>4, <2>1 DEF ViewStill
    <2>2. CASE ReadStates(p) /\ x = "verify"
      <3>1. Valid(view[p].op, file, candidate)
        BY <1>4, <2>2 DEF ReadStates, Go, JournalInv
      <3>2. view'[p] = [op |-> view[p].op, previous |-> file, current |-> candidate]
        BY <2>2 DEF ReadStates, JournalInv
      <3>3. /\ view'[p].op = view[p].op /\ view'[p].previous = file
            /\ view'[p].current = candidate
        BY <3>2
      <3>4. IsState(candidate) /\ file' = file
        BY <1>1, Zenon DEF JournalInv
      <3> QED
        BY <1>4, <2>2, <3>1, <3>3, <3>4, Zenon DEF ViewStill, IsState, Valid, ValidCompletion,
           ValidActivation, SameBut
    <2>3. CASE VerifyRepository(p) /\ x = "write"
      <3>1. /\ view[p].op = "complete" => RepositoryAtClosure(view[p].previous, view[p].current)
            /\ at[p] = "verify" /\ view' = view
        BY <1>4, <2>3 DEF VerifyRepository, Go, JournalInv
      <3>2. HEAD \in DOMAIN commits
        <4>1. HEAD \in Nat \ {0} /\ DOMAIN commits = 1..HEAD
          BY DEF JournalInv, HEAD
        <4> QED
          BY <4>1
      <3>3. /\ view[p].previous = file /\ Valid(view[p].op, file, view[p].current) /\ IsState(view[p].current)
        BY <3>1 DEF JournalInv, ViewStill
      <3>4. view[p].op = "complete" => view[p].current.closure \in DOMAIN commits
                                       /\ commits[view[p].current.closure] = file
        BY <3>1, <3>2, <3>3 DEF RepositoryAtClosure
      <3> QED
        BY <1>1, <1>4, <2>3, <3>1, <3>3, <3>4, Zenon DEF ViewStill, IsState, Valid, ValidCompletion,
           ValidActivation, SameBut
    <2>4. CASE ReadIntent(p) /\ x = "verify_recovery"
      <3>1. /\ view'[p].previous = file /\ view'[p].replay = (intent.is = "intent")
            /\ view'[p].current = IF intent.is = "intent" THEN intent.after ELSE RecoveryCandidate(deaths + 1)
        BY <2>4, Zenon DEF ReadIntent, JournalInv
      <3>2. IF intent.is = "intent" THEN file \in {LegacyState, intent.after} ELSE file = LegacyState
        BY <1>4, <2>4, Zenon DEF ReadIntent, Go, JournalInv
      <3> QED
        BY Zenon, <1>1, <1>4, <2>4, <3>1, <3>2 DEF ViewStill
    <2>5. CASE VerifyRecovery(p) /\ x = "write_intent"
      <3>1. final.is = "final" => final.after = view[p].current
        BY <1>4, <2>5, Zenon DEF VerifyRecovery, Go, JournalInv
      <3>2. at[p] = "verify_recovery" /\ view' = view
        BY <2>5 DEF VerifyRecovery
      <3> QED
        BY <1>1, <1>4, <2>5, <3>1, <3>2, Zenon DEF ViewStill, JournalInv
    <2> QED
      BY <1>3, <1>4, <2>1, <2>2, <2>3, <2>4, <2>5, Zenon
         DEF Begin, ReadStates, VerifyRepository, Unlock, ReadIntent, VerifyRecovery, Dies, Go,
            JournalInv
  <1>8. \A q \in Procs : q # p => ViewStill(q)'
    BY <1>4 DEF ViewStill
  <1> QED
    BY <1>1, <1>4, <1>5, <1>6, <1>7, <1>8, FilesUnchanged DEF JournalInv, IsState

\* Traced and CompleteIsProved, for a state that a command of p writes.
LEMMA ReplaceKeeps ==
  ASSUME JournalInv, NEW p \in Procs, ReplaceState(p)
  PROVE  JournalInv' /\ file'.rev = file.rev + 1
  <1> DEFINE s == view[p].current
  <1>1. /\ at[p] = "write" /\ file' = s /\ at' = [at EXCEPT ![p] = "unlock"]
        /\ UNCHANGED <<candidate, intent, final, commits, lock, view>>
    BY DEF ReplaceState, Go
  <1>2. /\ IsState(file) /\ IsState(s) /\ Valid(view[p].op, file, s)
        /\ view[p].op = "complete" => s.closure \in DOMAIN commits /\ commits[s.closure] = file
    BY <1>1 DEF JournalInv, ViewStill
  <1>3. /\ file # LegacyState /\ s.rev = file.rev + 1
        /\ s.status = "complete" =>
             /\ view[p].op = "complete" /\ s.ev = EvidenceKeys /\ file.session = s.session
             /\ file.ev = EvidenceKeys \ {"evidence_closure_commit_recorded"}
    BY <1>2, ValidStep
  <1>4. file.rev > 64 /\ file.rev \in Nat /\ s.rev > 65 /\ s # LegacyState /\ intent.is = "intent"
    BY <1>2, <1>3, LegacyIs DEF JournalInv, Traced, IsState
  <1> HIDE DEF s
  <1>5. Traced'
    BY <1>1, <1>2, <1>3, <1>4, LegacyIs DEF Traced, JournalInv
  <1>6. CompleteIsProved'
    BY <1>1, <1>2, <1>3, <1>4, LegacyIs DEF CompleteIsProved, JournalInv
  <1>7. /\ at' \in [Procs -> JournalSteps] /\ \A q \in Procs : at'[q] \in {"idle", "unlock"}
        /\ \A q \in Procs : at'[q] # "idle" => lock' = q
    BY <1>1, OneCommand DEF JournalInv, JournalSteps
  <1>8. \A q \in Procs : ViewStill(q)'
    BY <1>7, Zenon DEF ViewStill
  <1> QED
    BY <1>1, <1>2, <1>3, <1>5, <1>6, <1>7, <1>8, Zenon DEF JournalInv, IsState, HEAD

\* The three writes of the recovery.
LEMMA RecoveryKeeps ==
  ASSUME JournalInv, NEW p \in Procs, WriteIntent(p) \/ WriteRecovered(p)
     \/ WriteFinal(p)
  PROVE  JournalInv' /\ (file' # file => file'.rev = file.rev + 1)
  <1>1. UNCHANGED <<candidate, commits, lock, view>>
    BY DEF WriteIntent, WriteRecovered, WriteFinal
  <1>2. \A q \in Procs : q # p => at[q] = "idle"
    BY OneCommand DEF WriteIntent, WriteRecovered, WriteFinal
  <1>3. PICK x \in {"write_recovered", "write_final", "unlock"} : Go(p, x)
    BY DEF WriteIntent, WriteRecovered, WriteFinal
  <1>4. /\ at' \in [Procs -> JournalSteps] /\ at'[p] = x /\ at[p] # "idle"
        /\ \A q \in Procs : q # p => at'[q] = "idle"
    BY <1>2, <1>3 DEF Go, JournalInv, JournalSteps, WriteIntent, WriteRecovered, WriteFinal
  <1>5. \A q \in Procs : at'[q] # "idle" => lock' = q
    BY <1>1, <1>4 DEF JournalInv
  <1>6. /\ ViewStill(p) /\ IsState(file) /\ Traced /\ CompleteIsProved
        /\ \A q \in Procs : q # p => ViewStill(q)'
    BY <1>4, Zenon DEF JournalInv, ViewStill
  <1> DEFINE Rest == IsState(file)' /\ ViewStill(p)' /\ Traced' /\ CompleteIsProved'
                     /\ (file' # file => file'.rev = file.rev + 1)
  <1>7. ASSUME WriteIntent(p) PROVE Rest
    <2>1. /\ at[p] = "write_intent" /\ x = "write_recovered" /\ UNCHANGED <<file, final>>
          /\ intent' = IF view[p].replay THEN intent
                       ELSE [is |-> "intent", after |-> view[p].current, head |-> view[p].head]
      BY <1>3, <1>4, <1>7, Zenon DEF WriteIntent, Go, JournalInv
    <2>2. CASE view[p].replay
      <3>1. intent' = intent /\ intent.is = "intent" /\ view[p].current = intent.after
            /\ file \in {LegacyState, intent.after}
        BY <1>6, <2>1, <2>2, Zenon DEF ViewStill
      <3>2. ViewStill(p)'
        BY <1>1, <1>4, <2>1, <3>1, Zenon DEF ViewStill
      <3> QED
        BY Zenon, <1>1, <1>6, <2>1, <3>1, <3>2 DEF IsState, Traced, CompleteIsProved
    <2>3. CASE ~view[p].replay
      <3>1. /\ intent'.is = "intent" /\ intent'.after = view[p].current /\ file = LegacyState
            /\ \E n : view[p].current = RecoveryCandidate(n)
            /\ final.is = "final" => final.after = view[p].current
        BY <1>6, <2>1, <2>3, Zenon DEF ViewStill
      <3>2. ViewStill(p)'
        BY <1>1, <1>4, <2>1, <3>1, Zenon DEF ViewStill
      <3>3. final.is # "final"
        BY <1>6, <3>1, Zenon DEF CompleteIsProved
      <3>4. LegacyState.rev # LegacyState.rev + 1
        BY LegacyIs
      <3> QED
        BY <1>6, <2>1, <3>1, <3>2, <3>3, <3>4, Zenon DEF IsState, Traced, CompleteIsProved
    <2> QED
      BY <2>2, <2>3
  <1>8. ASSUME WriteRecovered(p) PROVE Rest
    <2>1. /\ at[p] = "write_recovered" /\ x = "write_final" /\ file' = view[p].current
          /\ UNCHANGED <<intent, final>>
      BY <1>3, <1>4, <1>8 DEF WriteRecovered, Go, JournalInv
    <2>2. intent.is = "intent" /\ view[p].current = intent.after /\ file \in {LegacyState, intent.after}
      BY <1>6, <2>1, Zenon DEF ViewStill
    <2>3. PICK n : intent.after = RecoveryCandidate(n)
      BY <1>6, <2>2, Zenon DEF Traced
    <2>4. /\ IsState(file') /\ file'.rev = 65 /\ file'.status = "incomplete" /\ file' # LegacyState
          /\ file' = intent'.after
      BY <2>1, <2>2, <2>3, RecoveryIs
    <2>5. ViewStill(p)'
      BY <1>1, <1>4, <2>1, <2>2, <2>4, Zenon DEF ViewStill
    <2>6. Traced' /\ CompleteIsProved'
      <3>1. file'.rev > LegacyState.rev
        BY <2>4, LegacyIs
      <3> QED
        BY <1>6, <2>1, <2>2, <2>3, <2>4, <3>1, Zenon DEF Traced, CompleteIsProved
    <2> QED
      BY <2>1, <2>2, <2>4, <2>5, <2>6, LegacyIs
  <1>9. ASSUME WriteFinal(p) PROVE Rest
    <2>1. /\ at[p] = "write_final" /\ x = "unlock" /\ final' = [is |-> "final", after |-> view[p].current]
          /\ UNCHANGED <<intent, file>>
      BY <1>3, <1>4, <1>9, Zenon DEF WriteFinal, Go, JournalInv
    <2>2. intent.is = "intent" /\ view[p].current = intent.after /\ file = intent.after
      BY <1>6, <2>1, Zenon DEF ViewStill
    <2>3. file # LegacyState
      BY <1>6, <2>2, RecoveryIs, Zenon DEF Traced
    <2>4. ViewStill(p)'
      BY <1>4, <2>1, Zenon DEF ViewStill
    <2> QED
      BY <1>1, <1>6, <2>1, <2>2, <2>3, <2>4, Zenon DEF IsState, Traced, CompleteIsProved
  <1>10. Rest
    BY <1>7, <1>8, <1>9
  <1> QED
    BY <1>1, <1>4, <1>5, <1>6, <1>10 DEF JournalInv, IsState, HEAD

\* The operator, the repository and the lock file.
LEMMA OperatorKeeps ==
  ASSUME JournalInv, Operator
  PROVE  JournalInv' /\ (file' # file => file'.rev = file.rev + 1)
  <1>1. CASE PrepareCompletion \/ PrepareActivation
    <2>1. UNCHANGED <<file, intent, final, commits, lock, at, view>>
      BY <1>1 DEF PrepareCompletion, PrepareActivation
    <2>2. IsState(candidate')
      <3>1. IsState(file)
        BY DEF JournalInv
      <3>2. candidate' = Completed(file, HEAD) \/ candidate' = Activated(file)
        BY <1>1 DEF PrepareCompletion, PrepareActivation
      <3>3. IsState(Completed(file, HEAD))
        BY <3>1 DEF Completed, IsState, Fields
      <3>4. IsState(Activated(file))
        BY <3>1 DEF Activated, IsState, Fields
      <3> QED
        BY <3>2, <3>3, <3>4
    <2>3. \A p \in Procs : ViewStill(p)'
      BY <2>1, ZenonT(30) DEF JournalInv, ViewStill
    <2> QED
      BY <2>1, <2>2, <2>3, FilesUnchanged DEF JournalInv
  <1>2. CASE RemoveStaleLock
    <2>1. UNCHANGED <<file, candidate, intent, final, commits, at,
                      view>> /\ \A p \in Procs : at[p] = "idle"
      BY <1>2, OneCommand DEF RemoveStaleLock, docs
    <2>2. \A p \in Procs : ViewStill(p)'
      BY <2>1 DEF ViewStill
    <2> QED
      BY <2>1, <2>2, FilesUnchanged, Zenon DEF JournalInv, IsState
  <1>3. CASE RecordEvidence
    <2>1. /\ UNCHANGED <<candidate, intent, final, commits, lock, at,
                         view>> /\ \A p \in Procs : at[p] = "idle"
          /\ file.status = "incomplete" /\ file' = [file EXCEPT !.ev = @ \cup {"work"}, !.rev = @ + 1]
      BY <1>3, OneCommand DEF RecordEvidence
    <2>2. file'.rev = file.rev + 1 /\ file'.status = "incomplete" /\ IsState(file')
      BY <2>1 DEF JournalInv, IsState, Fields
    <2>3. file # LegacyState /\ file.rev > 64 /\ file.rev \in Nat /\ intent.is = "intent"
      BY <2>1, LegacyIs DEF JournalInv, Traced, IsState
    <2>4. file'.rev > 65 /\ file' # LegacyState
      BY <2>2, <2>3, LegacyIs
    <2>5. Traced' /\ CompleteIsProved'
      BY <2>1, <2>2, <2>3, <2>4, LegacyIs DEF JournalInv, Traced, CompleteIsProved
    <2>6. \A p \in Procs : ViewStill(p)'
      BY <2>1 DEF ViewStill
    <2> QED
      BY <2>1, <2>2, <2>5, <2>6 DEF JournalInv, IsState, HEAD
  <1>4. CASE Commit
    <2>1. UNCHANGED <<file, candidate, intent, final, lock, at,
                      view>> /\ commits' = Append(commits, file)
      BY <1>4 DEF Commit, docs
    <2>2. PICK S : commits \in Seq(S)
      BY DEF JournalInv
    <2>3. commits \in Seq(S \cup {file})
      BY <2>2
    <2>4. /\ commits' \in Seq(S \cup {file}) /\ HEAD' > 0 /\ DOMAIN commits \subseteq DOMAIN commits'
          /\ \A i \in DOMAIN commits : commits'[i] = commits[i]
      BY <2>1, <2>3 DEF HEAD
    <2>5. Traced' /\ CompleteIsProved'
      BY <2>1, <2>4, Zenon DEF JournalInv, Traced, CompleteIsProved
    <2>6. ASSUME NEW p \in Procs PROVE ViewStill(p)'
      <3>1. ViewStill(p) /\ UNCHANGED <<at, view, file, intent, final>>
        BY <2>1, Zenon DEF JournalInv
      <3> QED
        BY <2>4, <3>1, Zenon DEF ViewStill
    <2> QED
      BY <2>1, <2>4, <2>5, <2>6 DEF JournalInv, IsState
  <1> QED
    BY <1>1, <1>2, <1>3, <1>4 DEF Operator

\* A step keeps the invariant, and a step that changes the state goes to the
\* next revision.
LEMMA JournalNext ==
  ASSUME JournalInv, [Next]_journalVars
  PROVE  JournalInv' /\ (file' # file => file'.rev = file.rev + 1)
  <1>1. ASSUME NEW p \in Procs, \/ \E op \in {"complete", "activate", "recover"} : Begin(p, op)
                                \/ ReadStates(p) \/ VerifyRepository(p) \/ Unlock(p)
                                   \/ ReadIntent(p)
                                \/ VerifyRecovery(p) \/ Dies(p)
        PROVE  JournalInv' /\ (file' # file => file'.rev = file.rev + 1)
    <2>1. file' = file
      BY <1>1, Zenon DEF Begin, ReadStates, VerifyRepository, Unlock, ReadIntent, VerifyRecovery, Dies,
         docs
    <2> QED
      BY <1>1, <2>1, ReadersKeep
  <1>2. CASE UNCHANGED journalVars
    <2>1. UNCHANGED <<file, candidate, intent, final, commits, lock, at, view>>
      BY <1>2 DEF journalVars, docs
    <2>2. \A p \in Procs : ViewStill(p)'
      BY <2>1, ZenonT(30) DEF JournalInv, ViewStill
    <2> QED
      BY <2>1, <2>2, FilesUnchanged, Zenon DEF JournalInv, IsState
  <1> QED
    BY <1>1, <1>2, ReplaceKeeps, RecoveryKeeps, OperatorKeeps DEF Next, Command

\* The invariant holds in every behaviour of the journal.
LEMMA JournalSafe == Spec => []JournalInv
  <1>1. JournalInv /\ [Next]_journalVars => JournalInv'
    BY JournalNext
  <1> QED
    BY <1>1, JournalInit, PTL DEF Spec

\* CompleteIsProved, for any number of processes, commits and deaths: a session
\* is complete on the evidence its closure commit holds, and the one recovery
\* leaves its intent before its effect.
THEOREM CompleteOnEvidence == Spec => []CompleteIsProved
  <1>1. JournalInv => CompleteIsProved
    BY DEF JournalInv
  <1> QED
    BY <1>1, JournalSafe, PTL

\* RevisionsAdvanceOnce, for any number of processes and deaths: no command
\* replaces a state it has not read.
THEOREM OneRevisionAStep == Spec => RevisionsAdvanceOnce
  <1>1. JournalInv /\ [Next]_journalVars => [file' # file => file'.rev = file.rev + 1]_file
    BY JournalNext
  <1> QED
    BY <1>1, JournalSafe, PTL DEF Spec, RevisionsAdvanceOnce

-----------------------------------------------------------------------------
(* FixtureRun.                                                             *)

\* The steps behind each receipt: at a step of S1 the first receipt is written,
\* at a step of S2 the second, and so on.
S7 == {"commit_delivery"}
S6 == S7 \cup {"expected_negative"}
S5 == S6 \cup {"fixture_etsy_draft", "record", "post", "write_pending", "draft"}
S4 == S5 \cup {"preflight"}
S3 == S4 \cup {"merchandising_assets"}
S2 == S3 \cup {"notion_build_variants_qa_facts", "write_manifest", "write_file", "render", "build",
               "build_job", "commit_strategy"}
S1 == S2 \cup {"shortlist_score_spec", "strategy", "commit_research"}
S0 == S1 \cup {"research", "read_report", "observe", "shortlist", "research_job", "seed"}

\* The receipts a run has when it is at a step.
ReceiptsHeld ==
  /\ step \in S1 => "research" \in known
  /\ step \in S2 => "shortlist_score_spec" \in known
  /\ step \in S3 => "notion_build_variants_qa_facts" \in known
  /\ step \in S4 => "merchandising_assets" \in known
  /\ step \in S5 => "preflight" \in known
  /\ step \in S6 => "fixture_etsy_draft" \in known
  /\ step \in S7 => "expected_negative" \in known
  /\ known \subseteq Stages /\ receipts \subseteq Stages
  /\ step # "down" /\ ~emptied => receipts = known
  /\ emptied => step \in Stages \cap known

\* The steps before the bundle is written.
Unbundled == S0 \ (S3 \cup {"notion_build_variants_qa_facts", "write_manifest", "write_file"})

\* The files a run has made when it is at a step.
FilesMade ==
  /\ step \in Unbundled \cup {"bind"} => artifact = 1
  /\ step \in S1 \ {"commit_research"} => report = "full"
  /\ step \in S2 \cup {"shortlist_score_spec"} => spec
  /\ step \in S3 \cup {"notion_build_variants_qa_facts"} => Verified
  /\ step = "write_file" /\ artifact > 1 => artifacts[artifact - 1] \in {"cut", "whole"}
  /\ step = "write_file" => \A f \in 1..Files : f < artifact - 1 => artifacts[f] = "whole"
  /\ step = "write_manifest" => \A f \in 1..Files : artifacts[f] = "whole"

\* The draft behind the ledger.
DraftKept ==
  /\ listings \in {0, 1}
  /\ ledger = "ready" => listings = 1
  /\ step \in {"write_pending", "post"} => listings = 0
  /\ step = "record" => listings = 1
  /\ step \in S6 \cup {"fixture_etsy_draft"} => ledger = "ready"

\* What a completed workflow rests on.
Evidence ==
  receipts = Stages /\ Verified /\ report = "full" /\ spec /\ ledger = "ready" /\ listings = 1

\* A run works in the database its files are bound to, and no longer once that
\* has the listing, which is committed together with the end.
Bound ==
  /\ step \in {"verify", "write_ids"} \cup S0 => binding = database
  /\ step \in S0 => "completed_at" \notin db[database]
  /\ step = "verify" => "completed_at" \in db[database]
  /\ \A d \in Databases : "listing_version" \in db[d] <=> "completed_at" \in db[d]
  /\ \A d \in Databases : db[d] # {} => binding = d
  /\ \A d \in Databases : "completed_at" \in db[d] => Evidence

\* The inductive invariant.
FixtureInv ==
  /\ step \in {"down", "bind", "verify", "write_ids"} \cup S0
  /\ database \in Databases /\ DOMAIN db = Databases
  /\ artifact \in 1..(Files + 1) /\ DOMAIN artifacts = 1..Files
  /\ ReceiptsHeld /\ FilesMade /\ DraftKept /\ Bound

\* The first state.
LEMMA FixtureInitInv ==
  ASSUME FixtureInit
  PROVE  FixtureInv
  <1>1. step = "down" /\ step \notin S0 /\ emptied = FALSE
    BY DEF FixtureInit, S0, S1, S2, S3, S4, S5, S6, S7
  <1>2. Bound
    BY <1>1 DEF FixtureInit, Bound
  <1> QED
    BY <1>1, <1>2, FixtureAssumption DEF FixtureInit, FixtureInv, ReceiptsHeld, FilesMade,
       DraftKept, None, S1, S2, S3, S4, S5, S6, S7

\* A run at work has not completed, and nothing is completed elsewhere.
LEMMA NothingCompleted ==
  ASSUME FixtureInv, step \in S0
  PROVE  \A d \in Databases : "completed_at" \notin db[d] /\ "listing_version" \notin db[d]
  <1>1. binding = database /\ "completed_at" \notin db[database]
    BY DEF FixtureInv, Bound
  <1> QED
    BY <1>1 DEF FixtureInv, Bound

\* What a run at work does before the last commit keeps Bound.
LEMMA WorkBound ==
  ASSUME FixtureInv, step \in S0, step' \in S0 \cup {"down"}, UNCHANGED <<database, binding>>,
         \/ db' = db
         \/ \E rows : CommitRows(rows) /\ rows \cap {"completed_at", "listing_version"} = {}
  PROVE  Bound' /\ DOMAIN db' = Databases
  <1>1. binding = database /\ database \in Databases /\ DOMAIN db = Databases
    BY DEF FixtureInv, Bound
  <1>2. DOMAIN db' = Databases /\ \A d \in Databases : d # database => db'[d] = db[d]
    BY <1>1 DEF CommitRows
  <1>3. \A d \in Databases : "completed_at" \notin db'[d] /\ "listing_version" \notin db'[d]
    BY <1>1, <1>2, NothingCompleted DEF CommitRows
  <1>4. \A d \in Databases : db'[d] # {} => binding' = d
    BY <1>1, <1>2 DEF FixtureInv, Bound
  <1>5. step' \notin {"verify", "write_ids"}
    BY DEF S0, S1, S2, S3, S4, S5, S6, S7
  <1> QED
    BY <1>1, <1>2, <1>3, <1>4, <1>5 DEF Bound

\* A step to x, with the files as they are.
LEMMA FixtureMoves ==
  ASSUME FixtureInv, NEW x \in S0 \cup {"down"}, Goto(x), step \in S0,
         UNCHANGED <<binding, artifacts, manifest, receipts, ledger, listings>>,
         report' = report, spec' = spec \/ spec' = TRUE, ~emptied,
         \/ db' = db
         \/ \E rows : CommitRows(rows) /\ rows \cap {"completed_at",
            "listing_version"} = {},
         x \in S1 => step \in S1, x \in S2 => step \in S2, x \in S3 => step \in S3, x \in S4 => step \in S4,
         x \in S5 => step \in S5, x \in S6 => step \in S6, x \in S7 => step \in S7,
         x \in S1 \ {"commit_research"} => report = "full",
         x \in S2 \cup {"shortlist_score_spec"} => spec',
         x \in S3 \cup {"notion_build_variants_qa_facts"} => Verified,
         x = "write_file" => artifact = 1, x \in Unbundled => step \in Unbundled,
         x # "write_manifest", x # "post",
         x = "write_pending" => listings = 0,
         x = "record" => listings = 1,
         x \in S6 \cup {"fixture_etsy_draft"} => ledger = "ready"
  PROVE  FixtureInv'
  <1>1. step' = x /\ UNCHANGED <<database, known, emptied, artifact>>
    BY DEF Goto
  <1>2. Bound' /\ DOMAIN db' = Databases
    BY <1>1, WorkBound
  <1>3. ReceiptsHeld'
    <2>1. step # "down"
      BY Zenon DEF S0, S1, S2, S3, S4, S5, S6, S7
    <2> QED
      BY <1>1, <2>1, ZenonT(30) DEF FixtureInv, ReceiptsHeld
  <1>4. FilesMade'
    <2>1. x # "bind"
      BY Zenon DEF S0, S1, S2, S3, S4, S5, S6, S7
    <2> QED
      BY <1>1, <2>1 DEF FixtureInv, FilesMade, Verified
  <1>5. DraftKept'
    BY <1>1 DEF FixtureInv, DraftKept
  <1> QED
    BY <1>1, <1>2, <1>3, <1>4, <1>5 DEF FixtureInv

\* The steps that move on and leave the files alone, or add rows to the database.
LEMMA MovesKeep ==
  ASSUME FixtureInv,
         \/ SeedWorkflow \/ CreateResearchJob \/ Observe
            \/ Shortlist \/ CommitResearch
         \/ Strategy \/ CommitStrategy \/ CreateBuildJob
            \/ BuildProduct \/ ConsultLedger
  PROVE  FixtureInv'
  <1> USE DEF S0, S1, S2, S3, S4, S5, S6, S7, Unbundled, bundle, drafts
  <1>0. ~emptied
    BY DEF FixtureInv, ReceiptsHeld, Stages, SeedWorkflow,
       CreateResearchJob, Observe, Shortlist,
       CommitResearch, Strategy, CommitStrategy, CreateBuildJob,
          BuildProduct, ConsultLedger
  <1>1. CASE SeedWorkflow
    BY <1>0, <1>1, FixtureMoves DEF SeedWorkflow
  <1>2. CASE CreateResearchJob
    BY <1>0, <1>2, FixtureMoves DEF CreateResearchJob
  <1>3. CASE Observe
    BY <1>0, <1>3, FixtureMoves DEF Observe
  <1>4. CASE Shortlist
    BY <1>0, <1>4, FixtureMoves DEF Shortlist
  <1>5. CASE CommitResearch
    BY <1>0, <1>5, FixtureMoves DEF CommitResearch, Refuse
  <1>6. CASE Strategy
    <2>1. step = "strategy" /\ report = "full" /\ spec' = TRUE /\ Goto("shortlist_score_spec")
      BY <1>6, Zenon DEF Strategy, FixtureInv, FilesMade
    <2>2. /\ UNCHANGED <<binding, report, artifacts, manifest, receipts, ledger, listings>>
          /\ db' = db
      BY <1>6 DEF Strategy
    <2> QED
      BY <1>0, <2>1, <2>2, FixtureMoves, Zenon
  <1>7. CASE CommitStrategy
    <2>1. step = "commit_strategy" /\ report = "full" /\ spec /\ spec' = spec /\ Goto("build_job")
      BY <1>7, Zenon DEF CommitStrategy, FixtureInv, FilesMade
    <2>2. /\ UNCHANGED <<binding, report, artifacts, manifest, receipts, ledger, listings>>
          /\ CommitRows({"spec"})
      BY <1>7 DEF CommitStrategy
    <2> QED
      BY <1>0, <2>1, <2>2, FixtureMoves
  <1>8. CASE CreateBuildJob
    <2>1. step = "build_job" /\ report = "full" /\ spec /\ spec' = spec /\ Goto("build")
      BY <1>8, Zenon DEF CreateBuildJob, FixtureInv, FilesMade
    <2>2. /\ UNCHANGED <<binding, report, artifacts, manifest, receipts, ledger, listings>>
          /\ CommitRows({"build_job"})
      BY <1>8 DEF CreateBuildJob
    <2> QED
      BY <1>0, <2>1, <2>2, FixtureMoves
  <1>9. CASE BuildProduct
    <2>1. step = "build" /\ report = "full" /\ spec /\ spec' = spec /\ Goto("render")
      BY <1>9, Zenon DEF BuildProduct, FixtureInv, FilesMade
    <2>2. /\ UNCHANGED <<binding, report, artifacts, manifest, receipts, ledger, listings>>
          /\ db' = db
      BY <1>9 DEF BuildProduct
    <2> QED
      BY <1>0, <2>1, <2>2, FixtureMoves, Zenon
  <1>10. CASE ConsultLedger
    <2>1. /\ report = "full" /\ spec /\ Verified /\ listings \in {0, 1} /\ step = "draft"
      BY <1>10 DEF ConsultLedger, FixtureInv, FilesMade, DraftKept
    <2>2. \/ Goto("fixture_etsy_draft") /\ ledger = "ready"
          \/ Goto("record") /\ listings > 0
          \/ Goto("write_pending") /\ listings = 0
          \/ Goto("down")
      BY <1>10 DEF ConsultLedger
    <2>3. UNCHANGED <<binding, artifacts, manifest, receipts, ledger, listings, report, spec, db>>
      BY <1>10 DEF ConsultLedger
    <2> QED
      BY <1>0, <2>1, <2>2, <2>3, FixtureMoves
  <1> QED
    BY <1>1, <1>2, <1>3, <1>4, <1>5, <1>6, <1>7, <1>8, <1>9, <1>10

\* The bundle is written file by file, and the manifest behind it.
LEMMA BundleKeeps ==
  ASSUME FixtureInv,
         RenderBundle \/ (\E same \in BOOLEAN : OpenArtifact(same))
            \/ WriteArtifact \/ OpenManifest \/ WriteManifest
  PROVE  FixtureInv'
  <1> USE DEF S0, S1, S2, S3, S4, S5, S6, S7, Unbundled, bundle, drafts
  <1>0. ~emptied /\ step \in {"render", "write_file", "write_manifest"} /\ report = "full" /\ spec
    BY Zenon DEF FixtureInv, ReceiptsHeld, FilesMade, Stages, RenderBundle,
       OpenArtifact, WriteArtifact,
       OpenManifest, WriteManifest
  <1>1. CASE RenderBundle
    <2>1. step = "render" /\ artifact = 1
      BY <1>1, Zenon DEF RenderBundle, FixtureInv, FilesMade
    <2>2. \/ Goto("write_file") \/ Goto("down")
          \/ Goto("notion_build_variants_qa_facts") /\ Verified
      BY <1>1 DEF RenderBundle, Refuse
    <2>3. UNCHANGED <<binding, artifacts, manifest, receipts, ledger, listings, report, spec, db>>
      BY <1>1 DEF RenderBundle
    <2> QED
      BY <1>0, <2>1, <2>2, <2>3, FixtureMoves, Zenon
  <1>2. ASSUME NEW same \in BOOLEAN, OpenArtifact(same) PROVE FixtureInv'
    <2>1. /\ step = "write_file" /\ artifact \in 1..Files /\ Files \in Nat /\ DOMAIN artifacts = 1..Files
          /\ \A f \in 1..Files : f < artifact => artifacts[f] = "whole"
          /\ UNCHANGED <<database, known, emptied, binding, report, spec, manifest, receipts,
                         ledger, listings, db>>
      BY <1>2, FixtureAssumption DEF OpenArtifact, FixtureInv, FilesMade
    <2>2. \/ step' = "down" /\ UNCHANGED <<artifacts, artifact>>
          \/ step' = step /\ artifacts' = [artifacts EXCEPT ![artifact] = "cut"] /\ artifact' = artifact + 1
      BY <1>2 DEF OpenArtifact
    <2>3. Bound' /\ DOMAIN db' = Databases
      BY <2>1, <2>2, WorkBound
    <2>4. ReceiptsHeld' /\ DraftKept'
      BY <1>0, <2>1, <2>2, ZenonT(30) DEF FixtureInv, ReceiptsHeld, DraftKept
    <2>5. FilesMade' /\ artifact' \in 1..(Files + 1) /\ DOMAIN artifacts' = 1..Files
      BY <1>0, <2>1, <2>2 DEF FixtureInv, FilesMade
    <2> QED
      BY <2>1, <2>2, <2>3, <2>4, <2>5, ZenonT(30) DEF FixtureInv
  <1>3. CASE WriteArtifact
    <2>1. /\ step = "write_file" /\ artifact \in 2..(Files + 1) /\ Files \in Nat /\ DOMAIN artifacts' = 1..Files
          /\ \A f \in 1..Files : artifacts'[f] = IF f = artifact - 1 THEN "whole" ELSE artifacts[f]
          /\ UNCHANGED <<step, database, known, emptied, artifact, binding, report, spec, manifest,
                         receipts,
                         ledger, listings, db>>
      BY <1>3, FixtureAssumption DEF WriteArtifact, Finished, process, FixtureInv
    <2>2. Bound' /\ DOMAIN db' = Databases
      BY <2>1, WorkBound
    <2>3. ReceiptsHeld' /\ DraftKept'
      BY <1>0, <2>1, ZenonT(30) DEF FixtureInv, ReceiptsHeld, DraftKept
    <2>4. FilesMade'
      BY <1>0, <2>1 DEF FixtureInv, FilesMade
    <2> QED
      BY <2>1, <2>2, <2>3, <2>4 DEF FixtureInv
  <1>4. CASE OpenManifest \/ WriteManifest
    <2>1. /\ UNCHANGED <<database, known, emptied, artifact, binding, report, spec, artifacts,
                         receipts,
                         ledger, listings, db>>
          /\ \A f \in 1..Files : artifacts[f] = "whole"
      BY <1>4, FixtureAssumption DEF OpenManifest, WriteManifest, Goto, FixtureInv, FilesMade
    <2>2. \/ step' = "write_manifest"
          \/ step' = "notion_build_variants_qa_facts" /\ manifest' = "whole"
      BY <1>4 DEF OpenManifest, WriteManifest, Goto
    <2>3. Bound' /\ DOMAIN db' = Databases
      BY <1>0, <2>1, <2>2, WorkBound
    <2>4. ReceiptsHeld' /\ DraftKept'
      BY <1>0, <2>1, <2>2, Zenon DEF FixtureInv, ReceiptsHeld, DraftKept
    <2>5. FilesMade'
      BY <1>0, <2>1, <2>2, Zenon DEF FilesMade, Verified
    <2> QED
      BY <2>1, <2>2, <2>3, <2>4, <2>5 DEF FixtureInv
  <1> QED
    BY <1>1, <1>2, <1>3, <1>4

\* A receipt is written again with all the others.
LEMMA ReceiptsKeep ==
  ASSUME FixtureInv, NEW stage \in Stages,
     OpenReceipts(stage) \/ WriteReceipts(stage)
  PROVE  FixtureInv'
  <1> USE DEF S0, S1, S2, S3, S4, S5, S6, S7, Unbundled, Stages
  <1>1. /\ step = stage /\ step \in S0 /\ artifact' = artifact /\ database' = database
        /\ UNCHANGED <<binding, report, spec, artifacts, manifest, ledger, listings, db>>
    BY DEF OpenReceipts, WriteReceipts, Goto, bundle, drafts
  <1>2. step' = step \/ step' = After(stage)
    BY DEF OpenReceipts, WriteReceipts, Goto
  <1>3. /\ step' \in S0
        /\ step' \in Unbundled => step \in Unbundled
        /\ step' \in S6 \cup {"fixture_etsy_draft"} => step \in S6 \cup {"fixture_etsy_draft"}
        /\ step' \notin {"write_file", "write_manifest", "write_pending", "post", "record"}
        /\ step' \in S3 \cup {"notion_build_variants_qa_facts"} =>
             step \in S3 \cup {"notion_build_variants_qa_facts"}
        /\ step' \in S2 \cup {"shortlist_score_spec"} => step \in S2 \cup {"shortlist_score_spec"}
        /\ step' \in S1 \ {"commit_research"} => step \in S1 \ {"commit_research"}
    BY <1>1, <1>2 DEF After
  <1>4. Bound' /\ DOMAIN db' = Databases
    BY <1>1, <1>3, WorkBound, Zenon
  <1>5. FilesMade'
    BY <1>1, <1>3, Zenon DEF FixtureInv, FilesMade, Verified
  <1>6. DraftKept'
    BY <1>1, <1>3, Zenon DEF FixtureInv, DraftKept
  <1>7. ReceiptsHeld'
    <2>1. CASE OpenReceipts(stage) /\ stage \in known
      BY <1>1, <2>1 DEF OpenReceipts, Goto, After, FixtureInv, ReceiptsHeld
    <2>2. CASE OpenReceipts(stage) /\ stage \notin known
      BY ZenonT(30), <1>1, <2>2 DEF OpenReceipts, FixtureInv, ReceiptsHeld
    <2>3. CASE WriteReceipts(stage)
      BY <1>1, <2>3 DEF WriteReceipts, After, FixtureInv, ReceiptsHeld
    <2> QED
      BY <2>1, <2>2, <2>3
  <1> QED
    BY <1>1, <1>3, <1>4, <1>5, <1>6, <1>7, ZenonT(30) DEF FixtureInv

\* The report is written when there is none.
LEMMA ReportKeeps ==
  ASSUME FixtureInv, ReadReport
  PROVE  FixtureInv'
  <1> USE DEF S0, S1, S2, S3, S4, S5, S6, S7, Unbundled, bundle, drafts
  <1>0. ~emptied /\ step = "read_report" /\ UNCHANGED <<binding, spec, artifacts, manifest,
                                                        receipts, ledger, listings>>
    BY Zenon DEF FixtureInv, ReceiptsHeld, Stages, ReadReport
  <1>1. CASE report' = report
    <2>1. \E x \in {"research", "observe", "down"} : Goto(x)
      BY DEF ReadReport, Refuse
    <2>2. db' = db \/ CommitRows({"research_run"})
      BY DEF ReadReport
    <2> QED
      BY <1>0, <1>1, <2>1, <2>2, FixtureMoves
  <1>2. CASE report' # report
    <2>1. Goto("research") /\ db' = db
      BY <1>2 DEF ReadReport
    <2>2. step' = "research" /\ UNCHANGED <<database, known, emptied, artifact>>
      BY <2>1 DEF Goto
    <2>3. Bound' /\ DOMAIN db' = Databases
      BY <1>0, <2>1, <2>2, WorkBound
    <2>4. ReceiptsHeld' /\ FilesMade' /\ DraftKept'
      BY <1>0, <2>1, <2>2, Zenon DEF FixtureInv, ReceiptsHeld, FilesMade, DraftKept
    <2> QED
      BY <1>0, <2>2, <2>3, <2>4, Zenon DEF FixtureInv
  <1> QED
    BY <1>1, <1>2

\* The ledger goes before the marketplace, and behind it.
LEMMA DraftKeeps ==
  ASSUME FixtureInv, PutPending \/ Post
     \/ RecordDraft
  PROVE  FixtureInv'
  <1> USE DEF S0, S1, S2, S3, S4, S5, S6, S7, Unbundled, bundle
  <1>1. /\ step \in {"write_pending", "post", "record"} /\ ~emptied /\ report = "full" /\ spec /\ Verified
        /\ UNCHANGED <<database, known, emptied, artifact, binding, report, spec, artifacts,
                       manifest, receipts, db>>
    BY ZenonT(30) DEF FixtureInv, ReceiptsHeld, FilesMade, Stages, PutPending, Post,
       RecordDraft, process, Goto
  <1>2. /\ step' \in {"write_pending", "post", "record", "fixture_etsy_draft"}
        /\ DraftKept'
    BY DEF PutPending, Post, RecordDraft, process, Goto,
       FixtureInv, DraftKept, None
  <1>3. Bound' /\ DOMAIN db' = Databases
    BY <1>1, <1>2, WorkBound
  <1>4. ReceiptsHeld' /\ FilesMade'
    BY <1>1, <1>2, Zenon DEF FixtureInv, ReceiptsHeld, FilesMade, Verified
  <1> QED
    BY <1>1, <1>2, <1>3, <1>4, Zenon DEF FixtureInv

\* The last commit finds all the evidence in place.
LEMMA DeliveryKeeps ==
  ASSUME FixtureInv, CommitDelivery
  PROVE  FixtureInv'
  <1> USE DEF S0, S1, S2, S3, S4, S5, S6, S7, Unbundled, bundle, drafts
  <1>1. /\ step = "commit_delivery" /\ step' = "write_ids" /\ ~emptied
        /\ db' = [db EXCEPT ![database] = @ \cup {"listing_version", "completed_at"}]
        /\ UNCHANGED <<database, known, emptied, artifact, binding, report, spec, artifacts,
                       manifest, receipts,
                       ledger, listings>>
    BY Zenon DEF CommitDelivery, Goto, CommitRows, FixtureInv, ReceiptsHeld,
       Stages
  <1>2. receipts = Stages
    <2>1. receipts = known /\ known \subseteq Stages
      BY <1>1, Zenon DEF FixtureInv, ReceiptsHeld
    <2>2. Stages \subseteq known
      BY <1>1, Zenon DEF FixtureInv, ReceiptsHeld, Stages
    <2> QED
      BY <2>1, <2>2
  <1>3. Evidence'
    BY <1>1, <1>2, Zenon DEF Evidence, FixtureInv, FilesMade, DraftKept, Verified
  <1>4. binding = database /\ database \in Databases /\ DOMAIN db = Databases
    BY <1>1, Zenon DEF FixtureInv, Bound
  <1>5. /\ DOMAIN db' = Databases /\ db'[database] = db[database] \cup {"listing_version", "completed_at"}
        /\ \A d \in Databases : d # database => db'[d] = db[d]
    BY <1>1, <1>4
  <1>6. Bound'
    BY <1>1, <1>3, <1>4, <1>5, Zenon DEF FixtureInv, Bound
  <1>7. ReceiptsHeld' /\ FilesMade' /\ DraftKept'
    BY <1>1, Zenon DEF FixtureInv, ReceiptsHeld, FilesMade, DraftKept
  <1> QED
    BY <1>1, <1>5, <1>6, <1>7, Zenon DEF FixtureInv

\* The start, the binding, and the ends.
LEMMA EndsKeep ==
  ASSUME FixtureInv,
         (\E d \in Databases : Start(d)) \/ Bind \/ Verify \/ WriteIds \/ Crash
  PROVE  FixtureInv'
  <1> USE DEF S0, S1, S2, S3, S4, S5, S6, S7, Unbundled, bundle, drafts
  <1>1. UNCHANGED <<report, spec, artifacts, manifest, receipts, ledger, listings, db>>
    BY Zenon DEF Start, Bind, Verify, WriteIds, Crash
  <1>2. step' \in {"down", "bind", "verify", "seed", "write_ids"}
    BY Zenon DEF Start, Bind, Verify, WriteIds, Crash,
       Goto, Refuse, FixtureInv, Bound, Committed
  <1>3. database' \in Databases /\ artifact' \in 1..(Files + 1)
    BY FixtureAssumption DEF Start, Bind, Verify, WriteIds, Crash, Goto, Refuse, FixtureInv
  <1>4. step' \in {"bind", "seed"} => artifact' = 1
    BY Zenon DEF Start, Bind, Verify, WriteIds, Crash,
       Goto, Refuse, FixtureInv, FilesMade, Bound
  <1>5. ReceiptsHeld'
    <2>1. step \in {"down", "bind", "verify", "write_ids"} => ~emptied
      BY Zenon DEF FixtureInv, ReceiptsHeld, Stages
    <2>2. ~emptied' /\ known' \subseteq Stages /\ (step' # "down" => receipts' = known')
      <3>1. CASE Crash \/ \E d \in Databases : Start(d)
        BY <3>1, Zenon DEF Start, Crash, FixtureInv, ReceiptsHeld
      <3>2. CASE Bind
        BY <2>1, <3>2, Zenon DEF Bind, Goto, Refuse, FixtureInv, ReceiptsHeld
      <3>3. CASE Verify
        BY <2>1, <3>3, Zenon DEF Verify, Goto, Refuse, FixtureInv, ReceiptsHeld
      <3>4. CASE WriteIds
        BY <2>1, <3>4, Zenon DEF WriteIds, Goto, Refuse, FixtureInv, ReceiptsHeld
      <3> QED
        BY <3>1, <3>2, <3>3, <3>4
    <2> QED
      BY <1>1, <1>2, <2>2, Zenon DEF FixtureInv, ReceiptsHeld
  <1>6. FilesMade' /\ DraftKept'
    BY <1>1, <1>2, <1>4, Zenon DEF FixtureInv, FilesMade, DraftKept
  <1>7. binding' = binding \/ (binding = None /\ binding' = database)
    BY Zenon DEF Start, Bind, Verify, WriteIds, Crash,
       BindingAgrees
  <1>8. \A d \in Databases : db'[d] # {} => binding' = d
    BY <1>1, <1>7, FixtureAssumption, Zenon DEF FixtureInv, Bound
  <1>9. step' \in {"verify", "write_ids", "seed"} => binding' = database' /\ database' = database
    BY Zenon DEF Start, Bind, Verify, WriteIds, Crash,
       Goto, Refuse, FixtureInv, Bound
  <1>10. /\ step' = "seed" => "completed_at" \notin db'[database']
         /\ step' = "verify" => "completed_at" \in db'[database']
    BY <1>1, Zenon DEF Start, Bind, Verify, WriteIds, Crash,
       Goto, Refuse, FixtureInv, Bound, Committed
  <1>11. Bound'
    BY <1>1, <1>2, <1>3, <1>8, <1>9, <1>10, Zenon DEF FixtureInv, Bound, Evidence, Verified
  <1> QED
    BY <1>1, <1>2, <1>3, <1>5, <1>6, <1>11, Zenon DEF FixtureInv

\* Every step keeps the invariant.
LEMMA FixtureNextInv ==
  ASSUME FixtureInv, [FixtureNext]_fixtureVars
  PROVE  FixtureInv'
  <1>1. CASE FixtureNext
    BY <1>1, MovesKeep, BundleKeeps, ReceiptsKeep, ReportKeeps, DraftKeeps, DeliveryKeeps,
       EndsKeep DEF FixtureNext, Execute
  <1>2. CASE UNCHANGED fixtureVars
    <2>1. UNCHANGED <<step, database, known, emptied, artifact, binding, report, spec, artifacts,
                      manifest,
                      receipts, ledger, listings, db>>
      BY <1>2 DEF fixtureVars, process, bundle, drafts
    <2>2. Verified' = Verified
      BY <2>1 DEF Verified
    <2>3. ReceiptsHeld' /\ FilesMade' /\ DraftKept'
      BY <2>1, <2>2 DEF FixtureInv, ReceiptsHeld, FilesMade, DraftKept
    <2>4. Bound'
      BY Zenon, <2>1, <2>2 DEF FixtureInv, Bound, Evidence
    <2> QED
      BY <2>1, <2>3, <2>4 DEF FixtureInv
  <1> QED
    BY <1>1, <1>2

\* CompletedIsWhole, for any number of databases, files and deaths: one draft,
\* one database, and no completed workflow without the evidence outside it.
THEOREM CompletedRunsAreWhole == FixtureSpec => []CompletedIsWhole
  <1>1. FixtureInit => FixtureInv
    BY FixtureInitInv
  <1>2. FixtureInv /\ [FixtureNext]_fixtureVars => FixtureInv'
    BY FixtureNextInv
  <1>3. FixtureInv => CompletedIsWhole
    BY DEF FixtureInv, DraftKept, Bound, Evidence, CompletedIsWhole
  <1> QED
    BY <1>1, <1>2, <1>3, PTL DEF FixtureSpec
=============================================================================
