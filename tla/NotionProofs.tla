---------------------------- MODULE NotionProofs ----------------------------
(***************************************************************************)
(* Proofs about the Notion build and its QA: what the checkpoint records   *)
(* is in the workspace, a PASS is always an answer about the workspace as  *)
(* it is, there is never a second proof page, and no repair is forgotten,  *)
(* for every number of variants, edits, deaths and failures.               *)
(***************************************************************************)
EXTENDS NotionQA, NotionBuild, TLAPS

\* How long, in seconds, a prover may work on a step.
USE SMTT(30), ZenonT(30)

-----------------------------------------------------------------------------
(* NotionQA.                                                               *)

\* The fields of a build document that the calls read or write.
IsDocument(d) ==
  /\ DOMAIN d = {"qa", "ledger", "matrix", "phase", "jobs"}
  /\ \E S : d.jobs \in Seq(S)

\* A record that says PASS has no failed check.
Sound(d) ==
  /\ IsDocument(d)
  /\ d.qa.verdict = "PASS" => d.qa.failed = {}
  /\ d.ledger.verdict = "PASS" => d.ledger.failed = {}
  /\ d.matrix.verdict = "PASS" => d.matrix.failed = {}

\* The verdict of the call in progress, if d is the document it returns.
VerdictIn(d) ==
  CASE call.op = "qa" -> d.qa.verdict
    [] call.op = "ledger" -> d.ledger.verdict
    [] call.op = "matrix" -> d.matrix.verdict

QaSteps == {"repair", "conclude", "record"}

\* While a call runs, nobody else changes the workspace: what it is about to
\* write, or has written, is true of it.
IInv ==
  /\ proofs \in {0, 1}
  /\ Sound(file) /\ Sound(pending.document)
  /\ temp.is = "document" => Sound(temp.of)
  /\ step \in {"idle", "judge", "write", "install", "failed", "return"} \cup QaSteps
  /\ step \in {"idle", "judge"} => made = {}
  /\ step # "idle" => call.op \in {"qa", "ledger", "matrix"}
  /\ step \in QaSteps => call.op = "qa"
  /\ kept \subseteq RepairNames(file)
  /\ step \in QaSteps \cup {"return"} => made \subseteq RepairNames(file)
  /\ step \in {"write", "install"} =>
       /\ RepairNames(file) \cup made \subseteq RepairNames(pending.document)
       /\ pending.next \in {"return", "failed", "repair"}
       /\ pending.next = "repair" => call.op = "qa"
       /\ pending.next = "return" /\ VerdictIn(pending.document) = "PASS" => LiveQaPassed(call.prose)
  /\ step = "return" /\ VerdictIn(file) = "PASS" => LiveQaPassed(call.prose)

\* The document of a workspace just built claims nothing.
LEMMA BuiltSound == Sound(Built)
  BY DEF Sound, IsDocument, Built, NoRecord, NoLedger, NoMatrix

\* Before the first command.
LEMMA InitIInv == Init => IInv
  BY BuiltSound DEF Init, IInv, NoWrite, NoTemp, QaSteps

\* A job that is added leaves the ones that are there.
LEMMA AddedJob ==
  ASSUME NEW d, Sound(d), NEW job
  PROVE  /\ Sound(AddJob(d, job))
         /\ RepairNames(d) \subseteq RepairNames(AddJob(d, job))
         /\ job.kind = "qa_repair" => job.response \in RepairNames(AddJob(d, job))
  <1> DEFINE e == AddJob(d, job)
  <1>1. PICK S : d.jobs \in Seq(S)
    BY DEF Sound, IsDocument
  <1>2. /\ e.jobs = Append(d.jobs, job)
        /\ DOMAIN e = DOMAIN d /\ e.qa = d.qa /\ e.ledger = d.ledger /\ e.matrix = d.matrix
    BY DEF AddJob, Sound, IsDocument
  <1>3. d.jobs \in Seq(S \cup {job})
    BY <1>1
  <1>4. /\ e.jobs \in Seq(S \cup {job}) /\ Len(e.jobs) = Len(d.jobs) + 1
        /\ \A i \in 1..Len(d.jobs) : e.jobs[i] = d.jobs[i]
        /\ e.jobs[Len(d.jobs) + 1] = job
    BY <1>2, <1>3
  <1>5. Len(d.jobs) \in Nat /\ DOMAIN d.jobs = 1..Len(d.jobs) /\ DOMAIN e.jobs = 1..(Len(d.jobs) + 1)
    BY <1>1, <1>4
  <1>6. Sound(e)
    BY <1>2, <1>4 DEF Sound, IsDocument
  <1>7. RepairNames(d) \subseteq RepairNames(e)
    BY <1>4, <1>5 DEF RepairNames
  <1>8. job.kind = "qa_repair" => job.response \in RepairNames(e)
    BY <1>4, <1>5 DEF RepairNames
  <1> QED
    BY <1>6, <1>7, <1>8

\* adopt_checkpoint_temps takes no job away.
LEMMA AdoptedJobs ==
  ASSUME Sound(file), NEW d, Sound(d), StrictlyExtends(d)
  PROVE  RepairNames(file) \subseteq RepairNames(d)
  <1>1. PICK S : file.jobs \in Seq(S)
    BY DEF Sound, IsDocument
  <1>2. PICK T : d.jobs \in Seq(T)
    BY DEF Sound, IsDocument
  <1> DEFINE n == Len(file.jobs)
  <1>3. n \in Nat /\ Len(d.jobs) \in Nat /\ n < Len(d.jobs)
        /\ DOMAIN file.jobs = 1..n /\ DOMAIN d.jobs = 1..Len(d.jobs)
    BY <1>1, <1>2 DEF StrictlyExtends
  <1>4. file.jobs = SubSeq(d.jobs, 1, n)
    BY DEF StrictlyExtends
  <1>5. \A i \in 1..n : file.jobs[i] = d.jobs[i]
    <2> SUFFICES ASSUME NEW i \in 1..n PROVE file.jobs[i] = d.jobs[i]
      OBVIOUS
    <2>1. SubSeq(d.jobs, 1, n)[i] = d.jobs[i]
      BY <1>2, <1>3
    <2> QED
      BY <1>4, <2>1
  <1> QED
    BY <1>3, <1>5 DEF RepairNames

\* What QA judges depends on the workspace alone.
LEMMA SameWorkspace ==
  ASSUME UNCHANGED workspace, NEW prose
  PROVE  LiveQaPassed(prose)' <=> LiveQaPassed(prose)
  BY DEF workspace, LiveQaPassed, Checks, StructuralChecks, FlagFailures, Untouched, HasProof,
     SharedDatabases, DuplicateDatabases, HubsPresent, LinkedViews, FormulasCompile,
     NotificationValues, KnownPagesPresent, PageCount, PublicLinks, FreshDuplicate, NoAccess,
     CrossCatalogue, Palette, Teardown, FactsPersisted

\* Neither the ledger nor the matrix passes when QA would not.
LEMMA LedgerLive ==
  ASSUME NEW saved, NEW prose, LedgerChecks(saved, prose) = {}
  PROVE  LiveQaPassed(prose)
  BY DEF LedgerChecks

\* A matrix that passes has a ledger that passes.
LEMMA MatrixLive ==
  ASSUME NEW d, NEW prose, MatrixChecks(d, prose) = {}
  PROVE  LiveQaPassed(prose)
  <1>1. LedgerChecks(d.qa, prose) = {}
    BY DEF MatrixChecks
  <1> QED
    BY <1>1, LedgerLive

\* The three documents say PASS only of a workspace that passes, and keep the
\* jobs.
LEMMA QaDocument ==
  ASSUME NEW d, Sound(d), NEW prose, NEW proof
  PROVE  LET e == WithQa(d, prose, proof)
         IN  /\ Sound(e) /\ RepairNames(e) = RepairNames(d)
             /\ e.qa.verdict = "PASS" => LiveQaPassed(prose)
  <1> DEFINE e == WithQa(d, prose, proof)
  <1>1. /\ DOMAIN e = DOMAIN d /\ e.ledger = d.ledger /\ e.matrix = d.matrix /\ e.jobs = d.jobs
        /\ e.qa.verdict = VerdictOn(Checks(prose)) /\ e.qa.failed = Checks(prose)
    BY DEF Sound, IsDocument, WithQa
  <1> HIDE DEF e
  <1>2. Sound(e)
    BY <1>1 DEF Sound, IsDocument, VerdictOn
  <1>3. RepairNames(e) = RepairNames(d)
    BY <1>1 DEF RepairNames
  <1> QED
    BY <1>1, <1>2, <1>3 DEF LiveQaPassed, VerdictOn, e

\* The ledger it writes.
LEMMA LedgerDocument ==
  ASSUME NEW d, Sound(d), NEW prose
  PROVE  LET e == WithLedger(d, prose)
         IN  /\ Sound(e) /\ RepairNames(e) = RepairNames(d)
             /\ e.ledger.verdict = "PASS" => LiveQaPassed(prose)
  <1> DEFINE e == WithLedger(d, prose)
  <1>1. /\ DOMAIN e = DOMAIN d /\ e.qa = d.qa /\ e.matrix = d.matrix /\ e.jobs = d.jobs
        /\ e.ledger.verdict = VerdictOn(LedgerChecks(d.qa, prose))
        /\ e.ledger.failed = LedgerChecks(d.qa, prose)
    BY DEF Sound, IsDocument, WithLedger
  <1> HIDE DEF e
  <1>2. Sound(e)
    BY <1>1 DEF Sound, IsDocument, VerdictOn
  <1>3. RepairNames(e) = RepairNames(d)
    BY <1>1 DEF RepairNames
  <1> QED
    BY <1>1, <1>2, <1>3, LedgerLive DEF VerdictOn, e

\* The matrix it writes.
LEMMA MatrixDocument ==
  ASSUME NEW d, Sound(d), NEW prose
  PROVE  LET e == WithMatrix(d, prose)
         IN  /\ Sound(e) /\ RepairNames(e) = RepairNames(d)
             /\ e.matrix.verdict = "PASS" => LiveQaPassed(prose)
  <1> DEFINE e == WithMatrix(d, prose)
  <1>1. /\ DOMAIN e = DOMAIN d /\ e.qa = d.qa /\ e.ledger = d.ledger /\ e.jobs = d.jobs
        /\ e.matrix.verdict = VerdictOn(MatrixChecks(d, prose))
        /\ e.matrix.failed = MatrixChecks(d, prose)
    BY DEF Sound, IsDocument, WithMatrix
  <1> HIDE DEF e
  <1>2. Sound(e)
    BY <1>1 DEF Sound, IsDocument, VerdictOn
  <1>3. RepairNames(e) = RepairNames(d)
    BY <1>1 DEF RepairNames
  <1> QED
    BY <1>1, <1>2, <1>3, MatrixLive DEF VerdictOn, e

\* The call of a function, with the adoption QA begins with.
LEMMA StartKeeps ==
  ASSUME IInv, NEW prose, RunProductQa(prose) \/ RunFactLedger(prose) \/ RunTestMatrix(prose)
  PROVE  IInv'
  <1>1. CASE RunProductQa(prose)
    <2>1. Sound(file') /\ RepairNames(file) \subseteq RepairNames(file')
      BY <1>1, AdoptedJobs, Zenon DEF RunProductQa, Adoptable, IInv
    <2> QED
      BY <1>1, <2>1 DEF RunProductQa, IInv, Goto, NoTemp, QaSteps, workspace
  <1>2. CASE RunFactLedger(prose) \/ RunTestMatrix(prose)
    BY <1>2 DEF RunFactLedger, RunTestMatrix, IInv, Goto, QaSteps, workspace
  <1> QED
    BY <1>1, <1>2

\* The end of a call, and what others do between the calls.
LEMMA IdleKeeps ==
  ASSUME IInv, Refuses \/ Holds \/ Fails \/ ReturnVerdict \/ Crash \/ Edit
  PROVE  IInv'
  <1>1. /\ step' = "idle" /\ made' = {} /\ file' = file /\ kept' = kept /\ proofs' = proofs
        /\ pending' = pending \/ pending' = NoWrite
        /\ temp' = temp \/ temp' = CutShort
    BY Zenon DEF Refuses, Holds, Fails, ReturnVerdict, Crash, Edit, Return, Goto, workspace, IInv
  <1>2. Sound(pending'.document)
    BY <1>1, BuiltSound DEF IInv, NoWrite
  <1> QED
    BY <1>1, <1>2 DEF IInv, QaSteps, CutShort

\* A step that hands a document to the writer keeps the invariant if the
\* document keeps the repairs and its PASS is true.
LEMMA WriteKeeps ==
  ASSUME IInv, NEW d, NEW next \in {"return", "failed", "repair"}, Write(d, next), Sound(d),
         step \notin {"idle", "write", "install"}, next = "repair" => call.op = "qa",
         RepairNames(file) \cup made' \subseteq RepairNames(d),
         next = "return" /\ VerdictIn(d) = "PASS" => LiveQaPassed(call.prose)',
         UNCHANGED <<proofs, file, temp, call, kept>>
  PROVE  IInv'
  <1>1. pending' = [document |-> d, next |-> next] /\ step' = "write"
    BY DEF Write, Goto
  <1>2. pending'.document = d /\ pending'.next = next
    BY <1>1
  <1>3. VerdictIn(pending.document)' = VerdictIn(d)
    BY <1>2 DEF VerdictIn
  <1> QED
    BY <1>1, <1>2, <1>3, Zenon DEF IInv, QaSteps

\* The command has judged, and decides what to write.
LEMMA PlansKeeps ==
  ASSUME IInv, Plans
  PROVE  IInv'
  <1>1. /\ step = "judge" /\ made = {} /\ Sound(file) /\ call.op \in {"qa", "ledger", "matrix"}
        /\ UNCHANGED <<workspace, file, temp, call, made, kept>>
    BY DEF Plans, IInv
  <1>2. CASE call.op = "ledger"
    <2>1. Write(WithLedger(file, call.prose), "return")
      BY <1>2 DEF Plans
    <2>2. /\ Sound(WithLedger(file, call.prose))
          /\ RepairNames(WithLedger(file, call.prose)) = RepairNames(file)
          /\ VerdictIn(WithLedger(file, call.prose)) = "PASS" => LiveQaPassed(call.prose)
      BY <1>1, <1>2, LedgerDocument DEF VerdictIn
    <2>3. LiveQaPassed(call.prose)' <=> LiveQaPassed(call.prose)
      BY <1>1, SameWorkspace
    <2> QED
      BY <1>1, <2>1, <2>2, <2>3, WriteKeeps DEF workspace
  <1>3. CASE call.op = "matrix"
    <2>1. Write(WithMatrix(file, call.prose), "return")
      BY <1>3 DEF Plans
    <2>2. /\ Sound(WithMatrix(file, call.prose))
          /\ RepairNames(WithMatrix(file, call.prose)) = RepairNames(file)
          /\ VerdictIn(WithMatrix(file, call.prose)) = "PASS" => LiveQaPassed(call.prose)
      BY <1>1, <1>3, MatrixDocument DEF VerdictIn
    <2>3. LiveQaPassed(call.prose)' <=> LiveQaPassed(call.prose)
      BY <1>1, SameWorkspace
    <2> QED
      BY <1>1, <2>1, <2>2, <2>3, WriteKeeps DEF workspace
  <1>4. CASE call.op = "qa"
    <2>1. step' \in {"repair", "conclude"} /\ pending' = pending
      BY <1>4 DEF Plans, Goto
    <2> QED
      BY <1>1, <1>4, <2>1 DEF IInv, QaSteps, workspace
  <1> QED
    BY <1>1, <1>2, <1>3, <1>4

\* A repair job is added once under its name, and none is taken away.
LEMMA RepairKeeps ==
  ASSUME IInv, Repair \/ Repaired \/ ProviderFails
  PROVE  IInv'
  <1>1. CASE Repair
    <2>1. PICK name :
            /\ made' = made \cup {name}
            /\ IF name \in RepairNames(file) THEN UNCHANGED <<step, pending>>
               ELSE Write(AddJob(file, RepairJob(name)), "repair")
      BY <1>1, Zenon DEF Repair
    <2>2. step = "repair" /\ call.op = "qa" /\ UNCHANGED <<proofs, file, temp, call, kept>>
      BY <1>1, Zenon DEF Repair, IInv, QaSteps
    <2>3. CASE name \in RepairNames(file)
      BY <2>1, <2>2, <2>3 DEF IInv, QaSteps
    <2>4. CASE name \notin RepairNames(file)
      <3>1. /\ Sound(AddJob(file, RepairJob(name)))
            /\ RepairNames(file) \cup {name} \subseteq RepairNames(AddJob(file, RepairJob(name)))
        BY AddedJob DEF RepairJob, IInv
      <3>2. made \subseteq RepairNames(file)
        BY <2>2 DEF IInv, QaSteps
      <3> QED
        BY <2>1, <2>2, <2>4, <3>1, <3>2, WriteKeeps
    <2> QED
      BY <2>3, <2>4
  <1>2. CASE Repaired
    BY <1>2 DEF Repaired, Goto, IInv, QaSteps, workspace
  <1>3. CASE ProviderFails
    <2>1. /\ step \in {"judge", "repair", "conclude"} /\ UNCHANGED <<proofs, file, temp, call, made, kept>>
          /\ \/ step' = "failed" /\ pending' = pending
             \/ Write(AddJob(file, ProviderJob(call.op)), "failed")
      BY <1>3 DEF ProviderFails, Goto, workspace
    <2>2. made \subseteq RepairNames(file)
      BY <2>1, Zenon DEF IInv, QaSteps
    <2>3. CASE step' = "failed" /\ pending' = pending
      BY <2>1, <2>3, Zenon DEF IInv, QaSteps
    <2>4. CASE Write(AddJob(file, ProviderJob(call.op)), "failed")
      <3>1. /\ Sound(AddJob(file, ProviderJob(call.op)))
            /\ RepairNames(file) \subseteq RepairNames(AddJob(file, ProviderJob(call.op)))
        BY AddedJob DEF IInv
      <3> QED
        BY <2>1, <2>2, <2>4, <3>1, WriteKeeps
    <2> QED
      BY <2>1, <2>3, <2>4
  <1> QED
    BY <1>1, <1>2, <1>3

\* The proof page and the record of QA.
LEMMA RecordKeeps ==
  ASSUME IInv, Prove \/ RecordPass \/ RecordBlocked
  PROVE  IInv'
  <1>1. CASE Prove
    BY <1>1, Zenon DEF Prove, Goto, IInv, QaSteps
  <1>2. CASE RecordPass \/ RecordBlocked
    <2>1. PICK proof : Write(WithQa(file, call.prose, proof), "return")
      BY Zenon, <1>2 DEF RecordPass, RecordBlocked
    <2>2. step \in QaSteps /\ call.op = "qa" /\ UNCHANGED <<workspace, file, temp, call, made, kept>>
      BY Zenon, <1>2 DEF RecordPass, RecordBlocked, IInv, QaSteps
    <2>3. /\ Sound(WithQa(file, call.prose, proof)) /\ made \subseteq RepairNames(file)
          /\ RepairNames(WithQa(file, call.prose, proof)) = RepairNames(file)
          /\ VerdictIn(WithQa(file, call.prose, proof)) = "PASS" => LiveQaPassed(call.prose)
      BY <2>2, QaDocument DEF IInv, VerdictIn
    <2>4. LiveQaPassed(call.prose)' <=> LiveQaPassed(call.prose)
      BY <2>2, SameWorkspace
    <2> QED
      BY <2>1, <2>2, <2>3, <2>4, WriteKeeps DEF workspace, QaSteps
  <1> QED
    BY <1>1, <1>2

\* The writer.
LEMMA InstallKeeps ==
  ASSUME IInv, WriteTemp \/ Install
  PROVE  IInv'
  <1>1. LiveQaPassed(call.prose)' <=> LiveQaPassed(call.prose)
    <2>1. UNCHANGED workspace /\ UNCHANGED call
      BY DEF WriteTemp, Install
    <2> QED
      BY <2>1, SameWorkspace
  <1>2. CASE WriteTemp
    <2>1. /\ step = "write" /\ step' = "install" /\ temp'.of = pending.document
          /\ UNCHANGED <<proofs, file, call, pending, made, kept>>
      BY <1>2 DEF WriteTemp, Goto, workspace
    <2>2. VerdictIn(pending.document)' = VerdictIn(pending.document)
      BY <2>1 DEF VerdictIn
    <2> QED
      BY <1>1, <2>1, <2>2, Zenon DEF IInv, QaSteps
  <1>3. CASE Install
    <2>1. /\ step = "install" /\ step' = pending.next /\ file' = pending.document /\ temp' = NoTemp
          /\ pending' = NoWrite /\ kept' = kept \cup RepairNames(pending.document)
          /\ UNCHANGED <<proofs, call, made>>
      BY <1>3 DEF Install, Goto, workspace
    <2>2. VerdictIn(file)' = VerdictIn(pending.document)
      BY <2>1 DEF VerdictIn
    <2>3. Sound(pending'.document)
      BY <2>1, BuiltSound DEF NoWrite
    <2> QED
      BY <1>1, <2>1, <2>2, <2>3, Zenon DEF IInv, QaSteps, NoTemp
  <1> QED
    BY <1>2, <1>3

\* Every step keeps the invariant.
LEMMA NextKeeps == IInv /\ [Next]_vars => IInv'
  <1> SUFFICES ASSUME IInv, [Next]_vars PROVE IInv'
    OBVIOUS
  <1>1. CASE Next
    BY <1>1, StartKeeps, IdleKeeps, PlansKeeps, RepairKeeps, RecordKeeps, InstallKeeps DEF Next, Work
  <1>2. CASE UNCHANGED vars
    <2>1. UNCHANGED <<workspace, proofs, file, temp, step, call, pending, made, kept>>
      BY <1>2 DEF vars, workspace
    <2>2. LiveQaPassed(call.prose)' <=> LiveQaPassed(call.prose)
      BY <2>1, SameWorkspace
    <2> QED
      BY <2>1, <2>2 DEF IInv, VerdictIn
  <1> QED
    BY <1>1, <1>2

\* The invariant holds in every run.
LEMMA Safe == Spec => []IInv
  BY InitIInv, NextKeeps, PTL DEF Spec

\* PassIsLive, for every number of variants and every list of edits, deaths and
\* failures: no stored record makes one of the three answer PASS for a workspace
\* that would not pass now.
THEOREM PassesAreLive == Spec => []PassIsLive
  <1>1. IInv => PassIsLive
    <2> SUFFICES ASSUME IInv, Answers, StoredVerdict = "PASS" PROVE LiveQaPassed(call.prose)
      BY DEF PassIsLive
    <2>1. CASE step = "return"
      BY <2>1 DEF IInv, VerdictIn, StoredVerdict
    <2>2. CASE step = "judge" /\ Verdict = "holds"
      <3>1. Sound(file) /\ call.op \in {"qa", "ledger", "matrix"}
        BY <2>2 DEF IInv
      <3>2. CASE call.op = "qa"
        <4>1. QaVerdict(file.qa, call.prose) = "holds" /\ file.qa.verdict = "PASS"
          BY <2>2, <3>2 DEF Verdict, StoredVerdict
        <4>2. file.qa.failed = Checks(call.prose)
          BY <4>1 DEF QaVerdict, SameJudgement
        <4> QED
          BY <3>1, <4>1, <4>2 DEF Sound, LiveQaPassed
      <3>3. CASE call.op = "ledger"
        <4>1. LedgerVerdict(file, call.prose) = "holds" /\ file.ledger.verdict = "PASS"
          BY <2>2, <3>3 DEF Verdict, StoredVerdict
        <4>2. file.ledger.failed = LedgerChecks(file.qa, call.prose)
          BY <4>1 DEF LedgerVerdict
        <4> QED
          BY <3>1, <4>1, <4>2, LedgerLive DEF Sound
      <3>4. CASE call.op = "matrix"
        <4>1. MatrixVerdict(file, call.prose) = "holds" /\ file.matrix.verdict = "PASS"
          BY <2>2, <3>4 DEF Verdict, StoredVerdict
        <4>2. file.matrix.failed = MatrixChecks(file, call.prose)
          BY <4>1 DEF MatrixVerdict
        <4> QED
          BY <3>1, <4>1, <4>2, MatrixLive DEF Sound
      <3> QED
        BY <3>1, <3>2, <3>3, <3>4
    <2> QED
      BY <2>1, <2>2 DEF Answers
  <1> QED
    BY <1>1, Safe, PTL

\* RepairsKept: adoption, repairs and records keep every repair the checkpoint
\* has named, and a call's own are on it before it goes on.
THEOREM RepairsStay == Spec => []RepairsKept
  <1>1. IInv => RepairsKept
    BY DEF IInv, RepairsKept, QaSteps
  <1> QED
    BY <1>1, Safe, PTL

\* OneProof: QA never makes a second proof page.
THEOREM NoSecondProof == Spec => []OneProof
  <1>1. IInv => OneProof
    BY DEF IInv, OneProof
  <1> QED
    BY <1>1, Safe, PTL

-----------------------------------------------------------------------------
(* NotionBuild.                                                            *)

\* What a piece of the build may look like, and where the build may be.
PieceStates == {"none", "bare", "whole"}

BuildType ==
  /\ memory \in [Pieces -> PieceStates] /\ disk \in [Pieces -> PieceStates]
  /\ copy \in {"none", "bound", "released"}
  /\ dressed \in [1..Colours -> 0..FinishCalls]
  /\ recorded \in 0..VariantStage
  /\ phase_at \in {"down", "enter", "build", "write", "release", "variants", "refused", "done"}
  /\ pos \in Nat \ {0}

\* A piece that is made by an adapter call.
Called(x) == Kind(x) \notin {"guard", "marks"}

\* What a workspace looks like at any time: the guards stand, nothing of a
\* phase that was not entered yet is there, and a phase is built in order, so
\* that only the last piece that is there can lack its patch.
InOrder(w) ==
  /\ \A x \in Pieces : Kind(x) = "guard" => w[x] = "whole"
  /\ \A x \in Pieces : x[1] > Stage /\ Kind(x) # "guard" => w[x] = "none"
  /\ \A x, y \in Pieces :
       x[1] = y[1] /\ x[2] < y[2] /\ w[y] # "none" /\ Kind(y) # "guard" => w[x] = "whole"

\* Every piece that a call made is in the snapshot too.
CallsOnDisk == \A x \in Pieces : Called(x) /\ memory[x] # "none" => disk[x] # "none"

\* What the process has gone through in memory.
GoneThrough ==
  /\ phase_at \in {"build", "write", "release", "variants"} =>
       \A x \in Pieces : x[1] <= recorded => memory[x] = "whole"
  /\ phase_at = "build" =>
       recorded < 6 /\ \A x \in Pieces : x[1] = Stage /\ x[2] < pos => memory[x] = "whole"
  /\ phase_at = "write" => recorded < 7 /\ \A x \in Pieces : x[1] = Stage => memory[x] = "whole"
  /\ phase_at \in {"enter", "release"} => pos = 1
  /\ phase_at \in {"release", "variants"} => recorded = 6
  /\ phase_at = "variants" => \A c \in 1..Colours : c < pos => VariantMatches(c)
  /\ phase_at = "write" /\ recorded = 6 => VariantsMatch

\* A stage is begun by its first call, which also takes the patches of the
\* stages before it to the disk.
Begun ==
  \/ \E y \in Pieces : y[1] = Stage /\ Called(y) /\ disk[y] # "none"
  \/ copy # "none"
  \/ \E c \in 1..Colours : dressed[c] > 0
\* Once the workspace was begun, what the checkpoint records is on disk.
BegunIsBacked == Begun => \A x \in Pieces : x[1] <= recorded => disk[x] = "whole"

\* The copies are made and dressed last, one after the other.
VariantsLast ==
  /\ recorded < 6 => copy = "none" /\ \A c \in 1..Colours : dressed[c] = 0
  /\ copy # "none" => \E c \in 1..Colours : dressed[c] = 0

\* The inductive invariant of the build.
BuildInv ==
  /\ BuildType /\ InOrder(memory) /\ InOrder(disk) /\ CallsOnDisk
  /\ GoneThrough /\ BegunIsBacked /\ VariantsLast /\ RecordBacked

\* The kinds the plan names.
PieceKinds ==
  {"page", "shell", "database", "property", "call", "guard", "view", "formula", "rollup", "marks",
   "column", "sample", "row", "accent", "text", "icon", "cover"}

\* A plan that ends with a piece of kind k.
EndsWith(p, k) == p \in Seq(PieceKinds) /\ Len(p) \in Nat \ {0} /\ p[Len(p)] = k

\* A plan that is repeated ends as the plan does.
LEMMA TimesEnds ==
  ASSUME NEW n \in Nat \ {0}, NEW p, NEW k, EndsWith(p, k), Len(p) \in 1..4
  PROVE  EndsWith(Times(n, p), k)
  <1> DEFINE l == n * Len(p)
  <1>0. p \in Seq(PieceKinds) /\ p[Len(p)] = k
    BY DEF EndsWith
  <1>1. /\ l \in Nat \ {0} /\ Len(p) \in Nat \ {0}
        /\ (l - 1) % Len(p) = Len(p) - 1
        /\ \A i \in 1..l : (i - 1) % Len(p) \in 0..(Len(p) - 1)
    <2>1. CASE Len(p) = 1
      BY <2>1
    <2>2. CASE Len(p) = 2
      BY <2>2
    <2>3. CASE Len(p) = 3
      BY <2>3
    <2>4. CASE Len(p) = 4
      BY <2>4
    <2> QED
      BY <2>1, <2>2, <2>3, <2>4
  <1> HIDE DEF l
  <1>2. ASSUME NEW i \in 1..l PROVE p[((i - 1) % Len(p)) + 1] \in PieceKinds
    <2>1. (i - 1) % Len(p) \in 0..(Len(p) - 1)
      BY <1>1
    <2> QED
      BY <1>0, <2>1
  <1>3. Times(n, p) = [i \in 1..l |-> p[((i - 1) % Len(p)) + 1]]
    BY DEF Times, l
  <1>4. Times(n, p) \in [1..l -> PieceKinds]
    BY <1>2, <1>3
  <1>5. Times(n, p) \in Seq(PieceKinds) /\ Len(Times(n, p)) = l
    BY <1>1, <1>4
  <1>6. Times(n, p)[l] = k
    BY <1>0, <1>1, <1>3
  <1> QED
    BY <1>1, <1>5, <1>6 DEF EndsWith

\* Two plans end as the second does.
LEMMA BothEnd ==
  ASSUME NEW p, NEW q, NEW k, p \in Seq(PieceKinds), EndsWith(q, k)
  PROVE  EndsWith(p \o q, k)
  BY DEF EndsWith

\* The parts of the plans.
LEMMA PartsEnd ==
  /\ EndsWith(<<"page", "shell">>, "shell")
  /\ EndsWith(<<"database", "property", "property">>, "property")
  /\ EndsWith(<<"call", "guard", "call", "view", "view">>, "view")
  /\ EndsWith(<<"call", "call", "view", "view">>, "view")
  /\ EndsWith(<<"formula", "formula">>, "formula")
  /\ EndsWith(<<"database">>, "database")
  /\ EndsWith(<<"property">>, "property")
  /\ EndsWith(<<"rollup">>, "rollup")
  /\ EndsWith(<<"marks", "guard">>, "guard")
  /\ EndsWith(<<"column", "sample">>, "sample")
  /\ EndsWith(<<"row">>, "row")
  /\ EndsWith(<<"accent">>, "accent")
  /\ EndsWith(<<"guard">>, "guard")
  /\ EndsWith(<<"text">>, "text")
  /\ EndsWith(<<"icon", "cover">>, "cover")
  BY DEF EndsWith, PieceKinds

\* What the plans have in common: they are not empty, and end with a call.
LEMMA PlanIs ==
  /\ Phases = 1..6 /\ VariantStage = 7 /\ Len(Plan[1]) = 2
  /\ \A s \in 1..6 : Len(Plan[s]) \in Nat \ {0} /\ Plan[s][Len(Plan[s])] \notin {"guard", "marks"}
  <1>1. {BuildDatabases, Hubs, Samples} \subseteq Nat \ {0} /\ (Hubs # 1 => Hubs - 1 \in Nat \ {0})
    BY NotionBuildAssumption
  <1>2. EndsWith(PageAndShell, "shell") /\ Len(PageAndShell) = 2 /\ EndsWith(Dashboard, "view")
    BY PartsEnd DEF PageAndShell, Dashboard
  <1>3. EndsWith(CatalogueDatabases, "property")
    BY <1>1, PartsEnd, TimesEnds DEF CatalogueDatabases
  <1>4. EndsWith(IdentityHubs, "view")
    <2> DEFINE p == <<"call", "guard", "call", "view", "view">>
               q == <<"call", "call", "view", "view">>
    <2>1. EndsWith(p, "view") /\ EndsWith(q, "view") /\ Len(q) = 4
      BY PartsEnd
    <2>2. CASE Hubs = 1
      <3>1. Times(0, q) = << >>
        BY DEF Times
      <3>2. p \o << >> = p
        BY <2>1 DEF EndsWith
      <3>3. IdentityHubs = p \o Times(0, q)
        BY <2>2 DEF IdentityHubs
      <3> HIDE DEF p, q
      <3> QED
        BY <2>1, <3>1, <3>2, <3>3, Zenon
    <2>3. CASE Hubs # 1
      <3> HIDE DEF p, q
      <3>1. EndsWith(Times(Hubs - 1, q), "view")
        BY <1>1, <2>1, <2>3, TimesEnds
      <3>2. EndsWith(p \o Times(Hubs - 1, q), "view")
        BY <2>1, <3>1, BothEnd DEF EndsWith
      <3> QED
        BY <3>2 DEF IdentityHubs, p, q
    <2> QED
      BY <2>2, <2>3
  <1>5. EndsWith(NotificationDashboard, "row")
    <2>1. EndsWith(Formulas, "formula")
      BY <1>1, PartsEnd, TimesEnds DEF Formulas
    <2>2. EndsWith(SampleRows, "sample")
      BY <1>1, PartsEnd, TimesEnds DEF SampleRows
    <2>3. EndsWith(Times(BuildDatabases, <<"rollup">>), "rollup")
      BY <1>1, PartsEnd, TimesEnds
    <2>4. EndsWith(NotificationProperties, "rollup")
      BY <2>3, PartsEnd, BothEnd DEF NotificationProperties, EndsWith
    <2>5. Formulas \o <<"database">> \o NotificationProperties \o <<"marks", "guard">>
            \o SampleRows \in Seq(PieceKinds)
      BY <2>1, <2>2, <2>4, PartsEnd DEF EndsWith
    <2>6. EndsWith(NotificationRow, "row")
      BY PartsEnd DEF NotificationRow
    <2> QED
      BY <2>5, <2>6, BothEnd, Zenon DEF NotificationDashboard
  <1>6. EndsWith(Aesthetics, "cover")
    <2>1. EndsWith(SampleTexts, "text")
      BY <1>1, PartsEnd, TimesEnds DEF SampleTexts
    <2>2. EndsWith(HubMarks, "cover")
      BY <1>1, PartsEnd, TimesEnds DEF HubMarks
    <2>3. Accents \o <<"guard">> \o SampleTexts \in Seq(PieceKinds)
      BY <2>1, PartsEnd DEF EndsWith, Accents
    <2> QED
      BY <2>2, <2>3, BothEnd, Zenon DEF Aesthetics
  <1>7. Len(Plan) = 6 /\ Plan[1] = PageAndShell /\ Plan[2] = CatalogueDatabases /\ Plan[3] = Dashboard
        /\ Plan[4] = IdentityHubs /\ Plan[5] = NotificationDashboard /\ Plan[6] = Aesthetics
    BY DEF Plan
  <1>8. Phases = 1..6 /\ VariantStage = 7 /\ Len(Plan[1]) = 2
    BY <1>2, <1>7 DEF Phases, VariantStage
  <1>9. ASSUME NEW s \in 1..6
        PROVE  Len(Plan[s]) \in Nat \ {0} /\ Plan[s][Len(Plan[s])] \notin {"guard", "marks"}
    <2>1. s = 1 \/ s = 2 \/ s = 3 \/ s = 4 \/ s = 5 \/ s = 6
      OBVIOUS
    <2> QED
      BY <2>1, <1>2, <1>3, <1>4, <1>5, <1>6, <1>7, Zenon DEF EndsWith
  <1> QED
    BY <1>8, <1>9

\* A piece is a phase and a place in its plan.
LEMMA PiecesAre ==
  /\ \A x \in Pieces : x = <<x[1], x[2]>> /\ x[1] \in 1..6 /\ x[2] \in 1..Len(Plan[x[1]])
  /\ \A s \in 1..6 : \A i \in 1..Len(Plan[s]) : <<s, i>> \in Pieces
  <1>1. ASSUME NEW x \in Pieces
        PROVE  x = <<x[1], x[2]>> /\ x[1] \in 1..6 /\ x[2] \in 1..Len(Plan[x[1]])
    <2>1. PICK s \in Phases : x \in {s} \X (1..Len(Plan[s]))
      BY Zenon DEF Pieces
    <2>2. x = <<x[1], x[2]>> /\ x[1] = s /\ x[2] \in 1..Len(Plan[s])
      BY <2>1
    <2> QED
      BY <2>1, <2>2, PlanIs
  <1>2. ASSUME NEW s \in 1..6, NEW i \in 1..Len(Plan[s]) PROVE <<s, i>> \in Pieces
    <2>1. <<s, i>> \in {s} \X (1..Len(Plan[s])) /\ s \in Phases
      BY PlanIs
    <2> QED
      BY Zenon, <2>1 DEF Pieces
  <1> QED
    BY <1>1, <1>2

\* The process at its start.
LEMMA BuildInitInv == BuildInit => BuildInv
  <1> SUFFICES ASSUME BuildInit PROVE BuildInv
    OBVIOUS
  <1>1. BuildType
    BY PlanIs, NotionBuildAssumption DEF BuildInit, BuildType, Blank, PieceStates, FinishCalls
  <1>2. InOrder(memory) /\ InOrder(disk)
    BY DEF BuildInit, InOrder, Blank
  <1>3. CallsOnDisk /\ GoneThrough
    BY DEF BuildInit, CallsOnDisk, GoneThrough, Blank
  <1>4. \A x \in Pieces : ~(x[1] <= recorded)
    BY PiecesAre DEF BuildInit
  <1>5. BegunIsBacked /\ VariantsLast
    BY <1>4 DEF BuildInit, BegunIsBacked, VariantsLast
  <1>6. RecordBacked
    BY <1>4, PlanIs DEF BuildInit, RecordBacked
  <1> QED
    BY <1>1, <1>2, <1>3, <1>5, <1>6 DEF BuildInv

\* A step that leaves the workspace and the checkpoint alone.
LEMMA SameBuild ==
  ASSUME BuildInv, UNCHANGED <<memory, disk, copy, dressed, recorded>>, BuildType', GoneThrough'
  PROVE  BuildInv'
  <1>1. InOrder(memory)' /\ InOrder(disk)'
    BY Zenon DEF BuildInv, InOrder, Stage
  <1>2. CallsOnDisk' /\ BegunIsBacked' /\ VariantsLast'
    BY DEF BuildInv, CallsOnDisk, BegunIsBacked, Begun, VariantsLast, Stage
  <1>3. RecordBacked'
    BY DEF BuildInv, RecordBacked, VariantsMatch, VariantMatches
  <1> QED
    BY <1>1, <1>2, <1>3 DEF BuildInv

\* A process that ends, for whatever reason.
LEMMA EndsKeeps ==
  ASSUME BuildInv, UNCHANGED <<memory, disk, copy, dressed, recorded>>, Ends
  PROVE  BuildInv'
  <1>1. BuildType'
    BY DEF BuildInv, BuildType, Ends
  <1>2. GoneThrough'
    BY DEF Ends, GoneThrough
  <1> QED
    BY <1>1, <1>2, SameBuild

\* A stage that is accepted finds every earlier phase whole.
LEMMA AcceptedIsWhole ==
  ASSUME BuildInv, Accepts(Stage)
  PROVE  \A x \in Pieces : x[1] <= recorded => memory[x] = "whole"
  <1>1. recorded \in 0..7
    BY PlanIs DEF BuildInv, BuildType
  <1>2. EarlierPhasesMatch(Stage)
    BY DEF Accepts
  <1> QED
    BY <1>1, <1>2, PiecesAre DEF Stage, EarlierPhasesMatch, HomePageMatches, DatabasesMatch,
       DashboardMatches, HubsMatch, NotificationsMatch, AestheticsMatch, PhaseMatches

\* The steps of the process that only move it on.
LEMMA MovesKeepBuild ==
  ASSUME BuildInv, Enter \/ Advance \/ PhaseBuilt \/ NextColour \/ VariantsBuilt
  PROVE  BuildInv'
  <1>1. UNCHANGED <<memory, disk, copy, dressed, recorded>>
    BY DEF Enter, Advance, PhaseBuilt, NextColour, VariantsBuilt, buildFiles
  <1>2. BuildType'
    BY DEF BuildInv, BuildType, Enter, Advance, PhaseBuilt, NextColour, VariantsBuilt, BuildGoto,
           buildFiles
  <1>3. CASE Enter
    <2> SUFFICES GoneThrough'
      BY <1>1, <1>2, SameBuild
    <2>1. CASE Accepts(Stage)
      <3>1. \A x \in Pieces : x[1] <= recorded => memory[x] = "whole"
        BY <2>1, AcceptedIsWhole
      <3>2. pos = 1 /\ recorded \in 0..7
        BY <1>3, PlanIs, Zenon DEF BuildInv, GoneThrough, Enter, BuildType
      <3>3. \/ phase_at' = "done"
            \/ phase_at' = "release" /\ recorded = 6
            \/ phase_at' = "build" /\ recorded < 6
        BY <1>3, <2>1, <3>2, PlanIs DEF Enter, BuildGoto, Stage
      <3>4. \A x \in Pieces : x[2] \in Nat \ {0}
        BY PiecesAre, PlanIs
      <3>5. pos' = 1
        BY <1>3, <3>2 DEF Enter
      <3> QED
        BY <1>1, <3>1, <3>3, <3>4, <3>5 DEF GoneThrough
    <2>2. CASE ~Accepts(Stage)
      BY <1>3, <2>2 DEF Enter, BuildGoto, GoneThrough
    <2> QED
      BY <2>1, <2>2
  <1>4. CASE Advance
    <2>1. ASSUME NEW x \in Pieces, x[1] = Stage, x[2] < pos + 1 PROVE memory[x] = "whole"
      <3>1. x = <<Stage, x[2]>> /\ x[2] \in Nat /\ pos \in Nat
        BY <2>1, PiecesAre, PlanIs DEF BuildInv, BuildType
      <3>2. CASE x[2] = pos
        BY <1>4, <3>1, <3>2, Zenon DEF Advance, Here
      <3>3. CASE x[2] < pos
        BY <1>4, <2>1, <3>3, Zenon DEF Advance, BuildInv, GoneThrough
      <3> QED
        BY <2>1, <3>1, <3>2, <3>3
    <2> QED
      BY <1>1, <1>2, <1>4, <2>1, SameBuild, Zenon DEF Advance, BuildInv, GoneThrough, Stage
  <1>5. CASE PhaseBuilt
    <2>1. recorded \in 0..5 /\ pos \in Nat
      BY <1>5 DEF PhaseBuilt, BuildInv, GoneThrough, BuildType
    <2>2. \A x \in Pieces : x[1] = Stage => memory[x] = "whole"
      BY <1>5, <2>1, PiecesAre, PlanIs DEF PhaseBuilt, BuildInv, GoneThrough, Stage
    <2>3. phase_at' = "write" /\ \A x \in Pieces : x[1] <= recorded => memory[x] = "whole"
      BY <1>5, Zenon DEF PhaseBuilt, BuildGoto, BuildInv, GoneThrough
    <2>4. recorded < 7 /\ recorded # 6
      BY <2>1
    <2> QED
      BY <1>1, <1>2, <2>2, <2>3, <2>4, SameBuild, Zenon DEF GoneThrough, Stage
  <1>6. CASE NextColour
    <2>1. \A c \in 1..Colours : c < pos + 1 => VariantMatches(c)
      BY <1>6, NotionBuildAssumption DEF NextColour, VariantDone, BuildInv, GoneThrough, BuildType
    <2>2. phase_at' = "variants" /\ pos' = pos + 1 /\ recorded = 6
      BY <1>6, Zenon DEF NextColour, VariantDone, BuildInv, GoneThrough
    <2>3. \A x \in Pieces : x[1] <= recorded => memory[x] = "whole"
      BY <1>6, Zenon DEF NextColour, VariantDone, BuildInv, GoneThrough
    <2> QED
      BY <1>1, <1>2, <2>1, <2>2, <2>3, SameBuild, Zenon DEF GoneThrough, VariantMatches
  <1>7. CASE VariantsBuilt
    <2>1. recorded = 6 /\ phase_at' = "write" /\ \A c \in 1..Colours : dressed[c] = FinishCalls
      BY <1>7, NotionBuildAssumption
      DEF VariantsBuilt, BuildGoto, BuildInv, GoneThrough, BuildType, VariantMatches
    <2>2. VariantsMatch'
      BY <1>1, <2>1 DEF BuildInv, VariantsLast, VariantsMatch, VariantMatches, FinishCalls
    <2>3. \A x \in Pieces : x[1] <= recorded => memory[x] = "whole"
      BY <1>7, Zenon DEF VariantsBuilt, BuildInv, GoneThrough
    <2>4. \A x \in Pieces : x[1] # Stage
      BY <2>1, PiecesAre DEF Stage
    <2> QED
      BY <1>1, <1>2, <2>1, <2>2, <2>3, <2>4, SameBuild DEF GoneThrough, Stage
  <1> QED
    BY <1>3, <1>4, <1>5, <1>6, <1>7

\* The piece the process is at.
LEMMA HereIs ==
  ASSUME BuildInv, phase_at = "build", pos <= Len(Plan[Stage])
  PROVE  /\ Here \in Pieces /\ Here[1] = Stage /\ Here[2] = pos
         /\ recorded \in 0..5 /\ Stage \in 1..6 /\ Stage = recorded + 1
         /\ \A x \in Pieces : x[1] = Stage /\ x[2] < pos => memory[x] = "whole"
         /\ \A x \in Pieces : x[1] <= recorded => memory[x] = "whole"
         /\ \A x \in Pieces : x[1] = Stage /\ x[2] = pos => x = Here
  <1>1. recorded \in 0..5 /\ pos \in Nat \ {0} /\ Stage = recorded + 1
    BY PlanIs DEF BuildInv, GoneThrough, BuildType, Stage
  <1>2. Stage \in 1..6 /\ Here = <<Stage, pos>> /\ pos \in 1..Len(Plan[Stage])
    BY <1>1, PlanIs DEF Here
  <1>3. Here \in Pieces
    BY <1>2, PiecesAre
  <1>4. \A x \in Pieces : x[1] = Stage /\ x[2] = pos => x = Here
    BY <1>2, PiecesAre
  <1> QED
    BY <1>1, <1>2, <1>3, <1>4 DEF BuildInv, GoneThrough

\* A workspace that gets the piece the process is at stays in order: what
\* comes before it in the plan is whole already.
LEMMA PieceInOrder ==
  ASSUME BuildInv, phase_at = "build", pos <= Len(Plan[Stage]),
         NEW v \in {"bare", "whole"}, v = "bare" => Kind(Here) # "guard" /\ memory[Here] = "none"
  PROVE  InOrder([memory EXCEPT ![Here] = v])
  <1> DEFINE w == [memory EXCEPT ![Here] = v]
  <1>0. memory \in [Pieces -> PieceStates] /\ InOrder(memory)
    BY DEF BuildInv, BuildType
  <1>1. w[Here] = v /\ \A x \in Pieces : x # Here => w[x] = memory[x]
    BY <1>0, HereIs
  <1> HIDE DEF w
  <1>2. \A x \in Pieces : Kind(x) = "guard" => w[x] = "whole"
    BY <1>0, <1>1 DEF InOrder
  <1>3. \A x \in Pieces : x[1] > Stage /\ Kind(x) # "guard" => w[x] = "none"
    BY <1>0, <1>1, HereIs DEF InOrder
  <1>4. ASSUME NEW x \in Pieces, NEW y \in Pieces,
               x[1] = y[1], x[2] < y[2], w[y] # "none", Kind(y) # "guard"
        PROVE  w[x] = "whole"
    <2>1. CASE y = Here
      BY <1>1, <1>4, <2>1, HereIs, PiecesAre
    <2>2. CASE y # Here
      <3>1. memory[x] = "whole"
        BY <1>0, <1>1, <1>4, <2>2, Zenon DEF InOrder
      <3>2. x = Here => v = "whole"
        BY <3>1
      <3> QED
        BY <1>1, <3>1, <3>2
    <2> QED
      BY <2>1, <2>2
  <1>5. InOrder(w)
    BY <1>2, <1>3, <1>4 DEF InOrder
  <1> QED
    BY <1>5 DEF w

\* The order of a workspace is kept by what is written as it was.
LEMMA OrderStays ==
  ASSUME NEW w, InOrder(w), UNCHANGED recorded
  PROVE  (memory' = w => InOrder(memory)') /\ (disk' = w => InOrder(disk)')
  BY ZenonT(30) DEF InOrder, Stage

\* An adapter call and the snapshot behind it.
LEMMA CreateKeeps ==
  ASSUME BuildInv, Create
  PROVE  BuildInv'
  <1> DEFINE v == IF Patched(Kind(Here)) THEN "bare" ELSE "whole"
             w == [memory EXCEPT ![Here] = v]
  <1>1. /\ phase_at = "build" /\ pos <= Len(Plan[Stage]) /\ memory[Here] = "none" /\ Called(Here)
        /\ memory' = w /\ disk' = w
        /\ UNCHANGED <<copy, dressed, recorded, phase_at, pos>>
    <2>1. Kind(Here) # "guard"
      BY HereIs, Zenon DEF Create, BuildInv, InOrder
    <2> QED
      BY <2>1 DEF Create, Persisted, Called
  <1>2. v \in {"bare", "whole"} /\ memory \in [Pieces -> PieceStates] /\ InOrder(w)
    <2>1. v \in {"bare", "whole"}
      OBVIOUS
    <2> HIDE DEF v
    <2> QED
      BY <1>1, <2>1, PieceInOrder, Zenon DEF BuildInv, BuildType, Called
  <1> HIDE DEF v
  <1>3. w \in [Pieces -> PieceStates] /\ w[Here] = v /\ \A x \in Pieces : x # Here => w[x] = memory[x]
    BY <1>1, <1>2, HereIs DEF PieceStates
  <1> HIDE DEF w
  <1>4. BuildType' /\ InOrder(memory)' /\ InOrder(disk)'
    <2>1. BuildType'
      BY <1>1, <1>3 DEF BuildInv, BuildType
    <2> QED
      BY <1>1, <1>2, <2>1, OrderStays
  <1>5. CallsOnDisk'
    BY <1>1 DEF CallsOnDisk
  <1>6. \A x \in Pieces : x[1] <= recorded => disk'[x] = "whole"
    BY <1>1, <1>3, HereIs
  <1>7. GoneThrough'
    <2>1. \A x \in Pieces : x[1] = Stage /\ x[2] < pos => w[x] = "whole"
      BY <1>1, <1>3, HereIs, ZenonT(30)
    <2> QED
      BY <1>1, <1>6, <2>1, HereIs DEF GoneThrough, Stage
  <1>8. BegunIsBacked' /\ VariantsLast'
    BY <1>1, <1>6 DEF BuildInv, BegunIsBacked, VariantsLast
  <1>9. RecordBacked'
    <2>1. recorded # VariantStage
      BY <1>1, HereIs, PlanIs
    <2> QED
      BY <1>1, <1>6, <2>1 DEF RecordBacked
  <1> QED
    BY <1>4, <1>5, <1>7, <1>8, <1>9 DEF BuildInv

\* An assignment to an object in memory.
LEMMA PatchKeeps ==
  ASSUME BuildInv, Patch
  PROVE  BuildInv'
  <1> DEFINE w == [memory EXCEPT ![Here] = "whole"]
  <1>1. /\ phase_at = "build" /\ pos <= Len(Plan[Stage])
        /\ memory[Here] = "bare" \/ ~Called(Here)
        /\ memory' = w
        /\ UNCHANGED <<disk, copy, dressed, recorded, phase_at, pos>>
    BY DEF Patch, buildFiles, Called
  <1>2. memory \in [Pieces -> PieceStates] /\ InOrder(w)
    BY <1>1, PieceInOrder DEF BuildInv, BuildType
  <1>3. w \in [Pieces -> PieceStates] /\ w[Here] = "whole"
        /\ \A x \in Pieces : x # Here => w[x] = memory[x]
    BY <1>1, <1>2, HereIs DEF PieceStates
  <1> HIDE DEF w
  <1>4. BuildType' /\ InOrder(memory)' /\ InOrder(disk)'
    <2>1. BuildType'
      BY <1>1, <1>3 DEF BuildInv, BuildType
    <2>2. InOrder(disk)
      BY DEF BuildInv
    <2> QED
      BY <1>1, <1>2, <2>1, <2>2, OrderStays
  <1>5. CallsOnDisk'
    BY <1>1, <1>3 DEF BuildInv, CallsOnDisk, Called
  <1>6. GoneThrough'
    <2>1. \A x \in Pieces : x[1] = Stage /\ x[2] < pos => w[x] = "whole"
      BY <1>1, <1>3, HereIs, Zenon
    <2>2. \A x \in Pieces : x[1] <= recorded => w[x] = "whole"
      BY <1>1, <1>3, HereIs, Zenon
    <2> QED
      BY <1>1, <2>1, <2>2, HereIs DEF GoneThrough, Stage
  <1>7. BegunIsBacked' /\ VariantsLast'
    BY <1>1, Zenon DEF BuildInv, BegunIsBacked, Begun, VariantsLast, Stage
  <1>8. RecordBacked'
    BY <1>1, Zenon DEF BuildInv, RecordBacked, VariantsMatch, VariantMatches
  <1> QED
    BY <1>4, <1>5, <1>6, <1>7, <1>8 DEF BuildInv

\* The calls of the variants: the phases are whole in memory, and so the
\* snapshot is whole after any of them.
LEMMA VariantsKeep ==
  ASSUME BuildInv, Release \/ DuplicatePage \/ DropSpecId \/ RenamePage \/ FinishVariant
  PROVE  BuildInv'
  <1>0. {Colours} \subseteq Nat \ {0} /\ FinishCalls = 8
    BY NotionBuildAssumption DEF FinishCalls
  <1>1. /\ recorded = 6 /\ phase_at \in {"release", "variants"} /\ phase_at' = "variants"
        /\ UNCHANGED <<memory, recorded, pos>>
        /\ \A x \in Pieces : memory[x] = "whole"
    <2>1. /\ phase_at \in {"release", "variants"} /\ phase_at' = "variants"
          /\ UNCHANGED <<memory, recorded, pos>>
      BY Zenon DEF Release, DuplicatePage, DropSpecId, RenamePage, FinishVariant, VariantCall, BuildGoto
    <2>2. recorded = 6 /\ \A x \in Pieces : x[1] <= recorded => memory[x] = "whole"
      BY <2>1, Zenon DEF BuildInv, GoneThrough
    <2> QED
      BY <2>1, <2>2, PiecesAre
  <1>2. \/ Release /\ ~HoldsSpecId /\ UNCHANGED <<disk, copy, dressed>>
        \/ disk' = memory
    BY Zenon DEF Release, DuplicatePage, DropSpecId, RenamePage, FinishVariant, VariantCall
  <1>3. \/ UNCHANGED <<copy, dressed>>
        \/ copy' = "released" /\ copy = "bound" /\ UNCHANGED dressed
        \/ copy' = "bound" /\ phase_at = "variants" /\ pos <= Colours /\ dressed[pos] = 0 /\ UNCHANGED dressed
        \/ copy' = "none" /\ phase_at = "variants" /\ pos <= Colours /\ dressed[pos] = 0
             /\ dressed' = [dressed EXCEPT ![pos] = 1]
        \/ copy' = copy /\ phase_at = "variants" /\ pos <= Colours /\ dressed[pos] \in 1..7
             /\ dressed' = [dressed EXCEPT ![pos] = dressed[pos] + 1]
    <2>0. pos \in Nat \ {0} /\ (pos <= Colours => dressed[pos] \in 0..8)
      BY <1>0 DEF BuildInv, BuildType
    <2>1. CASE Release
      BY <2>1, Zenon DEF Release, HoldsSpecId
    <2>2. CASE DuplicatePage
      BY <2>0, <2>2 DEF DuplicatePage, Titled
    <2>3. CASE DropSpecId
      BY <2>3 DEF DropSpecId, HoldsSpecId
    <2>4. CASE RenamePage
      BY <2>0, <2>4 DEF RenamePage, Titled
    <2>5. CASE FinishVariant
      BY <2>0, <2>5, <1>0 DEF FinishVariant
    <2> QED
      BY <2>1, <2>2, <2>3, <2>4, <2>5, Zenon
  <1>4. BuildType'
    BY <1>0, <1>1, <1>2, <1>3 DEF BuildInv, BuildType
  <1>5. InOrder(memory)' /\ InOrder(disk)'
    BY <1>1, <1>2, OrderStays DEF BuildInv
  <1>6. CallsOnDisk'
    BY <1>1, <1>2 DEF BuildInv, CallsOnDisk
  <1>7. \A c \in 1..Colours : c < pos => dressed'[c] = 8
    <2>1. pos \in Nat \ {0} /\ dressed \in [1..Colours -> 0..8]
      BY <1>0 DEF BuildInv, BuildType
    <2>2. phase_at = "release" => pos = 1
      BY Zenon DEF BuildInv, GoneThrough
    <2>3. phase_at = "variants" => \A c \in 1..Colours : c < pos => dressed[c] = 8
      BY <1>0 DEF BuildInv, GoneThrough, VariantMatches
    <2> QED
      BY <1>0, <1>1, <1>3, <2>1, <2>2, <2>3
  <1>8. GoneThrough'
    BY <1>0, <1>1, <1>7 DEF GoneThrough, VariantMatches
  <1>9. VariantsLast'
    <2>1. dressed \in [1..Colours -> 0..8] /\ pos \in Nat \ {0}
      BY <1>0 DEF BuildInv, BuildType
    <2>2. copy # "none" => \E c \in 1..Colours : dressed[c] = 0
      BY DEF BuildInv, VariantsLast
    <2>3. copy' # "none" => \E c \in 1..Colours : dressed'[c] = 0
      BY <1>0, <1>3, <2>1, <2>2
    <2> QED
      BY <1>1, <2>3 DEF VariantsLast
  <1>10. BegunIsBacked'
    <2>1. CASE disk' = memory
      BY <1>1, <2>1 DEF BegunIsBacked
    <2>2. CASE UNCHANGED <<disk, copy, dressed>>
      BY <1>1, <2>2, Zenon DEF BuildInv, BegunIsBacked, Begun, Stage
    <2> QED
      BY <1>2, <2>1, <2>2
  <1>11. RecordBacked'
    <2>1. recorded' # VariantStage
      BY <1>1, PlanIs
    <2>2. CASE disk' = memory
      BY <1>1, <2>1, <2>2 DEF RecordBacked
    <2>3. CASE UNCHANGED <<disk, copy, dressed>>
      BY <1>1, <2>1, <2>3, Zenon DEF BuildInv, RecordBacked
    <2> QED
      BY <1>2, <2>2, <2>3
  <1> QED
    BY <1>4, <1>5, <1>6, <1>8, <1>9, <1>10, <1>11 DEF BuildInv

\* The checkpoint: the last piece of the stage was made by a call, and a call
\* takes to the disk whatever is whole in memory before it.
LEMMA CheckpointKeeps ==
  ASSUME BuildInv, WriteCheckpoint
  PROVE  BuildInv'
  <1>0. /\ recorded \in 0..6 /\ Stage = recorded + 1 /\ recorded' = recorded + 1
        /\ phase_at = "write" /\ phase_at' = "enter" /\ pos' = 1
        /\ UNCHANGED <<memory, disk, copy, dressed>>
    BY PlanIs DEF WriteCheckpoint, BuildGoto, buildFiles, BuildInv, BuildType, GoneThrough, Stage
  <1>1. disk \in [Pieces -> PieceStates] /\ dressed \in [1..Colours -> 0..8] /\ 1 \in 1..Colours
    BY NotionBuildAssumption DEF BuildInv, BuildType, FinishCalls
  <1>2. /\ \A x \in Pieces : x[1] <= recorded => disk[x] = "whole"
        /\ recorded < 6 =>
             \A x \in Pieces : x[1] = Stage =>
               disk[x] = "whole" \/ (disk[x] = "bare" /\ x[2] = Len(Plan[Stage]))
    <2>1. CASE recorded < 6
      <3> DEFINE y == <<Stage, Len(Plan[Stage])>>
      <3>1. Stage \in 1..6 /\ Len(Plan[Stage]) \in Nat \ {0}
        BY <1>0, <2>1, PlanIs
      <3>2. y \in Pieces /\ y[1] = Stage /\ y[2] = Len(Plan[Stage]) /\ Called(y)
        <4>1. y \in Pieces /\ y[1] = Stage /\ y[2] = Len(Plan[Stage])
          BY <3>1, PiecesAre
        <4>2. Plan[Stage][Len(Plan[Stage])] \notin {"guard", "marks"}
          BY <3>1, PlanIs
        <4> HIDE DEF y
        <4> QED
          BY <4>1, <4>2 DEF Called, Kind
      <3> HIDE DEF y
      <3>3. memory[y] = "whole"
        BY <1>0, <3>2, Zenon DEF BuildInv, GoneThrough
      <3>4. disk[y] # "none"
        BY <3>2, <3>3, Zenon DEF BuildInv, CallsOnDisk
      <3>5. \A x \in Pieces : x[1] <= recorded => disk[x] = "whole"
        BY <3>2, <3>4, Zenon DEF BuildInv, BegunIsBacked, Begun
      <3>6. ASSUME NEW x \in Pieces, x[1] = Stage
            PROVE  disk[x] = "whole" \/ (disk[x] = "bare" /\ x[2] = Len(Plan[Stage]))
        <4>1. x = <<Stage, x[2]>> /\ x[2] \in 1..Len(Plan[Stage])
          BY <3>6, PiecesAre
        <4>2. CASE x[2] = Len(Plan[Stage])
          BY <1>1, <3>4, <4>1, <4>2 DEF PieceStates, y
        <4>3. CASE x[2] < Len(Plan[Stage])
          BY <3>2, <3>4, <3>6, <4>3, Zenon DEF BuildInv, InOrder, Called
        <4> QED
          BY <3>1, <4>1, <4>2, <4>3
      <3> QED
        BY <3>5, <3>6, Zenon
    <2>2. CASE recorded = 6
      <3>1. dressed[1] = 8
        BY <1>0, <1>1, <2>2, ZenonT(30) DEF BuildInv, GoneThrough, VariantsMatch, VariantMatches, FinishCalls
      <3> QED
        BY <1>1, <2>2, <3>1 DEF BuildInv, BegunIsBacked, Begun
    <2> QED
      BY <1>0, <2>1, <2>2
  <1>3. BuildType'
    BY <1>0, PlanIs DEF BuildInv, BuildType
  <1>4. InOrder(memory)' /\ InOrder(disk)'
    <2>1. \A x \in Pieces : x[1] > Stage' => x[1] > Stage
      BY <1>0, PiecesAre DEF Stage
    <2> QED
      BY <1>0, <2>1, Zenon DEF BuildInv, InOrder
  <1>5. CallsOnDisk' /\ GoneThrough'
    BY <1>0, Zenon DEF BuildInv, CallsOnDisk, GoneThrough
  <1>6. VariantsLast'
    BY <1>0 DEF BuildInv, VariantsLast
  <1>7. RecordBacked'
    <2>1. ASSUME NEW x \in Pieces, x[1] <= recorded'
          PROVE  \/ disk[x] = "whole"
                 \/ disk[x] = "bare" /\ x[1] = recorded' /\ x[2] = Len(Plan[recorded'])
      <3>1. CASE x[1] <= recorded
        BY <1>2, <3>1
      <3>2. CASE x[1] = Stage
        BY <1>0, <1>2, <3>2, PiecesAre
      <3> QED
        BY <1>0, <2>1, <3>1, <3>2, PiecesAre
    <2>2. recorded' = VariantStage => VariantsMatch'
      <3>1. recorded' = VariantStage => recorded = 6
        BY <1>0, PlanIs
      <3> QED
        BY <1>0, <3>1, Zenon DEF BuildInv, GoneThrough, VariantsMatch, VariantMatches
    <2> QED
      BY <1>0, <2>1, <2>2, Zenon DEF RecordBacked
  <1>8. BegunIsBacked'
    <2>1. CASE recorded < 6
      <3>1. \A y \in Pieces : y[1] = recorded + 2 /\ Called(y) => disk[y] = "none"
        <4>1. recorded + 2 > Stage
          BY <1>0
        <4> QED
          BY <4>1, Zenon DEF BuildInv, InOrder, Called
      <3>2. copy = "none" /\ \A c \in 1..Colours : dressed[c] = 0
        BY <2>1 DEF BuildInv, VariantsLast
      <3>3. ~Begun'
        BY <1>0, <3>1, <3>2 DEF Begun, Stage
      <3> QED
        BY <3>3 DEF BegunIsBacked
    <2>2. CASE recorded = 6
      BY <1>0, <1>2, <2>2, PiecesAre DEF BegunIsBacked
    <2> QED
      BY <1>0, <2>1, <2>2
  <1> QED
    BY <1>3, <1>4, <1>5, <1>6, <1>7, <1>8 DEF BuildInv

\* A new process: a page without its spec id is given up, which can only be
\* while the page is all there is.
LEMMA RestartKeeps ==
  ASSUME BuildInv, BuildStart
  PROVE  BuildInv'
  <1> DEFINE w == IF SpecIdLost THEN [disk EXCEPT ![<<1, 1>>] = "none"] ELSE disk
             p == <<1, 1>>
  <1>0. /\ memory' = w /\ disk' = w /\ phase_at' = "enter" /\ pos' = 1
        /\ UNCHANGED <<copy, dressed, recorded>>
    BY Zenon DEF BuildStart, BuildGoto
  <1>1. p \in Pieces /\ p[1] = 1 /\ p[2] = 1 /\ disk \in [Pieces -> PieceStates] /\ recorded \in 0..7
    <2>1. 1 \in 1..6 /\ 1 \in 1..Len(Plan[1])
      BY PlanIs
    <2> QED
      BY <2>1, PiecesAre, PlanIs, ZenonT(30) DEF BuildInv, BuildType
  <1>2. /\ w \in [Pieces -> PieceStates] /\ \A x \in Pieces : x # p => w[x] = disk[x]
        /\ w[p] = disk[p] \/ (w[p] = "none" /\ disk[p] = "bare")
    BY <1>1 DEF SpecIdLost, PieceStates
  <1> HIDE DEF w, p
  <1>3. disk[p] = "bare" => recorded = 0
    <2>1. ASSUME disk[p] = "bare", recorded # 0 PROVE FALSE
      <3>1. p[1] <= recorded
        BY <1>1, <2>1
      <3>2. p[1] = recorded /\ p[2] = Len(Plan[recorded])
        BY <1>1, <2>1, <3>1, Zenon DEF BuildInv, RecordBacked
      <3>3. Len(Plan[1]) = 2
        BY PlanIs, Zenon
      <3>4. recorded = 1 /\ Len(Plan[recorded]) = 1
        BY <1>1, <3>2, Zenon
      <3> QED
        BY <3>3, <3>4
    <2> QED
      BY <2>1
  <1>4. \A x \in Pieces : x[1] <= recorded => w[x] = disk[x]
    BY <1>1, <1>2, <1>3
  <1>5. InOrder(w)
    <2>1. InOrder(disk)
      BY DEF BuildInv
    <2>2. \A x \in Pieces : Kind(x) = "guard" => w[x] = "whole"
      BY <1>2, <2>1, Zenon DEF InOrder
    <2>3. \A x \in Pieces : x[1] > Stage /\ Kind(x) # "guard" => w[x] = "none"
      BY <1>2, <2>1, Zenon DEF InOrder
    <2>4. ASSUME NEW x \in Pieces, NEW y \in Pieces,
                 x[1] = y[1], x[2] < y[2], w[y] # "none", Kind(y) # "guard"
          PROVE  w[x] = "whole"
      BY <1>2, <2>1, <2>4, ZenonT(30) DEF InOrder
    <2> QED
      BY <2>2, <2>3, <2>4, Zenon DEF InOrder
  <1>6. InOrder(memory)' /\ InOrder(disk)'
    BY <1>0, <1>5, OrderStays
  <1>7. BuildType' /\ CallsOnDisk' /\ GoneThrough'
    <2>1. BuildType'
      BY <1>0, <1>2 DEF BuildInv, BuildType
    <2> QED
      BY <1>0, <2>1, Zenon DEF CallsOnDisk, GoneThrough
  <1>8. BegunIsBacked'
    <2>1. Begun' => Begun \/ recorded = 0
      BY <1>0, <1>2, <1>3, ZenonT(30) DEF Begun, Stage
    <2>2. recorded = 0 => \A x \in Pieces : ~(x[1] <= recorded)
      BY PiecesAre
    <2> QED
      BY <1>0, <1>4, <2>1, <2>2, Zenon DEF BuildInv, BegunIsBacked
  <1>9. VariantsLast' /\ RecordBacked'
    BY <1>0, <1>4, Zenon DEF BuildInv, VariantsLast, RecordBacked, VariantsMatch, VariantMatches
  <1> QED
    BY <1>6, <1>7, <1>8, <1>9 DEF BuildInv

\* Every step keeps the invariant.
LEMMA BuildNextKeeps == BuildInv /\ [BuildNext]_buildVars => BuildInv'
  <1> SUFFICES ASSUME BuildInv, [BuildNext]_buildVars PROVE BuildInv'
    OBVIOUS
  <1>1. CASE UNCHANGED buildVars
    <2>1. UNCHANGED <<memory, disk, copy, dressed, recorded, phase_at, pos>>
      BY <1>1 DEF buildVars, buildFiles
    <2>2. BuildType' /\ GoneThrough'
      BY <2>1, ZenonT(30) DEF BuildInv, BuildType, GoneThrough, VariantsMatch, VariantMatches, Stage
    <2> QED
      BY <2>1, <2>2, SameBuild
  <1>2. CASE BuildRefuse \/ OperationFails \/ VariantFails \/ BuildCrash
    <2>1. UNCHANGED <<memory, disk, copy, dressed, recorded>> /\ Ends
      BY <1>2, Zenon DEF BuildRefuse, OperationFails, VariantFails, BuildCrash, buildFiles
    <2> QED
      BY <2>1, EndsKeeps
  <1> QED
    BY <1>1, <1>2, MovesKeepBuild, CreateKeeps, PatchKeeps, VariantsKeep, CheckpointKeeps,
       RestartKeeps DEF BuildNext, BuildWork

\* The checkpoint never runs ahead of the snapshot: whatever the process dies
\* of, and wherever, every piece of a recorded phase is on disk, and only the
\* very last one can lack the patch that follows its call.
THEOREM CheckpointBacked == BuildSpec => []RecordBacked
  <1>1. BuildInv => RecordBacked
    BY DEF BuildInv
  <1> QED
    BY <1>1, BuildInitInv, BuildNextKeeps, PTL DEF BuildSpec
=============================================================================
