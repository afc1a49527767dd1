------------------------------ MODULE NotionQA ------------------------------
(***************************************************************************)
(* What follows the variants of a built product: the product QA, the fact  *)
(* ledger with its workflow link, and the test matrix                      *)
(* (agents/implementations/notion_qa.py, notion_fact_ledger.py,            *)
(* notion_test_matrix.py), and the writer they share (notion_progress.py). *)
(*                                                                         *)
(* Each of the three judges the workspace as it is now, compares its own   *)
(* stored record with that judgement, and either returns the record,       *)
(* refuses, or writes a new one.  QA alone changes the workspace: it       *)
(* repairs the publish flags of the variants, one call at a time with one  *)
(* write of the checkpoint after each, and duplicates a proof page.        *)
(*                                                                         *)
(* A write puts a temporary file beside the checkpoint and renames it.  A  *)
(* death in between leaves the temporary file; QA adopts one that extends  *)
(* the checkpoint, and every write deletes the ones of dead processes.     *)
(***************************************************************************)
EXTENDS Naturals, Sequences, FiniteSets, Functions

CONSTANTS
  Variants,     \* how many colour variants the product has
  Alterable,    \* the Things that others change
  MaxTroubles   \* bound: edits by others, deaths and failing provider calls together

VARIABLES
  flags,        \* per variant, the publish flags that are as they should be
  altered,      \* the Things that are not as they were built
  proofs,       \* how many proof copies the workspace has
  file,         \* the checkpoint
  temp,         \* the temporary file beside it: none, cut short, or a document
  step,         \* where the call in progress is
  call,         \* the call in progress: the function and the prose of its spec
  pending,      \* the document the call is about to write, and the step after it
  made,         \* the repairs the call in progress has made
  kept,         \* the repairs the checkpoint has ever named
  troubles      \* edits, deaths and failing calls so far

workspace == <<flags, altered, proofs>>
vars == <<workspace, file, temp, step, call, pending, made, kept, troubles>>
-----------------------------------------------------------------------------
(* The documents.                                                          *)

Repairable == <<"published", "duplicate_button", "search_indexing">>
AllFlags == Range(Repairable)

\* What somebody can change in the workspace that a check looks at, besides the
\* publish flags: one hub, one database, one view and so on stand for all.
Things ==
  {"hub_title", "hub_page", "extra_page", "database_title", "extra_database",
   "view", "foreign_view", "property", "formula", "sample_title", "link",
   "variant_title", "cover", "accent", "access_block", "section_text", "section_block"}

ASSUME AlterableAssumption == Alterable \subseteq Things

NoRecord == [verdict |-> "none", failed |-> {}, whole |-> TRUE, repairs |-> {}, proof |-> FALSE,
             prose |-> "none"]
NoLedger == [verdict |-> "none", failed |-> {}, links |-> <<>>, repaired |-> FALSE]
NoMatrix == [verdict |-> "none", failed |-> {}]
Built == [qa |-> NoRecord, ledger |-> NoLedger, matrix |-> NoMatrix, phase |-> "qa", jobs |-> <<>>]
NoWrite == [document |-> Built, next |-> "idle"]
NoCall == [op |-> "none", prose |-> "built"]

RepairNames(document) ==
  {document.jobs[i].response : i \in {j \in DOMAIN document.jobs : document.jobs[j].kind = "qa_repair"}}

AddJob(document, job) == [document EXCEPT !.jobs = Append(@, job)]
RepairJob(name) == [kind |-> "qa_repair", response |-> name]
ProviderJob(op) == [kind |-> "provider_response", response |-> op]
-----------------------------------------------------------------------------
(* The checks of the live workspace.  What the checkpoint and the spec     *)
(* alone decide (spec_coverage, variant_count) holds of a built product.   *)

Untouched(things) == altered \cap things = {}
HasProof == proofs > 0

SharedDatabases == Untouched({"database_title"})
DuplicateDatabases == Untouched({"extra_database"})
HubsPresent == Untouched({"hub_title", "hub_page"})
LinkedViews == Untouched({"view"})
FormulasCompile == Untouched({"property"})
NotificationValues == Untouched({"formula"})
KnownPagesPresent == Untouched({"hub_page"})
PageCount == KnownPagesPresent /\ Untouched({"extra_page"})
PublicLinks == Untouched({"link"})
\* The source of the copy is judged only until there is a proof.
FreshDuplicate == HasProof \/ Untouched({"variant_title", "cover"})
NoAccess == Untouched({"access_block"})
CrossCatalogue == Untouched({"foreign_view"})
Palette == Untouched({"cover", "accent"})
Teardown(prose) == prose = "built" /\ Untouched({"section_text", "section_block"})
FactsPersisted == KnownPagesPresent /\ Untouched({"database_title"})

StructuralChecks(prose) ==
  LET passed ==
        [shared_databases |-> SharedDatabases, duplicate_databases |-> DuplicateDatabases,
         hubs_present |-> HubsPresent, linked_views |-> LinkedViews,
         formulas_compile |-> FormulasCompile, notification_values |-> NotificationValues,
         page_count |-> PageCount, public_links |-> PublicLinks,
         fresh_duplicate |-> FreshDuplicate, no_access_blocks |-> NoAccess,
         cross_catalogue |-> CrossCatalogue, palette |-> Palette,
         teardown_quality |-> Teardown(prose), facts_persisted |-> FactsPersisted]
  IN  {name \in DOMAIN passed : ~passed[name]}

FlagFailures == {f \in AllFlags : \E v \in 1..Variants : f \notin flags[v]}
Checks(prose) == StructuralChecks(prose) \cup FlagFailures
Blocked(prose) == StructuralChecks(prose) # {}
PlannedRepairs(prose) == IF Blocked(prose) THEN {} ELSE FlagFailures
LiveQaPassed(prose) == Checks(prose) = {}

\* The checks, and of the facts the page count: the others are the checkpoint's.
SameJudgement(saved, prose) == saved.failed = Checks(prose) /\ saved.whole = KnownPagesPresent

\* A plausible slip: a BLOCKED record stands until somebody removes it.
QaVerdict_BlockedStays(saved, prose) ==
  IF saved.verdict = "none" \/ saved.prose # prose THEN "plan"
  ELSE IF saved.verdict = "BLOCKED" \/ (SameJudgement(saved, prose) /\ saved.proof = HasProof)
       THEN "holds" ELSE "refused"

\* What QA makes of its stored record.  Another wording of the spec is a new
\* judgement; a BLOCKED record whose structure is mended is judged again.
QaVerdict(saved, prose) ==
  IF saved.verdict = "none" \/ saved.prose # prose THEN "plan"
  ELSE IF saved.verdict = "BLOCKED"
       THEN IF ~Blocked(prose) THEN "plan"
            ELSE IF SameJudgement(saved, prose) THEN "holds" ELSE "refused"
  ELSE IF SameJudgement(saved, prose) /\ saved.proof = HasProof THEN "holds" ELSE "refused"

\* What the ledger reads anew: titles of hubs, databases and variants, the
\* dashboard, and the link of each variant, trusted or as it is shown.
HubNames == Untouched({"hub_title"})
DatabaseTitles == Untouched({"database_title"})
ColoursMatch == Untouched({"variant_title"})
DashboardOutputs == Untouched({"formula", "sample_title"})
SecretLinks ==
  [v \in 1..Variants |->
     IF "published" \notin flags[v] THEN "missing"
     ELSE IF v = 1 /\ ~PublicLinks THEN "shown" ELSE "trusted"]

LedgerReads(saved) ==
  LET passed ==
        [qa_facts |-> saved.whole /\ HubNames /\ DatabaseTitles /\ ColoursMatch,
         hubs_present |-> HubNames, databases_present |-> DatabaseTitles,
         dashboard_outputs |-> DashboardOutputs,
         secret_links |-> Range(SecretLinks) = {"trusted"}]
  IN  {name \in DOMAIN passed : ~passed[name]}

\* A plausible slip: the ledger takes the stored QA verdict for the live one.
LedgerChecks_Stored(saved, prose) ==
  (IF saved.verdict = "PASS" THEN {} ELSE {"qa_verdict"}) \cup LedgerReads(saved)

\* The checks of the fact ledger that fail: the stored verdict and the live
\* judgement together, and what it reads anew.
LedgerChecks(saved, prose) ==
  (IF saved.verdict = "PASS" /\ LiveQaPassed(prose) THEN {} ELSE {"qa_verdict"})
  \cup LedgerReads(saved)

SectionsReadable == Untouched({"section_block"})

\* A missing page or section, or another wording than the judged one, is refused.
LedgerReadable(document, prose) ==
  KnownPagesPresent /\ SectionsReadable /\ document.qa.prose = prose

RepairRequired(document) == document.qa.repairs # {}

LedgerVerdict(document, prose) ==
  LET saved == document.ledger
      live == LedgerChecks(document.qa, prose)
  IN  IF ~LedgerReadable(document, prose) THEN "refused"
      ELSE IF saved.verdict = "none"
           THEN IF document.qa.verdict # "PASS" /\ LiveQaPassed(prose) THEN "refused" ELSE "plan"
      ELSE IF saved.repaired # RepairRequired(document) THEN "refused"
      ELSE IF saved.failed = live THEN IF saved.links = SecretLinks THEN "holds" ELSE "refused"
      ELSE IF saved.verdict = "PASS" \/ (document.qa.verdict # "PASS" /\ LiveQaPassed(prose))
           THEN "refused" ELSE "plan"

\* The flags of the matrix that QA computes.
MatrixFlags(prose) ==
  LET passed ==
        [public_links |-> PublicLinks, isolation |-> NoAccess /\ CrossCatalogue,
         fresh_duplicate |-> FreshDuplicate,
         formulas_match |-> FormulasCompile /\ NotificationValues,
         linked_views |-> LinkedViews, sections_present |-> Teardown(prose)]
  IN  {name \in DOMAIN passed : ~passed[name]}

\* The failing checks of the matrix: the live ledger plan against the stored
\* ledger and link, and the flags.
MatrixChecks(document, prose) ==
  (IF LedgerChecks(document.qa, prose) # {} THEN {"fact_extraction", "successor_recorded"} ELSE {})
  \cup (IF document.ledger.repaired # RepairRequired(document) THEN {"successor_recorded"} ELSE {})
  \cup MatrixFlags(prose)

MatrixAdmitted(document) == document.qa.verdict = "PASS" /\ document.ledger.verdict = "PASS"

PhaseFits(document) ==
  document.phase = IF document.matrix.verdict = "none" THEN "test_matrix" ELSE "sandbox_build"

MatrixVerdict(document, prose) ==
  IF ~MatrixAdmitted(document) \/ ~PhaseFits(document) \/ ~LedgerReadable(document, prose)
  THEN "refused"
  ELSE IF document.matrix.verdict = "none" THEN "plan"
  ELSE IF document.matrix.failed = MatrixChecks(document, prose) THEN "holds"
  ELSE IF document.matrix.verdict = "BLOCKED" THEN "plan" ELSE "refused"
-----------------------------------------------------------------------------
(* The documents the three functions write.                                *)

VerdictOn(failed) == IF failed = {} THEN "PASS" ELSE "BLOCKED"

WithQa(document, prose, proof) ==
  [document EXCEPT
     !.qa = [verdict |-> VerdictOn(Checks(prose)), failed |-> Checks(prose),
             whole |-> KnownPagesPresent, repairs |-> RepairNames(document), proof |-> proof,
             prose |-> prose],
     !.phase = "fact_ledger"]

WithLedger(document, prose) ==
  LET failed == LedgerChecks(document.qa, prose)
  IN  [document EXCEPT
         !.ledger = [verdict |-> VerdictOn(failed), failed |-> failed, links |-> SecretLinks,
                     repaired |-> RepairRequired(document)],
         !.phase = "test_matrix"]

WithMatrix(document, prose) ==
  LET failed == MatrixChecks(document, prose)
  IN  [document EXCEPT !.matrix = [verdict |-> VerdictOn(failed), failed |-> failed],
                       !.phase = "sandbox_build"]
-----------------------------------------------------------------------------
(* A call of one of the three functions.                                   *)

Goto(s) == step' = s
Trouble == troubles < MaxTroubles /\ troubles' = troubles + 1

\* adopt_checkpoint_temps: a complete temporary file of a dead process that is
\* the checkpoint plus some jobs takes its place.
StrictlyExtends(document) ==
  /\ Len(document.jobs) > Len(file.jobs)
  /\ SubSeq(document.jobs, 1, Len(file.jobs)) = file.jobs
  /\ [document EXCEPT !.jobs = file.jobs] = file

Adoptable == temp.is = "document" /\ StrictlyExtends(temp.of)
NoTemp == [is |-> "none"]
CutShort == [is |-> "cut"]

RunProductQa(prose) ==
  /\ step = "idle"
  /\ Goto("judge") /\ call' = [op |-> "qa", prose |-> prose]
  /\ file' = IF Adoptable THEN temp.of ELSE file
  /\ temp' = IF Adoptable THEN NoTemp ELSE temp
  /\ kept' = kept \cup RepairNames(file')
  /\ UNCHANGED <<workspace, pending, made, troubles>>

\* The ledger needs a QA record, the matrix a ledger: without one they refuse.
RunFactLedger(prose) ==
  /\ step = "idle" /\ file.qa.verdict # "none"
  /\ Goto("judge") /\ call' = [op |-> "ledger", prose |-> prose]
  /\ UNCHANGED <<workspace, file, temp, pending, made, kept, troubles>>

RunTestMatrix(prose) ==
  /\ step = "idle" /\ file.ledger.verdict # "none"
  /\ Goto("judge") /\ call' = [op |-> "matrix", prose |-> prose]
  /\ UNCHANGED <<workspace, file, temp, pending, made, kept, troubles>>

Verdict ==
  CASE call.op = "qa" -> QaVerdict(file.qa, call.prose)
    [] call.op = "ledger" -> LedgerVerdict(file, call.prose)
    [] call.op = "matrix" -> MatrixVerdict(file, call.prose)

StoredVerdict ==
  CASE call.op = "qa" -> file.qa.verdict
    [] call.op = "ledger" -> file.ledger.verdict
    [] call.op = "matrix" -> file.matrix.verdict

\* The call ends: with the stored verdict, or with an error.
Return == Goto("idle") /\ call' = NoCall /\ made' = {}

Refuses ==
  /\ step = "judge" /\ Verdict = "refused"
  /\ Return
  /\ UNCHANGED <<workspace, file, temp, pending, kept, troubles>>

Holds ==
  /\ step = "judge" /\ Verdict = "holds"
  /\ Return
  /\ UNCHANGED <<workspace, file, temp, pending, kept, troubles>>

\* The document to write, and the step its write leads to.
Write(document, next) == Goto("write") /\ pending' = [document |-> document, next |-> next]

Plans ==
  /\ step = "judge" /\ Verdict = "plan"
  /\ CASE call.op = "ledger" -> Write(WithLedger(file, call.prose), "return")
       [] call.op = "matrix" -> Write(WithMatrix(file, call.prose), "return")
       [] call.op = "qa" /\ PlannedRepairs(call.prose) # {} -> Goto("repair") /\ UNCHANGED pending
       [] OTHER -> Goto("conclude") /\ UNCHANGED pending
  /\ UNCHANGED <<workspace, file, temp, call, made, kept, troubles>>
-----------------------------------------------------------------------------
(* The repairs and the proof page.                                         *)

\* Variant by variant, and within one publish, duplicate button, indexing.
Outstanding == {x \in (1..Variants) \X (1..3) : Repairable[x[2]] \notin flags[x[1]]}
NextRepair ==
  CHOOSE x \in Outstanding :
    \A y \in Outstanding : x[1] < y[1] \/ (x[1] = y[1] /\ x[2] <= y[2])

\* A plausible slip: the names are stored once, after the last repair.
Repair_StoredLate ==
  /\ step = "repair" /\ Outstanding # {}
  /\ LET v == NextRepair[1]
         name == Repairable[NextRepair[2]]
     IN  /\ flags' = [flags EXCEPT ![v] = @ \cup {name}]
         /\ made' = made \cup {name}
         /\ UNCHANGED <<step, pending>>
  /\ UNCHANGED <<altered, proofs, file, temp, call, kept, troubles>>

\* One adapter call; record_applied_repairs stores its name before the next
\* one, unless a job has the name already.
Repair ==
  /\ step = "repair" /\ Outstanding # {}
  /\ LET v == NextRepair[1]
         name == Repairable[NextRepair[2]]
     IN  /\ flags' = [flags EXCEPT ![v] = @ \cup {name}]
         /\ made' = made \cup {name}
         /\ IF name \in RepairNames(file) THEN UNCHANGED <<step, pending>>
            ELSE Write(AddJob(file, RepairJob(name)), "repair")
  /\ UNCHANGED <<altered, proofs, file, temp, call, kept, troubles>>

Repaired ==
  /\ step = "repair" /\ Outstanding = {}
  /\ Goto("conclude")
  /\ UNCHANGED <<workspace, file, temp, call, pending, made, kept, troubles>>

\* A plausible slip: every PASS makes its own proof page.
Prove_Always ==
  /\ step = "conclude" /\ LiveQaPassed(call.prose)
  /\ proofs' = proofs + 1
  /\ Goto("record")
  /\ UNCHANGED <<flags, altered, file, temp, call, pending, made, kept, troubles>>

\* A PASS needs the proof page: the one that is there, or a new duplicate.
Prove ==
  /\ step = "conclude" /\ LiveQaPassed(call.prose)
  /\ proofs' = IF proofs = 0 THEN 1 ELSE proofs
  /\ Goto("record")
  /\ UNCHANGED <<flags, altered, file, temp, call, pending, made, kept, troubles>>

RecordPass ==
  /\ step = "record"
  /\ Write(WithQa(file, call.prose, TRUE), "return")
  /\ UNCHANGED <<workspace, file, temp, call, made, kept, troubles>>

RecordBlocked ==
  /\ step = "conclude" /\ ~LiveQaPassed(call.prose)
  /\ Write(WithQa(file, call.prose, FALSE), "return")
  /\ UNCHANGED <<workspace, file, temp, call, made, kept, troubles>>

\* guard_operation strikes before the repairs and before the duplicate; any
\* read of a judgement can fail.  raise_recorded leaves one job of its kind.
ProviderFails ==
  /\ \/ step = "judge"
     \/ step = "repair" /\ call.op = "qa"
     \/ step = "conclude" /\ LiveQaPassed(call.prose) /\ proofs = 0
  /\ Trouble
  /\ IF ProviderJob(call.op) \in Range(file.jobs)
     THEN Goto("failed") /\ UNCHANGED pending
     ELSE Write(AddJob(file, ProviderJob(call.op)), "failed")
  /\ UNCHANGED <<workspace, file, temp, call, made, kept>>

Fails ==
  /\ step = "failed"
  /\ Return
  /\ UNCHANGED <<workspace, file, temp, pending, kept, troubles>>
-----------------------------------------------------------------------------
(* The writer.                                                             *)

\* write_document: the temporary files of dead processes go, then this one's
\* is written, then renamed.
WriteTemp ==
  /\ step = "write"
  /\ temp' = [is |-> "document", of |-> pending.document]
  /\ Goto("install")
  /\ UNCHANGED <<workspace, file, call, pending, made, kept, troubles>>

Install ==
  /\ step = "install"
  /\ file' = pending.document /\ temp' = NoTemp /\ pending' = NoWrite
  /\ kept' = kept \cup RepairNames(pending.document)
  /\ Goto(pending.next)
  /\ UNCHANGED <<workspace, call, made, troubles>>

ReturnVerdict ==
  /\ step = "return"
  /\ Return
  /\ UNCHANGED <<workspace, file, temp, pending, kept, troubles>>

\* A death; inside the write it can leave the temporary file cut short, with
\* the older ones gone.
Crash ==
  /\ step # "idle" /\ Trouble
  /\ temp' \in IF step = "write" THEN {temp, CutShort} ELSE {temp}
  /\ Return /\ pending' = NoWrite
  /\ UNCHANGED <<workspace, file, kept>>
-----------------------------------------------------------------------------
(* The workspace between the calls.                                        *)

\* Somebody changes a thing or restores it, or takes a flag back; the captured
\* link goes with the publication.
Edit ==
  /\ step = "idle" /\ Trouble
  /\ \/ /\ \E t \in Alterable :
             /\ t = "link" => "published" \in flags[1]
             /\ altered' = IF t \in altered THEN altered \ {t} ELSE altered \cup {t}
        /\ UNCHANGED flags
     \/ \E v \in 1..Variants, f \in AllFlags :
          /\ f \in flags[v] /\ flags' = [flags EXCEPT ![v] = @ \ {f}]
          /\ altered' = IF v = 1 /\ f = "published" THEN altered \ {"link"} ELSE altered
  /\ UNCHANGED <<proofs, file, temp, step, call, pending, made, kept>>

Init ==
  /\ flags = [v \in 1..Variants |-> AllFlags] /\ altered = {} /\ proofs = 0
  /\ file = Built /\ temp = NoTemp
  /\ step = "idle" /\ call = NoCall /\ pending = NoWrite
  /\ made = {} /\ kept = {}
  /\ troubles = 0

Proses == {"built", "reworded"}

Work ==
  \/ Refuses \/ Holds \/ Plans \/ Repair \/ Repaired \/ Prove \/ RecordPass \/ RecordBlocked
  \/ Fails \/ WriteTemp \/ Install \/ ReturnVerdict

Next ==
  \/ \E prose \in Proses : RunProductQa(prose) \/ RunFactLedger(prose) \/ RunTestMatrix(prose)
  \/ Work \/ ProviderFails \/ Crash \/ Edit

Spec == Init /\ [][Next]_vars

\* A call that runs goes on, and somebody runs QA again with the built spec.
FairSpec == Spec /\ WF_vars(Work) /\ SF_vars(RunProductQa("built"))
-----------------------------------------------------------------------------
(* Properties.                                                             *)

\* None of the three ever answers PASS for a workspace that does not pass now,
\* whatever the stored records say (live_qa_passed and the _saved_holds).
Answers == (step = "judge" /\ Verdict = "holds") \/ step = "return"
PassIsLive == Answers /\ StoredVerdict = "PASS" => LiveQaPassed(call.prose)

\* QA leaves at most one proof copy in the workspace, however often it dies
\* between the duplicate and the record (_existing_proof_id).
OneProof == proofs <= 1

\* The checkpoint never loses the name of a repair, and every repair a call has
\* made is on it before the next call to the provider (_apply_repairs).
RepairsKept ==
  /\ kept \subseteq RepairNames(file)
  /\ step \in {"repair", "conclude", "record", "return"} => made \subseteq RepairNames(file)

\* A BLOCKED verdict is not the end: once the structure is sound for good, QA
\* repairs what is left and passes, whatever deaths and failures it meets.
QaPasses == <>[](altered = {}) => <>(file.qa.verdict = "PASS")

\* A stored BLOCKED ledger whose checks have changed is planned again when the
\* caller matches and QA passes (_saved_holds of the ledger).
FixedIsReplanned ==
  [][step = "judge" /\ call.op = "ledger" /\ LedgerReadable(file, call.prose)
     /\ file.qa.verdict = "PASS" /\ file.ledger.verdict = "BLOCKED"
     /\ file.ledger.failed # LedgerChecks(file.qa, call.prose) => ~Refuses]_vars
=============================================================================
