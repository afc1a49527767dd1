----------------------------- MODULE FixtureRun -----------------------------
(***************************************************************************)
(* application/fixture_run.py: one product from research to an Etsy draft, *)
(* by a process that may die at any point and is then run again.  Its      *)
(* evidence is spread over things that are not committed together: JSON    *)
(* files (replaced atomically by write_json), the receipts and the         *)
(* artifact files (opened, emptied and written), the draft ledger, the     *)
(* fixture marketplace and the database.                                   *)
(*                                                                         *)
(* One process runs at a time.  Everything a run has not committed is      *)
(* rolled back when it dies or raises.                                     *)
(***************************************************************************)
EXTENDS Naturals, FiniteSets

CONSTANTS
  Databases,  \* databases the operator may point a run at
  Files,      \* number of artifact files in the bundle
  MaxCrashes  \* bound on the number of deaths, for model checking

VARIABLES
  step,       \* the running process's next step, or "down"
  database,   \* the database of the running process
  known,      \* self.receipts of the running process
  emptied,    \* the receipts file is open and empty
  artifact,   \* the artifact file render_bundle writes next
  binding,    \* database-binding.json
  report,     \* research.json: its shortlist is full, or short of candidates
  spec,       \* product-spec.json exists
  artifacts,  \* the artifact files
  manifest,   \* lineage.jsonl
  receipts,   \* the stages in receipts.jsonl
  ledger,     \* the draft's row in the draft ledger
  listings,   \* rows of fixture-marketplace.json
  ids,        \* ids.json exists
  db,         \* committed rows of each database
  crashes

process     == <<step, database, known, emptied, artifact>>
drafts      == <<ledger, listings>>
bundle      == <<artifacts, manifest>>
fixtureVars == <<process, binding, report, spec, bundle, receipts, drafts, ids, db, crashes>>

None == "none"

\* A bundle has files, and no database is called none.
ASSUME FixtureAssumption == Files \in Nat \ {0} /\ None \notin Databases

Stages == {"research", "shortlist_score_spec", "notion_build_variants_qa_facts",
           "merchandising_assets", "preflight", "fixture_etsy_draft", "expected_negative"}

FixtureInit ==
  /\ step = "down" /\ database \in Databases /\ known = {} /\ emptied = FALSE /\ artifact = 1
  /\ binding = None /\ report = None /\ spec = FALSE
  /\ artifacts = [f \in 1..Files |-> None] /\ manifest = None
  /\ receipts = {} /\ ledger = None /\ listings = 0 /\ ids = FALSE
  /\ db = [d \in Databases |-> {}]
  /\ crashes = 0

Committed == db[database]

Goto(next) == step' = next /\ UNCHANGED <<database, known, emptied, artifact>>

\* An exception leaves execute: the session is closed and the process exits.
Refuse == Goto("down")

\* session.commit of the rows named.
CommitRows(rows) == db' = [db EXCEPT ![database] = @ \cup rows]

-----------------------------------------------------------------------------
(* The receipts file.                                                      *)

\* What execute does after each receipt.
After(stage) ==
  CASE stage = "research" -> "commit_research"
    [] stage = "shortlist_score_spec" -> "commit_strategy"
    [] stage = "notion_build_variants_qa_facts" -> "merchandising_assets"
    [] stage = "merchandising_assets" -> "preflight"
    [] stage = "preflight" -> "draft"
    [] stage = "fixture_etsy_draft" -> "expected_negative"
    [] stage = "expected_negative" -> "commit_delivery"

\* receipt returns at once for a row it has; otherwise the whole file is
\* opened for writing, which empties it,
OpenReceipts(stage) ==
  /\ step = stage /\ ~emptied
  /\ IF stage \in known
     THEN Goto(After(stage)) /\ UNCHANGED receipts
     ELSE /\ known' = known \cup {stage} /\ emptied' = TRUE /\ receipts' = {}
          /\ UNCHANGED <<step, database, artifact>>
  /\ UNCHANGED <<binding, report, spec, bundle, drafts, ids, db, crashes>>

\* and written in one piece.
WriteReceipts(stage) ==
  /\ step = stage /\ emptied
  /\ receipts' = known
  /\ step' = After(stage) /\ emptied' = FALSE
  /\ UNCHANGED <<database, known, artifact, binding, report, spec, bundle, drafts, ids, db, crashes>>

-----------------------------------------------------------------------------
(* Starting, binding, resuming.                                            *)

Start(d) ==
  /\ step = "down"
  /\ step' = "bind" /\ database' = d /\ known' = receipts /\ emptied' = FALSE /\ artifact' = 1
  /\ UNCHANGED <<binding, report, spec, bundle, receipts, drafts, ids, db, crashes>>

BindingAgrees ==
  /\ binding \in {None, database}
  /\ binding = None => report = None

\* A run of another database is refused; a listing on record is only verified.
Bind ==
  /\ step = "bind"
  /\ IF BindingAgrees
     THEN /\ binding' = database
          /\ Goto(IF "listing_version" \in Committed THEN "verify" ELSE "seed")
     ELSE Refuse /\ UNCHANGED binding
  /\ UNCHANGED <<report, spec, bundle, receipts, drafts, ids, db, crashes>>

Verified == manifest = "whole" /\ \A f \in 1..Files : artifacts[f] = "whole"

\* A completed workflow has nothing left to do but ids.json.
Verify ==
  /\ step = "verify"
  /\ IF ~Verified THEN Refuse
     ELSE Goto(IF "completed_at" \in Committed THEN "write_ids" ELSE "draft")
  /\ UNCHANGED <<binding, report, spec, bundle, receipts, drafts, ids, db, crashes>>

-----------------------------------------------------------------------------
(* Research and strategy.                                                  *)

SeedWorkflow ==
  /\ step = "seed"
  /\ CommitRows({"workflow"})
  /\ Goto("research_job")
  /\ UNCHANGED <<binding, report, spec, bundle, receipts, drafts, ids, crashes>>

CreateResearchJob ==
  /\ step = "research_job"
  /\ CommitRows({"research_job"})
  /\ Goto("read_report")
  /\ UNCHANGED <<binding, report, spec, bundle, receipts, drafts, ids, crashes>>

\* A report on file is used.  A run on record without completed_at is refused;
\* a completed one is read back with the candidates it has; with none, the
\* agent opens one and commits it.
ReadReport ==
  /\ step = "read_report"
  /\ \/ report # None /\ Goto("research") /\ UNCHANGED <<report, db>>
     \/ /\ report = None /\ "research_run" \notin Committed
        /\ CommitRows({"research_run"}) /\ Goto("observe") /\ UNCHANGED report
     \/ /\ report = None /\ "research_run" \in Committed
        /\ IF "observations" \notin Committed THEN Refuse /\ UNCHANGED report
           ELSE /\ report' = IF "candidates" \in Committed THEN "full" ELSE "short"
                /\ Goto("research")
        /\ UNCHANGED db
  /\ UNCHANGED <<binding, spec, bundle, receipts, drafts, ids, crashes>>

\* MarketResearchAgent.execute commits the observations with completed_at,
Observe ==
  /\ step = "observe"
  /\ CommitRows({"observations"})
  /\ Goto("shortlist")
  /\ UNCHANGED <<binding, report, spec, bundle, receipts, drafts, ids, crashes>>

\* and the shortlist's candidates on their own; its report goes to the file.
Shortlist ==
  /\ step = "shortlist"
  /\ CommitRows({"candidates"})
  /\ Goto("read_report")
  /\ UNCHANGED <<binding, report, spec, bundle, receipts, drafts, ids, crashes>>

\* The shape check comes after the report and its receipt were written.
CommitResearch ==
  /\ step = "commit_research"
  /\ IF report = "full"
     THEN CommitRows({"research_done"}) /\ Goto("strategy")
     ELSE Refuse /\ UNCHANGED db
  /\ UNCHANGED <<binding, report, spec, bundle, receipts, drafts, ids, crashes>>

\* The spec is read from its file or generated and written.
Strategy ==
  /\ step = "strategy"
  /\ spec' = TRUE
  /\ Goto("shortlist_score_spec")
  /\ UNCHANGED <<binding, report, bundle, receipts, drafts, ids, db, crashes>>

CommitStrategy ==
  /\ step = "commit_strategy"
  /\ CommitRows({"spec"})
  /\ Goto("build_job")
  /\ UNCHANGED <<binding, report, spec, bundle, receipts, drafts, ids, crashes>>

-----------------------------------------------------------------------------
(* The build and its bundle.                                               *)

CreateBuildJob ==
  /\ step = "build_job"
  /\ CommitRows({"build_job"})
  /\ Goto("build")
  /\ UNCHANGED <<binding, report, spec, bundle, receipts, drafts, ids, crashes>>

\* build_product resumes from its own checkpoint and provider snapshot.
BuildProduct ==
  /\ step = "build"
  /\ Goto("render")
  /\ UNCHANGED <<binding, report, spec, bundle, receipts, drafts, ids, db, crashes>>

\* A plausible slip: a manifest on disk is taken as it is.
RenderBundle_Trusting ==
  /\ step = "render"
  /\ Goto(IF manifest = None THEN "write_file" ELSE "notion_build_variants_qa_facts")
  /\ UNCHANGED <<binding, report, spec, bundle, receipts, drafts, ids, db, crashes>>

\* render_bundle: a manifest means a finished bundle, which must verify.
RenderBundle ==
  /\ step = "render"
  /\ IF manifest = None THEN Goto("write_file")
     ELSE IF Verified THEN Goto("notion_build_variants_qa_facts") ELSE Refuse
  /\ UNCHANGED <<binding, report, spec, bundle, receipts, drafts, ids, db, crashes>>

\* record: an existing file with other bytes is refused (a cut one, or one the
\* renderers do not reproduce); otherwise it is opened, and so emptied,
OpenArtifact(same) ==
  /\ step = "write_file" /\ artifact <= Files
  /\ artifact > 1 => artifacts[artifact - 1] = "whole"
  /\ IF artifacts[artifact] = None \/ (artifacts[artifact] = "whole" /\ same)
     THEN artifacts' = [artifacts EXCEPT ![artifact] = "cut"] /\ artifact' = artifact + 1 /\ UNCHANGED step
     ELSE step' = "down" /\ UNCHANGED <<artifacts, artifact>>
  /\ UNCHANGED <<database, known, emptied, binding, report, spec, manifest, receipts, drafts,
                 ids, db, crashes>>

Finished == [f \in 1..Files |-> IF f = artifact - 1 THEN "whole" ELSE artifacts[f]]

\* and written, before the next one is opened.
WriteArtifact ==
  /\ step = "write_file" /\ artifact > 1 /\ artifacts[artifact - 1] = "cut"
  /\ artifacts' = Finished
  /\ UNCHANGED <<process, binding, report, spec, manifest, receipts, drafts, ids, db, crashes>>

\* lineage.jsonl comes last: emptied first, then written, then verified.
OpenManifest ==
  /\ step = "write_file" /\ artifact = Files + 1 /\ artifacts[Files] = "whole"
  /\ manifest' = "cut"
  /\ Goto("write_manifest")
  /\ UNCHANGED <<binding, report, spec, artifacts, receipts, drafts, ids, db, crashes>>

WriteManifest ==
  /\ step = "write_manifest"
  /\ manifest' = "whole"
  /\ Goto("notion_build_variants_qa_facts")
  /\ UNCHANGED <<binding, report, spec, artifacts, receipts, drafts, ids, db, crashes>>

-----------------------------------------------------------------------------
(* The draft (EtsyDraftClient.create_draft; see EtsyDraft) and the end.    *)

\* A plausible slip: a pending key is always refused.
ConsultLedger_RefusesPending ==
  /\ step = "draft"
  /\ Goto(CASE ledger = "ready" -> "fixture_etsy_draft"
            [] ledger = None -> "write_pending"
            [] OTHER -> "down")
  /\ UNCHANGED <<binding, report, spec, bundle, receipts, drafts, ids, db, crashes>>

\* A recorded draft is returned; a draft the marketplace already lists is
\* adopted; a pending key without one is not posted again.
ConsultLedger ==
  /\ step = "draft"
  /\ Goto(CASE ledger = "ready" -> "fixture_etsy_draft"
            [] ledger \in {None, "pending"} /\ listings > 0 -> "record"
            [] ledger = None /\ listings = 0 -> "write_pending"
            [] OTHER -> "down")
  /\ UNCHANGED <<binding, report, spec, bundle, receipts, drafts, ids, db, crashes>>

\* put_pending: an exclusive open, then the write.
PutPending ==
  /\ step = "write_pending"
  /\ \/ ledger = None /\ ledger' = "cut" /\ UNCHANGED process
     \/ ledger = "cut" /\ ledger' = "pending" /\ Goto("post")
  /\ UNCHANGED <<binding, report, spec, bundle, receipts, listings, ids, db, crashes>>

\* FixtureDraftTransport.exchange replaces the marketplace file.
Post ==
  /\ step = "post"
  /\ listings' = listings + 1
  /\ Goto("record")
  /\ UNCHANGED <<binding, report, spec, bundle, receipts, ledger, ids, db, crashes>>

RecordDraft ==
  /\ step = "record"
  /\ ledger' = "ready"
  /\ Goto("fixture_etsy_draft")
  /\ UNCHANGED <<binding, report, spec, bundle, receipts, listings, ids, db, crashes>>

\* Everything from persist_delivery on is one transaction.
CommitDelivery ==
  /\ step = "commit_delivery"
  /\ CommitRows({"listing_version", "completed_at"})
  /\ Goto("write_ids")
  /\ UNCHANGED <<binding, report, spec, bundle, receipts, drafts, ids, crashes>>

WriteIds ==
  /\ step = "write_ids"
  /\ ids' = TRUE
  /\ Goto("down")
  /\ UNCHANGED <<binding, report, spec, bundle, receipts, drafts, db, crashes>>

\* The process dies: files stay as they are, the transaction is rolled back.
Crash ==
  /\ step # "down" /\ crashes < MaxCrashes
  /\ crashes' = crashes + 1
  /\ step' = "down" /\ known' = {} /\ emptied' = FALSE /\ artifact' = 1
  /\ UNCHANGED <<database, binding, report, spec, bundle, receipts, drafts, ids, db>>

Execute ==
  \/ Bind \/ Verify
  \/ SeedWorkflow \/ CreateResearchJob \/ ReadReport \/ Observe \/ Shortlist \/ CommitResearch
  \/ Strategy \/ CommitStrategy \/ CreateBuildJob \/ BuildProduct
  \/ RenderBundle \/ \E same \in BOOLEAN : OpenArtifact(same)
  \/ WriteArtifact \/ OpenManifest \/ WriteManifest
  \/ \E stage \in Stages : OpenReceipts(stage) \/ WriteReceipts(stage)
  \/ ConsultLedger \/ PutPending \/ Post \/ RecordDraft
  \/ CommitDelivery \/ WriteIds

FixtureNext == Execute \/ Crash \/ \E d \in Databases : Start(d)

FixtureSpec == FixtureInit /\ [][FixtureNext]_fixtureVars

\* A started run goes on until it ends, refuses or dies, and the operator runs
\* the command again, with the right database too, as often as it takes.
FixtureFairSpec == FixtureSpec /\ WF_fixtureVars(Execute) /\ \A d \in Databases : SF_fixtureVars(Start(d))

-----------------------------------------------------------------------------

\* However often the run dies and is repeated, the marketplace gets one draft,
\* all rows are in the database the files are bound to, and a completed workflow
\* has all its evidence outside the database as well, of which nothing is written
\* in the same transaction: every receipt, a bundle that verifies, a full report,
\* the recorded draft.
CompletedIsWhole ==
  /\ listings <= 1
  /\ \A d \in Databases : db[d] # {} => binding = d
  /\ \A d \in Databases :
       "completed_at" \in db[d] =>
         /\ receipts = Stages /\ Verified /\ report = "full" /\ spec
         /\ ledger = "ready" /\ listings = 1

\* docs/control/DECISIONS.md, D-0038: "Crash-after-draft must roll forward
\* through existing ledger reconciliation without duplicate effects": once the
\* marketplace has the draft, no crash strands the run.
DraftRollsForward ==
  listings > 0 ~> \E d \in Databases : "completed_at" \in db[d] /\ ids
=============================================================================
