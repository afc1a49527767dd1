----------------------------- MODULE NotionBuild -----------------------------
(***************************************************************************)
(* The Notion product build of a fixture run: the six phases that put the  *)
(* product's page, databases, dashboard, hubs, notification dashboard and  *)
(* aesthetics into the fixture workspace, and the colour variants that are *)
(* duplicated from it (agents/implementations/notion_*.py, driven by       *)
(* application/fixture_product.py).                                        *)
(*                                                                         *)
(* Two files survive a death of the process.  The provider snapshot is     *)
(* written by durable_probe after EVERY adapter call and then holds the    *)
(* whole workspace; the checkpoint is written once at the end of a phase.  *)
(* Some phases also change a returned object in memory after the call      *)
(* (spec id, shell marker, view name and filters, sample and row fields,   *)
(* database marks): such a patch is on disk only from the next call on.    *)
(*                                                                         *)
(* Each phase is a plan of pieces.  The phase first checks the workspace   *)
(* against the record of the earlier phases and against its own plan, then *)
(* goes through the plan, adopts the pieces it finds and makes the others. *)
(***************************************************************************)
EXTENDS Naturals, Sequences, FiniteSets

CONSTANTS
  BuildDatabases,   \* how many shared databases phase 2 builds
  Hubs,             \* how many identity hubs phase 4 builds
  Samples,          \* how many sample pages phase 5 builds
  Colours,          \* how many colour variants are duplicated
  MaxBuildCrashes,  \* bound: deaths of the process
  MaxFailures       \* bound: provider operations that are made to fail

ASSUME NotionBuildAssumption ==
  /\ {BuildDatabases, Hubs, Samples, Colours} \subseteq Nat \ {0}
  /\ {MaxBuildCrashes, MaxFailures} \subseteq Nat

VARIABLES
  memory,    \* the adapter's workspace in the process, piece by piece
  disk,      \* the provider snapshot
  strays,    \* top-level pages without a spec id in the snapshot
  copy,      \* the page titled "(Copy)": absent, still carrying the spec id, or released
  dressed,   \* per colour, the finishing calls its variant page has had; 0: no page
  recorded,  \* the checkpoint: the last stage it names, 0 when there is no file
  jobs,      \* the repair jobs of the checkpoint
  phase_at,  \* the process: down, entering a stage, building it, writing, refused, done
  pos,       \* the piece of the plan, or the colour, the stage is at
  build_crashes, failures

buildFiles == <<disk, strays, copy, dressed>>
buildVars == <<memory, buildFiles, recorded, jobs, phase_at, pos, build_crashes, failures>>
-----------------------------------------------------------------------------
(* The plans.                                                              *)

Times(n, pieces) ==
  [i \in 1..(n * Len(pieces)) |-> pieces[((i - 1) % Len(pieces)) + 1]]

\* "page", "shell", "view", "sample" and "row" are a call and a patch; "marks"
\* is a patch alone; "guard" is a place where an armed provider failure strikes
\* whatever is already built; every other piece is a call alone, and one
\* "call", "property" or "accent" stands for a run of them.
PageAndShell == <<"page", "shell">>
CatalogueDatabases == Times(BuildDatabases, <<"database", "property", "property">>)
Dashboard == <<"call", "guard", "call", "view", "view">>
IdentityHubs ==
  <<"call", "guard", "call", "view", "view">> \o Times(Hubs - 1, <<"call", "call", "view", "view">>)

\* Phase 5 adds formulas to the shared databases, then a database of its own
\* whose rollups read those formulas, a sample row in a shared database, for
\* which that gets a marker column, and the row that relates the samples.
Formulas == Times(BuildDatabases, <<"formula", "formula">>)
NotificationProperties == <<"property">> \o Times(BuildDatabases, <<"rollup">>)
SampleRows == Times(Samples, <<"column", "sample">>)
NotificationRow == <<"row">>
NotificationDashboard ==
  Formulas \o <<"database">> \o NotificationProperties \o <<"marks", "guard">>
    \o SampleRows \o NotificationRow

Accents == <<"accent">>
SampleTexts == Times(Hubs, <<"text">>)
HubMarks == Times(Hubs, <<"icon", "cover">>)
Aesthetics == Accents \o <<"guard">> \o SampleTexts \o HubMarks

Plan ==
  <<PageAndShell, CatalogueDatabases, Dashboard, IdentityHubs, NotificationDashboard, Aesthetics>>

Phases == 1..Len(Plan)
VariantStage == Len(Plan) + 1
Pieces == UNION {{s} \X (1..Len(Plan[s])) : s \in Phases}
Kind(x) == Plan[x[1]][x[2]]
Patched(kind) == kind \in {"page", "shell", "view", "sample", "row"}
Blank == [x \in Pieces |-> IF Kind(x) = "guard" THEN "whole" ELSE "none"]

\* The calls that make a copy a variant: the title and the seven of FinishVariant.
FinishCalls == 8

Stage == recorded + 1
Here == <<Stage, pos>>
BuildGoto(step) == phase_at' = step
Ends == phase_at' = "down" /\ pos' = 1
-----------------------------------------------------------------------------
(* Entering a stage.                                                       *)

\* Every phase checks the pieces of the phases on record.
PhaseMatches(s) == \A x \in Pieces : x[1] = s => memory[x] = "whole"
HomePageMatches == PhaseMatches(1)
DatabasesMatch == PhaseMatches(2)
DashboardMatches == PhaseMatches(3)
HubsMatch == PhaseMatches(4)
NotificationsMatch == PhaseMatches(5)
AestheticsMatch == PhaseMatches(6)

\* A recorded set of variants is complete, and no copy of the page is left.
VariantMatches(c) == dressed[c] = FinishCalls
VariantsMatch == copy = "none" /\ \A c \in 1..Colours : VariantMatches(c)

EarlierPhasesMatch(s) ==
  /\ s > 1 => HomePageMatches
  /\ s > 2 => DatabasesMatch
  /\ s > 3 => DashboardMatches
  /\ s > 4 => HubsMatch
  /\ s > 5 => NotificationsMatch
  /\ s > 6 => AestheticsMatch
  /\ s > VariantStage => VariantsMatch

\* From phase 3 on the product's page is the only top-level page.
OneTopLevelPage(s) == s >= 3 => strays = 0

\* A plausible slip: a shell without its marker is refused, not adopted.
OwnPiecesAdoptable_Strict(s) == \A x \in Pieces : x[1] = s => memory[x] # "bare"

\* A linked view whose name and filters were lost matches no planned view and
\* is refused as unexpected; a bare shell, sample or row is adopted.
ViewsKnown(s) == \A x \in Pieces : x[1] = s /\ Kind(x) = "view" => memory[x] # "bare"
DashboardViewsKnown == ViewsKnown(3)
HubViewsKnown == ViewsKnown(4)

\* The columns of a database are compared with the plan by their position, so
\* what is there must be a first part of the plan.
Found(x) == memory[x] # "none"
FirstPart(s, from, to) == \A i \in (from + 1)..to : Found(<<s, i>>) => Found(<<s, i - 1>>)

\* A shared database has all the columns of its catalogue or the first few.
RepairableCatalogue(d) == FirstPart(2, 3 * d - 2, 3 * d)

\* The formulas behind the catalogue of a shared database.
FormulaPrefix(d) == FirstPart(5, 2 * d - 1, 2 * d)
HasFormulas(d) == Found(<<5, 2 * d - 1>>) /\ Found(<<5, 2 * d>>)

\* The notification database, its columns and its marks in the plan of phase 5.
NotificationDatabase == Len(Formulas) + 1
LastProperty == NotificationDatabase + Len(NotificationProperties)
Rollup(d) == NotificationDatabase + 1 + d
Marks == LastProperty + 1

\* A rollup is known by its relation and by the formula it reads.
RollupKnown(d) == Found(<<5, Rollup(d)>>) => HasFormulas(d)

\* A database whose columns are not complete may not have its marks yet; a
\* complete one may have them or not, but needs all the formulas it reads.
RepairableNotification ==
  /\ ~Found(<<5, LastProperty>>) /\ ~Found(<<5, Marks>>)
  /\ FirstPart(5, NotificationDatabase, LastProperty)
  /\ \A d \in 1..BuildDatabases : RollupKnown(d)
AdoptedDatabase ==
  /\ \A i \in NotificationDatabase..LastProperty : Found(<<5, i>>)
  /\ \A d \in 1..BuildDatabases : RollupKnown(d)
NotificationCanContinue ==
  Found(<<5, NotificationDatabase>>) => RepairableNotification \/ AdoptedDatabase

\* A hub has both marks of its palette token, the icon alone, or none.
HubMarkAdoptable(h) ==
  LET cover == Len(Accents) + 1 + Len(SampleTexts) + 2 * h IN FirstPart(6, cover - 1, cover)

OwnPiecesAdoptable(s) ==
  /\ s = 2 => \A d \in 1..BuildDatabases : RepairableCatalogue(d)
  /\ s = 3 => DashboardViewsKnown
  /\ s = 4 => HubViewsKnown
  /\ s = 5 => (\A d \in 1..BuildDatabases : FormulaPrefix(d)) /\ NotificationCanContinue
  /\ s = 6 => \A h \in 1..Hubs : HubMarkAdoptable(h)

Accepts(s) == EarlierPhasesMatch(s) /\ OneTopLevelPage(s) /\ OwnPiecesAdoptable(s)

Enter ==
  /\ phase_at = "enter"
  /\ BuildGoto(IF ~Accepts(Stage) THEN "refused"
          ELSE IF Stage > VariantStage THEN "done"
          ELSE IF Stage = VariantStage THEN "release" ELSE "build")
  /\ UNCHANGED <<memory, buildFiles, recorded, jobs, pos, build_crashes, failures>>

\* A refusal raises ProductBuildError out of build_product.
BuildRefuse ==
  /\ phase_at = "refused"
  /\ Ends
  /\ UNCHANGED <<memory, buildFiles, recorded, jobs, build_crashes, failures>>
-----------------------------------------------------------------------------
(* Building the pieces of a phase.                                         *)

\* A plausible slip: the snapshot gets the new object only.
Persisted_OwnPiece(workspace) ==
  memory' = workspace /\ disk' = [disk EXCEPT ![Here] = workspace[Here]]

\* The wrapped coroutine returns, and persist() has written everything.
Persisted(workspace) == memory' = workspace /\ disk' = workspace

Create ==
  /\ phase_at = "build" /\ pos <= Len(Plan[Stage])
  /\ memory[Here] = "none" /\ Kind(Here) # "marks"
  /\ Persisted([memory EXCEPT ![Here] = IF Patched(Kind(Here)) THEN "bare" ELSE "whole"])
  /\ UNCHANGED <<strays, copy, dressed, recorded, jobs, phase_at, pos, build_crashes, failures>>

\* The assignment after the call, or the repair of a bare piece found again.
Patch ==
  /\ phase_at = "build" /\ pos <= Len(Plan[Stage])
  /\ \/ memory[Here] = "bare"
     \/ memory[Here] = "none" /\ Kind(Here) = "marks"
  /\ memory' = [memory EXCEPT ![Here] = "whole"]
  /\ UNCHANGED <<buildFiles, recorded, jobs, phase_at, pos, build_crashes, failures>>

Advance ==
  /\ phase_at = "build" /\ pos <= Len(Plan[Stage])
  /\ memory[Here] = "whole"
  /\ pos' = pos + 1
  /\ UNCHANGED <<memory, buildFiles, recorded, jobs, phase_at, build_crashes, failures>>

PhaseBuilt ==
  /\ phase_at = "build" /\ pos > Len(Plan[Stage])
  /\ BuildGoto("write")
  /\ UNCHANGED <<memory, buildFiles, recorded, jobs, pos, build_crashes, failures>>

\* The operations guard_operation stands in front of: creating the page, the
\* shell or a database of phase 2, and the unconditional guards of the others.
Guarded ==
  /\ phase_at = "build" /\ pos <= Len(Plan[Stage])
  /\ \/ Kind(Here) = "guard"
     \/ Stage <= 2 /\ Kind(Here) \in {"page", "shell", "database"} /\ memory[Here] = "none"

\* raise_recorded: one repair job per failed operation, on a checkpoint that
\* exists; without one nothing is written.  The error ends the run.
RecordJob(operation) == jobs' = IF recorded = 0 THEN jobs ELSE jobs \cup {<<Stage, operation>>}

OperationFails ==
  /\ Guarded /\ failures < MaxFailures
  /\ RecordJob(pos)
  /\ failures' = failures + 1
  /\ Ends
  /\ UNCHANGED <<memory, buildFiles, recorded, build_crashes>>
-----------------------------------------------------------------------------
(* The variants: every change is a call, so the snapshot follows at once.  *)

\* The changes of the variants, with whatever the phases still had in memory.
VariantCall == disk' = memory /\ UNCHANGED <<memory, strays, recorded, jobs, build_crashes, failures>>

\* What the plan finds: a colour's page by its title, the copy by its title,
\* and whether the copy still holds the source's spec id.
Titled(c) == dressed[c] > 0
CopyFound == copy # "none"
HoldsSpecId == copy = "bound"

\* _release_copied_spec_ids: a copy found at entry gives up the spec id first.
Release ==
  /\ phase_at = "release"
  /\ BuildGoto("variants")
  /\ copy' = IF HoldsSpecId THEN "released" ELSE copy
  /\ disk' = IF HoldsSpecId THEN memory ELSE disk
  /\ UNCHANGED <<memory, strays, dressed, recorded, jobs, pos, build_crashes, failures>>

\* A colour without a page takes the copy that is there, or a new one.
DuplicatePage ==
  /\ phase_at = "variants" /\ pos <= Colours
  /\ ~Titled(pos) /\ ~CopyFound
  /\ copy' = "bound"
  /\ VariantCall
  /\ UNCHANGED <<dressed, phase_at, pos>>

DropSpecId ==
  /\ phase_at = "variants" /\ HoldsSpecId
  /\ copy' = "released"
  /\ VariantCall
  /\ UNCHANGED <<dressed, phase_at, pos>>

RenamePage ==
  /\ phase_at = "variants" /\ copy = "released" /\ pos <= Colours /\ ~Titled(pos)
  /\ copy' = "none"
  /\ dressed' = [dressed EXCEPT ![pos] = 1]
  /\ VariantCall
  /\ UNCHANGED <<phase_at, pos>>

\* Icon, cover, accent, vocabulary, publish, template flag, indexing flag:
\* each is made when it is missing.
FinishVariant ==
  /\ phase_at = "variants" /\ pos <= Colours /\ dressed[pos] \in 1..(FinishCalls - 1)
  /\ dressed' = [dressed EXCEPT ![pos] = @ + 1]
  /\ VariantCall
  /\ UNCHANGED <<copy, phase_at, pos>>

VariantDone == phase_at = "variants" /\ pos <= Colours /\ VariantMatches(pos)

NextColour ==
  /\ VariantDone
  /\ pos' = pos + 1
  /\ UNCHANGED <<memory, buildFiles, recorded, jobs, phase_at, build_crashes, failures>>

\* The guard in front of every duplicate but the first.
VariantFails ==
  /\ phase_at = "variants" /\ pos \in 2..Colours
  /\ ~Titled(pos) /\ ~CopyFound /\ failures < MaxFailures
  /\ RecordJob(0)
  /\ failures' = failures + 1
  /\ Ends
  /\ UNCHANGED <<memory, buildFiles, recorded, build_crashes>>

VariantsBuilt ==
  /\ phase_at = "variants" /\ pos > Colours
  /\ BuildGoto("write")
  /\ UNCHANGED <<memory, buildFiles, recorded, jobs, pos, build_crashes, failures>>
-----------------------------------------------------------------------------
(* The checkpoint, the death and the restart.                              *)

\* write_checkpoint names the stage and keeps the repair jobs of the document
\* it replaces.
WriteCheckpoint ==
  /\ phase_at = "write"
  /\ recorded' = Stage
  /\ BuildGoto("enter") /\ pos' = 1
  /\ UNCHANGED <<memory, buildFiles, jobs, build_crashes, failures>>

BuildCrash ==
  /\ phase_at \notin {"down", "done"} /\ build_crashes < MaxBuildCrashes
  /\ build_crashes' = build_crashes + 1
  /\ Ends
  /\ UNCHANGED <<memory, buildFiles, recorded, jobs, failures>>

\* find_spec_page does not find a page that never got its spec id: it stays in
\* the workspace as a stray one.
SpecIdLost == disk[<<1, 1>>] = "bare"

\* A new process, after a death, a refusal or a finished build, loads the
\* snapshot.
BuildStart ==
  LET found == IF SpecIdLost THEN [disk EXCEPT ![<<1, 1>>] = "none"] ELSE disk
  IN  /\ phase_at \in {"down", "done"}
      /\ memory' = found /\ disk' = found
      /\ strays' = strays + (IF SpecIdLost THEN 1 ELSE 0)
      /\ BuildGoto("enter") /\ pos' = 1
      /\ UNCHANGED <<copy, dressed, recorded, jobs, build_crashes, failures>>

BuildInit ==
  /\ memory = Blank /\ disk = Blank /\ strays = 0
  /\ copy = "none" /\ dressed = [c \in 1..Colours |-> 0]
  /\ recorded = 0 /\ jobs = {}
  /\ phase_at = "down" /\ pos = 1
  /\ build_crashes = 0 /\ failures = 0

BuildWork ==
  \/ Enter \/ BuildRefuse \/ Create \/ Patch \/ Advance \/ PhaseBuilt
  \/ Release \/ DuplicatePage \/ DropSpecId \/ RenamePage \/ FinishVariant
  \/ NextColour \/ VariantsBuilt \/ WriteCheckpoint

BuildNext == BuildWork \/ OperationFails \/ VariantFails \/ BuildCrash \/ BuildStart

BuildSpec == BuildInit /\ [][BuildNext]_buildVars

\* A process that runs goes on until it ends, and a run that ended is repeated.
BuildFairSpec == BuildSpec /\ WF_buildVars(BuildWork) /\ WF_buildVars(BuildStart)
-----------------------------------------------------------------------------
(* Properties.                                                             *)

\* What the process has loaded lacks a patch that a death kept off the disk and
\* that no later run makes good: a page without its spec id, a linked view
\* without its name, or the last piece of a phase that the checkpoint records.
PatchLost ==
  \/ strays > 0
  \/ \E x \in Pieces : memory[x] = "bare" /\ (Kind(x) = "view" \/ x[1] <= recorded)

\* The checkpoint never runs ahead of the snapshot: every piece of a recorded
\* phase is on disk, and only the patch of the very last one can be missing
\* (durable_probe's persist against write_checkpoint at the end of a phase).
RecordBacked ==
  /\ \A x \in Pieces :
       x[1] <= recorded =>
         \/ disk[x] = "whole"
         \/ disk[x] = "bare" /\ x[1] = recorded /\ x[2] = Len(Plan[recorded])
  /\ recorded = VariantStage => VariantsMatch

\* A build is finished in the end, whatever deaths and provider failures it
\* meets on the way, unless one of them lost a patch and a phase says so.
BuildFinishes == <>(phase_at = "done" \/ (phase_at = "refused" /\ PatchLost))
=============================================================================
