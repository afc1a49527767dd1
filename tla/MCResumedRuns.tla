---------------------------- MODULE MCResumedRuns ----------------------------
(***************************************************************************)
(* The commands that die and are repeated, for TLC: NotionBuild (two       *)
(* databases, hubs, samples and colours, three deaths, two provider        *)
(* failures), FixtureRun (a run id that is pointed at two databases, a     *)
(* bundle of two files, three deaths) and ControlJournal (two processes,   *)
(* sessions 7 and 8, two deaths).  They share no state.  A behaviour is    *)
(* about one of them, which Init chooses; the others keep an initial       *)
(* state.                                                                  *)
(***************************************************************************)
EXTENDS NotionBuild, FixtureRun, ControlJournal

VARIABLE component

-----------------------------------------------------------------------------
allVars == <<component, buildVars, fixtureVars, journalVars>>

ResumedInit ==
  /\ component \in {"build", "fixture", "journal"}
  /\ BuildInit /\ FixtureInit /\ Init
  /\ component # "fixture" => database = "d1"

\* A step of one component.
OfBuild(A) == component = "build" /\ A /\ UNCHANGED <<component, fixtureVars, journalVars>>
OfFixture(A) == component = "fixture" /\ A /\ UNCHANGED <<component, buildVars, journalVars>>
OfJournal(A) == component = "journal" /\ A /\ UNCHANGED <<component, buildVars, fixtureVars>>

ResumedNext == OfBuild(BuildNext) \/ OfFixture(FixtureNext) \/ OfJournal(Next)

\* The fairness of the three specifications, each for its own component.
ResumedSpec ==
  /\ ResumedInit /\ [][ResumedNext]_allVars
  /\ WF_allVars(OfBuild(BuildWork)) /\ WF_allVars(OfBuild(BuildStart))
  /\ WF_allVars(OfFixture(Execute))
  /\ \A d \in Databases : SF_allVars(OfFixture(Start(d)))
  /\ WF_allVars(OfJournal(RemoveStaleLock))
  /\ \A p \in Procs : WF_allVars(OfJournal(Command(p)))
  /\ SF_allVars(OfJournal(\E p \in Procs : Begin(p, "recover")))

-----------------------------------------------------------------------------
(* Liveness, for the behaviours of the component it is about.              *)

\* NotionBuild: the build is finished in the end, unless a death lost a patch
\* and a phase says so.
BuildFinished == component = "build" => BuildFinishes

\* ControlJournal: a recovery that dies anywhere is finished by a later one,
\* unless somebody has committed or worked on the reopened session in between.
RecoveryFinished == component = "journal" => RecoveryFinishes
=============================================================================
