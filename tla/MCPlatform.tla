----------------------------- MODULE MCPlatform -----------------------------
(***************************************************************************)
(* The parts around the queue, for TLC: what touches Notion (SandboxRun,   *)
(* BrowserSession, NotionAdapters), what keeps evidence (ReceiptLog,       *)
(* AssetStore, AssetLineage, AgentRuns) and what decides about products    *)
(* (ProductDiscovery, PublishingRamp, PortfolioLoop, SupportIntake).  They *)
(* share no state.  A behaviour is about one of them, which Init chooses;  *)
(* the others keep an initial state.                                       *)
(***************************************************************************)
EXTENDS SandboxRun, BrowserSession, NotionAdapters, ReceiptLog, AssetStore, AssetLineage, AgentRuns,
        ProductDiscovery, PublishingRamp, SupportIntake, TLC

VARIABLES component

\* One operation of every family.
MCUsed == {"create_page", "create_database", "duplicate_page", "rename_page",
           "drop_page_property", "add_property", "create_formula", "create_table_view",
           "set_view_title_visibility", "publish_page", "unpublish_page",
           "set_search_indexing", "get_public_url", "verify_stranger_access"}

\* Four listings of three niches; the two planners share four words of five, 0.8,
\* which is too close.
MCConcepts == {"planner", "planning guide", "poster"}
MCResults == << <<1, 3>>, <<3, 4>>, <<2, 1>> >>
MCAbout(l) == IF l = 1 THEN "planner" ELSE IF l = 2 THEN "planning guide" ELSE "poster"
MCWords(c) ==
  CASE c = "planner" -> {"daily", "budget", "planner", "template"}
    [] c = "planning guide" -> {"daily", "budget", "planner", "guide", "template"}
    [] OTHER -> {"wall", "poster", "template"}
MCTraits(c) ==
  CASE c = "planner" -> {"template"}
    [] c = "planning guide" -> {"digital", "guide"}
    [] OTHER -> {"HIGH"}

\* Three listings of one shop; each reports one of two rows.
Row(score, reconciled) == [score |-> score, reconciled |-> reconciled]
Quiet == Row(<<0, 0, 0, 0>>, TRUE)
Viewed == Row(<<0, 0, 0, 2>>, TRUE)
Sold == Row(<<1, 9, 0, 2>>, TRUE)
Best == Row(<<1, 9, 1, 0>>, TRUE)
Late == Row(<<2, 18, 0, 2>>, FALSE)
MCListings == {"l1", "l2", "l3"}
MCRows == [l1 |-> {Quiet, Best}, l2 |-> {Viewed, Sold}, l3 |-> {Sold, Late}]

VARIABLES loop_now, status, since, intervals, lived, defect, snapshot, planned, triggers,
          loop_prior, culled, mishaps
Loop == INSTANCE PortfolioLoop WITH
  Listings <- MCListings, Rows <- MCRows,
  PeriodTicks <- 2, MaturityPeriods <- 1, MinCohort <- 3, CullPercent <- 80, GapTicks <- 2,
  MaxTime <- 3, MaxMishaps <- 1, now <- loop_now, prior <- loop_prior
loopVars == <<loop_now, status, since, intervals, lived, defect, snapshot, planned, triggers,
              loop_prior, culled, mishaps>>

-----------------------------------------------------------------------------
PlatformInit ==
  /\ component \in {"sandbox", "browser", "adapters", "log", "store", "lineage", "runs",
                    "discovery", "ramp", "loop", "support"}
  /\ SandboxInit /\ BrowserInit /\ AdaptersInit /\ Init /\ StoreInit /\ RunsInit
  /\ DiscoveryInit /\ RampInit /\ Loop!Init /\ SupportInit
  /\ component # "sandbox" => ~execute /\ temporary = "absent" /\ evidence = Absent
  /\ component # "adapters" => delegates = "own"
  /\ component # "support" => artifact = "h1"
  /\ IF component = "lineage" THEN LineageInit
     ELSE /\ owned = <<>> /\ pending = <<>> /\ rest = <<>> /\ stale = {}
          /\ progressed = FALSE /\ walking = TRUE /\ outcome = "none"

notionVars == <<sandboxVars, browserVars, adapterVars>>
evidenceVars == <<receiptVars, assetVars, lineageVars, runVars>>
productVars == <<discoveryVars, rampVars, loopVars, supportVars>>
allVars == <<component, notionVars, evidenceVars, productVars>>

PlatformNext ==
  /\ UNCHANGED component
  /\ \/ /\ UNCHANGED <<evidenceVars, productVars>>
        /\ \/ component = "sandbox" /\ SandboxNext /\ UNCHANGED <<browserVars, adapterVars>>
           \/ component = "browser" /\ BrowserNext /\ UNCHANGED <<sandboxVars, adapterVars>>
           \/ component = "adapters" /\ AdaptersNext /\ UNCHANGED <<sandboxVars, browserVars>>
     \/ /\ UNCHANGED <<notionVars, productVars>>
        /\ \/ component = "log" /\ Next /\ UNCHANGED <<assetVars, lineageVars, runVars>>
           \/ component = "store" /\ StoreNext /\ UNCHANGED <<receiptVars, lineageVars, runVars>>
           \/ component = "lineage" /\ LineageNext /\ UNCHANGED <<receiptVars, assetVars, runVars>>
           \/ component = "runs" /\ RunsNext /\ UNCHANGED <<receiptVars, assetVars, lineageVars>>
     \/ /\ UNCHANGED <<notionVars, evidenceVars>>
        /\ \/ component = "discovery" /\ DiscoveryNext /\ UNCHANGED <<rampVars, loopVars, supportVars>>
           \/ component = "ramp" /\ RampNext /\ UNCHANGED <<discoveryVars, loopVars, supportVars>>
           \/ component = "loop" /\ Loop!Next /\ UNCHANGED <<discoveryVars, rampVars, supportVars>>
           \/ component = "support" /\ SupportNext /\ UNCHANGED <<discoveryVars, rampVars, loopVars>>

PlatformSpec == PlatformInit /\ [][PlatformNext]_allVars

-----------------------------------------------------------------------------
\* PortfolioLoop: culls and multiplies are the promised ones, of mature listings.
PicksAsPromised == component = "loop" => Loop!PicksAsPromised
=============================================================================
