--------------------------- MODULE TransitionGuard ---------------------------
(***************************************************************************)
(* The canonical state machines of orchestration/transition_guard.py.      *)
(* Every orchestration function that writes jobs.status or                 *)
(* workflow_runs.product_state first asks whether the edge exists.         *)
(***************************************************************************)

\* domain/enums.py: JobStatus.
JobStatus ==
  {"PENDING", "BLOCKED", "READY", "RUNNING", "SUCCEEDED", "FAILED",
   "TERMINAL_FAILURE", "CANCELLED", "UNCERTAIN_EXTERNAL_EFFECT"}

\* The edges of JOB_TRANSITIONS.  SUCCEEDED, TERMINAL_FAILURE and CANCELLED
\* have none.
JOB_TRANSITIONS ==
  UNION {{"PENDING"} \X {"BLOCKED", "READY", "CANCELLED"},
         {"BLOCKED"} \X {"READY", "CANCELLED"},
         {"READY"}   \X {"RUNNING", "CANCELLED"},
         {"RUNNING"} \X {"SUCCEEDED", "FAILED", "BLOCKED", "UNCERTAIN_EXTERNAL_EFFECT"},
         {"FAILED"}  \X {"READY", "TERMINAL_FAILURE"},
         {"UNCERTAIN_EXTERNAL_EFFECT"} \X {"SUCCEEDED", "FAILED", "BLOCKED"}}

\* require_job_transition returns (instead of raising InvalidTransitionError).
RequireJobTransition(source, target) == <<source, target>> \in JOB_TRANSITIONS

\* The edges of PRODUCT_TRANSITIONS: research, build, listing, then the cycle of
\* observation and decision.  REJECTED and DEACTIVATED have none.
PRODUCT_TRANSITIONS ==
  {<<"DISCOVERED", "RESEARCHING">>, <<"RESEARCHING", "RESEARCH_COMPLETE">>,
   <<"RESEARCH_COMPLETE", "QUALIFYING">>, <<"QUALIFYING", "QUALIFIED">>,
   <<"QUALIFYING", "REJECTED">>, <<"QUALIFIED", "TEARDOWN_PENDING">>,
   <<"TEARDOWN_PENDING", "TEARDOWN_COMPLETE">>, <<"TEARDOWN_COMPLETE", "SPEC_READY">>,
   <<"SPEC_READY", "DEDUPE_CHECK">>, <<"DEDUPE_CHECK", "RECONCEPTING">>,
   <<"RECONCEPTING", "SPEC_READY">>,
   <<"DEDUPE_CHECK", "BUILDING">>, <<"BUILDING", "BUILD_QA">>,
   <<"BUILD_QA", "BUILD_REPAIR">>, <<"BUILD_REPAIR", "BUILD_QA">>,
   <<"BUILD_QA", "VARIANT_BUILD">>, <<"VARIANT_BUILD", "VARIANT_QA">>,
   <<"VARIANT_QA", "VARIANT_BUILD">>, <<"VARIANT_QA", "MERCHANDISING">>,
   <<"MERCHANDISING", "ASSET_BUILD">>, <<"ASSET_BUILD", "ASSET_QA">>,
   <<"ASSET_QA", "ASSET_BUILD">>, <<"ASSET_QA", "DRAFTING">>,
   <<"DRAFTING", "DRAFT_READY">>, <<"DRAFT_READY", "PREFLIGHT">>,
   <<"PREFLIGHT", "LISTING_REPAIR">>, <<"LISTING_REPAIR", "PREFLIGHT">>,
   <<"PREFLIGHT", "READY_TO_PUBLISH">>, <<"READY_TO_PUBLISH", "PUBLISHED">>,
   <<"PUBLISHED", "POST_PUBLISH_QA">>, <<"POST_PUBLISH_QA", "INCIDENT_REPAIR">>,
   <<"INCIDENT_REPAIR", "POST_PUBLISH_QA">>, <<"POST_PUBLISH_QA", "OBSERVING">>,
   <<"OBSERVING", "MATURE">>, <<"MATURE", "EVALUATING">>,
   <<"EVALUATING", "OBSERVING">>, <<"EVALUATING", "REPAIRING">>, <<"REPAIRING", "OBSERVING">>,
   <<"EVALUATING", "DEACTIVATING">>, <<"DEACTIVATING", "DEACTIVATED">>,
   <<"EVALUATING", "SUCCESSOR_SPEC">>, <<"SUCCESSOR_SPEC", "OBSERVING">>}

ProductLifecycleState == UNION {{e[1], e[2]} : e \in PRODUCT_TRANSITIONS}

RequireProductTransition(source, target) == <<source, target>> \in PRODUCT_TRANSITIONS

\* require_successor_spawn: the MULTIPLY boundary.  It returns DEDUPE_CHECK.
RequireSuccessorSpawn(parentState, parent, successor) ==
  parentState = "SUCCESSOR_SPEC" /\ successor # parent
=============================================================================
