------------------------------ MODULE AgentRuns ------------------------------
(***************************************************************************)
(* One agent's runs for one job: the seeding of its definition and prompt  *)
(* rows from the repository's files (persistence/seed.py), the runner that *)
(* loads them, lets the agent work and records the run (agents/runtime.py, *)
(* observability/agent_runs.py, agents/prompt_store.py), and the bounded   *)
(* reviews the agent asks for meanwhile (agents/review_subagent.py).       *)
(* Workers load the roster once, when their commissioning gates pass       *)
(* (orchestration/worker.py); operators edit the files at any time; two    *)
(* workers may run the same job when the first one lost its lease.         *)
(***************************************************************************)
EXTENDS Integers, Sequences, FiniteSets, FiniteSetsExt

CONSTANTS
  Runners,
  Contents,      \* what a prompt file may hold; its digest names it
  Unsound,       \* contents without the required sections, or with a secret
  MaxReviewsPerJob,
  LastContract,  \* bound: contract versions
  MaxEdits,      \* bound: edits of the files
  MaxRuns,       \* bound: executions of the job
  MaxAsks,       \* bound: requests to the review provider
  NoFile,
  NotLoaded

Versions == 1 .. 2      \* the prompt files v1.md and v2.md

VARIABLES
  files,        \* version -> contents, or NoFile
  roster,       \* the agent in config/agents.yaml: contract version, prompt
                \*   reference, commissioned or not
  seeded,       \* no edit since the last seed
  prompts,      \* digest -> its prompt_versions row: the version its reference
                \*   names and the row's version column
  definitions,  \* contract versions with an agent_definitions row
  runs,         \* committed agent_runs rows, in order
  loaded,       \* runner -> the roster it loaded when it started, or NotLoaded
  runner_at,    \* runner -> "idle" or "executing"
  cited,        \* runner -> reference and digest of the row it loaded
  number,       \* runner -> run number it took
  waiting,      \* runner -> review requests at the provider
  artifacts,    \* runner -> numbers of its review artifacts
  asked,        \* review requests made for the job
  edits,
  begun

runVars == <<files, roster, seeded, prompts, definitions, runs, loaded, runner_at, cited,
             number, waiting, artifacts, asked, edits, begun>>

NoRow == [reference |-> 0, sha |-> NoFile]

RunsInit ==
  /\ files = [v \in Versions |-> IF v = 1 THEN CHOOSE c \in Contents \ Unsound : TRUE ELSE NoFile]
  /\ roster = [contract |-> 1, reference |-> 1, commissioned |-> TRUE]
  /\ seeded = FALSE
  /\ prompts = << >>
  /\ definitions = {}
  /\ runs = << >>
  /\ loaded = [r \in Runners |-> NotLoaded]
  /\ runner_at = [r \in Runners |-> "idle"]
  /\ cited = [r \in Runners |-> NoRow]
  /\ number = [r \in Runners |-> 0]
  /\ waiting = [r \in Runners |-> 0]
  /\ artifacts = [r \in Runners |-> << >>]
  /\ asked = 0
  /\ edits = 0
  /\ begun = 0

\* A commit of the repository changes a prompt file or the roster.
EditFile ==
  /\ edits < MaxEdits
  /\ edits' = edits + 1
  /\ seeded' = FALSE
  /\ \/ /\ \E v \in Versions, c \in Contents \union {NoFile} :
             files[v] # c /\ files' = [files EXCEPT ![v] = c]
        /\ UNCHANGED roster
     \/ /\ roster' \in {[roster EXCEPT !.contract = n] : n \in 1 .. LastContract}
                        \union {[roster EXCEPT !.reference = v] : v \in Versions}
                        \union {[roster EXCEPT !.commissioned = ~@]}
        /\ roster' # roster
        /\ UNCHANGED files
  /\ UNCHANGED <<prompts, definitions, runs, loaded, runner_at, cited, number, waiting, artifacts,
                 asked, begun>>

-----------------------------------------------------------------------------
(* persistence/seed.py *)

Refused == [ok |-> FALSE, rows |-> << >>]

\* The table's unique constraint on reference and version.
Taken(rows, c, row) ==
  \E d \in DOMAIN rows \ {c} : rows[d].reference = row.reference /\ rows[d].version = row.version

\* The agent_runs rows that cite a prompt row pin its reference.
Cites(c, reference) == \E i \in DOMAIN runs : runs[i].sha = c /\ runs[i].reference = reference

\* One prompt file: its digest is inserted, or the row that has the digest is
\* renamed after the file, its version column left alone.  A broken constraint
\* raises and undoes the whole seed.
SeedPrompt(state, v) ==
  LET c == files[v]
      rows == state.rows
      row == IF c \in DOMAIN rows THEN [rows[c] EXCEPT !.reference = v]
             ELSE [reference |-> v, version |-> v]
      known == c \in DOMAIN rows /\ rows[c] = row
      pinned == c \in DOMAIN rows /\ Cites(c, rows[c].reference)
  IN IF ~state.ok \/ c = NoFile \/ known THEN state
     ELSE IF Taken(rows, c, row) \/ pinned THEN Refused
     ELSE [ok |-> TRUE, rows |-> [d \in DOMAIN rows \union {c} |-> IF d = c THEN row ELSE rows[d]]]

\* _seed_prompt_versions over the files in their order.
SeedPrompts(rows) ==
  SeedPrompt(SeedPrompt([ok |-> TRUE, rows |-> rows], 1), 2)

Seed ==
  /\ SeedPrompts(prompts).ok
  /\ prompts' = SeedPrompts(prompts).rows
  /\ definitions' = definitions \union {roster.contract}
  /\ seeded' = TRUE
  /\ UNCHANGED <<files, roster, runs, loaded, runner_at, cited, number, waiting, artifacts, asked,
                 edits, begun>>

-----------------------------------------------------------------------------
(* agents/runtime.py and orchestration/worker.py *)

\* by_agent_id: the highest contract version has to be the definition's.
DefinitionMatches(definition) == definitions # {} /\ Max(definitions) = definition.contract

\* by_reference: the row of highest version for the reference, if any.
ByReference(v) ==
  {c \in DOMAIN prompts :
     /\ prompts[c].reference = v
     /\ \A d \in DOMAIN prompts : prompts[d].reference = v => prompts[d].version <= prompts[c].version}

\* A plausible slip: the stored hash is not compared with the file.
PromptLoads_Unhashed(v, c) == files[v] \notin {NoFile} \union Unsound

\* PromptStore.load: the file is there, has the digest expected of it, all of its
\* sections and no secret.
PromptLoads(v, c) == files[v] = c /\ c \notin {NoFile} \union Unsound

\* The worker's commissioning gates: the agent may run in production, and its
\* prompt file is loaded against its own digest.
GatesPass == roster.commissioned /\ PromptLoads(roster.reference, files[roster.reference])

\* The worker starts, with the roster as it is now, or exits.
Start(r) ==
  /\ loaded[r] = NotLoaded
  /\ GatesPass
  /\ loaded' = [loaded EXCEPT ![r] = roster]
  /\ UNCHANGED <<files, roster, seeded, prompts, definitions, runs, runner_at, cited, number,
                 waiting, artifacts, asked, edits, begun>>

\* next_run_number: one more than the highest committed run of the job.
NextRunNumber == 1 + Max({0} \union {runs[i].number : i \in DOMAIN runs})

\* begin_run: what the run cites, fixed before the agent works.
BeginRun(r, v, c) ==
  /\ cited' = [cited EXCEPT ![r] = [reference |-> v, sha |-> c, text |-> files[v]]]
  /\ number' = [number EXCEPT ![r] = NextRunNumber]

\* execute up to the agent's own work; each failed gate raises and leaves nothing.
Begin(r) ==
  /\ runner_at[r] = "idle"
  /\ loaded[r] # NotLoaded
  /\ begun < MaxRuns
  /\ DefinitionMatches(loaded[r])
  /\ LET v == loaded[r].reference
     IN \E c \in ByReference(v) : PromptLoads(v, c) /\ BeginRun(r, v, c)
  /\ runner_at' = [runner_at EXCEPT ![r] = "executing"]
  /\ waiting' = [waiting EXCEPT ![r] = 0]
  /\ artifacts' = [artifacts EXCEPT ![r] = << >>]
  /\ begun' = begun + 1
  /\ UNCHANGED <<files, roster, seeded, prompts, definitions, runs, loaded, asked, edits>>

RunnerIdle(r) ==
  /\ runner_at' = [runner_at EXCEPT ![r] = "idle"]
  /\ cited' = [cited EXCEPT ![r] = NoRow]
  /\ number' = [number EXCEPT ![r] = 0]
  /\ waiting' = [waiting EXCEPT ![r] = 0]
  /\ artifacts' = [artifacts EXCEPT ![r] = << >>]

\* finalize_run: the terminal row cites what begin_run fixed.
FinalizeRun(r, status) ==
  runs' = Append(runs, [number |-> number[r], status |-> status,
                        reference |-> cited[r].reference, sha |-> cited[r].sha,
                        text |-> cited[r].text])

\* finalize_run in the worker's transaction, whatever the agent returned or
\* raised.  The composite foreign key wants the prompt row as it was loaded.
Finish(r) ==
  /\ runner_at[r] = "executing"
  /\ waiting[r] = 0
  /\ prompts[cited[r].sha].reference = cited[r].reference
  /\ \E status \in {"SUCCESS", "FAILURE"} : FinalizeRun(r, status)
  /\ RunnerIdle(r)
  /\ UNCHANGED <<files, roster, seeded, prompts, definitions, loaded, asked, edits, begun>>

\* The result cites another run, the foreign key is broken or the worker's
\* transaction is rolled back, or the process ends: nothing is recorded.
Lose(r) ==
  /\ loaded[r] # NotLoaded
  /\ loaded' \in {loaded, [loaded EXCEPT ![r] = NotLoaded]}
  /\ runner_at[r] = "executing" \/ loaded' # loaded
  /\ RunnerIdle(r)
  /\ UNCHANGED <<files, roster, seeded, prompts, definitions, runs, asked, edits, begun>>

-----------------------------------------------------------------------------
(* agents/review_subagent.py *)

\* request_review up to the provider call: the budget counts recorded reviews.
RequestReview(r) ==
  /\ runner_at[r] = "executing"
  /\ asked < MaxAsks
  /\ Len(artifacts[r]) < MaxReviewsPerJob
  /\ waiting' = [waiting EXCEPT ![r] = @ + 1]
  /\ asked' = asked + 1
  /\ UNCHANGED <<files, roster, seeded, prompts, definitions, runs, loaded, runner_at, cited, number,
                 artifacts, edits, begun>>

\* The review's number once the provider answered.
ReviewNumber(r) == Len(artifacts[r]) + 1

\* The provider answers within the token budget and the review is recorded;
\* over the budget, or with an error, the request raises and counts for nothing.
ReviewAnswered(r) ==
  /\ waiting[r] > 0
  /\ waiting' = [waiting EXCEPT ![r] = @ - 1]
  /\ \/ artifacts' = [artifacts EXCEPT ![r] = Append(@, ReviewNumber(r))]
     \/ UNCHANGED artifacts
  /\ UNCHANGED <<files, roster, seeded, prompts, definitions, runs, loaded, runner_at, cited, number,
                 asked, edits, begun>>

-----------------------------------------------------------------------------
RunsNext ==
  \/ EditFile
  \/ Seed
  \/ \E r \in Runners :
       \/ Start(r) \/ Begin(r)
       \/ Finish(r) \/ Lose(r)
       \/ RequestReview(r) \/ ReviewAnswered(r)

RunsSpec == RunsInit /\ [][RunsNext]_runVars

-----------------------------------------------------------------------------
\* The lineage of a recorded run is true, over every edit, seed and rename of
\* prompts since: the text the agent ran with has the digest the run cites, and
\* the prompt row of that digest still has the reference the run cites.  The
\* reviews of a run are numbered in the order they were recorded, however their
\* requests overlap and whichever of them fail.
RunsCiteTheirText ==
  /\ \A i \in DOMAIN runs :
       /\ runs[i].text = runs[i].sha
       /\ prompts[runs[i].sha].reference = runs[i].reference
  /\ \A r \in Runners : \A i \in DOMAIN artifacts[r] : artifacts[r][i] = i

=============================================================================
