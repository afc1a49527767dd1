----------------------------- MODULE SandboxRun -----------------------------
(***************************************************************************)
(* One run of the sandbox command (cli/notion_sandbox*.py): the refusals,  *)
(* the reads of the target, the build and variants stages, which create a  *)
(* product page under the sandbox parent and one page per colour under it, *)
(* and the evidence file that tells which pages exist.                     *)
(*                                                                         *)
(* The provider may lose a response, refuse, or answer with a page that is *)
(* not the new one.  SIGINT raises KeyboardInterrupt between any two       *)
(* steps, once: its handler ignores the signal from then on.               *)
(***************************************************************************)
EXTENDS Naturals, FiniteSets

CONSTANTS
  Colours,         \* bound: colour variants of the product
  Answers          \* how the provider may answer a create

AnswerKinds == {"new", "other_space", "elsewhere", "stale", "again", "again_other_space"}
ASSUME SandboxAssumption == Colours \in Nat /\ Answers \subseteq AnswerKinds

VARIABLES
  step,            \* where the command is
  execute,         \* --execute was given
  posted,          \* creates sent so far; the next one is under Requested
  answer,          \* the page the last create returned
  made,            \* pages this run made at the provider
  created, flagged, rejected,
  orphans,         \* creates whose marker is in possible_orphans
  prior,           \* created when the present create began
  rows,            \* what the stages end with
  signalled,       \* SIGINT was delivered
  temporary, evidence,
  printed,         \* page ids on stderr
  code             \* the exit code

pages == <<made, created, flagged, rejected, orphans>>
sandboxFiles == <<temporary, evidence>>
sandboxVars == <<step, execute, posted, answer, pages, prior, rows, signalled, sandboxFiles, printed, code>>
-----------------------------------------------------------------------------
(* Pages.  The n-th create makes page n, the product being page 1.         *)

Sandbox == 0              \* SANDBOX_PARENT_PAGE_ID
Foreign == Colours + 2    \* a page that was there before the run
Requested == IF posted <= 1 THEN Sandbox ELSE 1

View(id, parent, conflict, fresh) == [id |-> id, parent |-> parent, conflict |-> conflict, fresh |-> fresh]
NoPage == View(Foreign, Foreign, FALSE, FALSE)

\* What parse_page makes of the response, by the kind of answer.
PageOf(kind) ==
  LET n == posted IN
  CASE kind = "new" -> View(n, Requested, FALSE, TRUE)
    [] kind = "other_space" -> View(n, Requested, TRUE, TRUE)
    [] kind = "elsewhere" -> View(n, Foreign, FALSE, TRUE)
    [] kind = "stale" -> View(Foreign, Requested, FALSE, FALSE)
    [] kind = "again" -> View(Requested, Requested, FALSE, TRUE)
    [] kind = "again_other_space" -> View(Requested, Requested, TRUE, TRUE)

\* The evidence path: nothing, somebody's document, or the one of this run.
Absent == [by |-> "nobody"]
Theirs == [by |-> "others"]

NewKinds == {"new", "other_space", "elsewhere"}

Creating == {"post", "returned", "unmarked", "aligned", "confirm", "chain"}
InStages == {"target", "stage"} \cup Creating
Writing == {"temporary", "link"}
Publishing == Writing \cup {"finish", "report"}

Lists == [by |-> "run", created |-> created, flagged |-> flagged, rejected |-> rejected, orphans |-> orphans]
Proceed(label) == step' = label

\* Raise out of the stage: its row is FAILED and the later stages do not run.
StageFails ==
  /\ rows' = "FAILED"
  /\ Proceed("finish")
-----------------------------------------------------------------------------
(* Before the stages.                                                      *)

\* open_evidence: nothing at the path, and at most a file left at the temporary.
MayOpenEvidence == evidence = Absent /\ temporary # "dir"

\* argv, environment, git, control ids and the evidence path: any of them may
\* refuse, and open_evidence refuses a file or a strange temporary that is there.
Preflight ==
  /\ step = "start"
  /\ \/ MayOpenEvidence /\ Proceed("target") /\ UNCHANGED code
     \/ Proceed("exit") /\ code' = 64
  /\ UNCHANGED <<execute, posted, answer, pages, prior, rows, signalled, sandboxFiles, printed>>

\* _read_target and target_ok; a dry run stops here.
ReadTarget ==
  /\ step = "target"
  /\ \/ rows' = "api_error" /\ Proceed("finish")
     \/ rows' = "BLOCKED" /\ Proceed("finish")
     \/ rows' = "planned" /\ Proceed(IF execute THEN "stage" ELSE "finish")
  /\ UNCHANGED <<execute, posted, answer, pages, prior, signalled, sandboxFiles, printed, code>>

\* The fixture build of the stage, or of the variants after the first create.
RunStage ==
  /\ step = "stage"
  /\ \/ posted <= 1 /\ StageFails
     \/ UNCHANGED rows /\ Proceed(IF posted > Colours THEN "finish" ELSE "post")
  /\ UNCHANGED <<execute, posted, answer, pages, prior, signalled, sandboxFiles, printed, code>>
-----------------------------------------------------------------------------
(* create_under.                                                           *)

\* The marker is written before the request; an exception leaves it there.
CreateChildPage ==
  /\ step = "post"
  /\ posted' = posted + 1 /\ prior' = created
  /\ \/ \E lost \in BOOLEAN :
          /\ made' = IF lost THEN made \cup {posted + 1} ELSE made
          /\ orphans' = orphans \cup {posted + 1}
          /\ StageFails
          /\ UNCHANGED <<answer, created>>
     \/ \E kind \in Answers :
          LET page == PageOf(kind)' IN
          /\ answer' = page
          /\ made' = IF kind \in NewKinds THEN made \cup {page.id} ELSE made
          /\ orphans' = orphans \cup {posted + 1}
          /\ created' = IF page.conflict THEN created ELSE created \cup {page.id}
          /\ Proceed("returned") /\ UNCHANGED rows
  /\ UNCHANGED <<execute, flagged, rejected, signalled, sandboxFiles, printed, code>>

RemoveMarker ==
  /\ step = "returned"
  /\ orphans' = orphans \ {posted}
  /\ Proceed("unmarked")
  /\ UNCHANGED <<execute, posted, answer, made, created, flagged, rejected, prior, rows, signalled,
                 sandboxFiles, printed, code>>

\* The evidence id is the page the create returned; a page of another space is
\* flagged, unless it is an earlier page of this run, which is dropped.
Align ==
  /\ step = "unmarked"
  /\ LET earlier == answer.conflict /\ answer.id \in prior IN
       /\ created' = IF earlier THEN created \ {answer.id} ELSE created \cup {answer.id}
       /\ flagged' = IF answer.conflict /\ ~earlier THEN flagged \cup {answer.id} ELSE flagged
  /\ Proceed("aligned")
  /\ UNCHANGED <<execute, posted, answer, made, rejected, orphans, prior, rows, signalled,
                 sandboxFiles, printed, code>>

Reject(id) == created' = created \ {id} /\ rejected' = rejected \cup {id} /\ UNCHANGED flagged
Flag(id) == flagged' = flagged \cup {id} /\ UNCHANGED <<created, rejected>>

\* The checks on the returned page, in the order of the code.
CheckReturned ==
  /\ step = "aligned"
  /\ LET id == answer.id IN
       \/ id = Sandbox /\ created' = created \ {id} /\ UNCHANGED <<flagged, rejected>> /\ StageFails
       \/ id = Requested /\ id # Sandbox /\ Flag(id) /\ StageFails
       \/ /\ id \notin {Sandbox, Requested}
          /\ \/ id \in prior \cap created /\ UNCHANGED <<created, flagged, rejected>> /\ StageFails
             \/ /\ id \notin prior \cap created
                /\ \/ answer.conflict /\ Flag(id) /\ StageFails
                   \/ /\ ~answer.conflict /\ answer.parent # Requested
                      /\ UNCHANGED <<created, flagged, rejected>> /\ StageFails
                   \/ /\ ~answer.conflict /\ answer.parent = Requested /\ ~answer.fresh
                      /\ Reject(id) /\ StageFails
                   \/ /\ ~answer.conflict /\ answer.parent = Requested /\ answer.fresh
                      /\ Proceed("confirm") /\ UNCHANGED <<created, flagged, rejected, rows>>
  /\ UNCHANGED <<execute, posted, answer, made, orphans, prior, signalled, sandboxFiles, printed, code>>

\* The read back: it may fail, differ, be archived or of another space, or be
\* older than the run.
ConfirmPage ==
  /\ step = "confirm"
  /\ \/ Proceed("chain") /\ UNCHANGED <<created, flagged, rejected, rows>>
     \/ UNCHANGED <<created, flagged, rejected>> /\ StageFails
     \/ Flag(answer.id) /\ StageFails
     \/ Reject(answer.id) /\ StageFails
  /\ UNCHANGED <<execute, posted, answer, made, orphans, prior, signalled, sandboxFiles, printed, code>>

\* chain_reaches_sandbox.
ReachSandbox ==
  /\ step = "chain"
  /\ \/ Proceed("stage") /\ UNCHANGED <<created, flagged, rejected, rows>>
     \/ UNCHANGED <<created, flagged, rejected>> /\ StageFails
     \/ Flag(answer.id) /\ StageFails
  /\ UNCHANGED <<execute, posted, answer, made, orphans, prior, signalled, sandboxFiles, printed, code>>
-----------------------------------------------------------------------------
(* The evidence file and the end of the run.                               *)

FinishRun ==
  /\ step = "finish"
  /\ code' = IF signalled \/ rows \in {"FAILED", "api_error", "INTERRUPTED"} THEN 69
             ELSE IF rows = "BLOCKED" THEN 65 ELSE 0
  /\ Proceed("temporary")
  /\ UNCHANGED <<execute, posted, answer, pages, prior, rows, signalled, sandboxFiles, printed>>

\* A regular file left at the temporary path goes; anything else stays.
Discarded == IF temporary = "dir" THEN "dir" ELSE "absent"

\* commit_evidence raises; its finally clause removes the temporary file.
CommitFails == code' = 69 /\ temporary' = Discarded /\ Proceed("fail")

WriteTemporary ==
  /\ step = "temporary"
  /\ \/ CommitFails
     \/ Discarded = "absent" /\ temporary' = "whole" /\ Proceed("link") /\ UNCHANGED code
  /\ UNCHANGED <<execute, posted, answer, pages, prior, rows, signalled, evidence, printed>>

\* link(2) fails when the destination has appeared.
LinkEvidence ==
  /\ step = "link"
  /\ \/ CommitFails /\ UNCHANGED evidence
     \/ evidence = Absent /\ evidence' = Lists /\ temporary' = "absent" /\ Proceed("report") /\ UNCHANGED code
  /\ UNCHANGED <<execute, posted, answer, pages, prior, rows, signalled, printed>>

\* _emit prints the path; an unusable stdout is an error.
Report ==
  /\ step = "report"
  /\ Proceed("exit")
  /\ \/ UNCHANGED code
     \/ code' = 69
  /\ UNCHANGED <<execute, posted, answer, pages, prior, rows, signalled, sandboxFiles, printed>>

\* _failure_text and _with_ids name the created pages.
FailRun ==
  /\ step = "fail"
  /\ printed' = created /\ Proceed("exit")
  /\ UNCHANGED <<execute, posted, answer, pages, prior, rows, signalled, sandboxFiles, code>>
-----------------------------------------------------------------------------
(* The signal and the file system.                                         *)

\* A plausible slip: a signal while the evidence is written ends the run.
Interrupt_Quits ==
  /\ ~signalled /\ step \in InStages \cup Publishing
  /\ signalled' = TRUE /\ code' = 69
  /\ temporary' = IF step \in Writing THEN Discarded ELSE temporary
  /\ \/ step \in InStages /\ rows' = "INTERRUPTED" /\ Proceed("finish")
     \/ step \notin InStages /\ UNCHANGED rows /\ Proceed("exit")
  /\ UNCHANGED <<execute, posted, answer, pages, prior, evidence, printed>>

\* In a stage the row is INTERRUPTED and the run finishes; after that the
\* temporary file goes and _publish_held writes the evidence again, unless a
\* complete file is there, when it prints the ids instead.
Interrupt ==
  /\ ~signalled /\ step \in InStages \cup Publishing
  /\ signalled' = TRUE /\ code' = 69
  /\ temporary' = IF step \in Writing THEN Discarded ELSE temporary
  /\ \/ step \in InStages /\ rows' = "INTERRUPTED" /\ Proceed("finish")
     \/ step \notin InStages /\ UNCHANGED rows /\ Proceed(IF evidence = Absent THEN "finish" ELSE "fail")
  /\ UNCHANGED <<execute, posted, answer, pages, prior, evidence, printed>>

\* Somebody writes a complete document at the evidence path, or leaves something
\* that is not a file at the temporary one.
OthersWrite ==
  /\ step # "exit"
  /\ \/ evidence = Absent /\ evidence' = Theirs /\ UNCHANGED temporary
     \/ temporary = "absent" /\ temporary' = "dir" /\ UNCHANGED evidence
  /\ UNCHANGED <<step, execute, posted, answer, pages, prior, rows, signalled, printed, code>>

SandboxInit ==
  /\ step = "start" /\ execute \in BOOLEAN
  /\ posted = 0 /\ answer = NoPage
  /\ made = {} /\ created = {} /\ flagged = {} /\ rejected = {} /\ orphans = {} /\ prior = {}
  /\ rows = "planned" /\ signalled = FALSE
  /\ temporary \in {"absent", "file", "dir"} /\ evidence \in {Absent, Theirs}
  /\ printed = {} /\ code = 0

RunEnded == step = "exit" /\ UNCHANGED sandboxVars

SandboxNext ==
  \/ Preflight \/ ReadTarget \/ RunStage
  \/ CreateChildPage \/ RemoveMarker \/ Align \/ CheckReturned \/ ConfirmPage \/ ReachSandbox
  \/ FinishRun \/ WriteTemporary \/ LinkEvidence \/ Report \/ FailRun
  \/ Interrupt \/ OthersWrite \/ RunEnded

SandboxSpec == SandboxInit /\ [][SandboxNext]_sandboxVars
-----------------------------------------------------------------------------
(* Properties.                                                             *)

Ours == evidence.by = "run"
Named == IF Ours THEN evidence.created \cup evidence.flagged \cup evidence.rejected \cup evidence.orphans
         ELSE printed

\* When the command has ended, every page it made is named in the evidence, or
\* on stderr when the evidence could not be written; and exit code 0 of an
\* executed run means that every page of the plan was made and verified, and that
\* the evidence of this run names exactly those.  Three things lose a page: no
\* evidence for a create without an answer or for a rejected page, and a signal
\* just before a page of another space is recorded.
PagesAccountedFor ==
  step = "exit" =>
    /\ \A id \in made : \/ id \in Named
                        \/ ~Ours /\ id \in orphans \cup rejected \cup flagged
                        \/ signalled /\ answer.id = id /\ answer.conflict
    /\ code = 0 /\ execute =>
         /\ Ours /\ evidence.created = 1 .. (Colours + 1) /\ made = evidence.created
         /\ evidence.flagged = {} /\ evidence.rejected = {} /\ evidence.orphans = {}
=============================================================================
