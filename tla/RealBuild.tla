------------------------------ MODULE RealBuild ------------------------------
(***************************************************************************)
(* The operator-assisted private build: cli/real_draft.py prepares and     *)
(* claims one build job, RealNotionProductBuilder creates the product in   *)
(* the operator's Notion workspace object by object, and the run writes    *)
(* its manifest and releases the job.                                      *)
(*                                                                         *)
(* Every object has a key of its own and goes through                      *)
(* SqlDraftEffects.execute (module DraftEffects has its transactions); a   *)
(* run that is repeated starts from the first key and finds what is there. *)
(* The lease lasts two hours and is not renewed, so a slow run can be      *)
(* overtaken by another one at any step.                                   *)
(***************************************************************************)
EXTENDS Naturals, Sequences, FiniteSets

CONSTANTS
  Runs,          \* processes that run the CLI, one invocation after another
  Themes,        \* the colour variants, in order
  Sources,       \* the shared databases, in order; one hub for each
  HubViews, Guides, HomeViews,   \* the views and guides of a hub, the views of a home page
  NoRun,
  MaxAttempts,   \* the job's max_attempts
  Alterable,     \* bound: the kinds of objects others change
  MaxMishaps     \* bound: leases that run out, answers that are lost, reads that
                 \* fail, writes that are refused, deaths, changes by others

ASSUME NoRunAssumption == NoRun \notin Runs

VARIABLES
  job,           \* the build job's row
  at,            \* the next step of each run
  pos,           \* the position of each run in the list of keys
  latest,        \* per key, the state of its newest effect_attempts row
  objects,       \* per key, how many objects the provider has
  late,          \* the keys with a write the provider may still apply
  altered,       \* the keys whose object others have changed or trashed
  doubtful,      \* history: the keys a run left without knowing what its write did
  manifest,      \* the evidence file
  mishaps

runVars == <<at, pos>>
provider == <<objects, late, altered>>
vars == <<job, runVars, latest, provider, manifest, doubtful, mishaps>>
-----------------------------------------------------------------------------
(* The keys, in the order the builder goes through them.                   *)

Key(theme, kind, source, parent) == [theme |-> theme, kind |-> kind, source |-> source, parent |-> parent]

\* The lists one after the other.
Joined(lists) ==
  LET upTo[n \in 0 .. Len(lists)] == IF n = 0 THEN << >> ELSE upTo[n - 1] \o lists[n]
  IN  upTo[Len(lists)]

\* A database and its example row for each source.
SourceKeys(v) ==
  LET Of(s) == <<Key(v, "source", s, "home"), Key(v, "example", s, "source")>>
  IN  Joined([i \in DOMAIN Sources |-> Of(Sources[i])])

NotificationKeys(v) ==
  <<Key(v, "notification", "-", "home"), Key(v, "notification_row", "-", "notification"),
    Key(v, "dashboard", "-", "home")>>

\* A hub page with its linked views and guides for each source.
HubKeys(v) ==
  LET Of(s) == <<Key(v, "hub", s, "home")>>
               \o [i \in DOMAIN (HubViews \o Guides) |-> Key(v, (HubViews \o Guides)[i], s, "hub")]
  IN  Joined([i \in DOMAIN Sources |-> Of(Sources[i])])

HomeKeys(v) ==
  <<Key(v, "navigation", "-", "home")>> \o [i \in DOMAIN HomeViews |-> Key(v, HomeViews[i], "-", "home")]

VariantKeys(v) ==
  <<Key(v, "home", "-", "workspace")>> \o SourceKeys(v) \o NotificationKeys(v) \o HubKeys(v) \o HomeKeys(v)

BuildKeys ==
  <<Key("-", "workspace", "-", "none")>> \o Joined([i \in DOMAIN Themes |-> VariantKeys(Themes[i])])

\* From here on a key is its position in the list.
Keys == DOMAIN BuildKeys
Folder == 1

IsParent(p, k) ==
  LET child == BuildKeys[k]
      up == BuildKeys[p]
  IN  /\ up.kind = child.parent
      /\ up.theme \in {child.theme, "-"}
      /\ up.source \in {child.source, "-"}

\* A key comes after the key of the object it is placed in.
ASSUME KeysInOrder ==
  /\ Len(BuildKeys) \in Nat \ {0} /\ Keys = 1..Len(BuildKeys)
  /\ \A k \in Keys \ {Folder} : \E p \in 1..(k - 1) : IsParent(p, k)

\* The key of the object that k's object is placed in.
ParentOf(k) == IF k = Folder THEN Folder ELSE CHOOSE p \in 1..(k - 1) : IsParent(p, k)

\* _scope reads every ancestor up to the root of the run's authority: home
\* page, hub or database, and the object itself, in the folder.
Ancestry(k) == {k, ParentOf(k), ParentOf(ParentOf(k)), Folder}
InScope(k) == altered = {} \/ Ancestry(k) \cap altered = {}

\* The one object of a key is found by its id or its name, as it was written.
Found(k) == objects[k] = 1 /\ InScope(k)
-----------------------------------------------------------------------------
Init ==
  /\ job = [status |-> "NONE", owner |-> NoRun, live |-> FALSE, attempt |-> 0]
  /\ at = [r \in Runs |-> "idle"]
  /\ pos = [r \in Runs |-> 1]
  /\ latest = [k \in Keys |-> "NONE"]
  /\ objects = [k \in Keys |-> 0]
  /\ late = {} /\ altered = {}
  /\ manifest = "none" /\ doubtful = {}
  /\ mishaps = 0

Goto(r, label) == at' = [at EXCEPT ![r] = label]
Ends(r) == Goto(r, "idle") /\ pos' = [pos EXCEPT ![r] = 1]
Holds(r) == job.status = "RUNNING" /\ job.owner = r /\ job.live
Here(r) == pos[r]

Mishap == mishaps < MaxMishaps /\ mishaps' = mishaps + 1
-----------------------------------------------------------------------------
(* The command.                                                            *)

\* What preflight admits: the approved spec, run id and head; any other
\* invocation changes nothing.  prepare_run then inserts the lineage rows and
\* the job, or finds the ones of an earlier run with the same evidence, and in
\* the same transaction claim_build_job takes a READY job or one whose lease
\* has run out.
Claimable == job.status \in {"NONE", "READY"} \/ (job.status = "RUNNING" /\ ~job.live)

PrepareAndClaim(r) ==
  /\ at[r] = "idle" /\ Claimable
  /\ job' = [job EXCEPT !.status = "RUNNING", !.owner = r, !.live = TRUE]
  /\ Goto(r, "reserve")
  /\ UNCHANGED <<pos, latest, provider, manifest, doubtful, mishaps>>
-----------------------------------------------------------------------------
(* execute for the key at hand, in five steps.                             *)

\* A plausible slip: only a fresh reservation may be written.
MayCreate_Fresh(k) == latest[k] = "NONE"

\* A fresh reservation, or one whose write is known not to have happened.
MayCreate(k) == latest[k] \in {"NONE", "ABSENT"}

\* _job in the first transaction: without the lease the run is over.
Reserve(r) ==
  /\ at[r] = "reserve"
  /\ LET k == Here(r) IN
       IF ~Holds(r) THEN Goto(r, "finally") /\ UNCHANGED latest
       ELSE IF MayCreate(k)
            THEN Goto(r, "create") /\ latest' = [latest EXCEPT ![k] = "UNKNOWN"]
       ELSE Goto(r, "look") /\ UNCHANGED latest
  /\ UNCHANGED <<job, pos, provider, manifest, doubtful, mishaps>>

\* reconcile, by the known id or by name: the object reads back as it was
\* written, or a DraftRunRefused or DraftEffectUncertain ends the key.
Look(r) ==
  /\ at[r] = "look"
  /\ LET k == Here(r) IN
       Goto(r, IF Found(k) THEN "confirm" ELSE "unknown")
  /\ UNCHANGED <<job, pos, latest, provider, manifest, doubtful, mishaps>>

ReadFails(r) ==
  /\ at[r] \in {"look", "create"} /\ Mishap
  /\ Goto(r, IF at[r] = "create" THEN "absent" ELSE "unknown")
  /\ UNCHANGED <<job, pos, latest, provider, manifest, doubtful>>

\* When nothing is found, the scope of the parent and the lease are read before
\* the write is sent.
Create(r) ==
  /\ at[r] = "create"
  /\ LET k == Here(r) IN
       Goto(r, IF Found(k) THEN "confirm"
              ELSE IF Holds(r) /\ (k = Folder \/ InScope(ParentOf(k))) THEN "send" ELSE "absent")
  /\ UNCHANGED <<job, pos, latest, provider, manifest, doubtful, mishaps>>

Send(r) ==
  /\ at[r] = "send"
  /\ objects' = [objects EXCEPT ![Here(r)] = @ + 1]
  /\ Goto(r, "accept")
  /\ UNCHANGED <<job, pos, latest, late, altered, manifest, doubtful, mishaps>>

\* A 4xx answer: DraftRunRefused before create returned.
SendRefused(r) ==
  /\ at[r] = "send" /\ Mishap
  /\ Goto(r, "absent")
  /\ UNCHANGED <<job, pos, latest, provider, manifest, doubtful>>

\* A timeout or a 5xx: the write may be applied now, later or never.
SendLost(r) ==
  /\ at[r] = "send" /\ Mishap
  /\ Goto(r, "unknown")
  /\ late' = late \cup {Here(r)} /\ doubtful' = doubtful \cup {Here(r)}
  /\ UNCHANGED <<job, pos, latest, objects, altered, manifest>>

LateWrite(k) ==
  /\ k \in late
  /\ late' = late \ {k} /\ objects' = [objects EXCEPT ![k] = @ + 1]
  /\ UNCHANGED <<job, runVars, latest, altered, manifest, doubtful, mishaps>>

\* The accepted id is recorded whoever holds the lease (the row stays UNKNOWN),
\* then the object is read back under the lease.
Accept(r) ==
  /\ at[r] = "accept"
  /\ Goto(r, IF Holds(r) /\ InScope(Here(r)) THEN "confirm" ELSE "unknown")
  /\ UNCHANGED <<job, pos, latest, provider, manifest, doubtful, mishaps>>

\* A plausible slip: the builder goes on after an uncertain effect.
RecordFailure_GoesOn(r) ==
  /\ at[r] \in {"absent", "unknown"}
  /\ LET k == Here(r) IN
       latest' = IF Holds(r) /\ latest[k] # "CONFIRMED"
                 THEN [latest EXCEPT ![k] = IF at[r] = "absent" THEN "ABSENT" ELSE "UNKNOWN"]
                 ELSE latest
  /\ pos' = [pos EXCEPT ![r] = IF @ < Len(BuildKeys) THEN @ + 1 ELSE @]
  /\ Goto(r, IF pos[r] < Len(BuildKeys) THEN "reserve" ELSE "manifest")
  /\ UNCHANGED <<job, provider, manifest, doubtful, mishaps>>

\* The except branch, under the lease; the exception ends the build.
RecordFailure(r) ==
  /\ at[r] \in {"absent", "unknown"}
  /\ LET k == Here(r) IN
       latest' = IF Holds(r) /\ latest[k] # "CONFIRMED"
                 THEN [latest EXCEPT ![k] = IF at[r] = "absent" THEN "ABSENT" ELSE "UNKNOWN"]
                 ELSE latest
  /\ doubtful' = IF Holds(r) THEN doubtful ELSE doubtful \cup {Here(r)}
  /\ Goto(r, "finally")
  /\ UNCHANGED <<job, pos, provider, manifest, mishaps>>

\* A plausible slip: the list ends one key early.
AfterKey_SkipsLast(r) ==
  IF BuildKeys[Here(r)].kind = "notification_row" THEN "check"
  ELSE IF pos[r] + 1 = Len(BuildKeys) THEN "manifest" ELSE "reserve"

\* The last transaction confirms the key, and the builder goes to the next.
AfterKey(r) ==
  IF BuildKeys[Here(r)].kind = "notification_row" THEN "check"
  ELSE IF pos[r] = Len(BuildKeys) THEN "manifest" ELSE "reserve"

Confirm(r) ==
  /\ at[r] = "confirm"
  /\ LET k == Here(r) IN
       IF Holds(r)
       THEN /\ latest' = [latest EXCEPT ![k] = "CONFIRMED"]
            /\ Goto(r, AfterKey(r))
            /\ pos' = [pos EXCEPT ![r] = IF @ < Len(BuildKeys) THEN @ + 1 ELSE @]
       ELSE Goto(r, "finally") /\ UNCHANGED <<pos, latest>>
  /\ UNCHANGED <<job, provider, manifest, doubtful, mishaps>>

\* The single notification row and its rollups against the example rows.
NotificationSound(theme) ==
  \A k \in Keys :
    BuildKeys[k].theme = theme /\ BuildKeys[k].kind \in {"notification_row", "example"} => InScope(k)

CheckNotification(r) ==
  /\ at[r] = "check"
  /\ Goto(r, IF NotificationSound(BuildKeys[Here(r)].theme) THEN "reserve" ELSE "finally")
  /\ UNCHANGED <<job, pos, latest, provider, manifest, doubtful, mishaps>>
-----------------------------------------------------------------------------
(* The end of a run.                                                       *)

\* The file is opened for exclusive creation under a new name, written and
\* forced to the disk before the job is released.
OpenManifest(r) ==
  /\ at[r] = "manifest"
  /\ manifest' = IF manifest = "whole" THEN "whole" ELSE "torn"
  /\ Goto(r, "fsync")
  /\ UNCHANGED <<job, pos, latest, provider, doubtful, mishaps>>

SyncManifest(r) ==
  /\ at[r] = "fsync"
  /\ manifest' = "whole"
  /\ Goto(r, "release")
  /\ UNCHANGED <<job, pos, latest, provider, doubtful, mishaps>>

\* A plausible slip: the release does not ask who owns the lease.
Release_Unchecked(r) ==
  /\ at[r] = "release"
  /\ job' = [job EXCEPT !.status = "SUCCEEDED", !.owner = NoRun, !.live = FALSE]
  /\ Goto(r, "finally")
  /\ UNCHANGED <<pos, latest, provider, manifest, doubtful, mishaps>>

\* release_lease asks for the owner's name only, not for an unexpired lease.
Release(r) ==
  /\ at[r] = "release"
  /\ job' = IF job.owner = r
            THEN [job EXCEPT !.status = "SUCCEEDED", !.owner = NoRun, !.live = FALSE] ELSE job
  /\ Goto(r, "finally")
  /\ UNCHANGED <<pos, latest, provider, manifest, doubtful, mishaps>>

\* finally: whatever went wrong, the next run need not wait for the lease.
Finally(r) ==
  /\ at[r] = "finally"
  /\ job' = IF job.status = "RUNNING" /\ job.owner = r THEN [job EXCEPT !.live = FALSE] ELSE job
  /\ Ends(r)
  /\ UNCHANGED <<latest, provider, manifest, doubtful, mishaps>>

Dies(r) ==
  /\ at[r] # "idle" /\ Mishap
  /\ doubtful' = IF at[r] \in {"create", "send", "absent"} THEN doubtful \cup {Here(r)} ELSE doubtful
  /\ Ends(r)
  /\ UNCHANGED <<job, latest, provider, manifest>>
-----------------------------------------------------------------------------
(* Everyone else.                                                          *)

LeaseExpires ==
  /\ job.live /\ Mishap
  /\ job' = [job EXCEPT !.live = FALSE]
  /\ UNCHANGED <<runVars, latest, provider, manifest, doubtful>>

\* The lease of a run that is gone runs out by itself.
LeaseLapses ==
  /\ job.live /\ (job.owner \in Runs => at[job.owner] = "idle")
  /\ job' = [job EXCEPT !.live = FALSE]
  /\ UNCHANGED <<runVars, latest, provider, manifest, doubtful, mishaps>>

\* The scheduler counts an expired lease as a failed attempt and puts the job
\* back to READY, or gives it up.
SchedulerReclaims ==
  /\ job.status = "RUNNING" /\ ~job.live
  /\ job' = [job EXCEPT !.attempt = @ + 1, !.owner = NoRun,
                        !.status = IF job.attempt + 1 >= MaxAttempts THEN "TERMINAL_FAILURE" ELSE "READY"]
  /\ UNCHANGED <<runVars, latest, provider, manifest, doubtful, mishaps>>

\* A worker that claims the READY job has no implementation of its agent.
WorkerFails ==
  /\ job.status = "READY"
  /\ job' = [job EXCEPT !.status = "FAILED"]
  /\ UNCHANGED <<runVars, latest, provider, manifest, doubtful, mishaps>>

\* The owner of the workspace changes or trashes an object, or restores it.
Alter(k) ==
  /\ BuildKeys[k].kind \in Alterable /\ objects[k] > 0 /\ Mishap
  /\ altered' = altered \cup {k}
  /\ UNCHANGED <<job, runVars, latest, objects, late, manifest, doubtful>>

Restore(k) ==
  /\ k \in altered
  /\ altered' = altered \ {k}
  /\ UNCHANGED <<job, runVars, latest, objects, late, manifest, doubtful, mishaps>>

Step(r) ==
  \/ PrepareAndClaim(r) \/ Reserve(r) \/ Look(r) \/ Create(r) \/ Send(r) \/ Accept(r) \/ RecordFailure(r)
  \/ Confirm(r) \/ CheckNotification(r) \/ OpenManifest(r) \/ SyncManifest(r) \/ Release(r) \/ Finally(r)

Trouble(r) == ReadFails(r) \/ SendRefused(r) \/ SendLost(r) \/ Dies(r)

Next ==
  \/ \E r \in Runs : Step(r) \/ Trouble(r)
  \/ \E k \in Keys : LateWrite(k) \/ Alter(k) \/ Restore(k)
  \/ LeaseExpires \/ LeaseLapses \/ SchedulerReclaims \/ WorkerFails

Spec == Init /\ [][Next]_vars

\* A run goes on while its process lives, one operator keeps running the
\* command, leases of dead runs lapse and what was altered is restored.
FairSpec ==
  /\ Spec /\ WF_vars(LeaseLapses)
  /\ \A r \in Runs : WF_vars(Step(r))
  /\ WF_vars(\E k \in Keys : Restore(k))
-----------------------------------------------------------------------------
(* Properties.                                                             *)

Confirmed(k) == latest[k] = "CONFIRMED"

\* No object is ever placed anywhere but in an object the run has confirmed,
\* and nothing is created twice, however the runs overtake each other
\* (_effect before the next key, _scope of the parent).
Rooted ==
  \A k \in Keys :
    /\ objects[k] + (IF k \in late THEN 1 ELSE 0) <= 1
    /\ objects[k] = 1 /\ k # Folder => Confirmed(ParentOf(k))

\* A manifest, even a torn one, exists only when every key is confirmed, and a
\* job that SUCCEEDED has a whole one (build returns before path.open).
ManifestBacked ==
  /\ manifest # "none" => \A k \in Keys : Confirmed(k)
  /\ job.status = "SUCCEEDED" => manifest = "whole"

\* A run that has been overtaken leaves the job of its successor alone: only
\* the owner of a lease ends it with a verdict, and a finished job stays so.
OnlyOwnerEnds ==
  [][/\ job'.status = "SUCCEEDED" /\ job.status # "SUCCEEDED" =>
          \E r \in Runs : at[r] = "release" /\ job.owner = r
     /\ job.status = "SUCCEEDED" => job' = job]_vars

\* The build comes to its end, however often runs fail, unless the scheduler or
\* a worker has taken the job away or a run was cut off around its write and
\* the object never appears: that key is not written again.
TakenAway == job.status \in {"FAILED", "TERMINAL_FAILURE"}
BuildEnds ==
  \/ <>(job.status = "SUCCEEDED")
  \/ <>[]TakenAway
  \/ <>[](\E k \in doubtful : objects[k] = 0)
=============================================================================
