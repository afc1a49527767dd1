-------------------------- MODULE RealBuildProofs ---------------------------
(***************************************************************************)
(* Proofs about builds that write to the real provider.  RealBuild: runs   *)
(* that overtake each other, lose answers and die write every object at    *)
(* most once and only into a confirmed parent, and a manifest stands for a *)
(* complete build.  SandboxRun: no page that the sandbox command made is   *)
(* lost from its report.  The two share no state.                          *)
(***************************************************************************)
EXTENDS RealBuild, SandboxRun, Integers, TLAPS

\* How long, in seconds, a prover may work on a step.
USE SMTT(30), ZenonT(30)

-----------------------------------------------------------------------------
(* RealBuild.                                                              *)

Steps == {"idle", "reserve", "look", "create", "send", "absent", "unknown", "accept", "confirm",
          "check", "manifest", "fsync", "release", "finally"}

JobRows == [status : {"NONE", "READY", "RUNNING", "SUCCEEDED", "FAILED", "TERMINAL_FAILURE"},
            owner : Runs \cup {NoRun}, live : BOOLEAN, attempt : Nat]

TypeInv ==
  /\ job \in JobRows
  /\ at \in [Runs -> Steps]
  /\ pos \in [Runs -> Keys]
  /\ latest \in [Keys -> {"NONE", "UNKNOWN", "ABSENT", "CONFIRMED"}]
  /\ objects \in [Keys -> {0, 1}]
  /\ late \subseteq Keys
  /\ manifest \in {"none", "torn", "whole"}

ConfirmedBelow(k) == \A j \in Keys : j < k => Confirmed(j)

\* r has reserved k for a write and has not sent it.
Writer(r, k) == pos[r] = k /\ at[r] \in {"create", "send", "absent"}

\* A run has confirmed the keys before its own; one that writes the manifest
\* has confirmed them all.
Progress ==
  \A r \in Runs :
    /\ ConfirmedBelow(pos[r])
    /\ at[r] \in {"manifest", "fsync", "release"} => \A k \in Keys : Confirmed(k)
    /\ at[r] = "release" => manifest = "whole"

\* The newest attempt row is the lock of its key: while a run may still write,
\* it is neither missing nor ABSENT, nobody else may write and there is nothing
\* yet; and a row that allows a write says the truth.
OneWriter ==
  \A k \in Keys :
    /\ latest[k] \in {"NONE", "ABSENT"} => objects[k] = 0 /\ k \notin late
    /\ k \in late => objects[k] = 0
    /\ k \in late \/ objects[k] = 1 => ConfirmedBelow(k)
    /\ \A r \in Runs : Writer(r, k) =>
         /\ latest[k] \notin {"NONE", "ABSENT"} /\ objects[k] = 0 /\ k \notin late
         /\ \A q \in Runs : Writer(q, k) => q = r

Ended == job.status = "SUCCEEDED" => job.owner = NoRun /\ ~job.live

IInv == TypeInv /\ Progress /\ OneWriter /\ Ended /\ ManifestBacked

\* Before the first run.
LEMMA InitIInv == Init => IInv
  BY KeysInOrder DEF Init, IInv, TypeInv, Progress, OneWriter, Ended, ManifestBacked, ConfirmedBelow,
     Writer, Steps, Confirmed, JobRows

\* The list of keys is 1..n.
LEMMA KeyNumbers == Keys \subseteq Nat /\ Folder \in Keys
  BY KeysInOrder DEF Folder

\* A step by which a run only goes elsewhere, neither to a write it has not
\* reserved nor to the manifest, keeps the invariant.
LEMMA RunMoves ==
  ASSUME IInv, NEW r \in Runs, NEW x \in Steps \ {"manifest", "fsync", "release"}, Goto(r, x),
         x \in {"create", "send", "absent"} => at[r] \in {"create", "send", "absent"},
         UNCHANGED <<job, pos, latest, objects, late, manifest>>
  PROVE  IInv'
  <1> USE DEF IInv, Goto
  <1>1. TypeInv'
    BY DEF TypeInv
  <1>2. \A q \in Runs : /\ at'[q] \in {"manifest", "fsync", "release"} => at'[q] = at[q]
                        /\ \A k \in Keys : Writer(q, k)' => Writer(q, k)
    BY DEF TypeInv, Writer
  <1>3. \A k \in Keys : (ConfirmedBelow(k))' <=> ConfirmedBelow(k)
    BY DEF ConfirmedBelow, Confirmed
  <1>4. Progress'
    BY <1>2 DEF Progress, ConfirmedBelow, Confirmed
  <1>5. OneWriter'
    BY <1>2, <1>3 DEF OneWriter
  <1> QED
    BY <1>1, <1>4, <1>5 DEF Ended, ManifestBacked, Confirmed

\* The steps that change nothing but the run's own place.
LEMMA QuietKeeps ==
  ASSUME IInv, NEW r \in Runs,
         Look(r) \/ ReadFails(r) \/ Create(r) \/ SendRefused(r) \/ Accept(r) \/ CheckNotification(r)
  PROVE  IInv'
  <1>1. CASE Look(r)
    BY Zenon, <1>1, RunMoves DEF Look, provider, Steps, Goto
  <1>2. CASE ReadFails(r)
    BY Zenon, <1>2, RunMoves DEF ReadFails, provider, Steps, Goto
  <1>3. CASE Create(r)
    BY Zenon, <1>3, RunMoves DEF Create, provider, Steps, Goto
  <1>4. CASE SendRefused(r)
    BY Zenon, <1>4, RunMoves DEF SendRefused, provider, Steps, Goto
  <1>5. CASE Accept(r)
    BY Zenon, <1>5, RunMoves DEF Accept, provider, Steps, Goto
  <1>6. CASE CheckNotification(r)
    BY Zenon, <1>6, RunMoves DEF CheckNotification, provider, Steps, Goto
  <1> QED
    BY <1>1, <1>2, <1>3, <1>4, <1>5, <1>6

\* What the owner of a lease and the others do to the job keeps the invariant.
LEMMA JobKeeps ==
  ASSUME IInv,
         \/ LeaseExpires \/ LeaseLapses \/ SchedulerReclaims \/ WorkerFails
         \/ \E k \in Keys : Alter(k) \/ Restore(k)
  PROVE  IInv'
  <1>1. UNCHANGED <<at, pos, latest, objects, late, manifest>>
    BY DEF LeaseExpires, LeaseLapses, SchedulerReclaims, WorkerFails, Alter, Restore, runVars, provider
  <1>2. Progress' /\ OneWriter'
    BY <1>1 DEF IInv, Progress, OneWriter, ConfirmedBelow, Confirmed, Writer
  <1>3. job' \in JobRows
    <2>1. job \in JobRows
      BY DEF IInv, TypeInv
    <2>2. CASE SchedulerReclaims
      <3>1. job.attempt + 1 \in Nat
        BY <2>1 DEF JobRows
      <3>2. \A n \in Nat, s \in {"READY", "TERMINAL_FAILURE"} :
              [job EXCEPT !.attempt = n, !.owner = NoRun, !.status = s] \in JobRows
        BY Zenon, <2>1 DEF JobRows
      <3> QED
        BY Zenon, <2>2, <3>1, <3>2 DEF SchedulerReclaims
    <2> QED
      BY Zenon, <2>1, <2>2 DEF JobRows, LeaseExpires, LeaseLapses, WorkerFails, Alter, Restore
  <1>4. Ended' /\ (job'.status = "SUCCEEDED" => job.status = "SUCCEEDED")
    <2>1. job \in JobRows
      BY DEF IInv, TypeInv
    <2> QED
      BY Zenon, <2>1 DEF IInv, Ended, JobRows, LeaseExpires, LeaseLapses, SchedulerReclaims, WorkerFails,
         Alter, Restore
  <1>5. TypeInv' /\ ManifestBacked'
    BY <1>1, <1>3, <1>4 DEF IInv, TypeInv, ManifestBacked, Confirmed
  <1> QED
    BY <1>2, <1>4, <1>5 DEF IInv

\* A run that begins, or that ends in any way, keeps the invariant.
LEMMA EndKeeps ==
  ASSUME IInv, NEW r \in Runs, PrepareAndClaim(r) \/ Finally(r) \/ Dies(r)
  PROVE  IInv'
  <1> USE KeyNumbers
  <1>1. UNCHANGED <<latest, objects, late, manifest>>
    BY DEF PrepareAndClaim, Finally, Dies, provider
  <1>2. TypeInv' /\ Ended' /\ ManifestBacked'
    <2> USE DEF JobRows
    <2>1. CASE PrepareAndClaim(r)
      BY Zenon, <1>1, <2>1
      DEF IInv, TypeInv, Ended, ManifestBacked, Confirmed, PrepareAndClaim, Claimable, Goto, Steps
    <2>2. CASE Finally(r)
      BY Zenon, <1>1, <2>2
      DEF IInv, TypeInv, Ended, ManifestBacked, Confirmed, Finally, Ends, Goto, Steps, Folder
    <2>3. CASE Dies(r)
      BY <1>1, <2>3 DEF IInv, TypeInv, Ended, ManifestBacked, Confirmed, Dies, Ends, Goto, Steps, Folder
    <2> QED
      BY <2>1, <2>2, <2>3
  <1>3. \A q \in Runs : /\ at'[q] \in {"manifest", "fsync", "release"} => at'[q] = at[q]
                        /\ pos'[q] \in {pos[q], Folder}
                        /\ \A k \in Keys : Writer(q, k)' => Writer(q, k)
    BY DEF PrepareAndClaim, Finally, Dies, Ends, Goto, Writer, IInv, TypeInv, Folder
  <1>4. \A k \in Keys : (ConfirmedBelow(k))' <=> ConfirmedBelow(k)
    BY <1>1 DEF ConfirmedBelow, Confirmed
  <1>5. \A q \in Runs : (ConfirmedBelow(pos[q]))'
    <2> SUFFICES ASSUME NEW q \in Runs, NEW j \in Keys, j < pos'[q] PROVE Confirmed(j)'
      BY DEF ConfirmedBelow
    <2>1. j >= Folder
      BY KeysInOrder DEF Folder
    <2>2. pos'[q] # Folder
      BY <2>1
    <2>3. pos'[q] = pos[q]
      BY <1>3, <2>2
    <2> QED
      BY <1>1, <2>3 DEF IInv, Progress, ConfirmedBelow, Confirmed
  <1>6. Progress'
    BY <1>1, <1>3, <1>5 DEF IInv, Progress, Confirmed
  <1>7. OneWriter'
    BY <1>1, <1>3, <1>4 DEF IInv, OneWriter
  <1> QED
    BY <1>2, <1>6, <1>7 DEF IInv

\* _job and the unique key: the reservation makes r the only writer of its key.
LEMMA ReserveKeeps ==
  ASSUME IInv, NEW r \in Runs, Reserve(r)
  PROVE  IInv'
  <1>1. CASE ~(Holds(r) /\ MayCreate(pos[r]))
    <2>1. \E x \in {"finally", "look"} : Goto(r, x)
      BY <1>1 DEF Reserve, Here
    <2>2. UNCHANGED <<job, pos, latest, objects, late, manifest>>
      BY <1>1 DEF Reserve, Here, provider
    <2> QED
      BY <2>1, <2>2, RunMoves DEF Steps
  <1>2. CASE Holds(r) /\ MayCreate(pos[r])
    <2> DEFINE k == pos[r]
    <2>1. /\ k \in Keys /\ latest[k] \in {"NONE", "ABSENT"}
          /\ at' = [at EXCEPT ![r] = "create"] /\ latest' = [latest EXCEPT ![k] = "UNKNOWN"]
          /\ UNCHANGED <<job, pos, objects, late, manifest>>
      BY <1>2 DEF Reserve, Here, Goto, MayCreate, provider, IInv, TypeInv
    <2> HIDE DEF k
    <2>2. TypeInv'
      BY <2>1 DEF IInv, TypeInv, Steps
    <2>3. \A j \in Keys : Confirmed(j)' <=> Confirmed(j)
      BY <2>1 DEF Confirmed, IInv, TypeInv
    <2>4. \A j \in Keys : (ConfirmedBelow(j))' <=> ConfirmedBelow(j)
      BY <2>3 DEF ConfirmedBelow
    <2>5. Progress'
      BY <2>1, <2>3, <2>4 DEF IInv, TypeInv, Progress, ConfirmedBelow
    <2>6. objects[k] = 0 /\ k \notin late /\ \A q \in Runs : ~Writer(q, k)
      BY <2>1 DEF IInv, OneWriter
    <2>7. \A q \in Runs, j \in Keys : Writer(q, j)' => (q = r /\ j = k) \/ (j # k /\ Writer(q, j))
      BY <2>1, <2>6 DEF Writer, IInv, TypeInv, k
    <2>8. \A j \in Keys : j # k => latest'[j] = latest[j]
      BY <2>1 DEF IInv, TypeInv
    <2>9. latest'[k] = "UNKNOWN"
      BY <2>1 DEF IInv, TypeInv
    <2>10. OneWriter'
      BY <2>1, <2>4, <2>6, <2>7, <2>8, <2>9 DEF IInv, OneWriter
    <2> QED
      BY <2>1, <2>2, <2>3, <2>5, <2>10 DEF IInv, Ended, ManifestBacked
  <1> QED
    BY <1>1, <1>2

\* A write that is applied, now or later, makes the first object of its key.
LEMMA WriteKeeps ==
  ASSUME IInv, (\E r \in Runs : Send(r) \/ SendLost(r)) \/ \E k \in Keys : LateWrite(k)
  PROVE  IInv'
  <1>1. \A k \in Keys : (ConfirmedBelow(k))' <=> ConfirmedBelow(k)
    BY DEF ConfirmedBelow, Confirmed, Send, SendLost, LateWrite
  <1>2. UNCHANGED <<job, pos, latest, manifest>>
    BY DEF Send, SendLost, LateWrite, runVars
  <1>3. \A q \in Runs : /\ at'[q] \in {"manifest", "fsync", "release"} => at'[q] = at[q]
                        /\ \A k \in Keys : Writer(q, k)' => Writer(q, k)
    BY <1>2 DEF Send, SendLost, LateWrite, runVars, Goto, Writer, IInv, TypeInv
  <1>4. Progress' /\ Ended' /\ ManifestBacked'
    BY <1>2, <1>3 DEF IInv, Progress, Ended, ManifestBacked, ConfirmedBelow, Confirmed
  <1>5. ASSUME NEW r \in Runs, Send(r) PROVE TypeInv' /\ OneWriter'
    <2>1. PICK k \in Keys :
          /\ k = pos[r] /\ Writer(r, k) /\ objects' = [objects EXCEPT ![k] = @ + 1] /\ late' = late
          /\ at' = [at EXCEPT ![r] = "accept"]
      BY Zenon, <1>5 DEF Send, Here, Goto, Writer, IInv, TypeInv
    <2>2. objects[k] = 0 /\ k \notin late /\ ConfirmedBelow(k) /\ latest[k] \notin {"NONE", "ABSENT"}
      BY <2>1 DEF IInv, OneWriter, Progress
    <2>3. \A q \in Runs : ~Writer(q, k)'
      <3>1. ~Writer(r, k)'
        BY <2>1 DEF IInv, TypeInv, Writer
      <3>2. \A q \in Runs : Writer(q, k) => q = r
        BY <2>1 DEF IInv, OneWriter
      <3> QED
        BY <1>3, <3>1, <3>2
    <2>4. objects'[k] = 1 /\ \A j \in Keys : j # k => objects'[j] = objects[j]
      BY <2>1, <2>2 DEF IInv, TypeInv
    <2>5. TypeInv'
      BY <1>2, <2>1, <2>2 DEF IInv, TypeInv, Steps
    <2>6. OneWriter'
      BY <1>1, <1>2, <1>3, <2>1, <2>2, <2>3, <2>4 DEF IInv, OneWriter
    <2> QED
      BY <2>5, <2>6
  <1>6. ASSUME NEW r \in Runs, SendLost(r) PROVE TypeInv' /\ OneWriter'
    <2>1. PICK k \in Keys :
          /\ k = pos[r] /\ Writer(r, k) /\ objects' = objects /\ late' = late \cup {k}
          /\ at' = [at EXCEPT ![r] = "unknown"]
      BY <1>6 DEF SendLost, Here, Goto, Writer, IInv, TypeInv
    <2>2. objects[k] = 0 /\ k \notin late /\ ConfirmedBelow(k) /\ latest[k] \notin {"NONE", "ABSENT"}
      BY <2>1 DEF IInv, OneWriter, Progress
    <2>3. \A q \in Runs : ~Writer(q, k)'
      <3>1. ~Writer(r, k)'
        BY <2>1 DEF IInv, TypeInv, Writer
      <3>2. \A q \in Runs : Writer(q, k) => q = r
        BY <2>1 DEF IInv, OneWriter
      <3> QED
        BY <1>3, <3>1, <3>2
    <2>4. TypeInv'
      BY <1>2, <2>1 DEF IInv, TypeInv, Steps
    <2>5. OneWriter'
      BY <1>1, <1>2, <1>3, <2>1, <2>2, <2>3 DEF IInv, OneWriter
    <2> QED
      BY <2>4, <2>5
  <1>7. ASSUME NEW k \in Keys, LateWrite(k) PROVE TypeInv' /\ OneWriter'
    <2>1. k \in late /\ late' = late \ {k} /\ objects' = [objects EXCEPT ![k] = @ + 1] /\ at' = at
      BY <1>7 DEF LateWrite, runVars
    <2>2. /\ objects[k] = 0 /\ ConfirmedBelow(k) /\ latest[k] \notin {"NONE", "ABSENT"}
          /\ \A q \in Runs : ~Writer(q, k)
      BY <2>1 DEF IInv, OneWriter
    <2>3. objects'[k] = 1 /\ \A j \in Keys : j # k => objects'[j] = objects[j]
      BY <2>1, <2>2 DEF IInv, TypeInv
    <2>4. TypeInv'
      BY <1>2, <2>1, <2>2 DEF IInv, TypeInv
    <2>5. OneWriter'
      BY <1>1, <1>2, <1>3, <2>1, <2>2, <2>3 DEF IInv, OneWriter
    <2> QED
      BY <2>4, <2>5
  <1> QED
    BY <1>4, <1>5, <1>6, <1>7 DEF IInv

\* RecordFailure releases the key only for a write that did not happen.
LEMMA FailureKeeps ==
  ASSUME IInv, NEW r \in Runs, RecordFailure(r)
  PROVE  IInv'
  <1>1. PICK k \in Keys :
          /\ k = pos[r] /\ at[r] \in {"absent", "unknown"} /\ at' = [at EXCEPT ![r] = "finally"]
          /\ \/ latest' = latest
             \/ /\ latest[k] # "CONFIRMED"
                /\ latest' = [latest EXCEPT ![k] = IF at[r] = "absent" THEN "ABSENT" ELSE "UNKNOWN"]
          /\ UNCHANGED <<job, pos, objects, late, manifest>>
    BY Zenon DEF RecordFailure, Here, Goto, provider, IInv, TypeInv
  <1>2. TypeInv'
    BY <1>1 DEF IInv, TypeInv, Steps
  <1>3. \A j \in Keys : /\ Confirmed(j)' <=> Confirmed(j)
                        /\ j # k => latest'[j] = latest[j]
    BY <1>1 DEF Confirmed, IInv, TypeInv
  <1>4. \A j \in Keys : (ConfirmedBelow(j))' <=> ConfirmedBelow(j)
    BY <1>3 DEF ConfirmedBelow
  <1>5. \A q \in Runs : /\ at'[q] \in {"manifest", "fsync", "release"} => at'[q] = at[q]
                        /\ \A j \in Keys : Writer(q, j)' => Writer(q, j) /\ q # r
    BY <1>1 DEF Writer, IInv, TypeInv
  <1>6. Progress'
    BY <1>1, <1>3, <1>4, <1>5 DEF IInv, TypeInv, Progress
  <1>7. CASE at[r] = "absent"
    <2>1. Writer(r, k)
      BY <1>1, <1>7 DEF Writer
    <2>2. \A q \in Runs : ~Writer(q, k)'
      BY <1>5, <2>1 DEF IInv, OneWriter
    <2>3. objects[k] = 0 /\ k \notin late
      BY <2>1 DEF IInv, OneWriter
    <2>4. OneWriter'
      BY <1>1, <1>3, <1>4, <1>5, <2>2, <2>3 DEF IInv, OneWriter
    <2> QED
      BY <1>1, <1>2, <1>3, <1>6, <2>4 DEF IInv, Ended, ManifestBacked
  <1>8. CASE at[r] = "unknown"
    <2>1. latest'[k] \in {"NONE", "ABSENT"} => latest'[k] = latest[k]
      BY <1>1, <1>8 DEF IInv, TypeInv
    <2>2. OneWriter'
      BY <1>1, <1>3, <1>4, <1>5, <2>1 DEF IInv, OneWriter
    <2> QED
      BY <1>1, <1>2, <1>3, <1>6, <2>2 DEF IInv, Ended, ManifestBacked
  <1> QED
    BY <1>1, <1>7, <1>8

\* The keys are confirmed in order: after the last one all of them are.
LEMMA ConfirmKeeps ==
  ASSUME IInv, NEW r \in Runs, Confirm(r)
  PROVE  IInv'
  <1>1. CASE ~Holds(r)
    <2>1. Goto(r, "finally") /\ UNCHANGED <<job, pos, latest, objects, late, manifest>>
      BY <1>1 DEF Confirm, provider
    <2> QED
      BY <2>1, RunMoves DEF Steps
  <1>2. CASE Holds(r)
    <2> DEFINE n == Len(BuildKeys)
    <2>0. n \in Nat /\ Keys = 1..n
      BY KeysInOrder
    <2> HIDE DEF n
    <2>1. PICK k \in Keys, x \in {"check", "manifest", "reserve"} :
            /\ k = pos[r] /\ latest' = [latest EXCEPT ![k] = "CONFIRMED"]
            /\ at' = [at EXCEPT ![r] = x] /\ (x = "manifest" => k = n)
            /\ pos' = [pos EXCEPT ![r] = IF k < n THEN k + 1 ELSE k]
            /\ UNCHANGED <<job, objects, late, manifest>>
      BY <1>2 DEF Confirm, Here, AfterKey, Goto, provider, IInv, TypeInv, n
    <2>2. TypeInv'
      BY <2>0, <2>1 DEF IInv, TypeInv, Steps
    <2>3. \A j \in Keys : /\ j # k => latest'[j] = latest[j]
                          /\ Confirmed(j)' <=> (j = k \/ Confirmed(j))
      BY <2>1 DEF Confirmed, IInv, TypeInv
    <2>4. latest'[k] = "CONFIRMED"
      BY <2>1 DEF IInv, TypeInv
    <2>5. \A j \in Keys : ConfirmedBelow(j) => (ConfirmedBelow(j))'
      BY <2>3 DEF ConfirmedBelow
    <2>6. \A j \in Keys : j <= k => Confirmed(j)'
      BY <2>0, <2>1, <2>3 DEF IInv, Progress, ConfirmedBelow
    <2>7. Progress'
      <3> SUFFICES ASSUME NEW q \in Runs
                   PROVE  /\ (ConfirmedBelow(pos[q]))'
                          /\ at'[q] \in {"manifest", "fsync", "release"} => \A j \in Keys : Confirmed(j)'
                          /\ at'[q] = "release" => manifest' = "whole"
        BY DEF Progress
      <3>1. CASE q = r
        BY <2>0, <2>1, <2>6, <3>1 DEF IInv, TypeInv, ConfirmedBelow
      <3>2. CASE q # r
        BY <2>1, <2>3, <2>5, <3>2 DEF IInv, TypeInv, Progress, ConfirmedBelow
      <3> QED
        BY <3>1, <3>2
    <2>8. \A q \in Runs, j \in Keys : Writer(q, j)' => Writer(q, j)
      BY <2>1 DEF Writer, IInv, TypeInv
    <2>9. OneWriter'
      BY <2>1, <2>3, <2>4, <2>5, <2>8 DEF IInv, OneWriter
    <2> QED
      BY <2>1, <2>2, <2>3, <2>7, <2>9 DEF IInv, Ended, ManifestBacked
  <1> QED
    BY <1>1, <1>2

\* build returns, path.open, fsync, release_lease: in this order.
LEMMA ManifestKeeps ==
  ASSUME IInv, NEW r \in Runs, OpenManifest(r) \/ SyncManifest(r) \/ Release(r)
  PROVE  IInv'
  <1>1. UNCHANGED <<pos, latest, objects, late>>
    BY DEF OpenManifest, SyncManifest, Release, provider
  <1>2. at[r] \in {"manifest", "fsync", "release"} /\ \E x \in {"fsync", "release", "finally"} : Goto(r, x)
    BY DEF OpenManifest, SyncManifest, Release
  <1>3. \A k \in Keys : Confirmed(k) /\ Confirmed(k)'
    BY <1>1, <1>2, Zenon DEF IInv, Progress, Confirmed
  <1>4. at' \in [Runs -> Steps] /\ \A q \in Runs, k \in Keys : Writer(q, k)' => Writer(q, k)
    BY <1>1, <1>2 DEF Writer, IInv, TypeInv, Goto, Steps
  <1>5. manifest' \in {"torn", "whole"} /\ (manifest = "whole" => manifest' = "whole")
    BY DEF OpenManifest, SyncManifest, Release, IInv, Progress
  <1>6. \A q \in Runs : at'[q] = "release" => manifest' = "whole"
    BY <1>5 DEF OpenManifest, SyncManifest, Release, Goto, IInv, TypeInv, Progress
  <1>7. job' \in JobRows /\ Ended' /\ (job'.status = "SUCCEEDED" => manifest' = "whole")
    <2>1. CASE job' = job
      BY <1>5, <2>1 DEF IInv, TypeInv, Ended, ManifestBacked
    <2>2. CASE job' # job
      <3>1. at[r] = "release" /\ job' = [job EXCEPT !.status = "SUCCEEDED", !.owner = NoRun, !.live = FALSE]
        BY <2>2 DEF OpenManifest, SyncManifest, Release
      <3> QED
        BY Zenon, <1>5, <3>1 DEF IInv, TypeInv, JobRows, Ended, Progress
    <2> QED
      BY <2>1, <2>2
  <1>8. OneWriter'
    BY <1>1, <1>4 DEF IInv, OneWriter, ConfirmedBelow, Confirmed
  <1>9. Progress'
    BY <1>1, <1>3, <1>6 DEF IInv, TypeInv, Progress, ConfirmedBelow
  <1> QED
    BY <1>1, <1>3, <1>4, <1>5, <1>7, <1>8, <1>9 DEF IInv, TypeInv, ManifestBacked

\* Every step keeps the invariant.
LEMMA NextKeeps == IInv /\ [Next]_vars => IInv'
  <1> SUFFICES ASSUME IInv, [Next]_vars PROVE IInv'
    OBVIOUS
  <1>1. ASSUME NEW r \in Runs, Step(r) PROVE IInv'
    BY <1>1, QuietKeeps, EndKeeps, ReserveKeeps, WriteKeeps, FailureKeeps, ConfirmKeeps, ManifestKeeps
       DEF Step
  <1>2. ASSUME NEW r \in Runs, Trouble(r) PROVE IInv'
    BY <1>2, QuietKeeps, EndKeeps, WriteKeeps DEF Trouble
  <1>3. ASSUME NEW k \in Keys, LateWrite(k) \/ Alter(k) \/ Restore(k) PROVE IInv'
    BY <1>3, WriteKeeps, JobKeeps
  <1>4. CASE LeaseExpires \/ LeaseLapses \/ SchedulerReclaims \/ WorkerFails
    BY <1>4, JobKeeps
  <1>5. CASE UNCHANGED vars
    BY <1>5 DEF vars, runVars, provider, IInv, TypeInv, Progress, OneWriter, Ended, ManifestBacked,
       ConfirmedBelow, Confirmed, Writer
  <1> QED
    BY <1>1, <1>2, <1>3, <1>4, <1>5 DEF Next

\* The invariant holds in every behaviour.
LEMMA Safe == Spec => []IInv
  BY InitIInv, NextKeeps, PTL DEF Spec

\* A parent's key comes before its child's.
LEMMA ParentEarlier ==
  ASSUME NEW k \in Keys, k # Folder
  PROVE  ParentOf(k) \in Keys /\ ParentOf(k) < k
  <1>1. \E p \in 1..(k - 1) : IsParent(p, k)
    BY KeysInOrder
  <1>2. ParentOf(k) \in 1..(k - 1)
    BY <1>1 DEF ParentOf
  <1> QED
    BY <1>2, KeysInOrder

\* Rooted, for any number of runs, variants and objects: the provider never has
\* two objects of a key, or one and a write of it under way, and an object is
\* only ever placed in one that a run has confirmed.
THEOREM ObjectsRooted == Spec => []Rooted
  <1>1. IInv => Rooted
    <2> SUFFICES ASSUME IInv, NEW k \in Keys
                 PROVE  /\ objects[k] + (IF k \in late THEN 1 ELSE 0) <= 1
                        /\ objects[k] = 1 /\ k # Folder => Confirmed(ParentOf(k))
      BY DEF Rooted
    <2>1. objects[k] \in {0, 1} /\ (k \in late => objects[k] = 0)
      BY DEF IInv, TypeInv, OneWriter
    <2>2. objects[k] = 1 /\ k # Folder => Confirmed(ParentOf(k))
      BY ParentEarlier DEF IInv, OneWriter, ConfirmedBelow
    <2> QED
      BY <2>1, <2>2
  <1> QED
    BY <1>1, Safe, PTL

\* ManifestBacked, for any number of runs, variants and objects: a manifest
\* stands for a build with every key confirmed, and a job that SUCCEEDED for a
\* manifest that is whole.
THEOREM ManifestsBacked == Spec => []ManifestBacked
  BY Safe, PTL DEF IInv

\* OnlyOwnerEnds, for any number of runs: an overtaken run never ends the job
\* of its successor, and a job that SUCCEEDED does not change again.
THEOREM OwnerEnds == Spec => OnlyOwnerEnds
  <1> DEFINE Verdict == /\ job'.status = "SUCCEEDED" /\ job.status # "SUCCEEDED" =>
                             \E r \in Runs : at[r] = "release" /\ job.owner = r
                        /\ job.status = "SUCCEEDED" => job' = job
  <1>1. IInv /\ [Next]_vars => [Verdict]_vars
    <2> SUFFICES ASSUME IInv, [Next]_vars PROVE Verdict
      OBVIOUS
    <2>0. job \in JobRows /\ (job.status = "SUCCEEDED" => ~job.live /\ job.owner \notin Runs)
      BY NoRunAssumption DEF IInv, TypeInv, Ended
    <2>1. ASSUME NEW r \in Runs, PrepareAndClaim(r) \/ Finally(r) PROVE Verdict
      BY Zenon, <2>0, <2>1 DEF PrepareAndClaim, Claimable, Finally, JobRows
    <2>2. ASSUME NEW r \in Runs, Release(r) PROVE Verdict
      BY <2>0, <2>2 DEF Release
    <2>3. ASSUME NEW r \in Runs, \/ Reserve(r) \/ Look(r) \/ Create(r) \/ Send(r) \/ Accept(r)
                                 \/ RecordFailure(r) \/ Confirm(r) \/ CheckNotification(r)
                                 \/ OpenManifest(r) \/ SyncManifest(r) \/ Trouble(r)
          PROVE  job' = job
      BY <2>3, Zenon DEF Reserve, Look, Create, Send, Accept, RecordFailure, Confirm, CheckNotification,
         OpenManifest, SyncManifest, Trouble, ReadFails, SendRefused, SendLost, Dies
    <2>4. ASSUME NEW k \in Keys, LateWrite(k) \/ Alter(k) \/ Restore(k) PROVE job' = job
      BY <2>4, Zenon DEF LateWrite, Alter, Restore
    <2>5. CASE LeaseExpires \/ LeaseLapses \/ SchedulerReclaims \/ WorkerFails
      BY Zenon, <2>0, <2>5 DEF LeaseExpires, LeaseLapses, SchedulerReclaims, WorkerFails, JobRows
    <2>6. CASE UNCHANGED vars
      BY <2>6 DEF vars
    <2> QED
      BY <2>1, <2>2, <2>3, <2>4, <2>5, <2>6, Zenon DEF Next, Step
  <1> QED
    BY <1>1, Safe, PTL DEF Spec, OnlyOwnerEnds

-----------------------------------------------------------------------------
(* SandboxRun.                                                             *)

\* Pages 1 to n were made and verified, and nothing else.
Clean(n) == made = 1 .. n /\ created = 1 .. n /\ flagged = {} /\ rejected = {} /\ orphans = {}

\* The answer passes the checks on a returned page.
Acceptable ==
  /\ answer.id \notin {Sandbox, Requested} /\ ~ answer.conflict
  /\ answer.parent = Requested /\ answer.fresh

\* Nothing went wrong so far, and a create that may still be accepted is the next one.
StagesClean ==
  /\ step \in {"start"} \cup InStages => ~ signalled /\ rows = "planned" /\ posted <= Colours + 1
  /\ step \in {"start", "target"} => posted = 0 /\ Clean(0)
  /\ step = "post" => posted <= Colours
  /\ step \in {"stage", "post", "confirm", "chain"} => Clean(posted)
  /\ step = "returned" =>
       /\ Acceptable => /\ made = 1 .. posted /\ created = 1 .. posted
                        /\ flagged = {} /\ rejected = {} /\ orphans = {posted}
       /\ posted \in made => answer.id = posted /\ (answer.conflict \/ posted \in created)
  /\ step \in {"unmarked", "aligned"} /\ Acceptable => Clean(posted)
  /\ step \in {"returned", "unmarked", "aligned"} /\ Acceptable => answer.id \in created

\* A page is on a list, or it is the page of another space that is being recorded
\* or was when the signal came.
Accounted ==
  /\ Sandbox \notin made
  /\ \A id \in made :
       \/ id \in created \cup flagged \cup rejected \cup orphans
       \/ /\ signalled \/ step \in {"unmarked", "aligned"}
          /\ answer.id = id /\ answer.conflict

\* The evidence of this run has the lists as they are, and is the last thing written.
EvidenceIsLists ==
  /\ evidence \in {Absent, Theirs} \/ (evidence = Lists /\ step \in {"report", "fail", "exit"})
  /\ step = "report" => evidence = Lists
  /\ step = "exit" => evidence = Lists \/ printed = created \/ made = {}

\* Exit code 0 is kept for a run whose stages all passed.
CodeIsEarned ==
  /\ step = "fail" => code = 69
  /\ step \in {"temporary", "link", "report", "exit"} /\ code = 0 => ~ signalled /\ rows = "planned"
  /\ step = "exit" /\ code = 0 => evidence = Lists
  /\ execute /\ rows = "planned" /\ ~ signalled /\ (step \in Publishing \/ (step = "exit" /\ code = 0)) =>
       Clean(Colours + 1)

\* Where the command may be, and what its rows may say.
SandboxType ==
  /\ posted \in Nat
  /\ signalled \in BOOLEAN /\ execute \in BOOLEAN
  /\ step \in {"start", "fail", "exit"} \cup InStages \cup Publishing
  /\ rows \in {"planned", "api_error", "BLOCKED", "FAILED", "INTERRUPTED"}

\* The inductive invariant of the command.
SandboxInv == SandboxType /\ StagesClean /\ Accounted /\ EvidenceIsLists /\ CodeIsEarned

\* Before the command nothing was made.
LEMMA SandboxInitInv == SandboxInit => SandboxInv
<1>1. SUFFICES ASSUME SandboxInit PROVE SandboxInv  OBVIOUS
<1>2. SandboxType  BY <1>1, Zenon DEF SandboxInit, SandboxType
<1>3. StagesClean
  <2>1. 1 .. 0 = {}  OBVIOUS
  <2>2. Clean(0)  BY <1>1, <2>1 DEF SandboxInit, Clean
  <2>3. posted <= Colours + 1  BY <1>1, SandboxAssumption DEF SandboxInit
  <2> QED BY <1>1, <2>2, <2>3 DEF SandboxInit, StagesClean, InStages, Creating
<1>4. Accounted  BY <1>1 DEF SandboxInit, Accounted
<1>5. EvidenceIsLists  BY <1>1 DEF SandboxInit, EvidenceIsLists
<1>6. CodeIsEarned  BY <1>1 DEF SandboxInit, CodeIsEarned, Publishing, Writing
<1> QED BY <1>2, <1>3, <1>4, <1>5, <1>6 DEF SandboxInv

\* The names of the steps, by what they belong to.
LEMMA StepsAre ==
  /\ InStages = {"target", "stage", "post", "returned", "unmarked", "aligned", "confirm", "chain"}
  /\ Publishing = {"temporary", "link", "finish", "report"}
BY DEF InStages, Creating, Publishing, Writing

\* While the lists stay, what was said about them stays.
LEMMA SamePages ==
  ASSUME UNCHANGED pages
  PROVE  Lists' = Lists /\ \A n : Clean(n)' = Clean(n)
BY DEF pages, Lists, Clean

\* In the stages the evidence is somebody else's or absent.
LEMMA NotWrittenYet ==
  ASSUME SandboxInv, step \in {"start", "finish", "temporary", "link"} \cup InStages
  PROVE  evidence \in {Absent, Theirs}
BY StepsAre DEF SandboxInv, EvidenceIsLists

\* Preflight, the reads of the target and the fixture builds.
LEMMA BeforeKeeps == ASSUME SandboxInv, Preflight \/ ReadTarget \/ RunStage PROVE SandboxInv'
<1>1. SandboxType /\ StagesClean /\ Accounted /\ EvidenceIsLists /\ CodeIsEarned  BY DEF SandboxInv
<1>2. /\ execute' = execute /\ posted' = posted /\ answer' = answer /\ UNCHANGED pages
      /\ signalled' = signalled /\ evidence' = evidence /\ printed' = printed
  BY DEF Preflight, ReadTarget, RunStage, sandboxFiles
<1>3. /\ made' = made /\ created' = created /\ flagged' = flagged /\ rejected' = rejected
      /\ orphans' = orphans
  BY <1>2 DEF pages
<1>4. Lists' = Lists /\ \A n : Clean(n)' = Clean(n)  BY <1>2, SamePages
<1>5. step \in {"start", "target", "stage"} /\ evidence \in {Absent, Theirs}
  BY NotWrittenYet, StepsAre DEF Preflight, ReadTarget, RunStage
<1>6. posted \in Nat /\ posted <= Colours + 1 /\ ~ signalled /\ rows = "planned" /\ Clean(posted)
  BY <1>1, <1>5, StepsAre DEF SandboxType, StagesClean
<1>7. SandboxType'
  BY <1>1, <1>2, StepsAre DEF SandboxType, Preflight, ReadTarget, RunStage, Proceed, StageFails
<1>8. StagesClean'
  <2>1. CASE Preflight
    BY <1>1, <1>2, <1>4, <1>6, <2>1, StepsAre DEF Preflight, StagesClean, Proceed
  <2>2. CASE ReadTarget
    BY <1>1, <1>2, <1>4, <1>6, <2>2, StepsAre DEF ReadTarget, StagesClean, Proceed
  <2>3. CASE RunStage
    BY <1>1, <1>2, <1>4, <1>6, <2>3, StepsAre, SandboxAssumption
    DEF RunStage, StagesClean, Proceed, StageFails
  <2> QED BY <2>1, <2>2, <2>3
<1>9. Accounted'  BY <1>1, <1>2, <1>3, <1>5 DEF Accounted, Sandbox
<1>10. EvidenceIsLists'
  <2>1. step' # "report" /\ (step' = "exit" => step = "start")
    BY DEF Preflight, ReadTarget, RunStage, Proceed, StageFails
  <2>2. step = "start" => made = {}
    <3>1. 1 .. 0 = {}  OBVIOUS
    <3> QED BY <1>1, <3>1 DEF StagesClean, Clean
  <2> QED BY <1>2, <1>3, <1>5, <2>1, <2>2 DEF EvidenceIsLists, Absent, Theirs
<1>11. CodeIsEarned'
  <2>1. CASE Preflight  BY <2>1, StepsAre DEF Preflight, CodeIsEarned, Proceed
  <2>2. CASE ReadTarget  BY <1>2, <2>2, StepsAre DEF ReadTarget, CodeIsEarned, Proceed
  <2>3. CASE RunStage
    <3>1. CASE rows' = "FAILED" /\ step' = "finish"  BY <3>1, StepsAre DEF CodeIsEarned
    <3>2. CASE step' = "post"  BY <3>2, StepsAre DEF CodeIsEarned
    <3>3. CASE posted > Colours /\ step' = "finish"
      <4>1. posted = Colours + 1  BY <1>6, <3>3, SandboxAssumption
      <4>2. Clean(Colours + 1)'  BY <1>4, <1>6, <4>1
      <4> QED BY <3>3, <4>2, StepsAre DEF CodeIsEarned
    <3> QED BY <2>3, <3>1, <3>2, <3>3 DEF RunStage, StageFails, Proceed
  <2> QED BY <2>1, <2>2, <2>3
<1> QED BY <1>7, <1>8, <1>9, <1>10, <1>11 DEF SandboxInv

\* A step of create_under goes on or raises out of the stage; the files wait.
LEMMA CreatingWaits ==
  ASSUME SandboxInv, step \in InStages, posted' \in Nat, signalled' = signalled, execute' = execute,
         evidence' = evidence,
         (rows' = "FAILED" /\ step' = "finish") \/ (rows' = rows /\ step' \in InStages)
  PROVE  SandboxType' /\ EvidenceIsLists' /\ CodeIsEarned'
<1>1. evidence \in {Absent, Theirs}  BY NotWrittenYet
<1>2. SandboxType'  BY StepsAre DEF SandboxInv, SandboxType
<1>3. EvidenceIsLists'  BY <1>1, StepsAre DEF EvidenceIsLists, Absent, Theirs
<1>4. CodeIsEarned'  BY StepsAre DEF CodeIsEarned
<1> QED BY <1>2, <1>3, <1>4

\* In the stages no signal has come, and every page is listed but, for two
\* steps, one of another space.
LEMMA InStagesIs ==
  ASSUME SandboxInv, step \in InStages
  PROVE  /\ posted \in Nat /\ posted <= Colours + 1 /\ ~ signalled /\ rows = "planned"
         /\ Sandbox \notin made
         /\ \A id \in made :
              \/ id \in created \cup flagged \cup rejected \cup orphans
              \/ step \in {"unmarked", "aligned"} /\ answer.id = id /\ answer.conflict
BY DEF SandboxInv, SandboxType, StagesClean, Accounted

\* The marker is there before the page is, and a page that may be accepted is
\* the one the create was for.
LEMMA CreateKeeps == ASSUME SandboxInv, CreateChildPage PROVE SandboxInv'
<1>1. /\ step = "post" /\ posted' = posted + 1 /\ execute' = execute /\ flagged' = flagged
      /\ rejected' = rejected /\ signalled' = signalled /\ evidence' = evidence
  BY DEF CreateChildPage, sandboxFiles
<1>2. /\ posted \in Nat /\ posted <= Colours /\ ~ signalled /\ rows = "planned" /\ Sandbox \notin made
      /\ Clean(posted)
  BY <1>1, InStagesIs, StepsAre, Zenon DEF SandboxInv, StagesClean
<1>3. made = 1 .. posted /\ created = 1 .. posted /\ flagged = {} /\ rejected = {} /\ orphans = {}
  BY <1>2 DEF Clean
<1>4. posted + 1 \notin made /\ posted + 1 \in Nat /\ posted + 1 # Sandbox /\ posted + 1 <= Colours + 1
  BY <1>2, <1>3, SandboxAssumption DEF Sandbox
<1>5. made \cup {posted + 1} = 1 .. (posted + 1)  BY <1>2, <1>3
<1>6. CASE /\ \E lost \in BOOLEAN : made' = IF lost THEN made \cup {posted + 1} ELSE made
           /\ orphans' = orphans \cup {posted + 1} /\ StageFails
           /\ answer' = answer /\ created' = created
  <2>1. rows' = "FAILED" /\ step' = "finish"  BY <1>6 DEF StageFails, Proceed
  <2>2. SandboxType' /\ EvidenceIsLists' /\ CodeIsEarned'
    BY <1>1, <1>2, <1>4, <2>1, CreatingWaits, StepsAre
  <2>3. StagesClean'  BY <2>1, StepsAre DEF StagesClean
  <2>4. made' \subseteq made \cup {posted + 1}  BY <1>6
  <2>5. Accounted'  BY <1>2, <1>3, <1>4, <1>6, <2>4 DEF Accounted, Sandbox
  <2> QED BY <2>2, <2>3, <2>5 DEF SandboxInv
<1>7. ASSUME NEW kind \in Answers, answer' = PageOf(kind)',
             made' = IF kind \in NewKinds THEN made \cup {answer'.id} ELSE made,
             orphans' = orphans \cup {posted + 1},
             created' = IF answer'.conflict THEN created ELSE created \cup {answer'.id},
             step' = "returned", rows' = rows
      PROVE  SandboxInv'
  <2>1. SandboxType' /\ EvidenceIsLists' /\ CodeIsEarned'
    BY <1>1, <1>2, <1>4, <1>7, CreatingWaits, StepsAre
  <2>2. kind \in AnswerKinds  BY SandboxAssumption
  <2>3. kind \in NewKinds => answer'.id = posted + 1
    BY <1>1, <1>7 DEF PageOf, NewKinds, View
  <2>4. Requested' \in {0, 1} /\ Foreign' \notin {0, 1}
    BY SandboxAssumption DEF Requested, Foreign, Sandbox
  <2>5. Acceptable' => kind = "new" /\ ~ answer'.conflict
    BY <1>7, <2>2, <2>4 DEF Acceptable, PageOf, View, AnswerKinds
  <2>6. made' \subseteq made \cup {posted + 1}  BY <1>7, <2>3
  <2>7. Accounted'
    <3>1. created \subseteq created'  BY <1>7
    <3> QED BY <1>2, <1>3, <1>4, <1>7, <2>6, <3>1 DEF Accounted, Sandbox
  <2>8. posted + 1 \in made' => answer'.id = posted + 1 /\ (answer'.conflict \/ posted + 1 \in created')
    BY <1>4, <1>7, <2>3
  <2>9. Acceptable' => /\ made' = 1 .. (posted + 1) /\ created' = 1 .. (posted + 1)
                       /\ flagged' = {} /\ rejected' = {} /\ orphans' = {posted + 1}
    BY <1>1, <1>3, <1>5, <1>7, <2>3, <2>5, Zenon DEF NewKinds
  <2>10. Acceptable' => answer'.id \in created'  BY <1>7, <2>5
  <2>11. StagesClean'
    BY <1>1, <1>2, <1>4, <1>7, <2>8, <2>9, <2>10, StepsAre, Zenon DEF StagesClean
  <2> QED BY <2>1, <2>7, <2>11 DEF SandboxInv
<1>8. \/ /\ \E lost \in BOOLEAN : made' = IF lost THEN made \cup {posted + 1} ELSE made
         /\ orphans' = orphans \cup {posted + 1} /\ StageFails
         /\ answer' = answer /\ created' = created
      \/ \E kind \in Answers :
           /\ answer' = PageOf(kind)'
           /\ made' = IF kind \in NewKinds THEN made \cup {answer'.id} ELSE made
           /\ orphans' = orphans \cup {posted + 1}
           /\ created' = IF answer'.conflict THEN created ELSE created \cup {answer'.id}
           /\ step' = "returned" /\ rows' = rows
  BY Zenon DEF CreateChildPage, Proceed
<1> QED BY <1>6, <1>7, <1>8

\* The marker of an answered create goes; its page is on a list, or about to be.
LEMMA RemoveMarkerKeeps == ASSUME SandboxInv, RemoveMarker PROVE SandboxInv'
<1>1. /\ step = "returned" /\ step' = "unmarked" /\ orphans' = orphans \ {posted}
      /\ execute' = execute /\ posted' = posted /\ answer' = answer /\ made' = made
      /\ created' = created /\ flagged' = flagged /\ rejected' = rejected /\ rows' = rows
      /\ signalled' = signalled /\ evidence' = evidence
  BY DEF RemoveMarker, sandboxFiles, Proceed
<1>2. /\ posted \in Nat /\ posted <= Colours + 1 /\ ~ signalled /\ rows = "planned" /\ Sandbox \notin made
      /\ \A id \in made : id \in created \cup flagged \cup rejected \cup orphans
  BY <1>1, InStagesIs, StepsAre
<1>3. SandboxType' /\ EvidenceIsLists' /\ CodeIsEarned'
  BY <1>1, <1>2, CreatingWaits, StepsAre
<1>4. posted \in made => answer.id = posted /\ (answer.conflict \/ posted \in created)
  BY <1>1 DEF SandboxInv, StagesClean
<1>5. Accounted'  BY <1>1, <1>2, <1>4 DEF Accounted, Sandbox
<1>6. Acceptable' => Acceptable  BY <1>1 DEF Acceptable, Requested, Sandbox
<1>7. Acceptable => Clean(posted)' /\ answer.id \in created
  BY <1>1, Zenon DEF SandboxInv, StagesClean, Clean
<1>8. StagesClean'  BY <1>1, <1>2, <1>6, <1>7, StepsAre, Zenon DEF StagesClean, Clean
<1> QED BY <1>3, <1>5, <1>8 DEF SandboxInv

\* A page of another space is flagged, and any other one is created.
LEMMA AlignKeeps == ASSUME SandboxInv, Align PROVE SandboxInv'
<1> DEFINE earlier == answer.conflict /\ answer.id \in prior
<1>1. /\ step = "unmarked" /\ step' = "aligned"
      /\ created' = IF earlier THEN created \ {answer.id} ELSE created \cup {answer.id}
      /\ flagged' = IF answer.conflict /\ ~ earlier THEN flagged \cup {answer.id} ELSE flagged
      /\ execute' = execute /\ posted' = posted /\ answer' = answer /\ made' = made
      /\ rejected' = rejected /\ orphans' = orphans /\ rows' = rows
      /\ signalled' = signalled /\ evidence' = evidence
  BY DEF Align, sandboxFiles, Proceed
<1>2. /\ posted \in Nat /\ posted <= Colours + 1 /\ ~ signalled /\ rows = "planned" /\ Sandbox \notin made
      /\ \A id \in made :
           \/ id \in created \cup flagged \cup rejected \cup orphans
           \/ answer.id = id /\ answer.conflict
  BY <1>1, InStagesIs, StepsAre
<1>3. SandboxType' /\ EvidenceIsLists' /\ CodeIsEarned'
  BY <1>1, <1>2, CreatingWaits, StepsAre
<1>4. Accounted'  BY <1>1, <1>2 DEF Accounted, Sandbox
<1>5. Acceptable' => Acceptable  BY <1>1 DEF Acceptable, Requested, Sandbox
<1>6. StagesClean'
  <2>1. ASSUME Acceptable' PROVE Clean(posted)' /\ answer'.id \in created'
    <3>1. Clean(posted) /\ ~ answer.conflict  BY <1>1, <1>5, <2>1, Zenon DEF SandboxInv, StagesClean, Acceptable
    <3>2. answer.id \in created  BY <1>1, <1>5, <2>1 DEF SandboxInv, StagesClean
    <3> QED BY <1>1, <3>1, <3>2 DEF Clean
  <2> QED BY <1>1, <1>2, <2>1, StepsAre, Zenon DEF StagesClean, Clean
<1> QED BY <1>3, <1>4, <1>6 DEF SandboxInv

\* After the checks every page is on a list: the one of another space is flagged.
LEMMA CheckReturnedKeeps == ASSUME SandboxInv, CheckReturned PROVE SandboxInv'
<1>1. /\ step = "aligned" /\ execute' = execute /\ posted' = posted /\ answer' = answer /\ made' = made
      /\ orphans' = orphans /\ signalled' = signalled /\ evidence' = evidence
  BY Zenon DEF CheckReturned, sandboxFiles
<1>2. /\ posted \in Nat /\ posted <= Colours + 1 /\ ~ signalled /\ rows = "planned" /\ Sandbox \notin made
      /\ \A id \in made :
           \/ id \in created \cup flagged \cup rejected \cup orphans
           \/ answer.id = id /\ answer.conflict
  BY <1>1, InStagesIs, StepsAre
<1>3. \/ /\ rows' = "FAILED" /\ step' = "finish"
         /\ \/ /\ created' = created \ {answer.id} /\ flagged' = flagged /\ rejected' = rejected
               /\ answer.id = Sandbox
            \/ created' = created /\ flagged' = flagged \cup {answer.id} /\ rejected' = rejected
            \/ /\ created' = created /\ flagged' = flagged /\ rejected' = rejected
               /\ answer.id \in created \/ ~ answer.conflict
            \/ /\ created' = created \ {answer.id} /\ rejected' = rejected \cup {answer.id}
               /\ flagged' = flagged /\ ~ answer.conflict
      \/ /\ rows' = rows /\ step' = "confirm" /\ Acceptable
         /\ created' = created /\ flagged' = flagged /\ rejected' = rejected
  BY Zenon DEF CheckReturned, StageFails, Proceed, Flag, Reject, Acceptable
<1>4. SandboxType' /\ EvidenceIsLists' /\ CodeIsEarned'
  BY <1>1, <1>2, <1>3, CreatingWaits, StepsAre, Zenon
<1>5. Accounted'
  <2>1. ASSUME NEW id \in made PROVE id \in created' \cup flagged' \cup rejected' \cup orphans'
    <3>1. id # Sandbox  BY <1>2
    <3>2. CASE rows' = rows /\ Acceptable
      <4>1. ~ answer.conflict  BY <3>2 DEF Acceptable
      <4> QED BY <1>1, <1>2, <1>3, <3>1, <4>1, Zenon
    <3>3. CASE rows' = "FAILED"  BY <1>1, <1>2, <1>3, <3>1, <3>3, Zenon
    <3> QED BY <1>3, <3>2, <3>3
  <2> QED BY <1>1, <1>2, <2>1 DEF Accounted, Sandbox
<1>6. StagesClean'
  <2>1. CASE step' = "finish"  BY <2>1, StepsAre DEF StagesClean
  <2>2. CASE rows' = rows /\ step' = "confirm" /\ Acceptable /\ created' = created
             /\ flagged' = flagged /\ rejected' = rejected
    <3>1. Clean(posted)'  BY <1>1, <2>2, Zenon DEF SandboxInv, StagesClean, Clean
    <3> QED BY <1>1, <1>2, <2>2, <3>1, StepsAre, Zenon DEF StagesClean, Clean
  <2> QED BY <1>3, <2>1, <2>2
<1> QED BY <1>4, <1>5, <1>6 DEF SandboxInv

\* The read back and the walk up to the sandbox move a page between lists, or leave it.
LEMMA ConfirmPageKeeps == ASSUME SandboxInv, ConfirmPage \/ ReachSandbox PROVE SandboxInv'
<1>1. /\ step \in {"confirm", "chain"} /\ execute' = execute /\ posted' = posted /\ answer' = answer
      /\ made' = made /\ orphans' = orphans /\ signalled' = signalled /\ evidence' = evidence
  BY DEF ConfirmPage, ReachSandbox, sandboxFiles
<1>2. /\ posted \in Nat /\ posted <= Colours + 1 /\ ~ signalled /\ rows = "planned" /\ Sandbox \notin made
      /\ \A id \in made : id \in created \cup flagged \cup rejected \cup orphans
  BY <1>1, InStagesIs, StepsAre
<1>3. \/ /\ rows' = "FAILED" /\ step' = "finish"
         /\ \/ created' = created /\ flagged' = flagged /\ rejected' = rejected
            \/ created' = created /\ flagged' = flagged \cup {answer.id} /\ rejected' = rejected
            \/ created' = created \ {answer.id} /\ rejected' = rejected \cup {answer.id} /\ flagged' = flagged
      \/ /\ rows' = rows /\ step' \in {"chain", "stage"}
         /\ created' = created /\ flagged' = flagged /\ rejected' = rejected
  BY Zenon DEF ConfirmPage, ReachSandbox, StageFails, Proceed, Flag, Reject
<1>4. SandboxType' /\ EvidenceIsLists' /\ CodeIsEarned'
  BY <1>1, <1>2, <1>3, CreatingWaits, StepsAre, Zenon
<1>5. Accounted'
  <2>1. ASSUME NEW id \in made PROVE id \in created' \cup flagged' \cup rejected' \cup orphans'
    BY <1>1, <1>2, <1>3, Zenon
  <2> QED BY <1>1, <1>2, <2>1 DEF Accounted, Sandbox
<1>6. StagesClean'
  <2>1. CASE step' = "finish"  BY <2>1, StepsAre DEF StagesClean
  <2>2. CASE rows' = rows /\ step' \in {"chain", "stage"} /\ created' = created
             /\ flagged' = flagged /\ rejected' = rejected
    <3>1. Clean(posted)'  BY <1>1, <2>2, Zenon DEF SandboxInv, StagesClean, Clean
    <3> QED BY <1>1, <1>2, <2>2, <3>1, StepsAre, Zenon DEF StagesClean, Clean
  <2> QED BY <1>3, <2>1, <2>2
<1> QED BY <1>4, <1>5, <1>6 DEF SandboxInv

\* A document of this run is not an absent one, nor somebody else's.
LEMMA DocumentsDiffer ==
  Lists # Absent /\ Lists # Theirs /\ Lists.by = "run" /\ Absent.by # "run" /\ Theirs.by # "run"
BY Zenon DEF Lists, Absent, Theirs

\* After the stages the lists stay as they are.
LEMMA EndingWaits ==
  ASSUME SandboxInv, step \notin InStages, step' \notin {"start"} \cup InStages, UNCHANGED pages,
         answer' = answer, signalled \/ ~ signalled, signalled => signalled'
  PROVE  StagesClean' /\ Accounted'
<1>1. StagesClean'  BY StepsAre, Zenon DEF StagesClean
<1>2. made' = made /\ created' = created /\ flagged' = flagged /\ rejected' = rejected /\ orphans' = orphans
  BY DEF pages
<1>3. Accounted'  BY <1>2, StepsAre DEF SandboxInv, Accounted, Sandbox
<1> QED BY <1>1, <1>3

\* The exit code, the temporary file, the link, the report and the failure.
LEMMA EndingKeeps ==
  ASSUME SandboxInv, FinishRun \/ WriteTemporary \/ LinkEvidence \/ Report \/ FailRun
  PROVE  SandboxInv'
<1>1. SandboxType /\ EvidenceIsLists /\ CodeIsEarned  BY DEF SandboxInv
<1>2. /\ execute' = execute /\ posted' = posted /\ answer' = answer /\ UNCHANGED pages
      /\ rows' = rows /\ signalled' = signalled
  BY Zenon DEF FinishRun, WriteTemporary, LinkEvidence, Report, FailRun
<1>3. /\ step \in {"finish", "temporary", "link", "report", "fail"}
      /\ step' \in {"temporary", "link", "report", "fail", "exit"}
  BY Zenon DEF FinishRun, WriteTemporary, LinkEvidence, Report, FailRun, Proceed, CommitFails
<1>4. made' = made /\ created' = created  BY <1>2 DEF pages
<1>5. Lists' = Lists /\ \A n : Clean(n)' = Clean(n)  BY <1>2, SamePages
<1>6. StagesClean' /\ Accounted'  BY <1>2, <1>3, EndingWaits, StepsAre
<1>7. SandboxType'  BY <1>1, <1>2, <1>3, StepsAre DEF SandboxType
<1>8. EvidenceIsLists'
  <2>1. CASE FinishRun \/ WriteTemporary
    <3>1. evidence' = evidence /\ step' \in {"temporary", "link", "fail"} /\ step \in {"finish", "temporary"}
      BY <2>1, Zenon DEF FinishRun, WriteTemporary, Proceed, CommitFails, sandboxFiles
    <3>2. evidence \in {Absent, Theirs}  BY <3>1, NotWrittenYet
    <3> QED BY <3>1, <3>2 DEF EvidenceIsLists, Absent, Theirs
  <2>2. CASE LinkEvidence
    <3>1. \/ evidence' = evidence /\ step' = "fail"
          \/ evidence' = Lists /\ step' = "report"
      BY <2>2 DEF LinkEvidence, Proceed, CommitFails
    <3>2. evidence \in {Absent, Theirs}  BY <2>2, NotWrittenYet DEF LinkEvidence
    <3> QED BY <1>5, <3>1, <3>2 DEF EvidenceIsLists, Absent, Theirs
  <2>3. CASE Report
    BY <1>1, <1>5, <2>3, Zenon DEF Report, EvidenceIsLists, sandboxFiles, Proceed
  <2>4. CASE FailRun
    BY <1>1, <1>4, <1>5, <2>4, Zenon DEF FailRun, EvidenceIsLists, sandboxFiles, Proceed, Absent, Theirs
  <2> QED BY <2>1, <2>2, <2>3, <2>4
<1>9. CodeIsEarned'
  <2>1. CASE FinishRun
    <3>1. code' = 0 => ~ signalled /\ rows = "planned"
      BY <1>1, <2>1 DEF FinishRun, SandboxType
    <3> QED BY <1>1, <1>2, <1>5, <2>1, <3>1, StepsAre DEF FinishRun, CodeIsEarned, Proceed
  <2>2. CASE WriteTemporary
    BY <1>1, <1>2, <1>5, <2>2, StepsAre DEF WriteTemporary, CommitFails, CodeIsEarned, Proceed
  <2>3. CASE LinkEvidence
    BY <1>1, <1>2, <1>5, <2>3, StepsAre DEF LinkEvidence, CommitFails, CodeIsEarned, Proceed
  <2>4. CASE Report
    <3>1. step = "report" /\ step' = "exit" /\ evidence' = evidence /\ (code' = code \/ code' = 69)
      BY <2>4 DEF Report, Proceed, sandboxFiles
    <3>2. evidence' = Lists'  BY <1>1, <1>5, <3>1 DEF EvidenceIsLists
    <3> QED BY <1>1, <1>2, <1>5, <3>1, <3>2, StepsAre DEF CodeIsEarned
  <2>5. CASE FailRun
    BY <1>1, <1>2, <2>5, StepsAre DEF FailRun, CodeIsEarned, Proceed
  <2> QED BY <2>1, <2>2, <2>3, <2>4, <2>5
<1> QED BY <1>6, <1>7, <1>8, <1>9 DEF SandboxInv

\* A signal in a stage finishes the run; after that the evidence is written again
\* or, when a complete file is there, the ids are printed.
LEMMA InterruptKeeps == ASSUME SandboxInv, Interrupt PROVE SandboxInv'
<1>1. SandboxType /\ Accounted /\ EvidenceIsLists  BY DEF SandboxInv
<1>2. /\ execute' = execute /\ posted' = posted /\ answer' = answer /\ UNCHANGED pages
      /\ signalled' /\ signalled' = TRUE /\ code' = 69 /\ evidence' = evidence
      /\ step \in InStages \cup Publishing
  BY DEF Interrupt
<1>3. \/ step' = "finish" /\ rows' = "INTERRUPTED" /\ step \in InStages
      \/ step' = "finish" /\ rows' = rows /\ step \in Publishing /\ evidence = Absent
      \/ step' = "fail" /\ rows' = rows /\ step \in Publishing /\ evidence # Absent
  BY DEF Interrupt, Proceed
<1>4. /\ made' = made /\ created' = created /\ flagged' = flagged /\ rejected' = rejected
      /\ orphans' = orphans
  BY <1>2 DEF pages
<1>5. Lists' = Lists  BY <1>2, SamePages
<1>6. SandboxType'  BY <1>1, <1>2, <1>3, StepsAre DEF SandboxType
<1>7. StagesClean'  BY <1>3, StepsAre, Zenon DEF StagesClean
<1>8. Accounted'  BY <1>1, <1>2, <1>4, Zenon DEF Accounted, Sandbox
<1>9. EvidenceIsLists'
  <2>1. CASE step \in InStages
    <3>1. evidence \in {Absent, Theirs} /\ step' = "finish"  BY <1>3, <2>1, NotWrittenYet, StepsAre
    <3> QED BY <1>2, <3>1 DEF EvidenceIsLists, Absent, Theirs
  <2>2. CASE step' = "finish" /\ evidence = Absent
    BY <1>2, <2>2 DEF EvidenceIsLists, Absent, Theirs
  <2>3. CASE step' = "fail"
    BY <1>1, <1>2, <1>5, <2>3, Zenon DEF EvidenceIsLists, Absent, Theirs
  <2> QED BY <1>3, <2>1, <2>2, <2>3
<1>10. CodeIsEarned'  BY <1>2, <1>3, StepsAre, Zenon DEF CodeIsEarned
<1> QED BY <1>6, <1>7, <1>8, <1>9, <1>10 DEF SandboxInv

\* What others write at the paths is never taken for the evidence of the run.
LEMMA OthersWriteKeeps == ASSUME SandboxInv, OthersWrite PROVE SandboxInv'
<1>1. SandboxType /\ StagesClean /\ Accounted /\ EvidenceIsLists /\ CodeIsEarned  BY DEF SandboxInv
<1>2. /\ step # "exit" /\ step' = step /\ execute' = execute /\ posted' = posted /\ answer' = answer
      /\ UNCHANGED pages /\ rows' = rows /\ signalled' = signalled /\ printed' = printed /\ code' = code
  BY DEF OthersWrite
<1>3. evidence' = evidence \/ (evidence = Absent /\ evidence' = Theirs)  BY DEF OthersWrite
<1>4. /\ made' = made /\ created' = created /\ flagged' = flagged /\ rejected' = rejected
      /\ orphans' = orphans
  BY <1>2 DEF pages
<1>5. Lists' = Lists /\ \A n : Clean(n)' = Clean(n)  BY <1>2, SamePages
<1>6. SandboxType'  BY <1>1, <1>2 DEF SandboxType, InStages, Creating, Publishing, Writing
<1>7. StagesClean'
  BY <1>1, <1>2, <1>4, <1>5, StepsAre, Zenon DEF StagesClean, Acceptable, Requested, Sandbox
<1>8. Accounted'  BY <1>1, <1>2, <1>4, Zenon DEF Accounted, Sandbox
<1>9. EvidenceIsLists'
  <2>1. CASE evidence' = evidence  BY <1>1, <1>2, <1>5, <2>1, Zenon DEF EvidenceIsLists, Absent, Theirs
  <2>2. CASE evidence = Absent /\ evidence' = Theirs
    <3>1. step # "report"  BY <1>1, <2>2, DocumentsDiffer DEF EvidenceIsLists
    <3> QED BY <1>2, <2>2, <3>1 DEF EvidenceIsLists, Absent, Theirs
  <2> QED BY <1>3, <2>1, <2>2
<1>10. CodeIsEarned'  BY <1>1, <1>2, <1>5, StepsAre, Zenon DEF CodeIsEarned
<1> QED BY <1>6, <1>7, <1>8, <1>9, <1>10 DEF SandboxInv

\* Every step keeps the invariant.
LEMMA SandboxInvHolds == SandboxSpec => []SandboxInv
<1>1. SandboxInv /\ [SandboxNext]_sandboxVars => SandboxInv'
  <2>1. SUFFICES ASSUME SandboxInv, [SandboxNext]_sandboxVars PROVE SandboxInv'  OBVIOUS
  <2>2. CASE UNCHANGED sandboxVars
    <3>1. /\ step' = step /\ execute' = execute /\ posted' = posted /\ answer' = answer
          /\ UNCHANGED pages /\ rows' = rows /\ signalled' = signalled /\ evidence' = evidence
          /\ printed' = printed /\ code' = code
      BY <2>2 DEF sandboxVars, sandboxFiles
    <3>2. /\ made' = made /\ created' = created /\ flagged' = flagged /\ rejected' = rejected
          /\ orphans' = orphans
      BY <3>1 DEF pages
    <3>3. SandboxType'
      BY <2>1, <3>1 DEF SandboxInv, SandboxType, InStages, Creating, Publishing, Writing
    <3>4. StagesClean' /\ Accounted'
      BY <2>1, <3>1, <3>2, StepsAre, Zenon
      DEF SandboxInv, StagesClean, Accounted, Clean, Acceptable, Requested, Sandbox
    <3>5. EvidenceIsLists' /\ CodeIsEarned'
      BY <2>1, <3>1, <3>2, StepsAre, ZenonT(30)
      DEF SandboxInv, EvidenceIsLists, CodeIsEarned, Clean, Lists, Absent, Theirs
    <3> QED BY <3>3, <3>4, <3>5 DEF SandboxInv
  <2>3. CASE SandboxNext
    BY <2>1, <2>2, <2>3, BeforeKeeps, CreateKeeps, RemoveMarkerKeeps, AlignKeeps, CheckReturnedKeeps,
       ConfirmPageKeeps, EndingKeeps, InterruptKeeps, OthersWriteKeeps
    DEF SandboxNext, RunEnded
  <2> QED BY <2>1, <2>2, <2>3
<1> QED BY <1>1, SandboxInitInv, PTL DEF SandboxSpec

\* Whatever the provider answers, and wherever the signal falls, no page the
\* sandbox command made is lost from both the evidence and stderr but for the
\* three cases PagesAccountedFor names, and exit code 0 of an executed run is
\* backed by evidence that lists exactly the planned pages, for any number of colours.
THEOREM SandboxAccounted == SandboxSpec => []PagesAccountedFor
<1>1. SandboxInv => PagesAccountedFor
  <2>1. SUFFICES ASSUME SandboxInv, step = "exit" PROVE PagesAccountedFor  BY Zenon DEF PagesAccountedFor
  <2>2. evidence = Lists \/ (evidence \in {Absent, Theirs} /\ (printed = created \/ made = {}))
    BY <2>1, DocumentsDiffer DEF SandboxInv, EvidenceIsLists
  <2>3. Ours <=> evidence = Lists  BY <2>2, DocumentsDiffer DEF Ours
  <2>4. ASSUME NEW id \in made
        PROVE  \/ id \in Named
               \/ ~Ours /\ id \in orphans \cup rejected \cup flagged
               \/ signalled /\ answer.id = id /\ answer.conflict
    <3>1. \/ id \in created \cup flagged \cup rejected \cup orphans
          \/ signalled /\ answer.id = id /\ answer.conflict
      BY <2>1 DEF SandboxInv, Accounted
    <3>2. CASE evidence = Lists
      <4>1. Named = created \cup flagged \cup rejected \cup orphans  BY <2>3, <3>2, Zenon DEF Named, Lists
      <4> QED BY <3>1, <4>1
    <3>3. CASE evidence # Lists
      <4>1. Named = created  BY <2>2, <2>3, <3>3 DEF Named
      <4> QED BY <2>3, <3>1, <3>3, <4>1
    <3> QED BY <3>2, <3>3
  <2>5. ASSUME code = 0, execute
        PROVE  /\ Ours /\ evidence.created = 1 .. (Colours + 1) /\ made = evidence.created
               /\ evidence.flagged = {} /\ evidence.rejected = {} /\ evidence.orphans = {}
    <3>1. evidence = Lists /\ Clean(Colours + 1)  BY <2>1, <2>5 DEF SandboxInv, CodeIsEarned
    <3> QED BY <2>3, <3>1, Zenon DEF Clean, Lists
  <2> QED BY <2>1, <2>4, <2>5, Zenon DEF PagesAccountedFor
<1> QED BY <1>1, SandboxInvHolds, PTL
=============================================================================
