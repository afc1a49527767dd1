----------------------------- MODULE AssetStore -----------------------------
(***************************************************************************)
(* The local asset store (integrations/storage/local.py): writers put an   *)
(* object under its digest by way of a temporary file and a hard link,     *)
(* temporaries are discarded and cleaned up, and writers die or the power  *)
(* fails between any two of their steps.  One digest is modelled, so all   *)
(* writers bring the same bytes; each role has a directory of its own,     *)
(* which an earlier object brought to disk (_ensure_dirs forces out none   *)
(* of the directories it makes).                                           *)
(***************************************************************************)
EXTENDS Integers, FiniteSets

CONSTANTS
  Writers,
  MaxPuts,        \* bound: calls of publish and put_temporary
  MaxStoreFaults  \* bound: failed writes, deaths and power failures

Roles == {"published", "temporary"}

VARIABLES
  object,     \* role -> what a read of the digest's name finds: "absent",
             \*   "loose" (bytes not on disk yet), "whole" or "torn"
  disk,       \* role -> what the disk holds of the name
  writer_at,  \* writer -> its step
  role,       \* writer -> the role of its put
  temp,       \* writer -> its temporary file: "none", "partial", "loose", "whole"
  stored,     \* roles for which a put that linked the object returned
  leftover,   \* temporary files whose writer is gone
  puts,
  store_faults

assetVars == <<object, disk, writer_at, role, temp, stored, leftover, puts, store_faults>>

StoreInit ==
  /\ object = [r \in Roles |-> "absent"]
  /\ disk = [r \in Roles |-> "absent"]
  /\ writer_at = [w \in Writers |-> "idle"]
  /\ role = [w \in Writers |-> "temporary"]
  /\ temp = [w \in Writers |-> "none"]
  /\ stored = {}
  /\ leftover = 0
  /\ puts = 0
  /\ store_faults = 0

Go(w, step) == writer_at' = [writer_at EXCEPT ![w] = step]

\* The put returns or raises: its temporary file, if any, is unlinked.
StoreFinally(w) ==
  /\ Go(w, "idle")
  /\ temp' = [temp EXCEPT ![w] = "none"]

\* _put and the first look: bytes that are there already are the answer, and
\* other bytes under the digest are a collision.
Put(w, r) ==
  /\ writer_at[w] = "idle"
  /\ puts < MaxPuts
  /\ puts' = puts + 1
  /\ role' = [role EXCEPT ![w] = r]
  /\ Go(w, IF object[r] = "absent" THEN "create" ELSE "idle")
  /\ UNCHANGED <<object, disk, temp, stored, leftover, store_faults>>

Create(w) ==
  /\ writer_at[w] = "create"
  /\ temp' = [temp EXCEPT ![w] = "partial"]
  /\ Go(w, "write")
  /\ UNCHANGED <<object, disk, role, stored, leftover, puts, store_faults>>

Write(w) ==
  /\ writer_at[w] = "write"
  /\ temp' = [temp EXCEPT ![w] = "loose"]
  /\ Go(w, "sync")
  /\ UNCHANGED <<object, disk, role, stored, leftover, puts, store_faults>>

\* os.open, os.write, os.fsync or os.link raises.
Fail(w) ==
  /\ writer_at[w] \in {"create", "write", "sync", "link", "syncParent"}
  /\ store_faults < MaxStoreFaults
  /\ store_faults' = store_faults + 1
  /\ StoreFinally(w)
  /\ UNCHANGED <<object, disk, role, stored, leftover, puts>>

\* A plausible slip: the bytes are not forced out before the link.
Sync_Skips(w) ==
  /\ writer_at[w] = "sync"
  /\ Go(w, "link")
  /\ UNCHANGED <<object, disk, role, temp, stored, leftover, puts, store_faults>>

Sync(w) ==
  /\ writer_at[w] = "sync"
  /\ temp' = [temp EXCEPT ![w] = "whole"]
  /\ Go(w, "link")
  /\ UNCHANGED <<object, disk, role, stored, leftover, puts, store_faults>>

\* The hard link takes the name, unless another writer was faster.
Link(w) ==
  /\ writer_at[w] = "link"
  /\ IF object[role[w]] = "absent"
     THEN /\ object' = [object EXCEPT ![role[w]] = temp[w]]
          /\ Go(w, "syncParent")
     ELSE Go(w, "exists") /\ UNCHANGED object
  /\ UNCHANGED <<disk, role, temp, stored, leftover, puts, store_faults>>

\* The faster writer's object is read: it is the answer, gone again (storage
\* missing) or a collision.
Exists(w) ==
  /\ writer_at[w] = "exists"
  /\ StoreFinally(w)
  /\ UNCHANGED <<object, disk, role, stored, leftover, puts, store_faults>>

\* The directory is forced out and the put returns.
SyncParent(w) ==
  /\ writer_at[w] = "syncParent"
  /\ disk' = [disk EXCEPT ![role[w]] = object[role[w]]]
  /\ stored' = stored \union {role[w]}
  /\ StoreFinally(w)
  /\ UNCHANGED <<object, role, leftover, puts, store_faults>>

\* discard of the temporary object, and cleanup_temporary with another keep
\* hash; both leave published objects and the dotted temporary files alone.
Discard ==
  /\ object["temporary"] # "absent"
  /\ object' = [object EXCEPT !["temporary"] = "absent"]
  /\ stored' = stored \ {"temporary"}
  /\ UNCHANGED <<disk, writer_at, role, temp, leftover, puts, store_faults>>

\* A writer dies; nothing removes its temporary file later.
StoreDie(w) ==
  /\ writer_at[w] # "idle"
  /\ store_faults < MaxStoreFaults
  /\ store_faults' = store_faults + 1
  /\ leftover' = leftover + IF temp[w] = "none" THEN 0 ELSE 1
  /\ StoreFinally(w)
  /\ UNCHANGED <<object, disk, role, stored, puts>>

\* What is left of a name: what the disk has, or what was on its way there,
\* without the bytes that were not forced out.
Survivors(r) == {disk[r], object[r]}
Bytes(o) == IF o = "loose" THEN "torn" ELSE o

PowerFails ==
  /\ store_faults < MaxStoreFaults
  /\ store_faults' = store_faults + 1
  /\ \E p \in Survivors("published"), t \in Survivors("temporary") :
       object' = [r \in Roles |-> Bytes(IF r = "published" THEN p ELSE t)]
  /\ disk' = object'
  /\ writer_at' = [w \in Writers |-> "idle"]
  /\ leftover' = leftover + Cardinality({w \in Writers : temp[w] # "none"})
  /\ temp' = [w \in Writers |-> "none"]
  /\ stored' = stored \ {"temporary"}
  /\ UNCHANGED <<role, puts>>

StoreNext ==
  \/ \E w \in Writers :
       \/ \E r \in Roles : Put(w, r)
       \/ Create(w) \/ Write(w) \/ Sync(w) \/ Link(w) \/ Exists(w) \/ SyncParent(w)
       \/ Fail(w) \/ StoreDie(w)
  \/ Discard
  \/ PowerFails

StoreSpec == StoreInit /\ [][StoreNext]_assetVars

-----------------------------------------------------------------------------
\* Whatever is cut off, a digest never names half an object: a put either finds
\* the whole object, or finds none and can write it.  And once a put that linked
\* a published object returned, the object stays, over discards, cleanups, later
\* puts and power failures.
NamedIsWhole ==
  /\ \A r \in Roles : object[r] # "torn"
  /\ "published" \in stored => object["published"] = "whole"
=============================================================================
