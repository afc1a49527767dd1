----------------------------- MODULE ReceiptLog -----------------------------
(***************************************************************************)
(* The append-only log of Notion operation receipts                        *)
(* (observability/receipts.py): instances of one process that share a path *)
(* share a lock object, held weakly by a registry; a record re-reads the   *)
(* file, refuses a key it finds, repairs a torn tail and appends a line.   *)
(* A write may fail and the process may die in the middle of a line.       *)
(***************************************************************************)
EXTENDS Integers, FiniteSets, Sequences, Functions

CONSTANTS
  Logs,      \* the slots for log instances of the process
  Keys,      \* idempotency keys
  MaxLocks,  \* bound: lock objects made
  MaxFaults  \* bound: failed writes and deaths of the process

VARIABLES
  lines,     \* the newline-terminated lines: a key, or Corrupt
  tail,      \* what follows the last newline: Nothing, Torn, or a key
  at,        \* log -> the step its instance is at, or "none"
  mem,       \* log -> _by_key
  lock,      \* log -> the lock object its instance holds a reference to
  registry,  \* the lock object _PATH_LOCKS has for the path, or 0
  holder,    \* lock object -> the log that holds it, or Nobody
  locks,     \* lock objects made so far
  want,      \* log -> the key its record is about
  acked,     \* keys whose record returned
  faults

receiptVars == <<lines, tail, at, mem, lock, registry, holder, locks, want, acked, faults>>

CONSTANTS Nobody, Nothing, Torn, Corrupt

\* The four are neither logs nor keys.
ASSUME ReceiptAssumption ==
  MaxLocks \in Nat /\ Nobody \notin Logs /\ {Nothing, Torn, Corrupt} \cap Keys = {}

-----------------------------------------------------------------------------
\* The lines a load sees: a complete tail counts, a torn one is skipped.
LogicalLines == IF tail \in Keys THEN Append(lines, tail) ELSE lines

Loads == IsInjective(LogicalLines) /\ Corrupt \notin Range(LogicalLines)

InstancesOf(o) == {g \in Logs : at[g] # "none" /\ lock[g] = o}

\* A plausible slip: logs look the lock up without keeping a reference.
RegistryAfter_Weak(gone) == 0

\* The registry forgets a lock when its last log is gone.
RegistryAfter(gone) ==
  IF registry # 0 /\ InstancesOf(registry) \subseteq gone THEN 0 ELSE registry

Init ==
  /\ lines = <<>>
  /\ tail = Nothing
  /\ at = [g \in Logs |-> "none"]
  /\ mem = [g \in Logs |-> {}]
  /\ lock = [g \in Logs |-> 0]
  /\ registry = 0
  /\ holder = [o \in 1..MaxLocks |-> Nobody]
  /\ locks = 0
  /\ want = [g \in Logs |-> Nothing]
  /\ acked = {}
  /\ faults = 0

\* __init__ up to the lock: the registry's lock object, or a new one.
Open(g) ==
  /\ at[g] = "none"
  /\ LET fresh == registry = 0
         o == IF fresh THEN locks + 1 ELSE registry
     IN  /\ o <= MaxLocks
         /\ locks' = IF fresh THEN o ELSE locks
         /\ registry' = o
         /\ lock' = [lock EXCEPT ![g] = o]
  /\ at' = [at EXCEPT ![g] = "opening"]
  /\ UNCHANGED <<lines, tail, mem, holder, want, acked, faults>>

\* _load under the lock; a file that does not load leaves no instance.
Load(g) ==
  /\ at[g] = "opening"
  /\ holder[lock[g]] = Nobody
  /\ IF Loads
     THEN /\ mem' = [mem EXCEPT ![g] = Range(LogicalLines)]
          /\ at' = [at EXCEPT ![g] = "idle"]
          /\ UNCHANGED registry
     ELSE /\ at' = [at EXCEPT ![g] = "none"]
          /\ registry' = RegistryAfter({g})
          /\ UNCHANGED mem
  /\ UNCHANGED <<lines, tail, lock, holder, locks, want, acked, faults>>

\* The caller drops a log; another one may be opened for the path later.
Drop(g) ==
  /\ at[g] = "idle"
  /\ at' = [at EXCEPT ![g] = "none"]
  /\ mem' = [mem EXCEPT ![g] = {}]
  /\ registry' = RegistryAfter({g})
  /\ UNCHANGED <<lines, tail, lock, holder, locks, want, acked, faults>>

Record(g, k) ==
  /\ at[g] = "idle"
  /\ holder[lock[g]] = Nobody
  /\ holder' = [holder EXCEPT ![lock[g]] = g]
  /\ want' = [want EXCEPT ![g] = k]
  /\ at' = [at EXCEPT ![g] = "locked"]
  /\ UNCHANGED <<lines, tail, mem, lock, registry, locks, acked, faults>>

\* _load_new_keys adds the keys other logs wrote since.
Reload(g) == mem[g] \union Range(LogicalLines)

\* The record leaves the lock and is done.
Release(g) ==
  /\ holder' = [holder EXCEPT ![lock[g]] = Nobody]
  /\ at' = [at EXCEPT ![g] = "idle"]
  /\ want' = [want EXCEPT ![g] = Nothing]

\* The re-read, and the refusal of a key that is recorded already.
Check(g) ==
  /\ at[g] = "locked"
  /\ IF Loads
     THEN /\ mem' = [mem EXCEPT ![g] = Reload(g)]
          /\ \/ want[g] \in Reload(g) /\ Release(g)
             \/ /\ want[g] \notin Reload(g)
                /\ at' = [at EXCEPT ![g] = "checked"]
                /\ UNCHANGED <<holder, want>>
     ELSE Release(g) /\ UNCHANGED mem
  /\ UNCHANGED <<lines, tail, lock, registry, locks, acked, faults>>

\* _repair_tail: a complete last line gets its newline, a fragment is cut off.
RepairTail(g) ==
  /\ at[g] = "checked"
  /\ lines' = LogicalLines
  /\ tail' = Nothing
  /\ at' = [at EXCEPT ![g] = "repaired"]
  /\ UNCHANGED <<mem, lock, registry, holder, locks, want, acked, faults>>

\* What a write cut off at a part of the line leaves: nothing, a fragment, all but the
\* newline, or the whole line.  After a tail, they run into one line.
Written(part, k) ==
  /\ lines' = IF part = "line" THEN Append(lines, IF tail = Nothing THEN k ELSE Corrupt)
              ELSE lines
  /\ tail' = CASE part = "nothing" -> tail
               [] part = "fragment" -> Torn
               [] part = "unended" -> IF tail = Nothing THEN k ELSE Torn
               [] part = "line" -> Nothing

\* The line is written and the receipt remembered and returned.
AppendLine(g) ==
  /\ at[g] = "repaired"
  /\ Written("line", want[g])
  /\ mem' = [mem EXCEPT ![g] = @ \union {want[g]}]
  /\ acked' = acked \union {want[g]}
  /\ Release(g)
  /\ UNCHANGED <<lock, registry, locks, faults>>

\* The write raises: part of the line may be in the file, the record fails.
AppendFails(g, part) ==
  /\ at[g] = "repaired"
  /\ faults < MaxFaults
  /\ Written(part, want[g])
  /\ Release(g)
  /\ faults' = faults + 1
  /\ UNCHANGED <<mem, lock, registry, locks, acked>>

\* The process dies, perhaps in the middle of a write; its logs are gone.
Die(part) ==
  /\ faults < MaxFaults
  /\ \/ \E g \in Logs : at[g] = "repaired" /\ Written(part, want[g])
     \/ part = "nothing" /\ UNCHANGED <<lines, tail>>
  /\ at' = [g \in Logs |-> "none"]
  /\ mem' = [g \in Logs |-> {}]
  /\ lock' = [g \in Logs |-> 0]
  /\ registry' = 0
  /\ holder' = [o \in 1..MaxLocks |-> Nobody]
  /\ locks' = 0
  /\ want' = [g \in Logs |-> Nothing]
  /\ faults' = faults + 1
  /\ UNCHANGED acked

Parts == {"nothing", "fragment", "unended", "line"}

Next ==
  \/ \E g \in Logs :
       \/ Open(g) \/ Load(g) \/ Drop(g) \/ Check(g) \/ RepairTail(g) \/ AppendLine(g)
       \/ \E k \in Keys : Record(g, k)
       \/ \E part \in Parts : AppendFails(g, part)
  \/ \E part \in Parts : Die(part)

Spec == Init /\ [][Next]_receiptVars

-----------------------------------------------------------------------------
\* The log never locks itself out: whatever instances record, drop and reopen
\* and wherever a write is cut off, the file loads (no key is in it twice and no
\* complete line is damaged), and a receipt whose record returned is in it.
ReceiptsStay == Loads /\ acked \subseteq Range(LogicalLines)
=============================================================================
