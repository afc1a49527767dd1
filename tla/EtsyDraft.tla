----------------------------- MODULE EtsyDraft ------------------------------
(***************************************************************************)
(* EtsyDraftClient.create_draft and its DraftLedger                        *)
(* (integrations/etsy/draft_client.py) for one spec and fixture hash.      *)
(*                                                                         *)
(* Etsy takes no idempotency key, so a file is the ledger: it is created   *)
(* exclusively with the text "pending" before the POST and replaced by     *)
(* "recorded <id>" afterwards, through a second file that is renamed over  *)
(* it.  Every system call and every HTTP exchange is a step of its own;    *)
(* a caller can die between any two of them.  A listing carries the name   *)
(* of the call whose POST created it.                                      *)
(***************************************************************************)
EXTENDS Integers, FiniteSets

CONSTANTS Calls,          \* the calls of create_draft that are ever made
          None,           \* no file, no listing
          MaxConcurrent   \* how many of them run at the same time

VARIABLES
  etsy_pc,   \* the next step of each call
  existing,  \* create_draft's local: the status the ledger had at the start
  walked,    \* the marked drafts the first walk over the pages found
  found,     \* the listing id a call is going to record
  path,      \* the inode under the ledger key's name, or None
  next,      \* the inode under the name with ".next", or None
  content,   \* what is in each inode
  posting,   \* the calls whose POST is on its way
  listings   \* the shop's drafts with this marker

fsVars == <<path, next, content>>
shopVars == <<posting, listings>>
etsyVars == <<etsy_pc, existing, walked, found, fsVars, shopVars>>

\* Each call creates at most one inode under either name.
Inodes == Calls \X {"key", "next"}

ASSUME EtsyAssumption == None \notin Inodes /\ Calls \cap {"none", "pending", "empty"} = {}

EtsyInit ==
  /\ etsy_pc = [c \in Calls |-> "new"]
  /\ existing = [c \in Calls |-> "none"]
  /\ walked = [c \in Calls |-> {}]
  /\ found = [c \in Calls |-> None]
  /\ path = None
  /\ next = None
  /\ content = [i \in Inodes |-> "empty"]
  /\ posting = {}
  /\ listings = {}

Over == {"new", "ready", "refused"}
Running == {c \in Calls : etsy_pc[c] \notin Over}

EtsyGoto(c, label) == etsy_pc' = [etsy_pc EXCEPT ![c] = label]

\* DraftLedger.get; an empty file is refused as corrupt.
Get == IF path = None THEN "none" ELSE content[path]

-----------------------------------------------------------------------------
\* create_draft reads the ledger once; a recorded listing is returned as it is.
Begin(c) ==
  /\ etsy_pc[c] = "new" /\ Cardinality(Running) < MaxConcurrent
  /\ \/ /\ Get \in {"none", "pending"}
        /\ existing' = [existing EXCEPT ![c] = Get]
        /\ EtsyGoto(c, "walk")
        /\ UNCHANGED found
     \/ Get \in Calls /\ EtsyGoto(c, "ready") /\ found' = [found EXCEPT ![c] = Get] /\ UNCHANGED existing
     \/ Get = "empty" /\ EtsyGoto(c, "refused") /\ UNCHANGED <<existing, found>>
  /\ UNCHANGED <<walked, fsVars, shopVars>>

\* One walk over the pages.  A page may be older than the last POST; two
\* drafts with the marker are refused.
Walk(c, page) ==
  /\ etsy_pc[c] = "walk" /\ page \subseteq listings
  /\ walked' = [walked EXCEPT ![c] = page]
  /\ EtsyGoto(c, IF Cardinality(page) > 1 THEN "refused" ELSE "rewalk")
  /\ UNCHANGED <<existing, found, fsVars, shopVars>>

AfterWalks(c) == IF existing[c] = "pending" THEN "refused" ELSE "put"

\* The second walk has to see the same; the draft it finds is adopted.
Rewalk(c, page) ==
  /\ etsy_pc[c] = "rewalk" /\ page \subseteq listings
  /\ \/ page # walked[c] /\ EtsyGoto(c, "refused") /\ UNCHANGED found
     \/ page = walked[c] /\ page = {} /\ EtsyGoto(c, AfterWalks(c)) /\ UNCHANGED found
     \/ /\ page = walked[c]
        /\ \E l \in page : found' = [found EXCEPT ![c] = l]
        /\ EtsyGoto(c, "unlink")
  /\ UNCHANGED <<existing, walked, fsVars, shopVars>>

\* A plausible slip: the POST goes out before the pending file is written.
PutPending_PostsFirst(c) ==
  /\ etsy_pc[c] = "put"
  /\ EtsyGoto(c, "post")
  /\ UNCHANGED <<existing, walked, found, fsVars, shopVars>>

\* put_pending looks again, and returns without a word when a row is there.
PutPending(c) ==
  /\ etsy_pc[c] = "put"
  /\ EtsyGoto(c, IF Get = "none" THEN "exclusive" ELSE IF Get = "empty" THEN "refused" ELSE "post")
  /\ UNCHANGED <<existing, walked, found, fsVars, shopVars>>

\* _create_exclusive: O_CREAT | O_EXCL, then the text and the fsyncs.
OpenExclusive(c) ==
  /\ etsy_pc[c] = "exclusive"
  /\ \/ path = None /\ path' = <<c, "key">> /\ EtsyGoto(c, "write")
     \/ path # None /\ EtsyGoto(c, "refused") /\ UNCHANGED path
  /\ UNCHANGED <<existing, walked, found, next, content, shopVars>>

WritePending(c) ==
  /\ etsy_pc[c] = "write"
  /\ content' = [content EXCEPT ![<<c, "key">>] = "pending"]
  /\ EtsyGoto(c, "post")
  /\ UNCHANGED <<existing, walked, found, path, next, shopVars>>

Post(c) ==
  /\ etsy_pc[c] = "post"
  /\ posting' = posting \cup {c}
  /\ EtsyGoto(c, "wait")
  /\ UNCHANGED <<existing, walked, found, fsVars, listings>>

\* Etsy creates the draft, whether or not the caller still waits.
EtsyCreates(c) ==
  /\ c \in posting
  /\ posting' = posting \ {c}
  /\ listings' = listings \cup {c}
  /\ UNCHANGED <<etsy_pc, existing, walked, found, fsVars>>

\* The answer names a draft with the marker.
Created(c) ==
  /\ etsy_pc[c] = "wait" /\ c \in listings
  /\ found' = [found EXCEPT ![c] = c]
  /\ EtsyGoto(c, "unlink")
  /\ UNCHANGED <<existing, walked, fsVars, shopVars>>

\* record: unlink the old ".next", create and fill a new one, rename it.
RecordUnlink(c) ==
  /\ etsy_pc[c] = "unlink"
  /\ next' = None
  /\ EtsyGoto(c, "create")
  /\ UNCHANGED <<existing, walked, found, path, content, shopVars>>

RecordCreate(c) ==
  /\ etsy_pc[c] = "create"
  /\ \/ next = None /\ next' = <<c, "next">> /\ EtsyGoto(c, "fill")
     \/ next # None /\ EtsyGoto(c, "refused") /\ UNCHANGED next
  /\ UNCHANGED <<existing, walked, found, path, content, shopVars>>

RecordFill(c) ==
  /\ etsy_pc[c] = "fill"
  /\ content' = [content EXCEPT ![<<c, "next">>] = found[c]]
  /\ EtsyGoto(c, "replace")
  /\ UNCHANGED <<existing, walked, found, path, next, shopVars>>

RecordReplace(c) ==
  /\ etsy_pc[c] = "replace"
  /\ \/ next # None /\ path' = next /\ next' = None /\ EtsyGoto(c, "ready")
     \/ next = None /\ EtsyGoto(c, "refused") /\ UNCHANGED <<path, next>>
  /\ UNCHANGED <<existing, walked, found, content, shopVars>>

\* A refusal (an HTTP error, a malformed or unstable page, a lost answer) or
\* the death of the caller ends the call where it is.
EtsyAbandon(c) ==
  /\ c \in Running
  /\ EtsyGoto(c, "refused")
  /\ UNCHANGED <<existing, walked, found, fsVars, shopVars>>

-----------------------------------------------------------------------------
EtsyNext ==
  \E c \in Calls :
    \/ Begin(c)
    \/ \E page \in SUBSET listings : Walk(c, page) \/ Rewalk(c, page)
    \/ PutPending(c)
    \/ OpenExclusive(c)
    \/ WritePending(c)
    \/ Post(c)
    \/ EtsyCreates(c)
    \/ Created(c)
    \/ RecordUnlink(c)
    \/ RecordCreate(c)
    \/ RecordFill(c)
    \/ RecordReplace(c)
    \/ EtsyAbandon(c)

EtsySpec == EtsyInit /\ [][EtsyNext]_etsyVars

-----------------------------------------------------------------------------
\* "A pending key with no adopted draft is not posted again."  However calls
\* die, time out and are repeated, one POST reaches the shop.
PostedOnce == \A c, d \in posting \cup listings : c = d

\* What later callers may rely on: one draft, and a record that names it.
EtsyOnce == INSTANCE OnceOnly WITH
  Ids <- Calls, objects <- listings, confirmed <- {Get} \cap Calls

\* One caller at a time, crashes included, implements the once-only promise.
EtsyOncePromise == EtsyOnce!Spec
=============================================================================
