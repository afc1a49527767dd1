----------------------------- MODULE EtsyProofs -----------------------------
(***************************************************************************)
(* Proofs about the way of a product to the shop: EtsyDraft posts a draft  *)
(* once and implements OnceOnly when one caller runs at a time, of which   *)
(* any number may die and be repeated; DraftSuccessor makes the listing's  *)
(* job with the completion and never revives it; AssetLineage lets a draft *)
(* get ready over current assets only; and PublishingRamp keeps the        *)
(* publications under the caps.                                            *)
(* They share no state; each section states the inductive invariant of     *)
(* one of them and derives from it the properties that the runs check on   *)
(* small instances.                                                        *)
(***************************************************************************)
EXTENDS EtsyDraft, DraftSuccessor, AssetLineage, PublishingRamp,
        FiniteSetTheorems, TLAPS

\* How long, in seconds, a prover may work on a step.
USE SMTT(30), ZenonT(30)

-----------------------------------------------------------------------------
(* EtsyDraft.                                                              *)

\* The steps of a call.
Labels == {"new", "walk", "rewalk", "put", "exclusive", "write", "post", "wait", "unlink",
           "create", "fill", "replace", "ready", "refused"}

EtsyType ==
  /\ etsy_pc \in [Calls -> Labels]
  /\ existing \in [Calls -> {"none", "pending"}]
  /\ walked \in [Calls -> SUBSET Calls]
  /\ found \in [Calls -> Calls \cup {None}]
  /\ path \in Inodes \cup {None} /\ next \in Inodes \cup {None}
  /\ content \in [Inodes -> {"empty", "pending"} \cup Calls]
  /\ \A c \in Calls : content[<<c, "key">>] \in {"empty", "pending"}
  /\ posting \subseteq Calls /\ listings \subseteq Calls

\* Nothing has been posted under a name that is free, and a record names the
\* draft that is there and is never written again.
LedgerBacked ==
  /\ path = None => posting \cup listings = {}
  /\ \A c \in Calls : path = <<c, "next">> => etsy_pc[c] = "ready" /\ content[path] \in listings
  /\ posting \cap listings = {}

\* What the running call has seen is still so.
SeenStill(c) ==
  LET at == etsy_pc[c]
  IN  /\ at \in {"walk", "rewalk"} => existing[c] = Get
      /\ at \in {"put", "exclusive"} => path = None
      /\ at \in {"write", "post"} => path = <<c, "key">> /\ posting \cup listings = {}
      /\ at = "rewalk" => walked[c] \subseteq listings
      /\ at \in {"wait", "unlink", "create", "fill", "replace"} =>
           \E d \in Calls : path = <<d, "key">>
      /\ at \in {"unlink", "create", "fill", "replace"} => found[c] \in listings
      /\ at \in {"fill", "replace"} => next = <<c, "next">>
      /\ at = "replace" => content[<<c, "next">>] = found[c]

\* The inductive invariant of EtsyDraft.
EtsyInv ==
  /\ EtsyType /\ LedgerBacked /\ PostedOnce
  /\ \A c, d \in Running : c = d
  /\ \A c \in Calls : SeenStill(c)

\* The words of the ledger name no listing, and a missing file is no inode.
LEMMA EtsyNames ==
  /\ "none" \notin Calls /\ "pending" \notin Calls /\ "empty" \notin Calls
  /\ \A c \in Calls : /\ <<c, "key">> \in Inodes /\ <<c, "key">> # None
                      /\ <<c, "next">> \in Inodes /\ <<c, "next">> # None
  /\ \A i \in Inodes : \E c \in Calls : i = <<c, "key">> \/ i = <<c, "next">>
  <1>1. \A c \in Calls : <<c, "key">> \in Inodes /\ <<c, "next">> \in Inodes
    BY DEF Inodes
  <1>2. \A i \in Inodes : \E c \in Calls : i = <<c, "key">> \/ i = <<c, "next">>
    BY DEF Inodes
  <1> QED
    BY <1>1, <1>2, EtsyAssumption

\* The ledger's answer tells which file there is.
LEMMA GetTells ==
  ASSUME EtsyInv
  PROVE  /\ Get = "none" => path = None
         /\ Get = "pending" => \E d \in Calls : path = <<d, "key">>
         /\ Get \in Calls <=> \E d \in Calls : path = <<d, "next">>
  <1>1. CASE path = None
    BY Zenon, <1>1, EtsyNames DEF Get
  <1>2. CASE path # None
    <2>1. path \in Inodes /\ Get = content[path]
      BY <1>2 DEF EtsyInv, EtsyType, Get
    <2>2. PICK d \in Calls : path = <<d, "key">> \/ path = <<d, "next">>
      BY <2>1, EtsyNames
    <2>3. CASE path = <<d, "key">>
      <3>1. Get \in {"empty", "pending"}
        BY <2>1, <2>3 DEF EtsyInv, EtsyType
      <3> QED
        BY <2>3, <3>1, EtsyNames
    <2>4. CASE path = <<d, "next">>
      <3>1. Get \in Calls
        BY <2>1, <2>4 DEF EtsyInv, EtsyType, LedgerBacked
      <3> QED
        BY <2>4, <3>1, EtsyNames
    <2> QED
      BY <2>2, <2>3, <2>4
  <1> QED
    BY <1>1, <1>2

\* Before the first call.
LEMMA EtsyInitInv == EtsyInit => EtsyInv
  <1> SUFFICES ASSUME EtsyInit PROVE EtsyInv
    OBVIOUS
  <1>1. EtsyType
    BY DEF EtsyInit, EtsyType, Labels, Inodes
  <1>2. LedgerBacked
    BY Zenon, EtsyNames DEF EtsyInit, LedgerBacked
  <1> QED
    BY <1>1, <1>2 DEF EtsyInit, EtsyInv, PostedOnce, Running, Over, SeenStill

\* A call begins when no other is running.
LEMMA BeginsAlone ==
  ASSUME EtsyInv, MaxConcurrent = 1, NEW c \in Calls, Begin(c)
  PROVE  Running = {}
  <1> SUFFICES ASSUME NEW d \in Running PROVE FALSE
    OBVIOUS
  <1>1. Running = {d}
    BY DEF EtsyInv
  <1>2. Cardinality({d}) = 1
    BY FS_Singleton
  <1>3. Cardinality(Running) < 1
    BY DEF Begin
  <1> QED
    BY <1>1, <1>2, <1>3

\* While one call runs, what the others have seen does not matter.
LEMMA OneCallRuns ==
  ASSUME EtsyInv, NEW c \in Calls, etsy_pc[c] \notin Over, NEW label \in Labels,
         etsy_pc' = [etsy_pc EXCEPT ![c] = label]
  PROVE  /\ \A d \in Calls \ {c} : SeenStill(d)' /\ etsy_pc[d] \in Over
         /\ (\A x, y \in Running : x = y)'
         /\ etsy_pc' \in [Calls -> Labels]
         /\ etsy_pc'[c] = label
  <1>1. \A d \in Calls \ {c} : etsy_pc[d] \in Over /\ etsy_pc'[d] = etsy_pc[d]
    BY DEF EtsyInv, Running, EtsyType
  <1> QED
    BY <1>1 DEF EtsyInv, EtsyType, SeenStill, Over, Running

\* A call that begins reads a ledger no other call is writing.
LEMMA BeginKeepsInv ==
  ASSUME EtsyInv, MaxConcurrent = 1, NEW c \in Calls, Begin(c)
  PROVE  EtsyInv'
  <1> USE DEF EtsyInv, Begin, EtsyGoto, fsVars, shopVars
  <1>1. \A d \in Calls : etsy_pc[d] \in Over
    BY BeginsAlone DEF Running
  <1>2. /\ \A d \in Calls \ {c} : etsy_pc'[d] \in Over
        /\ etsy_pc' \in [Calls -> Labels] /\ etsy_pc'[c] \in {"walk", "ready", "refused"}
        /\ \A d \in Calls : etsy_pc[d] = "ready" => etsy_pc'[d] = "ready"
    BY <1>1 DEF EtsyType, Labels
  <1>3. EtsyType'
    BY <1>2 DEF EtsyType, Labels, Inodes
  <1>4. LedgerBacked' /\ PostedOnce'
    BY <1>2 DEF LedgerBacked, PostedOnce
  <1>5. SeenStill(c)'
    BY <1>2 DEF SeenStill, EtsyType, Get
  <1>6. \A d \in Calls \ {c} : SeenStill(d)'
    BY Zenon, <1>2 DEF SeenStill, Over
  <1>7. (\A x, y \in Running : x = y)'
    BY <1>2 DEF Running
  <1> QED
    BY <1>3, <1>4, <1>5, <1>6, <1>7

\* The steps that touch neither the files nor the shop.
LEMMA WalksKeepInv ==
  ASSUME EtsyInv, NEW c \in Calls,
         \/ \E page \in SUBSET listings : Walk(c, page) \/ Rewalk(c, page)
         \/ PutPending(c) \/ Created(c) \/ EtsyAbandon(c)
  PROVE  EtsyInv'
  <1> USE DEF EtsyInv, EtsyGoto, fsVars, shopVars
  <1>1. UNCHANGED <<existing, path, next, content, posting, listings>>
    BY DEF Walk, Rewalk, PutPending, Created, EtsyAbandon
  <1>2. PICK label \in Labels : etsy_pc' = [etsy_pc EXCEPT ![c] = label]
    BY DEF Walk, Rewalk, AfterWalks, PutPending, Created, EtsyAbandon,
       Labels
  <1>3. etsy_pc[c] \notin Over
    BY DEF Walk, Rewalk, PutPending, Created, EtsyAbandon, Running,
       Over
  <1>4. walked' \in [Calls -> SUBSET Calls] /\ found' \in [Calls -> Calls \cup {None}]
    BY DEF EtsyType, Walk, Rewalk, PutPending, Created, EtsyAbandon
  <1>5. EtsyType'
    BY Zenon, <1>1, <1>2, <1>3, <1>4, OneCallRuns DEF EtsyType, Labels, Inodes
  <1>6. LedgerBacked' /\ PostedOnce'
    BY <1>1, <1>2, <1>3 DEF EtsyType, LedgerBacked, PostedOnce, Over
  <1>7. SeenStill(c)'
    <2>1. ASSUME NEW page \in SUBSET listings, Walk(c, page)
          PROVE  SeenStill(c)'
      BY Zenon, <1>1, <2>1 DEF SeenStill, Walk, EtsyType, Get
    <2>2. ASSUME NEW page \in SUBSET listings, Rewalk(c, page)
          PROVE  SeenStill(c)'
      <3>1. existing[c] = "none" => path = None /\ listings = {}
        BY Zenon, <2>2, GetTells DEF Rewalk, SeenStill, LedgerBacked
      <3>2. existing[c] = "pending" => \E d \in Calls : path = <<d, "key">>
        BY Zenon, <2>2, GetTells DEF Rewalk, SeenStill
      <3> QED
        BY <1>1, <2>2, <3>1, <3>2 DEF SeenStill, Rewalk, AfterWalks, EtsyType
    <2>3. CASE PutPending(c)
      BY Zenon, <1>1, <2>3 DEF SeenStill, PutPending, EtsyType, Get
    <2>4. CASE Created(c)
      BY Zenon, <1>1, <2>4 DEF SeenStill, Created, EtsyType
    <2>5. CASE EtsyAbandon(c)
      BY <1>1, <2>5, Zenon DEF SeenStill, EtsyAbandon, EtsyType
    <2> QED
      BY <2>1, <2>2, <2>3, <2>4, <2>5
  <1> QED
    BY Zenon, <1>2, <1>3, <1>5, <1>6, <1>7, OneCallRuns

\* The steps that write the ledger's files, and the POST.
LEMMA FilesKeepInv ==
  ASSUME EtsyInv, NEW c \in Calls,
         \/ OpenExclusive(c) \/ WritePending(c) \/ Post(c)
         \/ RecordUnlink(c) \/ RecordCreate(c) \/ RecordFill(c)
         \/ RecordReplace(c)
  PROVE  EtsyInv'
  <1> USE DEF EtsyInv, EtsyGoto, fsVars, shopVars
  <1>1. UNCHANGED <<existing, walked, found, listings>>
    BY DEF OpenExclusive, WritePending, Post, RecordUnlink,
       RecordCreate, RecordFill, RecordReplace
  <1>2. PICK label \in Labels : etsy_pc' = [etsy_pc EXCEPT ![c] = label]
    BY DEF OpenExclusive, WritePending, Post, RecordUnlink,
       RecordCreate, RecordFill, RecordReplace, Labels
  <1>3. etsy_pc[c] \notin Over
    BY DEF OpenExclusive, WritePending, Post, RecordUnlink,
       RecordCreate, RecordFill, RecordReplace, Over
  <1>4. /\ \A d \in Calls \ {c} : SeenStill(d)' /\ etsy_pc[d] \in Over
        /\ (\A x, y \in Running : x = y)'
        /\ etsy_pc' \in [Calls -> Labels] /\ etsy_pc'[c] = label
        /\ \A d \in Calls \ {c} : etsy_pc'[d] = etsy_pc[d]
    BY ZenonT(30), <1>2, <1>3, OneCallRuns DEF EtsyType
  <1>5. path = <<c, "next">> => etsy_pc[c] = "ready"
    BY Zenon DEF LedgerBacked
  <1> SUFFICES EtsyType' /\ LedgerBacked' /\ PostedOnce' /\ SeenStill(c)'
    BY <1>4
  <1>6. CASE OpenExclusive(c)
    <2>1. EtsyType'
      BY <1>1, <1>4, <1>6, EtsyNames DEF EtsyType, OpenExclusive, Labels, Inodes
    <2>2. LedgerBacked' /\ PostedOnce'
      BY <1>1, <1>3, <1>4, <1>6, EtsyNames DEF LedgerBacked, PostedOnce, OpenExclusive,
         Over, SeenStill
    <2>3. SeenStill(c)'
      BY <1>1, <1>6, ZenonT(30) DEF EtsyType, SeenStill, LedgerBacked, OpenExclusive
    <2> QED
      BY <2>1, <2>2, <2>3
  <1>7. CASE WritePending(c)
    <2>1. EtsyType'
      BY <1>1, <1>4, <1>7, EtsyNames DEF EtsyType, WritePending, Labels, Inodes
    <2>2. LedgerBacked' /\ PostedOnce'
      BY <1>1, <1>3, <1>4, <1>7, EtsyNames DEF LedgerBacked, PostedOnce, WritePending,
         Over, SeenStill
    <2>3. SeenStill(c)'
      BY Zenon, <1>1, <1>7 DEF EtsyType, SeenStill, WritePending
    <2> QED
      BY <2>1, <2>2, <2>3
  <1>8. CASE Post(c)
    <2>1. EtsyType'
      BY <1>1, <1>4, <1>8, ZenonT(30) DEF EtsyType, Post, Labels, Inodes
    <2>2. LedgerBacked' /\ PostedOnce'
      BY ZenonT(30), <1>1, <1>3, <1>4, <1>8, EtsyNames DEF LedgerBacked, PostedOnce, Post,
         Over, SeenStill
    <2>3. SeenStill(c)'
      BY Zenon, <1>1, <1>8 DEF EtsyType, SeenStill, Post
    <2> QED
      BY <2>1, <2>2, <2>3
  <1>9. CASE RecordUnlink(c) \/ RecordCreate(c)
    <2>1. EtsyType'
      BY <1>1, <1>4, <1>9, EtsyNames
      DEF EtsyType, RecordUnlink, RecordCreate, Labels, Inodes
    <2>2. LedgerBacked' /\ PostedOnce'
      BY <1>1, <1>3, <1>4, <1>9, Zenon
      DEF LedgerBacked, PostedOnce, RecordUnlink, RecordCreate, Over
    <2>3. SeenStill(c)'
      BY <1>1, <1>9, ZenonT(30) DEF EtsyType, SeenStill, RecordUnlink, RecordCreate
    <2> QED
      BY <2>1, <2>2, <2>3
  <1>10. CASE RecordFill(c)
    <2>1. found[c] \in Calls /\ content' = [content EXCEPT ![<<c, "next">>] = found[c]]
      BY <1>10 DEF EtsyType, SeenStill, RecordFill
    <2>2. EtsyType'
      <3>1. content' \in [Inodes -> {"empty", "pending"} \cup Calls]
        BY Zenon, <2>1 DEF EtsyType
      <3>2. \A d \in Calls : content'[<<d, "key">>] = content[<<d, "key">>]
        BY <2>1, EtsyNames, ZenonT(30) DEF EtsyType
      <3> QED
        BY <1>1, <1>4, <1>10, <3>1, <3>2 DEF EtsyType, RecordFill, Labels, Inodes
    <2>3. LedgerBacked' /\ PostedOnce'
      BY <1>1, <1>3, <1>4, <1>5, <1>10 DEF LedgerBacked, PostedOnce, RecordFill,
         Over
    <2>4. SeenStill(c)'
      <3>1. content'[<<c, "next">>] = found[c]
        BY Zenon, <2>1, EtsyNames DEF EtsyType
      <3>2. etsy_pc[c] = "fill" /\ etsy_pc'[c] = "replace" /\ UNCHANGED <<path, next>>
        BY <1>10 DEF EtsyType, RecordFill
      <3> QED
        BY <1>1, <3>1, <3>2, Zenon DEF SeenStill
    <2> QED
      BY <2>2, <2>3, <2>4
  <1>11. CASE RecordReplace(c)
    <2>1. /\ next = <<c, "next">> /\ content[<<c, "next">>] = found[c]
          /\ found[c] \in listings /\ <<c, "next">> # None
      BY Zenon, <1>11, EtsyNames DEF SeenStill, RecordReplace
    <2>2. path' = <<c, "next">> /\ next' = None /\ etsy_pc'[c] = "ready"
      BY <1>4, <1>11, <2>1, ZenonT(30) DEF RecordReplace, EtsyType
    <2>3. EtsyType'
      BY <1>1, <1>4, <1>11, <2>2, EtsyNames DEF EtsyType, RecordReplace, Labels, Inodes
    <2>4. LedgerBacked' /\ PostedOnce'
      BY <1>1, <1>4, <1>11, <2>1, <2>2, Zenon DEF LedgerBacked, PostedOnce, RecordReplace
    <2>5. SeenStill(c)'
      BY <2>2, Zenon DEF SeenStill
    <2> QED
      BY <2>3, <2>4, <2>5
  <1> QED
    BY <1>6, <1>7, <1>8, <1>9, <1>10, <1>11

\* Etsy answers the one POST, whoever still waits for it.
LEMMA CreatesKeepsInv ==
  ASSUME EtsyInv, NEW c \in Calls, EtsyCreates(c)
  PROVE  EtsyInv'
  <1> USE DEF EtsyInv, EtsyCreates, fsVars
  <1>1. EtsyType'
    BY Zenon DEF EtsyType, Labels, Inodes
  <1>2. LedgerBacked' /\ PostedOnce'
    BY Zenon DEF LedgerBacked, PostedOnce
  <1>3. \A d \in Calls : SeenStill(d)'
    BY Zenon DEF SeenStill, Get
  <1>4. (\A x, y \in Running : x = y)'
    BY DEF Running, Over
  <1> QED
    BY <1>1, <1>2, <1>3, <1>4

\* With one call at a time the invariant holds in every run.
LEMMA EtsySafe ==
  ASSUME MaxConcurrent = 1
  PROVE  EtsySpec => []EtsyInv
  <1>1. EtsyInv /\ [EtsyNext]_etsyVars => EtsyInv'
    <2>1. ASSUME EtsyInv, UNCHANGED etsyVars PROVE EtsyInv'
      BY <2>1, ZenonT(30) DEF etsyVars, fsVars, shopVars, EtsyInv, EtsyType, LedgerBacked,
         PostedOnce, Running, Over, SeenStill, Get, Labels, Inodes
    <2> QED
      BY <2>1, BeginKeepsInv, WalksKeepInv, FilesKeepInv, CreatesKeepsInv DEF EtsyNext
  <1> QED
    BY <1>1, EtsyInitInv, PTL DEF EtsySpec

\* One caller at a time, however many die and are repeated, posts once.
THEOREM OnePost ==
  ASSUME MaxConcurrent = 1
  PROVE  EtsySpec => []PostedOnce
  BY EtsySafe, PTL DEF EtsyInv

InLedger == {Get} \cap Calls

\* Only the rename of record changes what the ledger names.
LEMMA RecordedStays ==
  ASSUME EtsyInv, MaxConcurrent = 1, NEW c \in Calls, NEW page,
         \/ Begin(c) \/ Walk(c, page) \/ Rewalk(c, page) \/ PutPending(c)
         \/ OpenExclusive(c) \/ WritePending(c) \/ Post(c) \/ EtsyCreates(c)
         \/ Created(c) \/ RecordUnlink(c) \/ RecordCreate(c) \/ RecordFill(c)
         \/ EtsyAbandon(c)
  PROVE  InLedger' = InLedger
  <1>1. CASE UNCHANGED <<path, content>>
    BY <1>1 DEF InLedger, Get
  <1>2. CASE OpenExclusive(c) /\ path = None
    <2>1. content[<<c, "key">>] \notin Calls
      BY EtsyNames, Zenon DEF EtsyInv, EtsyType
    <2>2. Get \notin Calls /\ Get' = content[<<c, "key">>]
      BY Zenon, <1>2, EtsyNames DEF OpenExclusive, Get
    <2> QED
      BY <2>1, <2>2, Zenon DEF InLedger
  <1>3. CASE WritePending(c)
    <2>1. path = <<c, "key">> /\ path' = path
      BY Zenon, <1>3 DEF WritePending, EtsyInv, SeenStill
    <2>2. content[path] \notin Calls /\ content'[path] = "pending" /\ path # None
      BY Zenon, <1>3, <2>1, EtsyNames DEF WritePending, EtsyInv, EtsyType
    <2> QED
      BY <2>1, <2>2, EtsyNames, Zenon DEF InLedger, Get
  <1>4. CASE RecordFill(c)
    <2>1. path # <<c, "next">> /\ path' = path
      BY <1>4, Zenon DEF RecordFill, EtsyGoto, EtsyInv, LedgerBacked
    <2>2. Get' = Get
      BY <1>4, <2>1 DEF RecordFill, Get, EtsyInv, EtsyType
    <2> QED
      BY <2>2 DEF InLedger
  <1> QED
    BY <1>1, <1>2, <1>3, <1>4, Zenon DEF Begin, Walk, Rewalk, PutPending,
       OpenExclusive, Post, EtsyCreates, Created, RecordUnlink,
       RecordCreate, EtsyAbandon, fsVars

\* Every step of create_draft is a creation, a confirmation or a stutter.
LEMMA EtsyStepRefines ==
  ASSUME EtsyInv, MaxConcurrent = 1, [EtsyNext]_etsyVars
  PROVE  [EtsyOnce!Next]_<<listings, InLedger>>
  <1>1. CASE UNCHANGED etsyVars
    BY <1>1 DEF etsyVars, fsVars, shopVars, InLedger, Get
  <1>2. ASSUME NEW c \in Calls, EtsyCreates(c)
        PROVE  EtsyOnce!Create(c)
    <2>1. listings = {} /\ listings' = {c}
      BY <1>2 DEF EtsyCreates, EtsyInv, PostedOnce, LedgerBacked
    <2>2. InLedger' = InLedger
      BY <1>2, RecordedStays
    <2> QED
      BY <2>1, <2>2 DEF EtsyOnce!Create, InLedger
  <1>3. ASSUME NEW c \in Calls, RecordReplace(c)
        PROVE  EtsyOnce!Confirm
    <2>1. /\ next = <<c, "next">> /\ content[<<c, "next">>] = found[c]
          /\ found[c] \in listings /\ <<c, "next">> # None
          /\ \E d \in Calls : path = <<d, "key">>
      BY Zenon, <1>3, EtsyNames DEF EtsyInv, SeenStill, RecordReplace
    <2>2. path' = <<c, "next">> /\ content' = content /\ listings' = listings
      BY <1>3, <2>1 DEF RecordReplace, shopVars
    <2>3. InLedger = {}
      <3>1. ~ \E d \in Calls : path = <<d, "next">>
        BY <2>1
      <3> QED
        BY <3>1, GetTells DEF InLedger
    <2>4. listings = {found[c]} /\ found[c] \in Calls
      BY <2>1 DEF EtsyInv, EtsyType, PostedOnce
    <2>5. InLedger' = {found[c]}
      BY <2>1, <2>2, <2>4 DEF InLedger, Get
    <2> QED
      BY <2>2, <2>3, <2>4, <2>5 DEF EtsyOnce!Confirm, InLedger
  <1>4. ASSUME NEW c \in Calls, NEW page \in SUBSET listings,
               \/ Begin(c) \/ Walk(c, page) \/ Rewalk(c, page)
               \/ PutPending(c) \/ OpenExclusive(c) \/ WritePending(c)
               \/ Post(c) \/ Created(c) \/ RecordUnlink(c)
               \/ RecordCreate(c) \/ RecordFill(c) \/ EtsyAbandon(c)
        PROVE  UNCHANGED <<listings, InLedger>>
    <2>1. listings' = listings
      BY <1>4, Zenon DEF Begin, Walk, Rewalk, PutPending, OpenExclusive,
         WritePending, Post, Created, RecordUnlink, RecordCreate,
         RecordFill, EtsyAbandon, shopVars
    <2> QED
      BY <1>4, <2>1, RecordedStays
  <1>5. {} \in SUBSET listings
    OBVIOUS
  <1> QED
    BY <1>1, <1>2, <1>3, <1>4, <1>5 DEF EtsyNext, EtsyOnce!Next

\* One caller at a time of create_draft, crashes included, implements the
\* once-only promise: one draft, and a record that names it.
THEOREM EtsyRefinement ==
  ASSUME MaxConcurrent = 1
  PROVE  EtsySpec => EtsyOncePromise
  <1>1. EtsyInit => EtsyOnce!Init
    BY EtsyNames DEF EtsyInit, EtsyOnce!Init, Get
  <1>2. EtsyInv /\ [EtsyNext]_etsyVars => [EtsyOnce!Next]_<<listings, {Get} \cap Calls>>
    BY EtsyStepRefines DEF InLedger
  <1> QED
    BY <1>1, <1>2, EtsySafe, PTL DEF EtsySpec, EtsyOncePromise, EtsyOnce!Spec

-----------------------------------------------------------------------------
(* DraftSuccessor.                                                         *)

JobRows == [status : JobStatus \cup {"NO_ROW"}, version : Nat]

DraftType ==
  /\ draft_job \in JobRows
  /\ draft_call \in [Reports -> [at : OpenReport \cup {"raised", "returned"}, copy : JobRows,
                               wrote : SUBSET {"event", "job", "ready"}]]
  /\ draft_job.status = "NO_ROW" => draft_job = NoDraftJob
  /\ \A c \in Reports : draft_call[c].copy.status = "NO_ROW" => draft_call[c].copy = NoDraftJob

\* The legacy keys are those of the start; a call that appends the product's
\* key beside them reports for a workflow they do not name.
KeyHistory ==
  /\ events \subseteq LegacyOf \cup {Product}
  /\ LegacyOf \cap events # {} => LegacyOf \subseteq events
  /\ \A c \in Reports :
       \/ draft_call[c].at = "insert_event"
       \/ "event" \in draft_call[c].wrote
       => (ReportedBy[c] \in LegacyOf => LegacyOf \cap events = {})

\* What a call has written, and what it relies on, at each of its statements.
Written(c) ==
  LET at    == draft_call[c].at
      copy  == draft_call[c].copy
      wrote == draft_call[c].wrote
  IN  /\ at \in {"load", "look_up", "insert_event", "raised", "returned"} => wrote = {}
      /\ at \in {"create", "insert_job"} => wrote = {"event"}
      /\ at = "ready" => "ready" \notin wrote /\ copy # NoDraftJob
      /\ at = "ready" \/ "ready" \in wrote => "event" \in wrote \/ events # {}
      /\ at = "commit" => "ready" \in wrote \/ (wrote = {} /\ draft_job # NoDraftJob)
      /\ "job" \in wrote => draft_job = NoDraftJob /\ copy = [status |-> "PENDING", version |-> 1]
      /\ "ready" \in wrote =>
           /\ RequireJobTransition(copy.status, "READY")
           /\ "job" \in wrote \/ copy = draft_job

\* A copy is the job's row of some time; the version says whether it still is.
CopyTells(c) ==
  LET copy == draft_call[c].copy
  IN  draft_call[c].at \in OpenReport /\ copy # NoDraftJob /\ "job" \notin draft_call[c].wrote =>
        /\ draft_job # NoDraftJob
        /\ copy.version <= draft_job.version
        /\ copy.version = draft_job.version => copy = draft_job

\* One open transaction at a time has written the job row.
OneJobWriter ==
  \A c, o \in Reports :
    /\ draft_call[c].wrote \cap {"job", "ready"} # {}
    /\ draft_call[o].wrote \cap {"job", "ready"} # {}
    => c = o

DraftInv ==
  /\ DraftType /\ KeyHistory /\ OneJobWriter /\ OneCompletion
  /\ \A c \in Reports : Written(c) /\ CopyTells(c)

\* Before the first command.
LEMMA DraftInitInv == DraftInit => DraftInv
  BY LegacyAssumption DEF DraftInit, DraftInv, DraftType, KeyHistory, OneJobWriter, OneCompletion,
     Written, CopyTells, JobRows, JobStatus, NoDraftJob, OpenReport, Product

\* No edge of the job graph starts where there is no row.
LEMMA ReadyNeedsRow ==
  ASSUME NEW s, RequireJobTransition(s, "READY")
  PROVE  s # "NO_ROW"
  BY DEF RequireJobTransition, JOB_TRANSITIONS

\* A call that made the job ready while there was no row has inserted it.
LEMMA ReadyInserts ==
  ASSUME NEW c \in Reports, Written(c), draft_job = NoDraftJob, "ready" \in draft_call[c].wrote
  PROVE  "job" \in draft_call[c].wrote
  <1>1. RequireJobTransition(draft_call[c].copy.status, "READY")
    BY Zenon DEF Written
  <1>2. draft_call[c].copy # NoDraftJob
    BY <1>1, ReadyNeedsRow DEF NoDraftJob
  <1> QED
    BY <1>2, Zenon DEF Written

\* The statements of a call before its commit.
LEMMA DraftCallKeepsInv ==
  ASSUME DraftInv, NEW c \in Reports,
         \/ LoadDraftJob(c) \/ LookUpEvent(c) \/ InsertEvent(c)
         \/ FindSuccessor(c) \/ InsertSuccessor(c) \/ MakeReady(c)
         \/ AbandonReport(c)
  PROVE  DraftInv'
  <1> USE DEF DraftInv, ReportGoto, RaiseReport
  <1>1. UNCHANGED <<events, draft_job>>
    BY Zenon DEF LoadDraftJob, LookUpEvent, InsertEvent, FindSuccessor,
       InsertSuccessor, MakeReady, AbandonReport
  <1>2. /\ \A o \in Reports \ {c} : draft_call'[o] = draft_call[o]
        /\ draft_call'[c].at # "returned" /\ draft_call[c].at # "returned"
    BY DEF DraftType, LoadDraftJob, LookUpEvent, InsertEvent, FindSuccessor,
       InsertSuccessor, MakeReady, AbandonReport, OpenReport
  <1>3. DraftType'
    <2> DEFINE R == [at : OpenReport \cup {"raised", "returned"}, copy : JobRows,
                     wrote : SUBSET {"event", "job", "ready"}]
    <2>1. NoDraftJob \in JobRows /\ [status |-> "PENDING", version |-> 1] \in JobRows
      BY DEF JobRows, JobStatus, NoDraftJob
    <2>2. draft_call' \in [Reports -> R]
      <3> USE DEF DraftType, OpenReport
      <3>1. CASE LoadDraftJob(c)
        <4>1. [draft_call[c] EXCEPT !.copy = draft_job,
                                    !.at = IF draft_job.status = "READY" THEN "commit" ELSE "look_up"] \in R
          BY Zenon
        <4> QED
          BY <3>1, <4>1 DEF LoadDraftJob
      <3>2. CASE FindSuccessor(c)
        <4> DEFINE row == IF draft_call[c].copy # NoDraftJob THEN draft_call[c].copy ELSE draft_job
        <4>1. row \in JobRows
          OBVIOUS
        <4>2. [draft_call[c] EXCEPT !.copy = row,
                                    !.at = IF row = NoDraftJob THEN "insert_job" ELSE "ready"] \in R
          BY Zenon, <4>1
        <4> QED
          BY <3>2, <4>2 DEF FindSuccessor
      <3>3. CASE InsertSuccessor(c)
        BY <2>1, <3>3 DEF InsertSuccessor
      <3> QED
        BY <3>1, <3>2, <3>3 DEF LookUpEvent, InsertEvent, MakeReady,
           AbandonReport
    <2>3. draft_call'[c].copy \in {draft_call[c].copy, draft_job, [status |-> "PENDING", version |-> 1]}
      BY DEF DraftType, LoadDraftJob, LookUpEvent, InsertEvent, FindSuccessor,
         InsertSuccessor, MakeReady, AbandonReport
    <2>4. \A o \in Reports : draft_call'[o].copy.status = "NO_ROW" => draft_call'[o].copy = NoDraftJob
      BY <1>2, <2>3 DEF DraftType
    <2>5. JobRows' = JobRows /\ OpenReport' = OpenReport /\ NoDraftJob' = NoDraftJob
      BY DEF JobRows, JobStatus, NoDraftJob, OpenReport
    <2> QED
      BY <1>1, <2>2, <2>4, <2>5 DEF DraftType
  <1>4. OneCompletion'
    BY <1>1, <1>2, Zenon DEF OneCompletion, NoDraftJob, Product
  <1>5. KeyHistory'
    BY <1>1, <1>2 DEF KeyHistory, DraftType, LoadDraftJob, LookUpEvent, Recorded,
       InsertEvent, FindSuccessor, InsertSuccessor, MakeReady,
       AbandonReport, Product
  <1>6. OneJobWriter'
    <2>1. \/ draft_call'[c].wrote \cap {"job", "ready"} \subseteq draft_call[c].wrote
          \/ \A o \in Reports \ {c} : draft_call[o].wrote \cap {"job", "ready"} = {}
      <3>1. CASE InsertSuccessor(c)
        <4>1. CASE draft_job # NoDraftJob
          BY <3>1, <4>1 DEF InsertSuccessor, DraftType
        <4>2. CASE draft_job = NoDraftJob
          <5>1. \A o \in Reports : "ready" \in draft_call[o].wrote => "job" \in draft_call[o].wrote
            BY <4>2, ReadyInserts, Zenon
          <5> QED
            BY <3>1, <5>1 DEF InsertSuccessor, Free, DraftType
        <4> QED
          BY <4>1, <4>2, Zenon
      <3>2. CASE MakeReady(c)
        BY <3>2 DEF MakeReady, Free, DraftType
      <3> QED
        BY <3>1, <3>2 DEF DraftType, LoadDraftJob, LookUpEvent, InsertEvent,
           FindSuccessor, AbandonReport
    <2> QED
      BY <1>2, <2>1 DEF OneJobWriter
  <1>7. Written(c)' /\ CopyTells(c)'
    <2>1. CASE LoadDraftJob(c)
      BY <1>1, <2>1 DEF Written, CopyTells, DraftType, JobRows, LoadDraftJob, NoDraftJob,
         OpenReport
    <2>2. CASE LookUpEvent(c)
      BY <1>1, <2>2 DEF Written, CopyTells, DraftType, JobRows, LookUpEvent, Recorded,
         OneCompletion, NoDraftJob, OpenReport, Product
    <2>3. CASE InsertEvent(c)
      BY <1>1, <2>3 DEF Written, CopyTells, DraftType, JobRows, InsertEvent, NoDraftJob,
         OpenReport
    <2>4. CASE FindSuccessor(c)
      BY <1>1, <2>4 DEF Written, CopyTells, DraftType, JobRows, FindSuccessor, NoDraftJob,
         OpenReport
    <2>5. CASE InsertSuccessor(c)
      BY <1>1, <2>5 DEF Written, CopyTells, DraftType, JobRows, InsertSuccessor, NoDraftJob,
         OpenReport
    <2>6. CASE MakeReady(c)
      BY <1>1, <2>6 DEF Written, CopyTells, DraftType, JobRows, MakeReady, MayReady,
         NoDraftJob, OpenReport
    <2>7. CASE AbandonReport(c)
      BY <1>1, <2>7 DEF Written, CopyTells, DraftType, JobRows, AbandonReport, NoDraftJob,
         OpenReport
    <2> QED
      BY <2>1, <2>2, <2>3, <2>4, <2>5, <2>6, <2>7
  <1>8. \A o \in Reports : Written(o)' /\ CopyTells(o)'
    <2>1. ASSUME NEW o \in Reports, o # c PROVE Written(o)' /\ CopyTells(o)'
      BY <1>1, <1>2, <2>1, Zenon DEF Written, CopyTells, NoDraftJob, OpenReport
    <2> QED
      BY <1>7, <2>1
  <1> QED
    BY <1>3, <1>4, <1>5, <1>6, <1>8

\* A commit publishes the event and the job's move together.
LEMMA DraftCommitKeepsInv ==
  ASSUME DraftInv, NEW c \in Reports, CommitReport(c)
  PROVE  DraftInv'
  <1> USE DEF DraftInv, CommitReport
  <1>1. /\ \A o \in Reports \ {c} : draft_call'[o] = draft_call[o]
        /\ draft_call'[c].at = "returned" /\ draft_call'[c].wrote = {}
        /\ draft_call'[c].copy = draft_call[c].copy
    BY DEF DraftType
  <1>2. draft_call[c].copy.version \in Nat /\ "READY" \in JobStatus
    BY DEF DraftType, JobRows, JobStatus
  <1>3. DraftType'
    <2>1. draft_job' \in JobRows /\ (draft_job'.status = "NO_ROW" => draft_job' = NoDraftJob)
      BY <1>2 DEF DraftType, JobRows, JobStatus, NoDraftJob
    <2>2. draft_call' \in [Reports -> [at : OpenReport \cup {"raised", "returned"}, copy : JobRows,
                                     wrote : SUBSET {"event", "job", "ready"}]]
      BY ZenonT(30) DEF DraftType
    <2> QED
      BY <1>1, <2>1, <2>2 DEF DraftType, JobRows, JobStatus, NoDraftJob, OpenReport
  <1>4. KeyHistory'
    BY <1>1, LegacyAssumption DEF KeyHistory, DraftType, Product
  <1>5. OneJobWriter'
    BY <1>1, ZenonT(30) DEF OneJobWriter
  <1>6. OneCompletion'
    <2>1. /\ "ready" \in draft_call[c].wrote => draft_job' # NoDraftJob
          /\ "ready" \notin draft_call[c].wrote => draft_job' = draft_job /\ draft_call[c].wrote = {}
      BY DEF Written, NoDraftJob
    <2>2. draft_job' # NoDraftJob /\ events' # {}
      BY <2>1 DEF Written, OneCompletion
    <2>3. LegacyOf \cap events' # {} /\ Product \in events' =>
            \E o \in Reports : draft_call'[o].at = "returned" /\ ReportedBy[o] \notin LegacyOf
      <3>1. CASE "event" \in draft_call[c].wrote
        BY Zenon, <1>1, <3>1, LegacyAssumption DEF KeyHistory, Product
      <3>2. CASE "event" \notin draft_call[c].wrote
        BY Zenon, <1>1, <3>2 DEF OneCompletion
      <3> QED
        BY Zenon, <3>1, <3>2
    <2> QED
      BY Zenon, <2>2, <2>3 DEF OneCompletion, NoDraftJob, Product
  <1>7. \A o \in Reports : Written(o)' /\ CopyTells(o)'
    <2> TAKE o \in Reports
    <2>1. CASE o = c
      BY Zenon, <1>1, <2>1 DEF Written, CopyTells, OpenReport
    <2>2. CASE o # c /\ "ready" \in draft_call[c].wrote
      <3>1. draft_call[o].wrote \cap {"job", "ready"} = {}
        BY <2>2 DEF OneJobWriter
      <3>2. draft_job = NoDraftJob \/ draft_call[c].copy = draft_job
        BY <2>2 DEF Written
      <3>3. /\ draft_job' = [status |-> "READY", version |-> draft_call[c].copy.version + 1]
            /\ draft_job' # NoDraftJob
            /\ draft_job # NoDraftJob => draft_job'.version = draft_job.version + 1
        BY <2>2, <3>2 DEF NoDraftJob
      <3>4. CopyTells(o)'
        BY <1>1, <1>2, <2>2, <3>3 DEF CopyTells, DraftType, JobRows, NoDraftJob, OpenReport
      <3>5. Written(o)'
        BY Zenon, <1>1, <2>2, <3>1, <3>3 DEF Written, NoDraftJob
      <3> QED
        BY <3>4, <3>5
    <2>3. CASE o # c /\ "ready" \notin draft_call[c].wrote
      <3>1. draft_job' = draft_job /\ draft_call'[o] = draft_call[o] /\ events' = events
        BY Zenon, <1>1, <2>3 DEF Written
      <3> QED
        BY Zenon, <3>1 DEF Written, CopyTells, NoDraftJob, OpenReport
    <2> QED
      BY <2>1, <2>2, <2>3
  <1> QED
    BY <1>3, <1>4, <1>5, <1>6, <1>7

\* The queue moves the job, and with each move its version.
LEMMA QueueKeepsInv ==
  ASSUME DraftInv, QueueMovesJob
  PROVE  DraftInv'
  <1> USE DEF DraftInv, QueueMovesJob
  <1>1. PICK s \in JobStatus :
          draft_job' = [status |-> s, version |-> draft_job.version + 1]
    OBVIOUS
  <1>2. draft_job'.status # "NO_ROW" /\ draft_job' # NoDraftJob
    BY <1>1 DEF JobStatus, NoDraftJob
  <1>3. DraftType'
    BY <1>1, <1>2 DEF DraftType, JobRows, JobStatus, NoDraftJob
  <1>4. KeyHistory' /\ OneJobWriter' /\ OneCompletion'
    BY <1>2, Zenon DEF KeyHistory, OneJobWriter, OneCompletion, NoDraftJob, Product
  <1>5. \A c \in Reports : draft_call[c].wrote \cap {"job", "ready"} = {}
    BY ZenonT(30) DEF DraftJobUnlocked
  <1>6. \A c \in Reports : Written(c)' /\ CopyTells(c)'
    BY <1>1, <1>2, <1>5 DEF Written, CopyTells, DraftType, JobRows, NoDraftJob, OpenReport
  <1> QED
    BY <1>3, <1>4, <1>6

\* The invariant holds in every behaviour.
LEMMA DraftSafe == DraftSpec => []DraftInv
  <1>1. DraftInv /\ [DraftNext]_draftVars => DraftInv'
    <2>1. ASSUME DraftInv, UNCHANGED draftVars PROVE DraftInv'
      BY <2>1, ZenonT(30) DEF draftVars, DraftInv, DraftType, KeyHistory, OneJobWriter, Written, CopyTells,
         OneCompletion, JobRows, JobStatus, NoDraftJob, OpenReport, Product
    <2> QED
      BY <2>1, DraftCallKeepsInv, DraftCommitKeepsInv, QueueKeepsInv
      DEF DraftNext, CreateReadyDraftListingJob
  <1> QED
    BY <1>1, DraftInitInv, PTL DEF DraftSpec

\* However many workflows report a product, its completion is recorded once and
\* its draft job exists exactly when the completion does.
THEOREM CompletedTogether == DraftSpec => []OneCompletion
  BY DraftSafe, PTL DEF DraftInv

\* A call moves the job to READY from the row that is there, never from the
\* row its session remembers.
THEOREM NothingRevived == DraftSpec => NoStaleRevival
  <1> DEFINE Moves ==
        draft_job' # draft_job =>
          \/ draft_job = NoDraftJob /\ draft_job'.status = "READY"
          \/ /\ RequireJobTransition(draft_job.status, draft_job'.status)
             /\ draft_job'.version = draft_job.version + 1
  <1>1. DraftInv /\ [DraftNext]_draftVars => [Moves]_draftVars
    <2> SUFFICES ASSUME DraftInv, DraftNext, draft_job' # draft_job
                 PROVE  \/ draft_job = NoDraftJob /\ draft_job'.status = "READY"
                        \/ /\ RequireJobTransition(draft_job.status, draft_job'.status)
                           /\ draft_job'.version = draft_job.version + 1
      OBVIOUS
    <2>1. CASE QueueMovesJob
      BY <2>1 DEF QueueMovesJob
    <2>2. ASSUME NEW c \in Reports, CommitReport(c)
          PROVE  \/ draft_job = NoDraftJob /\ draft_job'.status = "READY"
                 \/ /\ RequireJobTransition(draft_job.status, draft_job'.status)
                    /\ draft_job'.version = draft_job.version + 1
      BY <2>2 DEF CommitReport, DraftInv, Written
    <2> QED
      BY Zenon, <2>1, <2>2 DEF DraftNext, CreateReadyDraftListingJob, LoadDraftJob,
         LookUpEvent, InsertEvent, FindSuccessor, InsertSuccessor,
         MakeReady, AbandonReport
  <1> QED
    BY <1>1, DraftSafe, PTL DEF DraftSpec, NoStaleRevival

-----------------------------------------------------------------------------
(* AssetLineage.                                                           *)

\* The assets as a set, and membership in a list of them.
OwnedAssets == {owned[i] : i \in DOMAIN owned}
In(list, a) == \E j \in DOMAIN list : list[j] = a

\* The lists hold assets of the product.
LineageType ==
  /\ owned \in Seq(Asset)
  /\ pending \in Seq(OwnedAssets) /\ rest \in Seq(OwnedAssets)
  /\ stale \subseteq KnownIdentities
  /\ progressed \in BOOLEAN /\ walking \in BOOLEAN

\* What was found stale is in every set that is closed.
FoundIsLeast == \A set \in SUBSET KnownIdentities : Closed(set) => stale \subseteq set

\* No asset is lost between the two lists.
EachIsListed ==
  \A i \in DOMAIN owned :
    Identity(owned[i]) \in stale \/ In(pending, owned[i]) \/ In(rest, owned[i])

\* A walk that found nothing yet has left nothing stale behind it, and the loop
\* ends after such a walk.
NothingMissed ==
  /\ ~ progressed => \A j \in DOMAIN rest : ~ IsStale(rest[j], stale)
  /\ ~ walking => rest = << >> /\ \A j \in DOMAIN pending : ~ IsStale(pending[j], stale)

\* A draft is prepared after the walk, and only over current assets.
ReadyPassed == outcome = "ready" => ~ walking /\ AssetQaPasses

\* The inductive invariant of the walk.
LineageInv == LineageType /\ FoundIsLeast /\ EachIsListed /\ NothingMissed /\ ReadyPassed

\* There are n numbers from 1 to n.
LEMMA UpTo == \A n \in Nat : IsFiniteSet(1..n) /\ Cardinality(1..n) = n
<1>1. SUFFICES ASSUME NEW n \in Nat PROVE IsFiniteSet(1..n) /\ Cardinality(1..n) = n  OBVIOUS
<1>2. 1 \in Int /\ n \in Int  OBVIOUS
<1>3. IsFiniteSet(1..n)  BY Zenon, <1>2, FS_Interval
<1>4. Cardinality(1..n) = IF 1 > n THEN 0 ELSE n - 1 + 1  BY Zenon, <1>2, FS_Interval
<1> QED BY <1>3, <1>4

\* An asset stays stale when more is found.
LEMMA StaleStays ==
  ASSUME NEW a, NEW ids, NEW more, ids \subseteq more, IsStale(a, ids)
  PROVE  IsStale(a, more)
BY DEF IsStale, SourceStale

\* Before the walk nothing is known to be stale.
LEMMA LineageInitInv == LineageInit => LineageInv
<1>1. SUFFICES ASSUME LineageInit PROVE LineageInv  OBVIOUS
<1>2. owned \in Seq(Asset)
  BY <1>1 DEF LineageInit
<1>3. /\ pending = owned /\ rest = << >> /\ stale = {} /\ progressed = FALSE
      /\ walking = TRUE /\ outcome = "none"
  BY <1>1 DEF LineageInit
<1>4. owned \in Seq(OwnedAssets)
  BY <1>2 DEF OwnedAssets
<1>5. LineageType
  <2>1. << >> \in Seq(OwnedAssets)  OBVIOUS
  <2>2. pending \in Seq(OwnedAssets) /\ rest \in Seq(OwnedAssets)  BY Zenon, <1>3, <1>4, <2>1
  <2> QED BY <1>2, <1>3, <2>2, Zenon DEF LineageType
<1>6. FoundIsLeast  BY <1>3 DEF FoundIsLeast
<1>7. EachIsListed  BY <1>3 DEF EachIsListed, In
<1>8. NothingMissed  BY <1>3 DEF NothingMissed
<1>9. ReadyPassed  BY <1>3 DEF ReadyPassed
<1> QED BY <1>5, <1>6, <1>7, <1>8, <1>9 DEF LineageInv

\* What depends on the assets alone stays.
LEMMA SameAssets ==
  ASSUME owned' = owned
  PROVE  /\ OwnedAssets' = OwnedAssets /\ KnownIdentities' = KnownIdentities
         /\ \A a, ids : IsStale(a, ids)' = IsStale(a, ids)
         /\ \A set : Closed(set)' = Closed(set)
BY DEF OwnedAssets, KnownIdentities, IsStale, SourceBlocked, SourceStale, Closed

\* An asset is found stale for a reason, or waits for the next pass.
LEMMA VisitKeeps == ASSUME LineageInv, VisitAsset PROVE LineageInv'
<1>1. LineageType /\ FoundIsLeast /\ EachIsListed /\ NothingMissed /\ ReadyPassed  BY DEF LineageInv
<1>2. /\ walking /\ pending # << >> /\ pending' = Tail(pending)
      /\ owned' = owned /\ walking' = walking /\ outcome' = outcome
  BY DEF VisitAsset
<1>3. /\ OwnedAssets' = OwnedAssets /\ KnownIdentities' = KnownIdentities
      /\ \A a, ids : IsStale(a, ids)' = IsStale(a, ids)
      /\ \A set : Closed(set)' = Closed(set)
  BY <1>2, SameAssets
<1> DEFINE asset == Head(pending)
<1>4. /\ asset \in OwnedAssets /\ asset = pending[1]
      /\ Tail(pending) \in Seq(OwnedAssets)
      /\ \A a : In(pending, a) => a = asset \/ In(Tail(pending), a)
  <2>1. pending \in Seq(OwnedAssets) /\ pending # << >>  BY <1>1, <1>2 DEF LineageType
  <2>2. asset \in OwnedAssets /\ asset = pending[1] /\ Tail(pending) \in Seq(OwnedAssets)  BY <2>1
  <2>3. ASSUME NEW j \in DOMAIN pending, j # 1
        PROVE  j - 1 \in DOMAIN Tail(pending) /\ Tail(pending)[j - 1] = pending[j]
    BY <2>1, <2>3
  <2> QED BY <2>2, <2>3, Zenon DEF In
<1>5. PICK i \in DOMAIN owned : asset = owned[i]  BY <1>4 DEF OwnedAssets
<1>6. ReadyPassed'  BY <1>1, <1>2 DEF ReadyPassed
<1>7. CASE IsStale(asset, stale)
  <2>1. stale' = stale \union {Identity(asset)} /\ progressed' = TRUE /\ rest' = rest
    BY <1>7 DEF VisitAsset
  <2>2. Identity(asset) \in KnownIdentities  BY <1>5 DEF KnownIdentities
  <2>3. LineageType'  BY <1>1, <1>2, <1>3, <1>4, <2>1, <2>2 DEF LineageType
  <2>4. FoundIsLeast'
    <3>1. ASSUME NEW set \in SUBSET KnownIdentities, Closed(set) PROVE stale' \subseteq set
      <4>1. stale \subseteq set  BY <1>1, <3>1 DEF FoundIsLeast
      <4>2. IsStale(asset, set)  BY <1>7, <4>1, StaleStays
      <4>3. Identity(asset) \in set  BY <1>5, <3>1, <4>2 DEF Closed
      <4> QED BY <2>1, <4>1, <4>3
    <3> QED BY <1>3, <3>1 DEF FoundIsLeast
  <2>5. EachIsListed'
    BY <1>1, <1>2, <1>4, <2>1, ZenonT(30) DEF EachIsListed, In
  <2>6. NothingMissed'  BY <1>2, <2>1 DEF NothingMissed
  <2> QED BY <1>6, <2>3, <2>4, <2>5, <2>6 DEF LineageInv
<1>8. CASE ~ IsStale(asset, stale)
  <2>1. rest' = Append(rest, asset) /\ stale' = stale /\ progressed' = progressed
    BY <1>8 DEF VisitAsset
  <2>2. rest' \in Seq(OwnedAssets)  BY <1>1, <1>4, <2>1 DEF LineageType
  <2>3. LineageType'  BY <1>1, <1>2, <1>3, <1>4, <2>1, <2>2 DEF LineageType
  <2>4. FoundIsLeast'  BY <1>1, <1>3, <2>1 DEF FoundIsLeast
  <2>5. rest \in Seq(OwnedAssets)  BY <1>1 DEF LineageType
  <2>6. /\ Len(rest') = Len(rest) + 1 /\ rest'[Len(rest) + 1] = asset
        /\ \A j \in 1..Len(rest) : rest'[j] = rest[j]
        /\ DOMAIN rest = 1..Len(rest) /\ DOMAIN rest' = 1..(Len(rest) + 1) /\ Len(rest) \in Nat
    BY <2>1, <2>5, <1>4
  <2>7. \A a : In(rest, a) \/ a = asset => In(rest, a)'
    BY <2>6 DEF In
  <2>8. EachIsListed'
    <3>1. ASSUME NEW k \in DOMAIN owned
          PROVE  Identity(owned[k]) \in stale \/ In(pending, owned[k])' \/ In(rest, owned[k])'
      <4>1. \/ Identity(owned[k]) \in stale \/ In(rest, owned[k]) \/ owned[k] = asset
            \/ In(Tail(pending), owned[k])
        BY <1>1, <1>4 DEF EachIsListed
      <4>2. ASSUME In(Tail(pending), owned[k]) PROVE In(pending, owned[k])'  BY <1>2, <4>2 DEF In
      <4>3. ASSUME In(rest, owned[k]) \/ owned[k] = asset PROVE In(rest, owned[k])'
        BY <1>2, <2>7, <4>3, Zenon DEF In
      <4> QED BY <4>1, <4>2, <4>3
    <3> QED BY <1>2, <2>1, <3>1 DEF EachIsListed, In
  <2>9. NothingMissed'
    <3>1. SUFFICES ASSUME ~ progressed, NEW j \in DOMAIN rest' PROVE ~ IsStale(rest'[j], stale)
      BY <1>2, <1>3, <2>1 DEF NothingMissed
    <3>2. CASE j \in 1..Len(rest)
      BY <3>1, <3>2, <1>1, <2>6 DEF NothingMissed
    <3>3. CASE j = Len(rest) + 1  BY <3>3, <1>8, <2>6
    <3> QED BY <2>6, <3>2, <3>3
  <2> QED BY <1>6, <2>3, <2>4, <2>8, <2>9 DEF LineageInv
<1> QED BY <1>7, <1>8

\* A pass without progress ends the walk; otherwise what is left is walked again.
LEMMA EndWalkKeeps == ASSUME LineageInv, EndWalk PROVE LineageInv'
<1>1. LineageType /\ FoundIsLeast /\ EachIsListed /\ NothingMissed /\ ReadyPassed  BY DEF LineageInv
<1>2. /\ walking /\ pending = << >> /\ pending' = rest /\ rest' = << >>
      /\ walking' = progressed /\ progressed' = FALSE
      /\ owned' = owned /\ stale' = stale /\ outcome' = outcome
  BY DEF EndWalk
<1>3. /\ OwnedAssets' = OwnedAssets /\ KnownIdentities' = KnownIdentities
      /\ \A a, ids : IsStale(a, ids)' = IsStale(a, ids)
      /\ \A set : Closed(set)' = Closed(set)
  BY <1>2, SameAssets
<1>4. LineageType'  BY <1>1, <1>2, <1>3, Zenon DEF LineageType
<1>5. FoundIsLeast'  BY <1>1, <1>2, <1>3 DEF FoundIsLeast
<1>6. EachIsListed'  BY <1>1, <1>2 DEF EachIsListed, In
<1>7. NothingMissed'  BY <1>1, <1>2, <1>3 DEF NothingMissed
<1>8. ReadyPassed'  BY <1>1, <1>2 DEF ReadyPassed
<1> QED BY <1>4, <1>5, <1>6, <1>7, <1>8 DEF LineageInv

\* The gate reads what the walk left.
LEMMA PrepareKeeps == ASSUME LineageInv, PrepareEtsyDraft PROVE LineageInv'
<1>1. LineageType /\ FoundIsLeast /\ EachIsListed /\ NothingMissed  BY DEF LineageInv
<1>2. /\ ~ walking /\ owned' = owned /\ pending' = pending /\ rest' = rest /\ stale' = stale
      /\ progressed' = progressed /\ walking' = walking
  BY DEF PrepareEtsyDraft
<1>3. /\ OwnedAssets' = OwnedAssets /\ KnownIdentities' = KnownIdentities
      /\ \A a, ids : IsStale(a, ids)' = IsStale(a, ids)
      /\ \A set : Closed(set)' = Closed(set)
  BY <1>2, SameAssets
<1>4. LineageType'  BY <1>1, <1>2, <1>3 DEF LineageType
<1>5. FoundIsLeast'  BY <1>1, <1>2, <1>3 DEF FoundIsLeast
<1>6. EachIsListed'  BY <1>1, <1>2 DEF EachIsListed, In
<1>7. NothingMissed'  BY <1>1, <1>2, <1>3 DEF NothingMissed
<1>8. ReadyPassed'
  <2>1. outcome' = "ready" => AssetQaPasses  BY DEF PrepareEtsyDraft
  <2>2. AssetQaPasses' = AssetQaPasses  BY <1>2 DEF AssetQaPasses, CurrentAssets
  <2> QED BY <1>2, <2>1, <2>2 DEF ReadyPassed
<1> QED BY <1>4, <1>5, <1>6, <1>7, <1>8 DEF LineageInv

\* When the loop has ended, nothing outside the set found is stale.
LEMMA FoundIsClosed == ASSUME LineageInv, ~ walking PROVE Closed(stale)
BY DEF LineageInv, EachIsListed, NothingMissed, In, Closed

\* What the walk left out of the stale ones has no stale ancestor.
LEMMA LineageInvHolds == LineageInv => ReadyIsCurrent
<1>1. SUFFICES ASSUME LineageInv PROVE ReadyIsCurrent  OBVIOUS
<1>2. ASSUME ~ walking PROVE stale = MustBeStale
  <2>1. Closed(stale)  BY <1>1, <1>2, FoundIsClosed
  <2>2. stale \in SUBSET KnownIdentities  BY <1>1 DEF LineageInv, LineageType
  <2>3. FoundIsLeast  BY <1>1 DEF LineageInv
  <2>4. stale \subseteq MustBeStale  BY <2>2, <2>3 DEF MustBeStale, FoundIsLeast
  <2>5. MustBeStale \subseteq stale  BY <2>1, <2>2 DEF MustBeStale
  <2> QED BY <2>4, <2>5
<1>3. ASSUME outcome = "ready", NEW i \in DOMAIN owned
      PROVE  /\ owned[i].spec = Current /\ owned[i].qa = "passed"
             /\ \A src \in owned[i].sources :
                  \E j \in DOMAIN owned :
                    /\ owned[j].kind = "screenshot" /\ Identity(owned[j]) = <<Current, src>>
                    /\ owned[j].qa = "passed"
  <2>1. ~ walking /\ AssetQaPasses  BY <1>1, <1>3 DEF LineageInv, ReadyPassed
  <2>2. owned \in Seq(Asset)  BY <1>1 DEF LineageInv, LineageType
  <2>3. Len(owned) \in Nat /\ DOMAIN owned = 1..Len(owned)  BY <2>2
  <2>4. IsFiniteSet(DOMAIN owned) /\ Cardinality(DOMAIN owned) = Len(owned)
    BY <2>3, UpTo
  <2>5. CurrentAssets \in SUBSET DOMAIN owned  BY DEF CurrentAssets
  <2>6. DOMAIN owned = CurrentAssets  BY <2>1, <2>4, <2>5, FS_Subset DEF AssetQaPasses
  <2>7. Closed(stale)  BY <1>1, <2>1, FoundIsClosed
  <2>8. \A j \in DOMAIN owned : ~ IsStale(owned[j], stale)
    BY <2>6, <2>7 DEF Closed, CurrentAssets
  <2>9. \A j \in DOMAIN owned : owned[j].spec = Current /\ owned[j].qa = "passed"
    BY <2>8 DEF IsStale
  <2>10. ASSUME NEW src \in owned[i].sources
         PROVE  \E j \in DOMAIN owned :
                  owned[j].kind = "screenshot" /\ Identity(owned[j]) = <<Current, src>>
    BY <2>8, <2>9 DEF IsStale, SourceStale, SourceBlocked
  <2> QED BY <2>9, <2>10
<1> QED BY <1>2, <1>3 DEF ReadyIsCurrent

\* For every set of hashes and every list of assets: split_current finds the
\* smallest closed set, and a draft that got ready has current assets only.
THEOREM LineageCurrent == LineageSpec => []ReadyIsCurrent
<1>1. LineageInv /\ [LineageNext]_lineageVars => LineageInv'
  <2>1. SUFFICES ASSUME LineageInv, [LineageNext]_lineageVars PROVE LineageInv'  OBVIOUS
  <2>2. CASE VisitAsset  BY <2>1, <2>2, VisitKeeps
  <2>3. CASE EndWalk  BY <2>1, <2>3, EndWalkKeeps
  <2>4. CASE PrepareEtsyDraft  BY <2>1, <2>4, PrepareKeeps
  <2>5. CASE UNCHANGED lineageVars
    <3>1. /\ owned' = owned /\ pending' = pending /\ rest' = rest /\ stale' = stale
          /\ progressed' = progressed /\ walking' = walking /\ outcome' = outcome
      BY <2>5 DEF lineageVars
    <3>2. /\ OwnedAssets' = OwnedAssets /\ KnownIdentities' = KnownIdentities
          /\ \A a, ids : IsStale(a, ids)' = IsStale(a, ids)
          /\ \A set : Closed(set)' = Closed(set)
      BY <3>1, SameAssets
    <3>3. AssetQaPasses' = AssetQaPasses  BY <3>1 DEF AssetQaPasses, CurrentAssets
    <3> QED BY <2>1, <3>1, <3>2, <3>3, Zenon
        DEF LineageInv, LineageType, FoundIsLeast, EachIsListed, NothingMissed, ReadyPassed, In
  <2> QED BY <2>1, <2>2, <2>3, <2>4, <2>5 DEF LineageNext
<1> QED BY <1>1, LineageInitInv, LineageInvHolds, PTL DEF LineageSpec

-----------------------------------------------------------------------------
(* PublishingRamp.                                                         *)

\* The publications are what the caller wrote, none of them in the future.
RampType ==
  /\ ramp_now \in Nat
  /\ published \subseteq [n : Nat, at : Nat, reconciled : BOOLEAN]
  /\ IsFiniteSet(published)
  /\ \A p \in published : p.at <= ramp_now
  /\ ramp_opens \in Int

\* Both caps, on the window that ends at t.
WindowCapped(t) == Cardinality(Window(t)) <= InitialCap /\ Cardinality(Window(t)) <= HardCap

\* An open time that still stands was told over a full window, it is the time a
\* publication of that window leaves it, and nothing has been published since.
ToldTruly ==
  ramp_opens # NoTime =>
    /\ PublishingEnabled
    /\ Unreconciled = {}
    /\ \E t \in 0..ramp_now : \E p \in Window(t) :
         ramp_opens = p.at + RollingWindow /\ Window(ramp_now) \subseteq Window(t)

\* The inductive invariant of the ramp.
RampInv ==
  /\ RampType
  /\ \A t \in 0..ramp_now : WindowCapped(t)
  /\ ToldTruly

\* A set of natural numbers that is not empty has a least element.
LEMMA LeastNatural == \A S \in SUBSET Nat : S # {} => \E x \in S : \A y \in S : x <= y
<1>1. SUFFICES ASSUME NEW S \in SUBSET Nat, S # {} PROVE \E x \in S : \A y \in S : x <= y
  OBVIOUS
<1>2. IsWellFoundedOn(OpToRel(<, Nat), Nat)  BY Zenon, NatLessThanWellFounded
<1>3. OpToRel(<, Nat) = {ss \in Nat \X Nat : ss[1] < ss[2]}  BY Zenon DEF OpToRel
<1>4. IsWellFoundedOn({ss \in Nat \X Nat : ss[1] < ss[2]}, Nat)  BY Zenon, <1>2, <1>3
<1>5. \E x \in S : \A y \in S : ~ (<<y, x>> \in {ss \in Nat \X Nat : ss[1] < ss[2]})
  BY <1>4, <1>1, WFMin, Zenon
<1>6. PICK x \in S : \A y \in S : ~ (<<y, x>> \in {ss \in Nat \X Nat : ss[1] < ss[2]})
  BY Zenon, <1>5
<1>7. ASSUME NEW y \in S PROVE x <= y
  <2>1. y \in Nat /\ x \in Nat  BY <1>1
  <2>2. ~ (<<y, x>> \in {ss \in Nat \X Nat : ss[1] < ss[2]})  BY Zenon, <1>6
  <2>3. ~ (y < x)  BY <2>1, <2>2
  <2> QED BY <2>1, <2>3
<1> QED BY <1>7

\* A window is finite, and its size is a natural number.
LEMMA WindowFinite ==
  ASSUME RampType, NEW t
  PROVE  IsFiniteSet(Window(t)) /\ Cardinality(Window(t)) \in Nat
<1>1. Window(t) \in SUBSET published  BY DEF Window
<1>2. IsFiniteSet(Window(t))  BY <1>1, FS_Subset DEF RampType
<1> QED BY <1>2, FS_CardinalityType

\* A smaller window has no more publications.
LEMMA SmallerWindow ==
  ASSUME RampType, NEW t, NEW S \in SUBSET Window(t), WindowCapped(t)
  PROVE  /\ IsFiniteSet(S) /\ Cardinality(S) \in Nat
         /\ Cardinality(S) <= InitialCap /\ Cardinality(S) <= HardCap
<1>1. IsFiniteSet(Window(t)) /\ Cardinality(Window(t)) \in Nat  BY WindowFinite
<1>2. IsFiniteSet(S) /\ Cardinality(S) <= Cardinality(Window(t))  BY <1>1, FS_Subset
<1>3. Cardinality(S) \in Nat  BY <1>2, FS_CardinalityType
<1> QED BY <1>1, <1>2, <1>3, RampAssumption DEF WindowCapped

\* Nothing is published at first.
LEMMA RampInitInv == RampInit => RampInv
<1>1. SUFFICES ASSUME RampInit PROVE RampInv  OBVIOUS
<1>2. RampType  BY <1>1, FS_EmptySet DEF RampInit, RampType, NoTime
<1>3. ASSUME NEW t \in 0..ramp_now PROVE WindowCapped(t)
  <2>1. Window(t) = {}  BY <1>1 DEF RampInit, Window
  <2> QED BY <2>1, FS_EmptySet, RampAssumption DEF WindowCapped
<1>4. ToldTruly  BY <1>1 DEF RampInit, ToldTruly
<1> QED BY <1>2, <1>3, <1>4 DEF RampInv

\* Time passes: a publication may leave the window, and none comes in.
LEMMA RampTickKeeps == ASSUME RampInv, RampTick PROVE RampInv'
<1>1. RampType  BY DEF RampInv
<1>2. ramp_now' = ramp_now + 1 /\ published' = published /\ ramp_opens' = ramp_opens  BY DEF RampTick
<1>3. RampType'  BY <1>1, <1>2 DEF RampType
<1>4. \A t : Window(t)' = Window(t)  BY <1>2 DEF Window
<1>5. Window(ramp_now + 1) \subseteq Window(ramp_now)
  <2>1. ASSUME NEW p \in Window(ramp_now + 1) PROVE p \in Window(ramp_now)
    <3>1. p \in published /\ p.at > ramp_now + 1 - RollingWindow  
      BY <1>1, RampAssumption DEF Window, RampType
    <3>2. p.at \in Nat /\ p.at <= ramp_now /\ ramp_now \in Nat  BY <1>1, <3>1 DEF RampType
    <3> QED BY <3>1, <3>2, RampAssumption DEF Window
  <2> QED BY <2>1
<1>6. ASSUME NEW t \in (0..ramp_now)' PROVE WindowCapped(t)'
  <2>1. ramp_now \in Nat /\ t \in Int  BY <1>1, <1>2 DEF RampType
  <2>2. CASE t \in 0..ramp_now
    <3>1. WindowCapped(t)  BY <2>2 DEF RampInv
    <3> QED BY <3>1, <1>4 DEF WindowCapped
  <2>3. CASE t = ramp_now + 1
    <3>1. ramp_now \in 0..ramp_now  BY <2>1
    <3>2. WindowCapped(ramp_now)  BY <3>1 DEF RampInv
    <3>3. Cardinality(Window(t)) <= InitialCap /\ Cardinality(Window(t)) <= HardCap
      BY <1>1, <1>5, <2>3, <3>2, SmallerWindow
    <3> QED BY <3>3, <1>4 DEF WindowCapped
  <2> QED BY <2>1, <2>2, <2>3, <1>2
<1>7. ToldTruly'
  <2>1. SUFFICES ASSUME ramp_opens # NoTime PROVE ToldTruly'  BY <1>2 DEF ToldTruly
  <2>2. PublishingEnabled /\ Unreconciled = {}  BY <2>1 DEF RampInv, ToldTruly
  <2>3. PICK t \in 0..ramp_now : \E p \in Window(t) :
          ramp_opens = p.at + RollingWindow /\ Window(ramp_now) \subseteq Window(t)
    BY <2>1 DEF RampInv, ToldTruly
  <2>4. Unreconciled' = {}  BY <2>2, <1>2 DEF Unreconciled
  <2>5. t \in (0..ramp_now)'  BY <1>1, <1>2 DEF RampType
  <2>6. Window(ramp_now)' = Window(ramp_now + 1)  BY <1>2 DEF Window
  <2>7. \E p \in Window(t)' :
          ramp_opens' = p.at + RollingWindow /\ Window(ramp_now)' \subseteq Window(t)'
    BY <2>3, <2>6, <1>2, <1>4, <1>5
  <2> QED BY <2>2, <2>4, <2>5, <2>7 DEF ToldTruly
<1> QED BY <1>3, <1>6, <1>7 DEF RampInv

\* A prompt caller publishes below both caps: the window it asked about grows by one.
LEMMA PublishKeeps == ASSUME Prompt, RampInv, Publish PROVE RampInv'
<1> DEFINE new == [n |-> Cardinality(published), at |-> ramp_now, reconciled |-> FALSE]
<1>1. RampType /\ Prompt  BY DEF RampInv
<1>2. /\ Unreconciled = {} /\ ~ AtHardCap /\ ~ AtCap
      /\ published' = published \union {new} /\ ramp_opens' = NoTime /\ ramp_now' = ramp_now
  BY DEF Publish, MayPublish
<1>3. Cardinality(published) \in Nat  BY <1>1, FS_CardinalityType DEF RampType
<1>4. new \in [n : Nat, at : Nat, reconciled : BOOLEAN] /\ new.at = ramp_now
  BY <1>1, <1>3 DEF RampType
<1> HIDE DEF new
<1>5. RampType'
  <2>1. IsFiniteSet(published')  BY <1>1, <1>2, FS_AddElement DEF RampType
  <2> QED BY <1>1, <1>2, <1>4, <2>1 DEF RampType, NoTime
<1>6. ASSUME NEW t \in (0..ramp_now)' PROVE WindowCapped(t)'
  <2>1. t \in 0..ramp_now /\ t \in Int /\ ramp_now \in Nat  BY <1>1, <1>2 DEF RampType
  <2>2. WindowCapped(t)  BY <2>1 DEF RampInv
  <2>3. CASE t # ramp_now
    <3>1. Window(t)' = Window(t)  BY <1>2, <1>4, <2>1, <2>3 DEF Window
    <3> QED BY <2>2, <3>1 DEF WindowCapped
  <2>4. CASE t = ramp_now
    <3>1. Window(t)' \subseteq Counted \union {new}
      BY <1>1, <1>2, <2>4 DEF Window, Counted, Unreconciled, RampType
    <3>2. Counted \in SUBSET published  BY DEF Counted
    <3>3. IsFiniteSet(Counted)  BY <1>1, <3>2, FS_Subset DEF RampType
    <3>4. Cardinality(Counted) \in Nat  BY <3>3, FS_CardinalityType
    <3>5. /\ IsFiniteSet(Counted \union {new})
          /\ Cardinality(Counted \union {new}) <= Cardinality(Counted) + 1
      BY <3>3, <3>4, FS_AddElement
    <3>6. Cardinality(Counted \union {new}) \in Nat  BY <3>5, FS_CardinalityType
    <3>7. /\ IsFiniteSet(Window(t)')
          /\ Cardinality(Window(t)') <= Cardinality(Counted \union {new})
      BY <3>1, <3>5, FS_Subset
    <3>8. Cardinality(Window(t)') \in Nat  BY <3>7, FS_CardinalityType
    <3>9. Cardinality(Counted) < InitialCap /\ Cardinality(Counted) < HardCap
      BY <1>2, <3>4, RampAssumption DEF AtCap, AtHardCap
    <3> QED BY <3>4, <3>5, <3>6, <3>7, <3>8, <3>9, RampAssumption DEF WindowCapped
  <2> QED BY <2>3, <2>4
<1>7. ToldTruly'  BY <1>2 DEF ToldTruly
<1> QED BY <1>5, <1>6, <1>7 DEF RampInv

\* A caller that may not publish is told when the oldest publication leaves.
LEMMA WaitKeeps == ASSUME Prompt, RampInv, Wait PROVE RampInv'
<1>1. RampType /\ Prompt  BY DEF RampInv
<1>2. /\ Unreconciled = {} /\ ramp_opens' = NextPermissibleAt
      /\ published' = published /\ ramp_now' = ramp_now
  BY DEF Wait
<1>3. \A t : Window(t)' = Window(t)  BY <1>2 DEF Window
<1>4. CASE ~ (PublishingEnabled /\ (AtHardCap \/ AtCap))
  <2>1. ramp_opens' = NoTime  BY <1>2, <1>4 DEF NextPermissibleAt
  <2>2. RampType'  BY <1>1, <1>2, <2>1 DEF RampType, NoTime
  <2>3. ToldTruly'  BY <2>1 DEF ToldTruly
  <2>4. \A t \in (0..ramp_now)' : WindowCapped(t)'  BY <1>2, <1>3 DEF WindowCapped, RampInv
  <2> QED BY <2>2, <2>3, <2>4 DEF RampInv
<1>5. CASE PublishingEnabled /\ (AtHardCap \/ AtCap)
  <2>1. ramp_opens' = Oldest + RollingWindow  BY <1>2, <1>5 DEF NextPermissibleAt
  <2>2. Counted \in SUBSET published  BY DEF Counted
  <2>3. IsFiniteSet(Counted)  BY <1>1, <2>2, FS_Subset DEF RampType
  <2>4. Cardinality(Counted) \in Nat  BY <2>3, FS_CardinalityType
  <2>5. Cardinality(Counted) >= 1  BY <1>5, <2>4, RampAssumption DEF AtCap, AtHardCap
  <2>6. Counted # {}  BY <2>4, <2>5, FS_EmptySet
  <2>7. {p.at : p \in Counted} \in SUBSET Nat /\ {p.at : p \in Counted} # {}
    BY <1>1, <2>2, <2>6 DEF RampType
  <2>8. \E x \in {p.at : p \in Counted} : \A y \in {p.at : p \in Counted} : x <= y
    BY <2>7, LeastNatural, Zenon
  <2>9. Oldest \in {p.at : p \in Counted}  BY <2>8 DEF Oldest, Min
  <2>10. PICK p \in Counted : Oldest = p.at  BY <2>9
  <2>11. p \in Window(ramp_now) /\ p.at \in Nat
    BY <1>1, <2>2 DEF Window, Counted, RampType
  <2>12. RampType'  BY <1>1, <1>2, <2>1, <2>10, <2>11, RampAssumption DEF RampType
  <2>13. ramp_now \in (0..ramp_now)'  BY <1>1, <1>2 DEF RampType
  <2>14. Window(ramp_now)' = Window(ramp_now)  BY <1>2 DEF Window
  <2>15. Unreconciled' = {}  BY <1>2 DEF Unreconciled
  <2>16. ToldTruly'
    BY <1>3, <1>5, <2>1, <2>10, <2>11, <2>13, <2>14, <2>15 DEF ToldTruly
  <2>17. \A t \in (0..ramp_now)' : WindowCapped(t)'  BY <1>2, <1>3 DEF WindowCapped, RampInv
  <2> QED BY <2>12, <2>16, <2>17 DEF RampInv
<1> QED BY <1>4, <1>5

\* A reconciled publication keeps its time.
LEMMA ReconcileKeeps ==
  ASSUME RampInv, NEW p \in published, ReconcilePublication(p) PROVE RampInv'
<1> DEFINE q == [p EXCEPT !.reconciled = TRUE]
<1>1. RampType  BY DEF RampInv
<1>2. /\ published' = (published \ {p}) \union {q}
      /\ ramp_opens' = NoTime /\ ramp_now' = ramp_now
  BY DEF ReconcilePublication
<1>3. q \in [n : Nat, at : Nat, reconciled : BOOLEAN] /\ q.at = p.at
  BY <1>1, Zenon DEF RampType
<1> HIDE DEF q
<1>4. RampType'
  <2>1. IsFiniteSet(published \ {p})  BY <1>1, FS_RemoveElement DEF RampType
  <2>2. IsFiniteSet(published')  BY <1>2, <2>1, FS_AddElement
  <2> QED BY <1>1, <1>2, <1>3, <2>2 DEF RampType, NoTime
<1>5. ASSUME NEW t \in (0..ramp_now)' PROVE WindowCapped(t)'
  <2>1. WindowCapped(t)  BY <1>2 DEF RampInv
  <2>2. IsFiniteSet(Window(t)) /\ Cardinality(Window(t)) \in Nat  BY <1>1, WindowFinite
  <2>3. IsFiniteSet(Window(t)') /\ Cardinality(Window(t)') \in Nat
    <3>1. Window(t)' \in SUBSET published'  BY DEF Window
    <3>2. IsFiniteSet(Window(t)')  BY <3>1, <1>4, FS_Subset DEF RampType
    <3> QED BY <3>2, FS_CardinalityType
  <2>4. CASE p \in Window(t)
    <3>1. Window(t)' \subseteq (Window(t) \ {p}) \union {q}  BY <1>2 DEF Window
    <3>2. /\ IsFiniteSet(Window(t) \ {p})
          /\ Cardinality(Window(t) \ {p}) = Cardinality(Window(t)) - 1
      BY <2>2, <2>4, FS_RemoveElement
    <3>3. Cardinality(Window(t) \ {p}) \in Nat  BY <3>2, FS_CardinalityType
    <3>4. /\ IsFiniteSet((Window(t) \ {p}) \union {q})
          /\ Cardinality((Window(t) \ {p}) \union {q}) <= Cardinality(Window(t) \ {p}) + 1
      BY <3>2, <3>3, FS_AddElement
    <3>5. Cardinality((Window(t) \ {p}) \union {q}) \in Nat  BY <3>4, FS_CardinalityType
    <3>6. Cardinality(Window(t)') <= Cardinality((Window(t) \ {p}) \union {q})
      BY <3>1, <3>4, FS_Subset
    <3> QED BY <2>1, <2>2, <2>3, <3>2, <3>3, <3>4, <3>5, <3>6, RampAssumption DEF WindowCapped
  <2>5. CASE p \notin Window(t)
    <3>1. Window(t)' \subseteq Window(t)  BY <1>2, <1>3, <2>5 DEF Window
    <3>2. Cardinality(Window(t)') <= Cardinality(Window(t))  BY <2>2, <3>1, FS_Subset
    <3> QED BY <2>1, <2>2, <2>3, <3>2, RampAssumption DEF WindowCapped
  <2> QED BY <2>4, <2>5
<1>6. ToldTruly'  BY <1>2 DEF ToldTruly
<1> QED BY <1>4, <1>5, <1>6 DEF RampInv

\* An open time that has come finds room: the publication it was told for has
\* left the window, which was within the caps with it.
LEMMA RampInvHolds == RampInv => CapHolds
<1>1. SUFFICES ASSUME RampInv PROVE CapHolds  OBVIOUS
<1>2. SUFFICES ASSUME ramp_opens # NoTime, ramp_now >= ramp_opens PROVE MayPublish
  BY <1>1 DEF RampInv, CapHolds, WindowCapped
<1>3. RampType  BY <1>1 DEF RampInv
<1>4. PublishingEnabled /\ Unreconciled = {}  BY <1>1, <1>2 DEF RampInv, ToldTruly
<1>5. PICK t \in 0..ramp_now : \E p \in Window(t) :
        ramp_opens = p.at + RollingWindow /\ Window(ramp_now) \subseteq Window(t)
  BY <1>1, <1>2 DEF RampInv, ToldTruly
<1>6. PICK p \in Window(t) :
        ramp_opens = p.at + RollingWindow /\ Window(ramp_now) \subseteq Window(t)
  BY <1>5
<1>7. WindowCapped(t)  BY <1>1 DEF RampInv
<1>8. p \notin Window(ramp_now)
  <2>1. p.at \in Nat /\ ramp_now \in Nat  BY <1>3 DEF RampType, Window
  <2> QED BY <2>1, <1>2, <1>6, RampAssumption DEF Window
<1>9. Counted \in SUBSET (Window(t) \ {p})
  BY <1>3, <1>6, <1>8 DEF Counted, Window, RampType
<1>10. IsFiniteSet(Window(t)) /\ Cardinality(Window(t)) \in Nat  BY <1>3, WindowFinite
<1>11. /\ IsFiniteSet(Window(t) \ {p})
       /\ Cardinality(Window(t) \ {p}) = Cardinality(Window(t)) - 1
  BY <1>6, <1>10, FS_RemoveElement
<1>12. IsFiniteSet(Counted) /\ Cardinality(Counted) <= Cardinality(Window(t) \ {p})
  BY <1>9, <1>11, FS_Subset
<1>13. Cardinality(Counted) \in Nat  BY <1>12, FS_CardinalityType
<1>14. ~ AtCap /\ ~ AtHardCap
  BY <1>7, <1>10, <1>11, <1>12, <1>13, RampAssumption DEF WindowCapped, AtCap, AtHardCap
<1> QED BY <1>4, <1>14 DEF MayPublish

\* For every cap and window: a caller that reconciles each publication before it
\* asks again never has more than either cap in a window (decide_publishing_ramp).
THEOREM RampCapped == ASSUME Prompt PROVE RampSpec => []CapHolds
<1>1. RampInv /\ [RampNext]_rampVars => RampInv'
  <2>1. SUFFICES ASSUME RampInv, [RampNext]_rampVars PROVE RampInv'  OBVIOUS
  <2>2. CASE RampTick  BY <2>1, <2>2, RampTickKeeps
  <2>3. CASE Publish  BY <2>1, <2>3, PublishKeeps
  <2>4. CASE Wait  BY <2>1, <2>4, WaitKeeps
  <2>5. CASE \E p \in published : ReconcilePublication(p)  BY <2>1, <2>5, ReconcileKeeps
  <2>6. CASE UNCHANGED rampVars
    BY <2>1, <2>6, Zenon
    DEF rampVars, RampInv, RampType, WindowCapped, Window, ToldTruly, Unreconciled
  <2> QED BY <2>1, <2>2, <2>3, <2>4, <2>5, <2>6 DEF RampNext
<1> QED BY <1>1, RampInitInv, RampInvHolds, PTL DEF RampSpec
=============================================================================
