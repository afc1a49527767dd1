---------------------------- MODULE AssetLineage ----------------------------
(***************************************************************************)
(* The lineage of rendered assets and the gates of a fixture draft         *)
(* (assets/asset_lineage.py, assets/etsy_draft.py): given the assets of a  *)
(* product in any order, split_current finds the ones a product change     *)
(* left stale, walk after walk, and prepare_etsy_draft lets a draft        *)
(* through only when none is.                                              *)
(***************************************************************************)
EXTENDS Integers, Sequences, FiniteSets

CONSTANTS
  Outputs,         \* output hashes
  ImagesWanted,    \* number of listing image roles
  MaxAssets        \* bound: assets of the product

Current == 2       \* the spec version asked for; 1 is an older one

\* A screenshot has no source (bind_asset).  Walkthroughs follow the rule of
\* listing images, and delivery PDFs that of assets without a source.
Asset ==
  [kind : {"screenshot"}, spec : {1, Current}, output : Outputs, sources : {{}},
   qa : {"passed", "stale"}]
  \union
  [kind : {"listing_image"}, spec : {1, Current}, output : Outputs,
   sources : SUBSET Outputs, qa : {"passed"}]

VARIABLES
  owned,       \* the product's assets, as the caller lists them
  pending,     \* those this walk has still to visit
  rest,        \* those this walk did not find stale
  stale,       \* identities found stale
  progressed,  \* this walk found one
  walking,     \* the loop goes on
  outcome      \* "none", the gate that refused the draft, or "ready"

lineageVars == <<owned, pending, rest, stale, progressed, walking, outcome>>

LineageInit ==
  /\ \E n \in 0 .. MaxAssets : owned \in [1 .. n -> Asset]
  /\ pending = owned /\ rest = << >>
  /\ stale = {}
  /\ progressed = FALSE
  /\ walking = TRUE
  /\ outcome = "none"

Identity(a) == <<a.spec, a.output>>
KnownIdentities == {Identity(owned[i]) : i \in DOMAIN owned}

\* _source_blocked: the source is an asset of the spec, and no screenshot is.
SourceBlocked(spec, src) ==
  /\ <<spec, src>> \in KnownIdentities
  /\ \A i \in DOMAIN owned : Identity(owned[i]) = <<spec, src>> => owned[i].kind # "screenshot"

SourceStale(spec, src, found) == <<spec, src>> \notin KnownIdentities \/ <<spec, src>> \in found

IsStale(a, found) ==
  \/ a.spec # Current
  \/ a.qa # "passed"
  \/ \E src \in a.sources : SourceBlocked(a.spec, src) \/ SourceStale(a.spec, src, found)

\* One asset of a walk: what is found stale counts at once.
VisitAsset ==
  /\ walking /\ pending # << >>
  /\ LET asset == Head(pending)
     IN IF IsStale(asset, stale)
        THEN stale' = stale \union {Identity(asset)} /\ progressed' = TRUE /\ UNCHANGED rest
        ELSE rest' = Append(rest, asset) /\ UNCHANGED <<stale, progressed>>
  /\ pending' = Tail(pending)
  /\ UNCHANGED <<owned, walking, outcome>>

\* A plausible slip: the assets are walked once.
EndWalk_Once ==
  /\ walking /\ pending = << >>
  /\ pending' = rest /\ rest' = << >>
  /\ walking' = FALSE /\ progressed' = FALSE
  /\ UNCHANGED <<owned, stale, outcome>>

\* A walk that found one is followed by another, over the rest.
EndWalk ==
  /\ walking /\ pending = << >>
  /\ pending' = rest /\ rest' = << >>
  /\ walking' = progressed /\ progressed' = FALSE
  /\ UNCHANGED <<owned, stale, outcome>>

\* What split_current returns as current, by position: identities are shared,
\* so an asset goes with a stale one of the same spec and hash.
CurrentAssets == {i \in DOMAIN owned : Identity(owned[i]) \notin stale}

OfKind(kind) == Cardinality({i \in DOMAIN owned : owned[i].kind = kind})

AssetQaPasses == Cardinality(CurrentAssets) = Len(owned)

\* prepare_etsy_draft: its gates in their order, with the caller's receipts for
\* product QA, claims, video, PDFs and links.
PrepareEtsyDraft ==
  /\ ~walking
  /\ outcome = "none"
  /\ \E refused \in {"product_qa", "claims", "video", "delivery_pdfs", "links", "none"} :
       outcome' = CASE refused \in {"product_qa", "claims"} -> refused
                    [] OfKind("screenshot") < 1 -> "screenshots"
                    [] OfKind("listing_image") # ImagesWanted -> "listing_images"
                    [] refused # "none" -> refused
                    [] ~AssetQaPasses -> "asset_qa"
                    [] OTHER -> "ready"
  /\ UNCHANGED <<owned, pending, rest, stale, progressed, walking>>

LineageNext == VisitAsset \/ EndWalk \/ PrepareEtsyDraft

LineageSpec == LineageInit /\ [][LineageNext]_lineageVars

-----------------------------------------------------------------------------
\* The identities that have to be stale, said without a walk: the smallest set
\* that holds every asset of another spec or without QA, every asset with a
\* source that is not a screenshot of its spec, and every asset with a source in
\* the set.
Closed(set) == \A i \in DOMAIN owned : IsStale(owned[i], set) => Identity(owned[i]) \in set
MustBeStale == {id \in KnownIdentities : \A set \in SUBSET KnownIdentities : Closed(set) => id \in set}

\* When the walks of split_current end, they have found the stale identities,
\* all of them and no other, whatever the order of the assets; and a draft that
\* got ready has only assets of the current spec that passed QA, each made from
\* screenshots of that spec that passed QA too.
ReadyIsCurrent ==
  /\ ~walking => stale = MustBeStale
  /\ outcome = "ready" =>
       \A i \in DOMAIN owned :
         /\ owned[i].spec = Current /\ owned[i].qa = "passed"
         /\ \A src \in owned[i].sources :
              \E j \in DOMAIN owned :
                /\ owned[j].kind = "screenshot" /\ Identity(owned[j]) = <<Current, src>>
                /\ owned[j].qa = "passed"
=============================================================================
