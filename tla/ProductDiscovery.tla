-------------------------- MODULE ProductDiscovery --------------------------
(***************************************************************************)
(* From market research to a product concept: the research agent           *)
(* (agents/implementations/market_research.py) collects listings in three  *)
(* transactions and shortlists niches, the strategy agent                  *)
(* (product_strategy.py) scores them and writes a spec for the best, and   *)
(* the dedupe agent (catalogue_dedupe.py, domain/services/dedupe.py)       *)
(* compares the spec with the catalogue, that other workflows are adding   *)
(* to meanwhile.                                                           *)
(***************************************************************************)
EXTENDS Integers, Sequences, FiniteSets, Functions

CONSTANTS
  Workflows,
  Concepts,          \* identity x category: what a listing is about
  About(_),          \* concept of a listing
  YoungFast,         \* listings of shops that are young and sell fast
  Unpriced,          \* listings without a price
  Results,           \* results of each seed phrase, in order
  Words(_),          \* words of a concept's title
  Traits(_),         \* what the scores look at in a concept
  MinObservations, MaxObservations, TargetCount, ShortlistSize, Threshold,
  MaxResearchRuns,   \* bound: research runs of a workflow
  MaxSpecs           \* bound: specs of a workflow

ASSUME DiscoveryAssumption == MaxSpecs \in Nat

VARIABLES
  stage,        \* where each workflow is
  phrase,       \* seed phrase searched last
  collected,    \* unique listings collected, in order
  research_runs, \* research_runs rows: observation_count, completed
  shortlisted,  \* product_candidates rows: research run, concepts in order
  specs,        \* product_specs rows of each workflow, a concept each
  compared,     \* the specs a dedupe job has read, as <<workflow, number>>
  passed        \* the specs with a PASS, as <<workflow, number>>

discoveryVars == <<stage, phrase, collected, research_runs, shortlisted, specs, compared, passed>>

DiscoveryInit ==
  /\ stage = [w \in Workflows |-> "queued"]
  /\ phrase = [w \in Workflows |-> 0]
  /\ collected = [w \in Workflows |-> << >>]
  /\ research_runs = [w \in Workflows |-> << >>]
  /\ shortlisted = [w \in Workflows |-> {}]
  /\ specs = [w \in Workflows |-> << >>]
  /\ compared = [w \in Workflows |-> {}]
  /\ passed = {}

-----------------------------------------------------------------------------
\* Market research.

\* The first transaction adds the run's row.
StartRun(w) ==
  /\ stage[w] = "queued"
  /\ Len(research_runs[w]) < MaxResearchRuns
  /\ research_runs' = [research_runs EXCEPT ![w] = Append(@, [count |-> 0, completed |-> FALSE])]
  /\ stage' = [stage EXCEPT ![w] = "searching"]
  /\ phrase' = [phrase EXCEPT ![w] = 0]
  /\ collected' = [collected EXCEPT ![w] = << >>]
  /\ UNCHANGED <<shortlisted, specs, compared, passed>>

\* A phrase is searched until the target is met; a failed search is skipped, and
\* a listing found before is not taken again.
Searching(w) ==
  /\ stage[w] = "searching"
  /\ phrase[w] < Len(Results)
  /\ Len(collected[w]) < TargetCount

Search(w) ==
  /\ Searching(w)
  /\ phrase' = [phrase EXCEPT ![w] = @ + 1]
  /\ \/ collected' = [collected EXCEPT ![w] =
           @ \o SelectSeq(Results[phrase'[w]], LAMBDA l : l \notin Range(collected[w]))]
     \/ UNCHANGED collected
  /\ UNCHANGED <<stage, research_runs, shortlisted, specs, compared, passed>>

WithinBounds(count) == count \in MinObservations..MaxObservations

\* The second transaction writes the observations and completes the run, or the
\* job fails with the run left incomplete.
PersistObservations(w) ==
  /\ stage[w] = "searching" /\ ~Searching(w)
  /\ IF WithinBounds(Len(collected[w]))
     THEN /\ research_runs' = [research_runs EXCEPT ![w][Len(research_runs[w])] =
                        [count |-> Len(collected[w]), completed |-> TRUE]]
          /\ stage' = [stage EXCEPT ![w] = "observed"]
     ELSE /\ stage' = [stage EXCEPT ![w] = "failed"]
          /\ UNCHANGED research_runs
  /\ UNCHANGED <<phrase, collected, shortlisted, specs, compared, passed>>

Observed(w, c) == {i \in DOMAIN collected[w] : About(collected[w][i]) = c}

\* _generate_shortlist's score: observations, and twice the young and fast
\* shops (one listing per shop).
ResearchScore(w, c) ==
  Cardinality(Observed(w, c)) + 2 * Cardinality({i \in Observed(w, c) : collected[w][i] \in YoungFast})

Groups(w) ==
  {c \in Concepts : \E i \in Observed(w, c) : collected[w][i] \notin Unpriced}

\* The sort is stable: equal scores keep the order of first sight.
SeenBefore(w, c, d) == \E i \in Observed(w, c) : \A j \in Observed(w, d) : i < j
Ahead(w, c, d) ==
  \/ ResearchScore(w, c) > ResearchScore(w, d)
  \/ ResearchScore(w, c) = ResearchScore(w, d) /\ SeenBefore(w, c, d)

\* A group stands behind those that are ahead of it.
Ranked(w) ==
  [n \in 1 .. Cardinality(Groups(w)) |->
     CHOOSE c \in Groups(w) : Cardinality({d \in Groups(w) : Ahead(w, d, c)}) = n - 1]
TopCandidates(w) ==
  SubSeq(Ranked(w), 1, IF Len(Ranked(w)) < ShortlistSize THEN Len(Ranked(w)) ELSE ShortlistSize)

\* The third transaction writes the candidates.
Shortlist(w) ==
  /\ stage[w] = "observed"
  /\ shortlisted' = [shortlisted EXCEPT ![w] =
                       @ \union {[run |-> Len(research_runs[w]), concepts |-> TopCandidates(w)]}]
  /\ stage' = [stage EXCEPT ![w] = "shortlisted"]
  /\ UNCHANGED <<phrase, collected, research_runs, specs, compared, passed>>

\* The research job dies, and a retry starts over with a new run.
ResearchDies(w) ==
  /\ stage[w] \in {"searching", "observed"}
  /\ stage' = [stage EXCEPT ![w] = "queued"]
  /\ UNCHANGED <<phrase, collected, research_runs, shortlisted, specs, compared, passed>>

-----------------------------------------------------------------------------
\* Product strategy.

Score(c) ==
  (IF Traits(c) \intersect {"digital", "template"} # {} THEN 9 ELSE 7)
  + (IF Traits(c) \intersect {"template", "guide"} # {} THEN 9 ELSE 7)
  + 8
  + (IF "HIGH" \in Traits(c) THEN 5 ELSE 8)

\* sorted(reverse=True) is stable: the first of the best is the primary.
Primary(list) ==
  list[CHOOSE i \in DOMAIN list : \A j \in DOMAIN list :
         Score(list[i]) > Score(list[j]) \/ (Score(list[i]) = Score(list[j]) /\ i <= j)]

\* The job's input is the shortlist of the report; an empty one is refused, and
\* a primary below the threshold is rejected without a spec.  The spec is in the
\* catalogue before its dedupe job exists.
Strategy(w) ==
  /\ stage[w] = "shortlisted"
  /\ Len(specs[w]) < MaxSpecs
  /\ \E row \in shortlisted[w] :
       /\ row.run = Len(research_runs[w])
       /\ IF row.concepts # << >> /\ Score(Primary(row.concepts)) >= Threshold
          THEN /\ specs' = [specs EXCEPT ![w] = Append(@, Primary(row.concepts))]
               /\ stage' = [stage EXCEPT ![w] = "dedupe"]
          ELSE /\ stage' = [stage EXCEPT ![w] = "rejected"]
               /\ UNCHANGED specs
  /\ UNCHANGED <<phrase, collected, research_runs, shortlisted, compared, passed>>

-----------------------------------------------------------------------------
\* Catalogue dedupe.

AllSpecs == {<<w, n>> : w \in Workflows, n \in 1..MaxSpecs}
Catalogue == {s \in AllSpecs : s[2] <= Len(specs[s[1]])}
ConceptOf(s) == specs[s[1]][s[2]]

\* calculate_jaccard_similarity >= 0.70, in whole numbers.
TitlesSimilar(c, d) ==
  IF Words(c) = {} /\ Words(d) = {} THEN TRUE
  ELSE 10 * Cardinality(Words(c) \intersect Words(d)) >= 7 * Cardinality(Words(c) \union Words(d))

\* Identity and category, and the fingerprint made from them, are the concept.
Collide(c, d) == c = d \/ TitlesSimilar(c, d)

\* A plausible slip: only specs that passed belong to the catalogue.
Existing_Passed(w) == {s \in Catalogue \ {<<w, Len(specs[w])>>} : s \in passed}

\* database.read of product_specs without the candidate.
Existing(w) == Catalogue \ {<<w, Len(specs[w])>>}

ReadCatalogue(w) ==
  /\ stage[w] = "dedupe"
  /\ compared' = [compared EXCEPT ![w] = Existing(w)]
  /\ stage' = [stage EXCEPT ![w] = "compared"]
  /\ UNCHANGED <<phrase, collected, research_runs, shortlisted, specs, passed>>

\* check_dedupe, and the result written with its event.
CheckDedupe(w) ==
  /\ stage[w] = "compared"
  /\ LET mine == <<w, Len(specs[w])>>
     IN IF \E s \in compared[w] : Collide(ConceptOf(mine), ConceptOf(s))
        THEN /\ stage' = [stage EXCEPT ![w] = "too_close"]
             /\ UNCHANGED passed
        ELSE /\ stage' = [stage EXCEPT ![w] = "passed"]
             /\ passed' = passed \union {mine}
  /\ compared' = [compared EXCEPT ![w] = {}]
  /\ UNCHANGED <<phrase, collected, research_runs, shortlisted, specs>>

\* DEDUPE_FAILED asks for a reconcept: another spec of the same workflow.
Reconcept(w, c) ==
  /\ stage[w] = "too_close"
  /\ Len(specs[w]) < MaxSpecs
  /\ specs' = [specs EXCEPT ![w] = Append(@, c)]
  /\ stage' = [stage EXCEPT ![w] = "dedupe"]
  /\ UNCHANGED <<phrase, collected, research_runs, shortlisted, compared, passed>>

DiscoveryNext ==
  \E w \in Workflows :
    \/ StartRun(w) \/ Search(w) \/ PersistObservations(w) \/ Shortlist(w) \/ ResearchDies(w)
    \/ Strategy(w)
    \/ ReadCatalogue(w) \/ CheckDedupe(w)
    \/ \E c \in Concepts : Reconcept(w, c)

DiscoverySpec == DiscoveryInit /\ [][DiscoveryNext]_discoveryVars

-----------------------------------------------------------------------------
\* Two specs that passed dedupe are not too close to each other, although their
\* jobs read the catalogue while others add to it; and candidates are shortlisted
\* only for a completed run with an allowed number of observations, once per run,
\* whatever runs died before.
NoTwinsPass ==
  /\ \A s, t \in passed : s # t => ~Collide(ConceptOf(s), ConceptOf(t))
  /\ \A w \in Workflows :
       /\ \A row \in shortlisted[w] :
            /\ research_runs[w][row.run].completed
            /\ WithinBounds(research_runs[w][row.run].count)
       /\ \A row, other \in shortlisted[w] : row.run = other.run => row = other

=============================================================================
