--------------------------- MODULE PlatformProofs ---------------------------
(***************************************************************************)
(* Proofs about the parts around the queue.  They share no state; each     *)
(* section states the inductive invariant of one of them and derives from  *)
(* it the property that MCPlatform checks on a small instance.             *)
(***************************************************************************)
EXTENDS ReceiptLog, AssetStore, SupportIntake, ProductDiscovery, TLAPS

\* How long, in seconds, a prover may work on a step.
USE SMTT(30), ZenonT(30)

-----------------------------------------------------------------------------
(* ProductDiscovery.                                                       *)

\* A list of anything, and the stages of a workflow.
Listed(s) == \E S : s \in Seq(S)
Stages == {"queued", "searching", "failed", "observed", "shortlisted", "rejected", "dedupe", "compared",
           "too_close", "passed"}

\* The latest spec of a workflow, and a spec that is being compared.
Mine(w) == <<w, Len(specs[w])>>
Comparing(s) == s \in Catalogue /\ stage[s[1]] = "compared" /\ s = Mine(s[1])

\* Every workflow has a stage, its runs, its specs and what it compares with.
DiscoveryType ==
  /\ stage \in [Workflows -> Stages]
  /\ DOMAIN specs = Workflows /\ \A w \in Workflows : Listed(specs[w])
  /\ DOMAIN research_runs = Workflows /\ \A w \in Workflows : Listed(research_runs[w])
  /\ DOMAIN shortlisted = Workflows
  /\ DOMAIN compared = Workflows

\* The spec a dedupe job is about is in the catalogue, and has no result yet.
InCatalogue ==
  /\ passed \subseteq Catalogue
  /\ \A w \in Workflows : stage[w] \in {"dedupe", "compared"} => Mine(w) \in Catalogue \ passed

\* A spec that collides with one that passed has not passed, and will not: the
\* job about it has read the other.
PassedAlone ==
  \A t \in passed, s \in Catalogue :
    s # t /\ Collide(ConceptOf(s), ConceptOf(t)) =>
      s \notin passed /\ (Comparing(s) => t \in compared[s[1]])

\* What a job has not read came later: the job about it reads this job's spec,
\* and has not passed a spec that collides.
UnreadIsLater ==
  \A w \in Workflows :
    stage[w] = "compared" =>
      \A s \in Catalogue \ (compared[w] \union {Mine(w)}) :
        /\ Comparing(s) => Mine(w) \in compared[s[1]]
        /\ s \in passed => ~ Collide(ConceptOf(s), ConceptOf(Mine(w)))

\* Candidates belong to a completed run, one row each; the run under way has none.
RunComplete(w) ==
  /\ \A row \in shortlisted[w] :
       /\ row.run \in 1..Len(research_runs[w])
       /\ research_runs[w][row.run].completed
       /\ WithinBounds(research_runs[w][row.run].count)
  /\ \A row, other \in shortlisted[w] : row.run = other.run => row = other
  /\ stage[w] \in {"searching", "observed"} =>
       /\ Len(research_runs[w]) >= 1
       /\ \A row \in shortlisted[w] : row.run # Len(research_runs[w])
  /\ stage[w] = "observed" =>
       /\ research_runs[w][Len(research_runs[w])].completed
       /\ WithinBounds(research_runs[w][Len(research_runs[w])].count)

\* What is said of one workflow holds of all, and the inductive invariant.
RunsComplete == \A w \in Workflows : RunComplete(w)

DedupeInv == InCatalogue /\ PassedAlone /\ UnreadIsLater
DiscoveryInv == DiscoveryType /\ DedupeInv /\ RunsComplete

\* Collision does not depend on which of the two is the candidate.
LEMMA CollideBoth == ASSUME NEW c, NEW d, Collide(c, d) PROVE Collide(d, c)
<1>1. Words(c) \intersect Words(d) = Words(d) \intersect Words(c)  OBVIOUS
<1>2. Words(c) \union Words(d) = Words(d) \union Words(c)  OBVIOUS
<1>3. TitlesSimilar(c, d) => TitlesSimilar(d, c)  BY Zenon, <1>1, <1>2 DEF TitlesSimilar
<1> QED BY <1>3 DEF Collide

\* A spec of the catalogue is a workflow and a number.
LEMMA SpecIs ==
  ASSUME NEW s \in Catalogue
  PROVE  /\ s[1] \in Workflows /\ s[2] \in 1..MaxSpecs /\ s = <<s[1], s[2]>>
         /\ s[2] <= Len(specs[s[1]])
BY DEF Catalogue, AllSpecs

\* The lists of a workflow have lengths.
LEMMA LenIs ==
  ASSUME DiscoveryType, NEW w \in Workflows
  PROVE  Len(specs[w]) \in Nat /\ Len(research_runs[w]) \in Nat
BY DEF DiscoveryType, Listed

\* No workflow has a run or a spec at first.
LEMMA DiscoveryInitInv == DiscoveryInit => DiscoveryInv
<1>1. SUFFICES ASSUME DiscoveryInit PROVE DiscoveryInv  OBVIOUS
<1>2. DiscoveryType
  <2>1. << >> \in Seq({})  OBVIOUS
  <2>2. Listed(<< >>)  BY <2>1 DEF Listed
  <2> QED BY <1>1, <2>2 DEF DiscoveryInit, DiscoveryType, Stages
<1>3. passed = {} /\ \A w \in Workflows : stage[w] = "queued" /\ shortlisted[w] = {}
  BY <1>1 DEF DiscoveryInit
<1>4. DedupeInv  BY <1>3, Zenon DEF DedupeInv, InCatalogue, PassedAlone, UnreadIsLater
<1>5. RunsComplete  BY <1>3, Zenon DEF RunsComplete, RunComplete
<1> QED BY <1>2, <1>4, <1>5 DEF DiscoveryInv

\* A step that adds no spec and starts no comparison leaves the dedupe jobs alone.
LEMMA NoNewComparison ==
  ASSUME DiscoveryType, DedupeInv, specs' = specs, passed' = passed,
         \A v \in Workflows : stage'[v] \in {"dedupe", "compared"} =>
           stage'[v] = stage[v] /\ compared'[v] = compared[v]
  PROVE  DedupeInv'
<1>1. Catalogue' = Catalogue /\ \A w : Mine(w)' = Mine(w)  BY DEF Catalogue, AllSpecs, Mine
<1>2. \A s : ConceptOf(s)' = ConceptOf(s)  BY DEF ConceptOf
<1>3. \A s \in Catalogue : Comparing(s)' => Comparing(s) /\ compared'[s[1]] = compared[s[1]]
  BY <1>1, SpecIs DEF Comparing
<1>4. InCatalogue'  BY <1>1, Zenon DEF DedupeInv, InCatalogue
<1>5. PassedAlone'  BY <1>1, <1>2, <1>3, Zenon DEF DedupeInv, PassedAlone
<1>6. UnreadIsLater'
  <2>1. SUFFICES ASSUME NEW w \in Workflows, stage'[w] = "compared",
                        NEW s \in Catalogue \ (compared'[w] \union {Mine(w)})
                 PROVE  /\ Comparing(s)' => Mine(w) \in compared'[s[1]]
                        /\ s \in passed => ~ Collide(ConceptOf(s), ConceptOf(Mine(w)))
    BY <1>1, <1>2, Zenon DEF UnreadIsLater
  <2>2. stage[w] = "compared" /\ compared'[w] = compared[w]  BY <2>1, Zenon
  <2>3. /\ Comparing(s) => Mine(w) \in compared[s[1]]
        /\ s \in passed => ~ Collide(ConceptOf(s), ConceptOf(Mine(w)))
    BY <2>1, <2>2, Zenon DEF DedupeInv, UnreadIsLater
  <2> QED BY <1>3, <2>1, <2>3, Zenon
<1> QED BY <1>4, <1>5, <1>6, Zenon DEF DedupeInv

\* What Strategy and Reconcept do to the catalogue.
AddsSpec(w, c) ==
  /\ stage[w] \in {"shortlisted", "too_close"} /\ Len(specs[w]) < MaxSpecs
  /\ specs' = [specs EXCEPT ![w] = Append(@, c)]
  /\ stage' = [stage EXCEPT ![w] = "dedupe"]
  /\ compared' = compared /\ passed' = passed
  /\ research_runs' = research_runs /\ shortlisted' = shortlisted

\* A new spec is in no comparison yet, and later ones will read it.
LEMMA SpecAdded ==
  ASSUME DiscoveryType, DedupeInv, NEW w \in Workflows, NEW c, AddsSpec(w, c)
  PROVE  DedupeInv'
<1> DEFINE new == <<w, Len(specs[w]) + 1>>
<1>0. /\ stage[w] \in {"shortlisted", "too_close"} /\ Len(specs[w]) < MaxSpecs
      /\ specs' = [specs EXCEPT ![w] = Append(@, c)]
      /\ stage' = [stage EXCEPT ![w] = "dedupe"]
      /\ compared' = compared /\ passed' = passed
  BY DEF AddsSpec
<1>1. Len(specs[w]) \in Nat /\ MaxSpecs \in Nat  BY LenIs, DiscoveryAssumption
<1>2. PICK S : specs[w] \in Seq(S)  BY Zenon DEF DiscoveryType, Listed
<1>3. specs'[w] = Append(specs[w], c) /\ \A v \in Workflows \ {w} : specs'[v] = specs[v]
  BY <1>0, Zenon DEF DiscoveryType
<1>4. Len(specs'[w]) = Len(specs[w]) + 1 /\ \A n \in 1..Len(specs[w]) : specs'[w][n] = specs[w][n]
  BY <1>2, <1>3
<1>5. new \in Catalogue' /\ new \notin Catalogue /\ new = Mine(w)'
  BY <1>1, <1>0, <1>4 DEF Catalogue, AllSpecs, Mine
<1>6. \A s \in Catalogue : s \in Catalogue' /\ ConceptOf(s)' = ConceptOf(s)
  <2>1. SUFFICES ASSUME NEW s \in Catalogue PROVE s \in Catalogue' /\ ConceptOf(s)' = ConceptOf(s)
    OBVIOUS
  <2>2. s[1] \in Workflows /\ s[2] \in 1..MaxSpecs /\ s[2] <= Len(specs[s[1]]) /\ s \in AllSpecs
    BY SpecIs DEF Catalogue
  <2>3. CASE s[1] = w
    BY <1>1, <1>4, <2>2, <2>3 DEF Catalogue, ConceptOf, AllSpecs
  <2>4. CASE s[1] # w
    BY <1>3, <2>2, <2>4 DEF Catalogue, ConceptOf, AllSpecs
  <2> QED BY <2>3, <2>4
<1>7. \A s \in Catalogue' : s \in Catalogue \/ s = new
  <2>1. SUFFICES ASSUME NEW s \in Catalogue', s \notin Catalogue PROVE s = new  OBVIOUS
  <2>2. /\ s[1] \in Workflows /\ s[2] \in 1..MaxSpecs /\ s = <<s[1], s[2]>>
        /\ s[2] <= Len(specs'[s[1]]) /\ ~ (s[2] <= Len(specs[s[1]]))
    BY <2>1 DEF Catalogue, AllSpecs
  <2>3. s[1] = w  BY <1>3, <2>2
  <2>4. s[2] = Len(specs[w]) + 1  BY <1>1, <1>4, <2>2, <2>3
  <2> QED BY <2>2, <2>3, <2>4
<1>8. \A v \in Workflows \ {w} : Mine(v)' = Mine(v) /\ stage'[v] = stage[v]
  BY <1>0, <1>3, Zenon DEF Mine, DiscoveryType
<1>9. stage'[w] = "dedupe"  BY <1>0, Zenon DEF DiscoveryType
<1>10. \A s \in Catalogue' : Comparing(s)' => s \in Catalogue /\ Comparing(s) /\ s[1] # w
  <2>1. SUFFICES ASSUME NEW s \in Catalogue', Comparing(s)'
                 PROVE  s \in Catalogue /\ Comparing(s) /\ s[1] # w
    OBVIOUS
  <2>2. s[1] \in Workflows  BY DEF Catalogue, AllSpecs
  <2>3. s[1] # w  BY <1>9, <2>1, Zenon DEF Comparing
  <2>4. s # new  BY <2>3
  <2>5. s \in Catalogue  BY <1>7, <2>4
  <2> QED BY <1>8, <2>1, <2>2, <2>3, <2>5, Zenon DEF Comparing
<1> HIDE DEF new
<1>11. InCatalogue'
  <2>1. passed' \subseteq Catalogue'  BY <1>0, <1>6 DEF DedupeInv, InCatalogue
  <2>2. ASSUME NEW v \in Workflows, stage'[v] \in {"dedupe", "compared"}
        PROVE  Mine(v)' \in Catalogue' \ passed'
    <3>1. CASE v = w  BY <1>0, <1>5, <3>1 DEF DedupeInv, InCatalogue
    <3>2. CASE v # w  BY <1>0, <1>6, <1>8, <2>2, <3>2 DEF DedupeInv, InCatalogue
    <3> QED BY <3>1, <3>2
  <2> QED BY <2>1, <2>2 DEF InCatalogue
<1>12. PassedAlone'
  <2>1. SUFFICES ASSUME NEW t \in passed, NEW s \in Catalogue', s # t,
                        Collide(ConceptOf(s)', ConceptOf(t)')
                 PROVE  s \notin passed /\ (Comparing(s)' => t \in compared[s[1]])
    BY <1>0, Zenon DEF PassedAlone, Collide, TitlesSimilar
  <2>2. t \in Catalogue  BY DEF DedupeInv, InCatalogue
  <2>3. CASE s \in Catalogue  BY <1>6, <1>10, <2>1, <2>2, <2>3, Zenon DEF DedupeInv, PassedAlone
  <2>4. CASE s = new  BY <1>5, <1>10, <2>4, Zenon DEF DedupeInv, InCatalogue
  <2> QED BY <1>7, <2>3, <2>4, Zenon
<1>13. UnreadIsLater'
  <2>1. SUFFICES ASSUME NEW v \in Workflows, stage'[v] = "compared",
                        NEW s \in Catalogue' \ (compared[v] \union {Mine(v)'})
                 PROVE  /\ Comparing(s)' => Mine(v)' \in compared[s[1]]
                        /\ s \in passed => ~ Collide(ConceptOf(s)', ConceptOf(Mine(v))')
    BY <1>0, Zenon DEF UnreadIsLater, Collide, TitlesSimilar
  <2>2. v # w  BY <1>9, <2>1, Zenon
  <2>3. Mine(v)' = Mine(v) /\ stage[v] = "compared"  BY <1>8, <2>1, <2>2, Zenon
  <2>4. Mine(v) \in Catalogue  BY <2>3, Zenon DEF DedupeInv, InCatalogue
  <2>5. ConceptOf(Mine(v))' = ConceptOf(Mine(v))  BY <1>6, <2>3, <2>4, Zenon DEF ConceptOf
  <2>6. CASE s \in Catalogue
    BY <1>6, <1>10, <2>1, <2>3, <2>5, <2>6, Zenon DEF DedupeInv, UnreadIsLater
  <2>7. CASE s = new  BY <1>5, <1>10, <2>7, Zenon DEF DedupeInv, InCatalogue
  <2> QED BY <1>7, <2>6, <2>7, Zenon
<1> QED BY <1>11, <1>12, <1>13 DEF DedupeInv

\* A job reads the whole catalogue but its own spec, in one read.
LEMMA ReadKeeps ==
  ASSUME DiscoveryType, DedupeInv, NEW w \in Workflows, ReadCatalogue(w) PROVE DedupeInv'
<1>1. /\ stage[w] = "dedupe" /\ specs' = specs /\ passed' = passed
      /\ compared' = [compared EXCEPT ![w] = Existing(w)]
      /\ stage' = [stage EXCEPT ![w] = "compared"]
  BY DEF ReadCatalogue
<1>2. Catalogue' = Catalogue /\ \A v : Mine(v)' = Mine(v)  BY <1>1 DEF Catalogue, AllSpecs, Mine
<1>3. \A s : ConceptOf(s)' = ConceptOf(s)  BY <1>1, Zenon DEF ConceptOf
<1>4. /\ stage'[w] = "compared" /\ compared'[w] = Catalogue \ {Mine(w)}
      /\ \A v \in Workflows \ {w} : stage'[v] = stage[v] /\ compared'[v] = compared[v]
  BY <1>1, Zenon DEF DiscoveryType, Existing, Mine
<1>5. Mine(w) \in Catalogue \ passed /\ passed \subseteq Catalogue
  BY <1>1 DEF DedupeInv, InCatalogue
<1>6. \A s \in Catalogue : Comparing(s)' /\ s[1] # w => Comparing(s)
  BY <1>2, <1>4, SpecIs DEF Comparing
<1>7. \A s \in Catalogue : Comparing(s)' /\ s[1] = w => s = Mine(w)
  BY <1>2, Zenon DEF Comparing
<1>8. InCatalogue'  BY <1>1, <1>2, <1>4, <1>5, Zenon DEF DedupeInv, InCatalogue
<1>9. PassedAlone'
  <2>1. SUFFICES ASSUME NEW t \in passed, NEW s \in Catalogue, s # t,
                        Collide(ConceptOf(s), ConceptOf(t))
                 PROVE  s \notin passed /\ (Comparing(s)' => t \in compared'[s[1]])
    BY <1>1, <1>2, <1>3, Zenon DEF PassedAlone
  <2>2. s \notin passed /\ (Comparing(s) => t \in compared[s[1]])
    BY <2>1, Zenon DEF DedupeInv, PassedAlone
  <2>3. CASE s[1] = w  BY <1>4, <1>5, <1>7, <2>1, <2>2, <2>3, Zenon
  <2>4. CASE s[1] # w  BY <1>4, <1>6, <2>2, <2>4, SpecIs
  <2> QED BY <2>3, <2>4, Zenon
<1>10. UnreadIsLater'
  <2>1. SUFFICES ASSUME NEW v \in Workflows, stage'[v] = "compared",
                        NEW s \in Catalogue \ (compared'[v] \union {Mine(v)})
                 PROVE  /\ Comparing(s)' => Mine(v) \in compared'[s[1]]
                        /\ s \in passed => ~ Collide(ConceptOf(s), ConceptOf(Mine(v)))
    BY <1>1, <1>2, <1>3 DEF UnreadIsLater
  <2>2. v # w  BY <1>4, <2>1, Zenon
  <2>3. /\ stage[v] = "compared" /\ compared'[v] = compared[v]  BY <1>4, <2>1, <2>2, Zenon
  <2>4. /\ Comparing(s) => Mine(v) \in compared[s[1]]
        /\ s \in passed => ~ Collide(ConceptOf(s), ConceptOf(Mine(v)))
    BY <2>1, <2>3, Zenon DEF DedupeInv, UnreadIsLater
  <2>5. Mine(v) \in Catalogue /\ Mine(v) # Mine(w)
    BY <2>2, <2>3, Zenon DEF DedupeInv, InCatalogue, Mine
  <2>6. CASE s[1] = w  BY <1>4, <2>4, <2>5, <2>6, Zenon
  <2>7. CASE s[1] # w  BY <1>4, <1>6, <2>4, <2>7, SpecIs, Zenon
  <2> QED BY <2>6, <2>7, Zenon
<1> QED BY <1>8, <1>9, <1>10 DEF DedupeInv

\* A spec passes when it collides with nothing its job read.  What the job did
\* not read is being compared with this spec, or was.
LEMMA PassKeeps ==
  ASSUME DiscoveryType, DedupeInv, NEW w \in Workflows, stage[w] = "compared",
         \A s \in compared[w] : ~ Collide(ConceptOf(Mine(w)), ConceptOf(s)),
         specs' = specs, passed' = passed \union {Mine(w)},
         compared' = [compared EXCEPT ![w] = {}], stage' = [stage EXCEPT ![w] = "passed"]
  PROVE  DedupeInv'
<1>1. Catalogue' = Catalogue /\ \A v : Mine(v)' = Mine(v)  BY DEF Catalogue, AllSpecs, Mine
<1>2. \A s : ConceptOf(s)' = ConceptOf(s)  BY Zenon DEF ConceptOf
<1>3. /\ stage'[w] = "passed"
      /\ \A v \in Workflows \ {w} : stage'[v] = stage[v] /\ compared'[v] = compared[v]
  BY Zenon DEF DiscoveryType
<1>4. Mine(w) \in Catalogue \ passed /\ passed \subseteq Catalogue
  BY DEF DedupeInv, InCatalogue
<1>5. Comparing(Mine(w)) /\ Mine(w)[1] = w  BY <1>4 DEF Comparing, Mine
<1>6. \A s \in Catalogue : Comparing(s)' => Comparing(s) /\ s[1] # w /\ compared'[s[1]] = compared[s[1]]
  BY <1>1, <1>3, SpecIs DEF Comparing
<1>7. \A v \in Workflows \ {w} : Mine(v) # Mine(w)  BY DEF Mine
<1>8. InCatalogue'
  <2>1. passed' \subseteq Catalogue'  BY <1>1, <1>4
  <2>2. ASSUME NEW v \in Workflows, stage'[v] \in {"dedupe", "compared"}
        PROVE  Mine(v)' \in Catalogue' \ passed'
    <3>1. v # w  BY <1>3, <2>2
    <3> QED BY <1>1, <1>3, <1>7, <2>2, <3>1 DEF DedupeInv, InCatalogue
  <2> QED BY <2>1, <2>2 DEF InCatalogue
<1>9. PassedAlone'
  <2>1. SUFFICES ASSUME NEW t \in passed \union {Mine(w)}, NEW s \in Catalogue, s # t,
                        Collide(ConceptOf(s), ConceptOf(t))
                 PROVE  s \notin passed \union {Mine(w)} /\ (Comparing(s)' => t \in compared'[s[1]])
    BY <1>1, <1>2, Zenon DEF PassedAlone
  <2>2. CASE t \in passed
    <3>1. s \notin passed /\ (Comparing(s) => t \in compared[s[1]])
      BY <2>1, <2>2, Zenon DEF DedupeInv, PassedAlone
    <3>2. s # Mine(w)  BY <1>5, <2>1, <3>1, Zenon
    <3> QED BY <1>6, <3>1, <3>2, Zenon
  <2>3. CASE t = Mine(w)
    <3>1. s \notin compared[w]  BY <2>1, <2>3, CollideBoth
    <3>2. /\ Comparing(s) => Mine(w) \in compared[s[1]]
          /\ s \notin passed
      BY <2>1, <2>3, <3>1, Zenon DEF DedupeInv, UnreadIsLater
    <3> QED BY <1>6, <2>1, <2>3, <3>2, Zenon
  <2> QED BY <2>2, <2>3, Zenon
<1>10. UnreadIsLater'
  <2>1. SUFFICES ASSUME NEW v \in Workflows, stage'[v] = "compared",
                        NEW s \in Catalogue \ (compared'[v] \union {Mine(v)})
                 PROVE  /\ Comparing(s)' => Mine(v) \in compared'[s[1]]
                        /\ s \in passed \union {Mine(w)} => ~ Collide(ConceptOf(s), ConceptOf(Mine(v)))
    BY <1>1, <1>2, Zenon DEF UnreadIsLater
  <2>2. v # w  BY <1>3, <2>1
  <2>3. stage[v] = "compared" /\ compared'[v] = compared[v]  BY <1>3, <2>1, <2>2
  <2>4. /\ Comparing(s) => Mine(v) \in compared[s[1]]
        /\ s \in passed => ~ Collide(ConceptOf(s), ConceptOf(Mine(v)))
    BY <2>1, <2>3, Zenon DEF DedupeInv, UnreadIsLater
  <2>5. s = Mine(w) => ~ Collide(ConceptOf(s), ConceptOf(Mine(v)))  BY <1>5, <2>4, Zenon
  <2> QED BY <1>6, <2>4, <2>5, Zenon
<1> QED BY <1>8, <1>9, <1>10 DEF DedupeInv

\* A spec passes when nothing it was compared with collides with it.
LEMMA CheckDedupeKeeps ==
  ASSUME DiscoveryType, DedupeInv, NEW w \in Workflows, CheckDedupe(w) PROVE DedupeInv'
<1>1. /\ stage[w] = "compared" /\ specs' = specs
      /\ compared' = [compared EXCEPT ![w] = {}]
  BY DEF CheckDedupe
<1>2. CASE \E s \in compared[w] : Collide(ConceptOf(Mine(w)), ConceptOf(s))
  <2>1. stage' = [stage EXCEPT ![w] = "too_close"] /\ passed' = passed
    BY <1>2 DEF CheckDedupe, Mine
  <2>2. \A v \in Workflows : stage'[v] \in {"dedupe", "compared"} =>
          stage'[v] = stage[v] /\ compared'[v] = compared[v]
    BY <1>1, <2>1, Zenon DEF DiscoveryType
  <2> QED BY <1>1, <2>1, <2>2, NoNewComparison
<1>3. CASE \A s \in compared[w] : ~ Collide(ConceptOf(Mine(w)), ConceptOf(s))
  <2>1. stage' = [stage EXCEPT ![w] = "passed"] /\ passed' = passed \union {Mine(w)}
    BY <1>3, Zenon DEF CheckDedupe, Mine
  <2> QED BY <1>1, <1>3, <2>1, PassKeeps, Zenon
<1> QED BY <1>2, <1>3, Zenon

\* A list stays one when it grows or an entry changes.
LEMMA ListedStays ==
  ASSUME NEW s, Listed(s), NEW x
  PROVE  /\ Listed(Append(s, x))
         /\ \A n \in DOMAIN s : Listed([s EXCEPT ![n] = x])
<1>1. PICK S : s \in Seq(S)  BY DEF Listed
<1>2. s \in Seq(S \union {x})  BY <1>1
<1>3. Append(s, x) \in Seq(S \union {x})  BY <1>2
<1>4. \A n \in DOMAIN s : [s EXCEPT ![n] = x] \in Seq(S \union {x})  BY <1>2
<1> QED BY <1>3, <1>4 DEF Listed

\* A step that starts no run and lists nothing leaves the candidates alone.
LEMMA NoNewRun ==
  ASSUME DiscoveryType, RunsComplete, research_runs' = research_runs, shortlisted' = shortlisted,
         \A v \in Workflows : stage'[v] \in {"searching", "observed"} => stage'[v] = stage[v]
  PROVE  RunsComplete'
BY Zenon DEF RunsComplete, RunComplete, WithinBounds

\* A run's row is appended; the earlier ones keep their numbers.
LEMMA StartKeeps ==
  ASSUME DiscoveryInv, NEW w \in Workflows, StartRun(w) PROVE DiscoveryInv'
<1> DEFINE new == [count |-> 0, completed |-> FALSE]
<1>1. DiscoveryType /\ DedupeInv /\ RunsComplete  BY DEF DiscoveryInv
<1>2. /\ research_runs' = [research_runs EXCEPT ![w] = Append(@, new)]
      /\ stage' = [stage EXCEPT ![w] = "searching"]
      /\ shortlisted' = shortlisted /\ specs' = specs /\ compared' = compared /\ passed' = passed
  BY Zenon DEF StartRun
<1> HIDE DEF new
<1>3. /\ research_runs'[w] = Append(research_runs[w], new) /\ stage'[w] = "searching"
      /\ \A v \in Workflows \ {w} : research_runs'[v] = research_runs[v] /\ stage'[v] = stage[v]
  BY <1>1, <1>2, Zenon DEF DiscoveryType
<1>4. DiscoveryType'
  <2>1. Listed(Append(research_runs[w], new))  BY <1>1, ListedStays DEF DiscoveryType
  <2> QED BY <1>1, <1>2, <1>3, <2>1, Zenon DEF DiscoveryType, Stages
<1>5. DedupeInv'  BY <1>1, <1>2, <1>3, NoNewComparison, Zenon
<1>6. RunsComplete'
  <2>1. PICK S : research_runs[w] \in Seq(S)  BY <1>1, Zenon DEF DiscoveryType, Listed
  <2>2. /\ Len(research_runs[w]) \in Nat /\ Len(research_runs'[w]) = Len(research_runs[w]) + 1
        /\ \A n \in 1..Len(research_runs[w]) : research_runs'[w][n] = research_runs[w][n]
    BY <1>3, <2>1
  <2>3. \A row \in shortlisted[w] :
          /\ row.run \in 1..Len(research_runs[w])
          /\ research_runs[w][row.run].completed
          /\ WithinBounds(research_runs[w][row.run].count)
    BY <1>1, Zenon DEF RunsComplete, RunComplete
  <2>4. \A row \in shortlisted[w] :
          /\ row.run \in 1..Len(research_runs'[w]) /\ row.run # Len(research_runs'[w])
          /\ research_runs'[w][row.run].completed
          /\ WithinBounds(research_runs'[w][row.run].count)
    BY <2>2, <2>3
  <2>5. ASSUME NEW v \in Workflows PROVE RunComplete(v)'
    <3>1. CASE v = w
      <4>1. \A row, other \in shortlisted[w] : row.run = other.run => row = other
        BY <1>1, Zenon DEF RunsComplete, RunComplete
      <4>2. Len(research_runs'[w]) >= 1  BY <2>2
      <4> QED BY <1>2, <1>3, <2>4, <3>1, <4>1, <4>2, Zenon DEF RunComplete, WithinBounds
    <3>2. CASE v # w  BY <1>1, <1>2, <1>3, <3>2, ZenonT(30) DEF RunsComplete, RunComplete, WithinBounds
    <3> QED BY <3>1, <3>2
  <2> QED BY <2>5 DEF RunsComplete
<1> QED BY <1>4, <1>5, <1>6 DEF DiscoveryInv

\* The run under way has no candidates yet, so its row may still change.
LEMMA PersistKeeps ==
  ASSUME DiscoveryInv, NEW w \in Workflows, PersistObservations(w) PROVE DiscoveryInv'
<1>1. DiscoveryType /\ DedupeInv /\ RunsComplete  BY DEF DiscoveryInv
<1>2. /\ stage[w] = "searching"
      /\ shortlisted' = shortlisted /\ specs' = specs /\ compared' = compared /\ passed' = passed
  BY Zenon DEF PersistObservations
<1>3. CASE ~ WithinBounds(Len(collected[w]))
  <2>1. stage' = [stage EXCEPT ![w] = "failed"] /\ research_runs' = research_runs
    BY <1>3, Zenon DEF PersistObservations
  <2>2. stage'[w] = "failed" /\ \A v \in Workflows \ {w} : stage'[v] = stage[v]
    BY <1>1, <2>1, Zenon DEF DiscoveryType
  <2>3. DiscoveryType'  BY <1>1, <1>2, <2>1, Zenon DEF DiscoveryType, Stages
  <2>4. DedupeInv'  BY <1>1, <1>2, <2>2, NoNewComparison, Zenon
  <2>5. RunsComplete'  BY <1>1, <1>2, <2>1, <2>2, NoNewRun
  <2> QED BY <2>3, <2>4, <2>5 DEF DiscoveryInv
<1>4. CASE WithinBounds(Len(collected[w]))
  <2> DEFINE last == Len(research_runs[w])
             done == [count |-> Len(collected[w]), completed |-> TRUE]
  <2>1. /\ research_runs' = [research_runs EXCEPT ![w][last] = done]
        /\ stage' = [stage EXCEPT ![w] = "observed"]
    BY <1>4, Zenon DEF PersistObservations
  <2>2. done.completed /\ WithinBounds(done.count)  BY <1>4
  <2> HIDE DEF done
  <2>3. PICK S : research_runs[w] \in Seq(S)  BY <1>1, Zenon DEF DiscoveryType, Listed
  <2>4. last \in Nat /\ last >= 1 /\ last \in DOMAIN research_runs[w] /\ DOMAIN research_runs[w] = 1..last
    BY <1>1, <1>2, <2>3 DEF RunsComplete, RunComplete
  <2>5. /\ research_runs'[w] = [research_runs[w] EXCEPT ![last] = done] /\ stage'[w] = "observed"
        /\ \A v \in Workflows \ {w} : research_runs'[v] = research_runs[v] /\ stage'[v] = stage[v]
    BY <1>1, <2>1 DEF DiscoveryType
  <2>6. /\ Len(research_runs'[w]) = last /\ research_runs'[w][last] = done
        /\ \A n \in 1..last : n # last => research_runs'[w][n] = research_runs[w][n]
    BY <2>3, <2>4, <2>5
  <2>7. DiscoveryType'
    <3>1. Listed([research_runs[w] EXCEPT ![last] = done])
      BY <1>1, <2>4, ListedStays, Zenon DEF DiscoveryType
    <3> QED BY <1>1, <1>2, <2>1, <2>5, <3>1, Zenon DEF DiscoveryType, Stages
  <2>8. DedupeInv'  BY <1>1, <1>2, <2>5, NoNewComparison, Zenon
  <2> HIDE DEF last
  <2>9. \A row \in shortlisted[w] :
          /\ row.run \in 1..last /\ row.run # last
          /\ research_runs'[w][row.run].completed
          /\ WithinBounds(research_runs'[w][row.run].count)
    BY <1>1, <1>2, <2>6, Zenon DEF RunsComplete, RunComplete, last
  <2>10. ASSUME NEW v \in Workflows PROVE RunComplete(v)'
    <3>1. CASE v = w
      <4>1. \A row, other \in shortlisted[w] : row.run = other.run => row = other
        BY <1>1, Zenon DEF RunsComplete, RunComplete
      <4> QED BY <1>2, <2>2, <2>4, <2>5, <2>6, <2>9, <3>1, <4>1, Zenon DEF RunComplete, WithinBounds
    <3>2. CASE v # w
      <4>1. /\ RunComplete(v) /\ research_runs'[v] = research_runs[v]
            /\ shortlisted'[v] = shortlisted[v] /\ stage'[v] = stage[v]
        BY <1>1, <1>2, <2>5, <3>2, Zenon DEF RunsComplete
      <4> QED BY <4>1, Zenon DEF RunComplete, WithinBounds
    <3> QED BY <3>1, <3>2
  <2>11. RunsComplete'  BY <2>10 DEF RunsComplete
  <2> QED BY <2>7, <2>8, <2>11 DEF DiscoveryInv
<1> QED BY <1>3, <1>4

\* The candidates are written once for a run, which is complete.
LEMMA ShortlistKeeps ==
  ASSUME DiscoveryInv, NEW w \in Workflows, Shortlist(w) PROVE DiscoveryInv'
<1> DEFINE row == [run |-> Len(research_runs[w]), concepts |-> TopCandidates(w)]
<1>1. DiscoveryType /\ DedupeInv /\ RunsComplete  BY DEF DiscoveryInv
<1>2. /\ stage[w] = "observed" /\ stage' = [stage EXCEPT ![w] = "shortlisted"]
      /\ shortlisted' = [shortlisted EXCEPT ![w] = @ \union {row}]
      /\ research_runs' = research_runs /\ specs' = specs /\ compared' = compared /\ passed' = passed
  BY Zenon DEF Shortlist
<1>3. row.run = Len(research_runs[w])  OBVIOUS
<1> HIDE DEF row
<1>4. /\ shortlisted'[w] = shortlisted[w] \union {row} /\ stage'[w] = "shortlisted"
      /\ \A v \in Workflows \ {w} : shortlisted'[v] = shortlisted[v] /\ stage'[v] = stage[v]
  BY <1>1, <1>2, Zenon DEF DiscoveryType
<1>5. DiscoveryType'  BY <1>1, <1>2, Zenon DEF DiscoveryType, Stages
<1>6. DedupeInv'  BY <1>1, <1>2, <1>4, NoNewComparison
<1>7. RunsComplete'
  <2>1. Len(research_runs[w]) \in Nat  BY <1>1, LenIs
  <2>2. /\ Len(research_runs[w]) >= 1
        /\ \A r \in shortlisted[w] : r.run # Len(research_runs[w])
        /\ research_runs[w][Len(research_runs[w])].completed
        /\ WithinBounds(research_runs[w][Len(research_runs[w])].count)
    BY <1>1, <1>2, Zenon DEF RunsComplete, RunComplete
  <2>3. ASSUME NEW v \in Workflows PROVE RunComplete(v)'
    <3>1. CASE v = w
      BY <1>1, <1>2, <1>3, <1>4, <2>1, <2>2, <3>1 DEF RunsComplete, RunComplete, WithinBounds
    <3>2. CASE v # w  BY <1>1, <1>2, <1>4, <3>2, ZenonT(30) DEF RunsComplete, RunComplete, WithinBounds
    <3> QED BY <3>1, <3>2
  <2> QED BY <2>3 DEF RunsComplete
<1> QED BY <1>5, <1>6, <1>7 DEF DiscoveryInv

\* A step that leaves the runs, the candidates and the specs alone.
LEMMA StageKeeps ==
  ASSUME DiscoveryInv, stage' \in [Workflows -> Stages],
         \A v \in Workflows : stage'[v] \in {"searching", "observed", "dedupe", "compared"} =>
           stage'[v] = stage[v],
         research_runs' = research_runs, shortlisted' = shortlisted, specs' = specs,
         compared' = compared, passed' = passed
  PROVE  DiscoveryInv'
<1>1. DiscoveryType /\ DedupeInv /\ RunsComplete  BY DEF DiscoveryInv
<1>2. DiscoveryType'  BY <1>1, Zenon DEF DiscoveryType
<1>3. DedupeInv'  BY <1>1, NoNewComparison, Zenon
<1>4. RunsComplete'  BY <1>1, NoNewRun
<1> QED BY <1>2, <1>3, <1>4 DEF DiscoveryInv

\* The same with the rest of the invariant.
LEMMA NewSpecKeeps ==
  ASSUME DiscoveryInv, NEW w \in Workflows, NEW c, AddsSpec(w, c) PROVE DiscoveryInv'
<1>1. DiscoveryType /\ DedupeInv /\ RunsComplete  BY DEF DiscoveryInv
<1>2. DedupeInv'  BY <1>1, SpecAdded
<1>3. /\ specs'[w] = Append(specs[w], c) /\ stage'[w] = "dedupe"
      /\ \A v \in Workflows \ {w} : specs'[v] = specs[v] /\ stage'[v] = stage[v]
  BY <1>1, Zenon DEF DiscoveryType, AddsSpec
<1>4. Listed(Append(specs[w], c))  BY <1>1, ListedStays DEF DiscoveryType
<1>5. DiscoveryType'  BY <1>1, <1>3, <1>4, Zenon DEF DiscoveryType, Stages, AddsSpec
<1>6. RunsComplete'  BY <1>1, <1>3, NoNewRun DEF AddsSpec
<1> QED BY <1>2, <1>5, <1>6 DEF DiscoveryInv

\* The strategy adds a spec or rejects the shortlist.
LEMMA StrategyKeeps ==
  ASSUME DiscoveryInv, NEW w \in Workflows, Strategy(w) PROVE DiscoveryInv'
<1>1. /\ stage[w] = "shortlisted" /\ Len(specs[w]) < MaxSpecs
      /\ research_runs' = research_runs /\ shortlisted' = shortlisted
      /\ compared' = compared /\ passed' = passed
  BY Zenon DEF Strategy
<1>2. PICK row \in shortlisted[w] :
        \/ /\ specs' = [specs EXCEPT ![w] = Append(@, Primary(row.concepts))]
           /\ stage' = [stage EXCEPT ![w] = "dedupe"]
        \/ stage' = [stage EXCEPT ![w] = "rejected"] /\ specs' = specs
  BY Zenon DEF Strategy
<1>3. CASE /\ specs' = [specs EXCEPT ![w] = Append(@, Primary(row.concepts))]
           /\ stage' = [stage EXCEPT ![w] = "dedupe"]
  <2>1. AddsSpec(w, Primary(row.concepts))  BY <1>1, <1>3, Zenon DEF AddsSpec
  <2> QED BY <2>1, NewSpecKeeps, Zenon
<1>4. CASE stage' = [stage EXCEPT ![w] = "rejected"] /\ specs' = specs
  <2>1. stage \in [Workflows -> Stages]  BY Zenon DEF DiscoveryInv, DiscoveryType
  <2>2. /\ stage' \in [Workflows -> Stages] /\ stage'[w] = "rejected"
        /\ \A v \in Workflows \ {w} : stage'[v] = stage[v]
    BY <1>4, <2>1, Zenon DEF Stages
  <2> QED BY <1>1, <1>4, <2>2, StageKeeps, Zenon
<1> QED BY <1>2, <1>3, <1>4, Zenon

\* The catalogue is read, or the comparison is concluded.
LEMMA DedupeKeeps ==
  ASSUME DiscoveryInv, NEW w \in Workflows, ReadCatalogue(w) \/ CheckDedupe(w) PROVE DiscoveryInv'
<1>1. DiscoveryType /\ DedupeInv /\ RunsComplete  BY DEF DiscoveryInv
<1>2. DedupeInv'  BY <1>1, ReadKeeps, CheckDedupeKeeps
<1>3. /\ specs' = specs /\ research_runs' = research_runs /\ shortlisted' = shortlisted
      /\ DOMAIN compared' = DOMAIN compared
      /\ \E x \in {"compared", "too_close", "passed"} : stage' = [stage EXCEPT ![w] = x]
  BY Zenon DEF ReadCatalogue, CheckDedupe
<1>4. PICK x \in {"compared", "too_close", "passed"} : stage' = [stage EXCEPT ![w] = x]  BY <1>3, Zenon
<1>5. stage'[w] = x /\ \A v \in Workflows \ {w} : stage'[v] = stage[v]
  BY <1>1, <1>4, Zenon DEF DiscoveryType
<1>6. DiscoveryType'  BY <1>1, <1>3, <1>4, Zenon DEF DiscoveryType, Stages
<1>7. RunsComplete'  BY <1>1, <1>3, <1>5, NoNewRun, Zenon
<1> QED BY <1>2, <1>6, <1>7 DEF DiscoveryInv

\* A search that goes on or dies concludes nothing.
LEMMA SearchOrDieKeeps ==
  ASSUME DiscoveryInv, NEW w \in Workflows, Search(w) \/ ResearchDies(w) PROVE DiscoveryInv'
<1>1. stage \in [Workflows -> Stages]  BY Zenon DEF DiscoveryInv, DiscoveryType
<1>2. /\ stage' = stage \/ stage' = [stage EXCEPT ![w] = "queued"]
      /\ research_runs' = research_runs /\ shortlisted' = shortlisted /\ specs' = specs
      /\ compared' = compared /\ passed' = passed
  BY Zenon DEF Search, ResearchDies
<1>3. /\ stage' \in [Workflows -> Stages]
      /\ \A v \in Workflows : stage'[v] = stage[v] \/ stage'[v] = "queued"
  BY <1>1, <1>2 DEF Stages
<1> QED BY <1>2, <1>3, StageKeeps, Zenon

\* Of two specs that passed, the later one was compared with the other.
LEMMA DiscoveryInvHolds == DiscoveryInv => NoTwinsPass
<1>1. SUFFICES ASSUME DiscoveryInv PROVE NoTwinsPass  OBVIOUS
<1>2. \A s, t \in passed : s # t => ~ Collide(ConceptOf(s), ConceptOf(t))
  BY <1>1, Zenon DEF DiscoveryInv, DedupeInv, InCatalogue, PassedAlone
<1> QED BY <1>1, <1>2, Zenon DEF DiscoveryInv, RunsComplete, RunComplete, NoTwinsPass

\* For every number of workflows, whatever their interleaving: two specs that
\* passed dedupe are not too close (catalogue_dedupe.py), and candidates belong to
\* a completed run (market_research.py).
THEOREM DedupeSound == DiscoverySpec => []NoTwinsPass
<1>1. DiscoveryInv /\ [DiscoveryNext]_discoveryVars => DiscoveryInv'
  <2>1. SUFFICES ASSUME DiscoveryInv, [DiscoveryNext]_discoveryVars PROVE DiscoveryInv'  OBVIOUS
  <2>2. CASE DiscoveryNext
    <3>1. PICK w \in Workflows :
            \/ StartRun(w) \/ Search(w) \/ PersistObservations(w) \/ Shortlist(w) \/ ResearchDies(w)
            \/ Strategy(w) \/ ReadCatalogue(w) \/ CheckDedupe(w)
            \/ \E c \in Concepts : Reconcept(w, c)
      BY <2>2 DEF DiscoveryNext
    <3>2. CASE StartRun(w)  BY <2>1, <3>2, StartKeeps
    <3>3. CASE Search(w) \/ ResearchDies(w)  BY <2>1, <3>3, SearchOrDieKeeps
    <3>4. CASE PersistObservations(w)  BY <2>1, <3>4, PersistKeeps
    <3>5. CASE Shortlist(w)  BY <2>1, <3>5, ShortlistKeeps
    <3>6. CASE Strategy(w)  BY <2>1, <3>6, StrategyKeeps
    <3>7. CASE ReadCatalogue(w) \/ CheckDedupe(w)  BY <2>1, <3>7, DedupeKeeps
    <3>8. ASSUME NEW c \in Concepts, Reconcept(w, c) PROVE DiscoveryInv'
      <4>1. AddsSpec(w, c)  BY <3>8 DEF AddsSpec, Reconcept
      <4> QED BY <2>1, <4>1, NewSpecKeeps
    <3> QED BY <3>1, <3>2, <3>3, <3>4, <3>5, <3>6, <3>7, <3>8
  <2>3. CASE UNCHANGED discoveryVars
    BY <2>1, <2>3, StageKeeps, Zenon DEF discoveryVars, DiscoveryInv, DiscoveryType
  <2> QED BY <2>1, <2>2, <2>3
<1> QED BY <1>1, DiscoveryInitInv, DiscoveryInvHolds, PTL DEF DiscoverySpec

-----------------------------------------------------------------------------
(* ReceiptLog.                                                             *)

\* The file: complete lines with a key each, no key twice, and a tail.
FileSound ==
  /\ lines \in Seq(Keys) /\ IsInjective(lines)
  /\ tail \in Keys \cup {Nothing, Torn}
  /\ tail \in Keys => tail \notin Range(lines)
  /\ acked \subseteq Range(LogicalLines)

\* The steps of record() that hold the lock.
Recording == {"locked", "checked", "repaired"}

\* All logs that are open have the registry's lock.
OneLock ==
  /\ at \in [Logs -> {"none", "opening", "idle"} \cup Recording]
  /\ DOMAIN lock = Logs /\ DOMAIN want = Logs
  /\ registry \in Nat /\ locks \in Nat
  /\ holder \in [1..MaxLocks -> Logs \cup {Nobody}]
  /\ \A g \in Logs : at[g] # "none" => lock[g] = registry /\ registry \in 1..MaxLocks
  /\ \A g \in Logs : at[g] \in Recording => holder[registry] = g

\* What the log that records has found is still so.
Found(g) ==
  /\ at[g] \in Recording => want[g] \in Keys
  /\ at[g] = "checked" => want[g] \notin Range(LogicalLines)
  /\ at[g] = "repaired" => tail = Nothing /\ want[g] \notin Range(lines)

\* The inductive invariant of ReceiptLog.
LogInv == FileSound /\ OneLock /\ \A g \in Logs : Found(g)

\* A new key goes to the end of a sequence without repetition.
LEMMA AppendNew ==
  ASSUME NEW s \in Seq(Keys), IsInjective(s), NEW k \in Keys, k \notin Range(s)
  PROVE  /\ Append(s, k) \in Seq(Keys) /\ IsInjective(Append(s, k))
         /\ Range(Append(s, k)) = Range(s) \cup {k}
  <1>1. /\ Append(s, k) \in Seq(Keys) /\ DOMAIN Append(s, k) = DOMAIN s \cup {Len(s) + 1}
        /\ Append(s, k)[Len(s) + 1] = k /\ \A i \in DOMAIN s : Append(s, k)[i] = s[i]
    OBVIOUS
  <1>2. IsInjective(Append(s, k))
    BY <1>1 DEF IsInjective, Range
  <1> QED
    BY <1>1, <1>2 DEF Range

\* The lines a load sees.
LEMMA LogicalAre ==
  ASSUME FileSound
  PROVE  /\ LogicalLines \in Seq(Keys) /\ IsInjective(LogicalLines)
         /\ Range(LogicalLines) = Range(lines) \cup ({tail} \cap Keys)
  BY AppendNew DEF FileSound, LogicalLines

\* A sound file loads, and has what was acknowledged.
LEMMA AlwaysLoads ==
  ASSUME FileSound
  PROVE  ReceiptsStay
  <1>1. Range(LogicalLines) \subseteq Keys
    BY LogicalAre DEF Range
  <1> QED
    BY <1>1, LogicalAre, ReceiptAssumption DEF ReceiptsStay, Loads, FileSound

\* No file, and no log open.
LEMMA LogInit == Init => LogInv
  BY DEF Init, LogInv, FileSound, OneLock, Found, Recording, IsInjective, Range

\* Two logs never record at once.
LEMMA OneRecords ==
  ASSUME LogInv
  PROVE  /\ \A g, h \in Logs : at[g] \in Recording /\ at[h] \in Recording => g = h
         /\ \A g, h \in Logs : at[g] # "none" /\ holder[lock[g]] = Nobody => at[h] \notin Recording
  BY ReceiptAssumption DEF LogInv, OneLock, Recording

\* Logs come and go: the file stays, and the registry has one lock for them.
LEMMA LogsKeep ==
  ASSUME LogInv, NEW g \in Logs, Open(g) \/ Load(g) \/ Drop(g)
  PROVE  LogInv'
  <1>1. UNCHANGED <<lines, tail, acked, want, holder>>
    BY DEF Open, Load, Drop
  <1>2. FileSound'
    BY <1>1 DEF LogInv, FileSound, LogicalLines
  <1>3. /\ at' \in [Logs -> {"none", "opening", "idle"} \cup Recording] /\ at'[g] \notin Recording
        /\ \A h \in Logs : h # g => at'[h] = at[h]
    BY DEF Open, Load, Drop, LogInv, OneLock, Recording
  <1>4. \A h \in Logs : Found(h)'
    BY <1>1, <1>3, Zenon DEF LogInv, Found, LogicalLines
  <1>5. OneLock'
    <2>1. CASE Open(g)
      <3>1. PICK o \in 1..MaxLocks :
              /\ registry' = o /\ lock' = [lock EXCEPT ![g] = o] /\ locks' \in Nat
              /\ registry # 0 => o = registry
        <4> DEFINE o == IF registry = 0 THEN locks + 1 ELSE registry
        <4>1. /\ o <= MaxLocks /\ registry' = o /\ lock' = [lock EXCEPT ![g] = o]
              /\ locks' = locks \/ locks' = o
          BY <2>1, Zenon DEF Open, o
        <4> HIDE DEF o
        <4>2. o \in Nat \ {0} /\ locks \in Nat /\ MaxLocks \in Nat
          <5>1. registry \in Nat /\ locks \in Nat
            BY Zenon DEF LogInv, OneLock
          <5> QED
            BY <5>1, ReceiptAssumption DEF o
        <4>3. o \in 1..MaxLocks /\ locks' \in Nat /\ (registry # 0 => o = registry)
          BY <4>1, <4>2 DEF o
        <4> QED
          BY Zenon, <4>1, <4>3
      <3> QED
        BY <1>1, <1>3, <3>1 DEF LogInv, OneLock
    <2>2. CASE Load(g) \/ Drop(g)
      <3>1. /\ UNCHANGED <<lock, locks>>
            /\ registry' = registry \/ (at'[g] = "none" /\ registry' = RegistryAfter({g}))
        BY <2>2, Zenon DEF Load, Drop, LogInv, OneLock
      <3>2. registry' = registry \/ (registry' = 0 /\ \A h \in Logs : at'[h] = "none")
        BY <1>3, <3>1, Zenon DEF RegistryAfter, InstancesOf, LogInv, OneLock
      <3>3. at'[g] # "none" => at[g] # "none"
        BY <2>2, Zenon DEF Load, Drop
      <3>4. OneLock /\ holder' = holder /\ want' = want
        BY <1>1, Zenon DEF LogInv
      <3>5. ASSUME NEW h \in Logs
            PROVE  /\ at'[h] # "none" => lock'[h] = registry' /\ registry' \in 1..MaxLocks
                   /\ at'[h] \in Recording => holder'[registry'] = h
        <4>1. at'[h] # "none" => at[h] # "none" /\ registry' = registry
          BY <1>3, <3>2, <3>3, Zenon
        <4>2. at'[h] \in Recording => at[h] \in Recording /\ at'[h] # "none"
          BY <1>3 DEF Recording
        <4> QED
          BY <3>1, <3>4, <4>1, <4>2, Zenon DEF OneLock
      <3>6. registry' \in Nat
        BY <3>2, <3>4 DEF OneLock
      <3> QED
        BY <1>3, <3>1, <3>4, <3>5, <3>6, Zenon DEF OneLock
    <2> QED
      BY <2>1, <2>2, Zenon
  <1> QED
    BY <1>2, <1>4, <1>5 DEF LogInv

\* The step of the log that records, with the others idle: the lock.
LEMMA RecorderKeepsLock ==
  ASSUME LogInv, NEW g \in Logs, at[g] # "none",
         \A h \in Logs : h # g => at[h] \notin Recording,
         UNCHANGED <<lock, registry, locks>>, DOMAIN want' = Logs,
         NEW x \in {"idle"} \cup Recording, at' = [at EXCEPT ![g] = x],
         \/ x = "idle" /\ holder' = [holder EXCEPT ![lock[g]] = Nobody]
         \/ holder' = [holder EXCEPT ![lock[g]] = g]
         \/ at[g] \in Recording /\ holder' = holder
  PROVE  /\ OneLock' /\ at'[g] = x
         /\ \A h \in Logs : h # g => at'[h] \notin Recording /\ at'[h] = at[h]
  <1>1. /\ at' \in [Logs -> {"none", "opening", "idle"} \cup Recording] /\ at'[g] = x
        /\ \A h \in Logs : h # g => at'[h] = at[h]
    BY Zenon DEF LogInv, OneLock, Recording
  <1>2. lock[g] = registry /\ registry \in 1..MaxLocks
    BY Zenon DEF LogInv, OneLock
  <1>3. /\ holder' \in [1..MaxLocks -> Logs \cup {Nobody}]
        /\ x \in Recording => holder'[registry] = g
    <2>1. /\ holder \in [1..MaxLocks -> Logs \cup {Nobody}]
          /\ at[g] \in Recording => holder[registry] = g
      BY Zenon DEF LogInv, OneLock
    <2>2. CASE x = "idle" /\ holder' = [holder EXCEPT ![lock[g]] = Nobody]
      BY <1>2, <2>1, <2>2 DEF Recording
    <2>3. CASE holder' = [holder EXCEPT ![lock[g]] = g]
      BY <1>2, <2>1, <2>3
    <2>4. CASE at[g] \in Recording /\ holder' = holder
      BY <2>1, <2>4, Zenon
    <2> QED
      BY <2>2, <2>3, <2>4, Zenon
  <1> QED
    BY <1>1, <1>2, <1>3, Zenon DEF LogInv, OneLock

\* Whoever gets the lock is the only one that records.
LEMMA RecordKeepsLog ==
  ASSUME LogInv, NEW g \in Logs, NEW k \in Keys, Record(g, k)
  PROVE  LogInv'
  <1>1. /\ UNCHANGED <<lines, tail, acked, lock, registry, locks>>
        /\ at[g] = "idle" /\ holder[lock[g]] = Nobody
        /\ at' = [at EXCEPT ![g] = "locked"] /\ holder' = [holder EXCEPT ![lock[g]] = g]
        /\ DOMAIN want' = Logs /\ want'[g] = k /\ \A h \in Logs : h # g => want'[h] = want[h]
    BY DEF Record, LogInv, OneLock
  <1>2. \A h \in Logs : at[h] \notin Recording
    BY <1>1, OneRecords, Zenon
  <1>3. /\ OneLock' /\ at'[g] = "locked"
        /\ \A h \in Logs : h # g => at'[h] \notin Recording
    BY Zenon, <1>1, <1>2, RecorderKeepsLock DEF Recording
  <1>4. FileSound'
    BY <1>1, Zenon DEF LogInv, FileSound, LogicalLines
  <1>5. \A h \in Logs : Found(h)'
    BY <1>1, <1>3, Zenon DEF Found, Recording
  <1> QED
    BY <1>3, <1>4, <1>5 DEF LogInv

\* A key that is in the file is answered, another is new.
LEMMA CheckKeeps ==
  ASSUME LogInv, NEW g \in Logs, Check(g)
  PROVE  LogInv'
  <1>1. UNCHANGED <<lines, tail, acked, lock, registry, locks>> /\ at[g] = "locked"
    BY Zenon DEF Check
  <1>2. /\ at[g] \in Recording /\ at[g] # "none" /\ want[g] \in Keys
        /\ \A h \in Logs : h # g => at[h] \notin Recording
    BY <1>1, OneRecords, Zenon DEF Recording, LogInv, Found
  <1>3. FileSound'
    BY <1>1 DEF LogInv, FileSound, LogicalLines
  <1>4. CASE Release(g)
    <2>1. /\ at' = [at EXCEPT ![g] = "idle"] /\ holder' = [holder EXCEPT ![lock[g]] = Nobody]
          /\ DOMAIN want' = Logs
      BY <1>4, Zenon DEF Release, LogInv, OneLock
    <2>2. OneLock' /\ at'[g] = "idle" /\ \A h \in Logs : h # g => at'[h] \notin Recording
      BY Zenon, <1>1, <1>2, <2>1, RecorderKeepsLock
    <2>3. \A h \in Logs : at'[h] \notin Recording
      BY <2>2 DEF Recording
    <2> QED
      BY <1>3, <2>2, <2>3, Zenon DEF LogInv, Found, Recording
  <1>5. CASE ~Release(g)
    <2>1. /\ at' = [at EXCEPT ![g] = "checked"] /\ UNCHANGED <<holder, want>>
          /\ want[g] \notin Range(LogicalLines)
      BY <1>5, Zenon DEF Check, Reload
    <2>2. /\ OneLock' /\ at'[g] = "checked"
          /\ \A h \in Logs : h # g => at'[h] \notin Recording
      BY <1>1, <1>2, <2>1, RecorderKeepsLock, Zenon DEF Recording, LogInv, OneLock
    <2>3. \A h \in Logs : Found(h)'
      BY <1>1, <1>2, <2>1, <2>2 DEF Found, Recording, LogicalLines
    <2> QED
      BY <1>3, <2>2, <2>3 DEF LogInv
  <1> QED
    BY <1>4, <1>5

\* The repair of the tail keeps a whole last line and drops a torn one.
LEMMA RepairKeepsLog ==
  ASSUME LogInv, NEW g \in Logs, RepairTail(g)
  PROVE  LogInv'
  <1>1. /\ lines' = LogicalLines /\ tail' = Nothing /\ at' = [at EXCEPT ![g] = "repaired"]
        /\ UNCHANGED <<acked, lock, registry, locks, holder, want>> /\ at[g] = "checked"
    BY DEF RepairTail
  <1>2. /\ want[g] \in Keys /\ want[g] \notin Range(LogicalLines)
        /\ \A h \in Logs : h # g => at[h] \notin Recording
    BY <1>1, OneRecords, Zenon DEF Recording, LogInv, Found
  <1>3. LogicalLines' = LogicalLines
    BY <1>1, ReceiptAssumption DEF LogicalLines
  <1>4. FileSound'
    BY <1>1, <1>3, LogicalAre, ReceiptAssumption DEF LogInv, FileSound
  <1>5. /\ OneLock' /\ at'[g] = "repaired"
        /\ \A h \in Logs : h # g => at'[h] \notin Recording
    BY <1>1, <1>2, RecorderKeepsLock, Zenon DEF Recording, LogInv, OneLock
  <1>6. \A h \in Logs : Found(h)'
    BY <1>1, <1>2, <1>5 DEF Found, Recording
  <1> QED
    BY <1>4, <1>5, <1>6 DEF LogInv

\* Wherever the write of a new line is cut off, the file stays sound.
LEMMA WrittenKeeps ==
  ASSUME FileSound, tail = Nothing, NEW k \in Keys, k \notin Range(lines),
         NEW part \in Parts, Written(part, k)
  PROVE  /\ lines' \in Seq(Keys) /\ IsInjective(lines') /\ tail' \in Keys \cup {Nothing, Torn}
         /\ tail' \in Keys => tail' \notin Range(lines')
         /\ Range(LogicalLines) \subseteq Range(LogicalLines')
         /\ part = "line" => k \in Range(LogicalLines')
  <1>1. LogicalLines = lines
    BY ReceiptAssumption DEF LogicalLines
  <1>2. lines \in Seq(Keys) /\ IsInjective(lines)
    BY DEF FileSound
  <1>3. CASE part = "line"
    <2>1. lines' = Append(lines, k) /\ tail' = Nothing
      BY <1>3 DEF Written
    <2>2. LogicalLines' = lines'
      BY <2>1, ReceiptAssumption DEF LogicalLines
    <2> QED
      BY <1>1, <1>2, <2>1, <2>2, AppendNew, ReceiptAssumption
  <1>4. CASE part \in {"nothing", "fragment"}
    <2>1. lines' = lines /\ tail' \in {Nothing, Torn}
      BY <1>4 DEF Written
    <2>2. LogicalLines' = lines
      BY <2>1, ReceiptAssumption DEF LogicalLines
    <2> QED
      BY <1>1, <1>2, <1>4, <2>1, <2>2, ReceiptAssumption
  <1>5. CASE part = "unended"
    <2>1. lines' = lines /\ tail' = k
      BY <1>5 DEF Written
    <2>2. LogicalLines' = Append(lines, k)
      BY <2>1 DEF LogicalLines
    <2> QED
      BY <1>1, <1>2, <1>5, <2>1, <2>2, AppendNew
  <1> QED
    BY <1>3, <1>4, <1>5, Zenon DEF Parts

\* The write of the line, whole or cut off, ends the record.
LEMMA AppendKeeps ==
  ASSUME LogInv, NEW g \in Logs,
         AppendLine(g) \/ \E part \in Parts : AppendFails(g, part)
  PROVE  LogInv'
  <1>1. PICK part \in Parts :
          /\ at[g] = "repaired" /\ Written(part, want[g]) /\ Release(g)
          /\ UNCHANGED <<lock, registry, locks>>
          /\ acked' = acked \/ (part = "line" /\ acked' = acked \union {want[g]})
    BY Zenon DEF AppendLine, AppendFails, Parts
  <1>2. /\ want[g] \in Keys /\ want[g] \notin Range(lines) /\ tail = Nothing /\ FileSound
        /\ \A h \in Logs : h # g => at[h] \notin Recording
    BY <1>1, OneRecords, Zenon DEF Recording, LogInv, Found
  <1>3. FileSound'
    BY <1>1, <1>2, WrittenKeeps, Zenon DEF FileSound
  <1>4. /\ at' = [at EXCEPT ![g] = "idle"] /\ holder' = [holder EXCEPT ![lock[g]] = Nobody]
        /\ DOMAIN want' = Logs
    BY <1>1, Zenon DEF Release, LogInv, OneLock
  <1>5. OneLock' /\ at'[g] = "idle" /\ \A h \in Logs : h # g => at'[h] \notin Recording
    BY Zenon, <1>1, <1>2, <1>4, RecorderKeepsLock
  <1>6. \A h \in Logs : at'[h] \notin Recording
    BY <1>5 DEF Recording
  <1> QED
    BY <1>3, <1>5, <1>6, Zenon DEF LogInv, Found, Recording

\* The process dies with the line written, partly written or not at all.
LEMMA DieKeeps ==
  ASSUME LogInv, NEW part \in Parts, Die(part)
  PROVE  LogInv'
  <1>1. OneLock' /\ \A g \in Logs : at'[g] = "none"
    BY Zenon DEF Die, OneLock, Recording
  <1>2. acked' = acked
    BY Zenon DEF Die
  <1>3. FileSound'
    <2>1. CASE UNCHANGED <<lines, tail>>
      BY <1>2, <2>1 DEF LogInv, FileSound, LogicalLines
    <2>2. ASSUME NEW g \in Logs, at[g] = "repaired", Written(part, want[g]) PROVE FileSound'
      BY <1>2, <2>2, WrittenKeeps, Zenon DEF LogInv, Found, Recording, FileSound
    <2> QED
      BY <2>1, <2>2, Zenon DEF Die
  <1> QED
    BY <1>1, <1>3, Zenon DEF LogInv, Found, Recording

\* ReceiptsStay, for any number of logs, keys, locks and faults.
THEOREM LogAlwaysLoads == Spec => []ReceiptsStay
  <1>1. LogInv /\ [Next]_receiptVars => LogInv'
    <2> SUFFICES ASSUME LogInv, [Next]_receiptVars PROVE LogInv'
      OBVIOUS
    <2>1. CASE UNCHANGED receiptVars
      BY <2>1, Zenon DEF receiptVars, LogInv, FileSound, OneLock, Found, LogicalLines
    <2> QED
      BY <2>1, LogsKeep, RecordKeepsLog, CheckKeeps, RepairKeepsLog, AppendKeeps, DieKeeps, Zenon DEF
         Next
  <1>2. LogInv => ReceiptsStay
    BY AlwaysLoads DEF LogInv
  <1> QED
    BY <1>1, <1>2, LogInit, PTL DEF Spec

-----------------------------------------------------------------------------
(* AssetStore.                                                             *)

\* An object under a name is whole, a writer links only a whole temporary file,
\* and what was reported as stored is on the disk.
StoreInv ==
  /\ object \in [Roles -> {"absent", "whole"}]
  /\ disk \in [Roles -> {"absent", "whole"}]
  /\ role \in [Writers -> Roles]
  /\ DOMAIN writer_at = Writers /\ DOMAIN temp = Writers
  /\ \A w \in Writers : writer_at[w] = "link" => temp[w] = "whole"
  /\ \A w \in Writers :
       writer_at[w] = "syncParent" /\ role[w] = "published" => object["published"] = "whole"
  /\ "published" \in stored => object["published"] = "whole" /\ disk["published"] = "whole"

\* NamedIsWhole, for any number of writers, puts and faults: a reader never
\* finds a part of an object under its name, and what put() returned is there.
THEOREM ObjectsAreWhole == StoreSpec => []NamedIsWhole
  <1>1. StoreInit => StoreInv
    BY DEF StoreInit, StoreInv, Roles
  <1>2. StoreInv /\ [StoreNext]_assetVars => StoreInv'
    <2> SUFFICES ASSUME StoreInv, [StoreNext]_assetVars PROVE StoreInv'
      OBVIOUS
    <2> USE DEF StoreInv, Roles, Go, StoreFinally
    <2>1. ASSUME NEW w \in Writers, NEW r \in Roles, Put(w, r) PROVE StoreInv'
      BY <2>1, Zenon DEF Put
    <2>2. ASSUME NEW w \in Writers, Create(w) PROVE StoreInv'
      BY <2>2, Zenon DEF Create
    <2>3. ASSUME NEW w \in Writers, Write(w) PROVE StoreInv'
      BY <2>3, Zenon DEF Write
    <2>4. ASSUME NEW w \in Writers, Sync(w) PROVE StoreInv'
      BY <2>4, Zenon DEF Sync
    <2>5. ASSUME NEW w \in Writers, Link(w) PROVE StoreInv'
      BY <2>5 DEF Link
    <2>6. ASSUME NEW w \in Writers, Exists(w) PROVE StoreInv'
      BY <2>6, Zenon DEF Exists
    <2>7. ASSUME NEW w \in Writers, SyncParent(w) PROVE StoreInv'
      BY <2>7, Zenon DEF SyncParent
    <2>8. ASSUME NEW w \in Writers, Fail(w) PROVE StoreInv'
      BY <2>8, Zenon DEF Fail
    <2>9. ASSUME NEW w \in Writers, StoreDie(w) PROVE StoreInv'
      BY <2>9, Zenon DEF StoreDie
    <2>10. ASSUME Discard PROVE StoreInv'
      BY <2>10, ZenonT(30) DEF Discard
    <2>11. ASSUME PowerFails PROVE StoreInv'
      BY <2>11 DEF PowerFails, Survivors, Bytes
    <2>12. CASE UNCHANGED assetVars
      BY <2>12, Zenon DEF assetVars
    <2> QED
      BY <2>1, <2>2, <2>3, <2>4, <2>5, <2>6, <2>7, <2>8, <2>9, <2>10, <2>11, <2>12, Zenon DEF StoreNext
  <1>3. StoreInv => NamedIsWhole
    BY DEF StoreInv, NamedIsWhole, Roles
  <1> QED
    BY <1>1, <1>2, <1>3, PTL DEF StoreSpec

-----------------------------------------------------------------------------
(* SupportIntake.                                                          *)

\* The artifact's history goes up to now, and a read is a look at it.
HistoryTells ==
  /\ now \in Nat /\ history \in Seq(Hashes) /\ Len(history) = now + 1
  /\ artifact \in Hashes /\ history[now + 1] = artifact
  /\ \A read \in reads : read.time \in 1..now /\ history[read.time + 1] = read.hash

\* A repair job that is done has a version in the ledger.
RepairsKept ==
  /\ repairs \in [IssueReports \X RepairKeys -> Hashes \cup {None}]
  /\ \A repair \in repaired :
       /\ repair.incident \in IssueReports /\ repair.time \in Nat /\ repair.hash \in Hashes
       /\ \E key \in RepairKeys : repairs[<<repair.incident, key>>] = repair.hash

\* Whoever was told of an issue was told of the incident that is kept.
ToldKept ==
  /\ DOMAIN issues = IssueReports /\ DOMAIN told = IssueReports
  /\ \A report \in IssueReports :
       told[report] \subseteq {issues[report]} /\ (issues[report] = None => told[report] = {})

\* What a resolution rests on.
ResolutionsRest ==
  \A res \in resolved :
    /\ res.incident \in IssueReports /\ res.hash \in Hashes /\ res.repaired_at \in Nat
    /\ \E key \in RepairKeys : repairs[<<res.incident, key>>] = res.hash
    /\ \E time \in (res.repaired_at + 1)..now : history[time + 1] = res.hash

\* The inductive invariant of SupportIntake.
SupportInv == HistoryTells /\ RepairsKept /\ ToldKept /\ ResolutionsRest

\* The artifact has its first hash, and there are no issues.
LEMMA SupportInitInv == SupportInit => SupportInv
  <1> SUFFICES ASSUME SupportInit PROVE SupportInv
    OBVIOUS
  <1>1. HistoryTells
    BY DEF SupportInit, HistoryTells
  <1>2. RepairsKept /\ ToldKept /\ ResolutionsRest
    BY Zenon DEF SupportInit, RepairsKept, ToldKept, ResolutionsRest
  <1> QED
    BY <1>1, <1>2 DEF SupportInv

\* An event leaves the past as it was.
LEMMA TickKeeps ==
  ASSUME SupportInv, NEW hash \in Hashes, Tick(hash)
  PROVE  /\ now' = now + 1 /\ now \in Nat /\ now' \in Nat
         /\ history' \in Seq(Hashes) /\ Len(history') = now' + 1
         /\ artifact' \in Hashes /\ history'[now' + 1] = artifact'
         /\ \A time \in 0..now : history'[time + 1] = history[time + 1]
  BY DEF SupportInv, HistoryTells, Tick

\* A time of the past is one of the past when the clock has gone on.
LEMMA TimesStay ==
  ASSUME NEW n \in Nat
  PROVE  /\ \A t \in 1..n : t \in 0..n /\ t \in 1..(n + 1)
         /\ n + 1 \in 1..(n + 1)
         /\ \A r \in Nat : \A t \in (r + 1)..n : t \in 0..n /\ t \in (r + 1)..(n + 1)
  OBVIOUS

\* What an event that resolves nothing does to the resolutions.
LEMMA ResolutionsStay ==
  ASSUME SupportInv, NEW hash \in Hashes, Tick(hash), resolved' = resolved,
         \A report \in IssueReports, key \in RepairKeys :
           repairs[<<report, key>>] # None => repairs'[<<report, key>>] = repairs[<<report, key>>],
         None \notin Hashes
  PROVE  ResolutionsRest'
  <1> SUFFICES ASSUME NEW res \in resolved
               PROVE  /\ res.incident \in IssueReports /\ res.hash \in Hashes /\ res.repaired_at \in Nat
                      /\ \E key \in RepairKeys : repairs'[<<res.incident, key>>] = res.hash
                      /\ \E time \in (res.repaired_at + 1)..now' : history'[time + 1] = res.hash
    BY Zenon DEF ResolutionsRest
  <1>1. /\ res.incident \in IssueReports /\ res.hash \in Hashes /\ res.repaired_at \in Nat
        /\ \E key \in RepairKeys : repairs[<<res.incident, key>>] = res.hash
    BY Zenon DEF SupportInv, ResolutionsRest
  <1>2. PICK time \in (res.repaired_at + 1)..now : history[time + 1] = res.hash
    BY Zenon DEF SupportInv, ResolutionsRest
  <1>3. time \in 0..now /\ time \in (res.repaired_at + 1)..now'
    BY <1>1, <1>2, TickKeeps, TimesStay, Zenon
  <1>4. history'[time + 1] = res.hash
    BY <1>2, <1>3, TickKeeps, Zenon
  <1> QED
    BY <1>1, <1>3, <1>4, Zenon

\* An issue reported again is told as the incident that is kept.
LEMMA OpenIssueKeeps ==
  ASSUME SupportInv,
         NEW report \in IssueReports, NEW code \in Codes, OpenIssue(report, code)
  PROVE  SupportInv'
  <1>1. UNCHANGED <<now, artifact, history, repairs, repaired, reads, resolved>>
    BY DEF OpenIssue
  <1>2. HistoryTells' /\ RepairsKept' /\ ResolutionsRest'
    BY Zenon, <1>1 DEF SupportInv, HistoryTells, RepairsKept, ResolutionsRest
  <1>3. /\ Stored(report, code) # None
        /\ issues[report] # None => Stored(report, code) = issues[report]
    BY SupportAssumption DEF Stored
  <1>4. /\ issues' = [issues EXCEPT ![report] = Stored(report, code)]
        /\ told' = [told EXCEPT ![report] = told[report] \union {Stored(report, code)}]
    BY Zenon DEF OpenIssue
  <1>5. ToldKept'
    BY <1>3, <1>4, Zenon DEF SupportInv, ToldKept
  <1> QED
    BY <1>2, <1>5 DEF SupportInv

\* The artifact changes, or a job reads it.
LEMMA EventsKeep ==
  ASSUME SupportInv,
         \/ \E hash \in Hashes : ArtifactChanges(hash)
         \/ \E job \in {"repair", "verification"} : ReadArtifact(job)
  PROVE  SupportInv'
  <1>1. UNCHANGED <<issues, told, repairs, repaired, resolved>>
    BY Zenon DEF ArtifactChanges, ReadArtifact
  <1>2. PICK hash \in Hashes :
          /\ Tick(hash)
          /\ \/ reads' = reads
             \/ /\ hash = artifact
                /\ \E job : reads' = reads \union {[job |-> job, hash |-> artifact, time |-> now']}
    BY Zenon DEF ArtifactChanges, ReadArtifact, SupportInv, HistoryTells
  <1>3. ResolutionsRest'
    BY Zenon, <1>1, <1>2, ResolutionsStay, SupportAssumption
  <1>4. RepairsKept' /\ ToldKept'
    BY Zenon, <1>1 DEF SupportInv, RepairsKept, ToldKept
  <1>5. ASSUME NEW read \in reads' PROVE read.time \in 1..now' /\ history'[read.time + 1] = read.hash
    <2>1. CASE read \in reads
      <3>1. read.time \in 1..now /\ history[read.time + 1] = read.hash
        BY <2>1, Zenon DEF SupportInv, HistoryTells
      <3> QED
        BY <1>2, <3>1, TickKeeps, TimesStay, Zenon
    <2>2. CASE read \notin reads
      <3>1. /\ hash = artifact
            /\ \E job : reads' = reads \union {[job |-> job, hash |-> artifact, time |-> now']}
        BY <1>2, <2>2, Zenon
      <3>2. PICK job : read = [job |-> job, hash |-> artifact, time |-> now']
        BY <2>2, <3>1, Zenon
      <3>3. read.hash = artifact /\ read.time = now'
        BY <3>2, Zenon
      <3>4. artifact' = artifact
        BY <1>2, <3>1, Zenon DEF Tick
      <3>5. now' \in 1..now' /\ history'[now' + 1] = artifact'
        BY <1>2, TickKeeps, TimesStay, Zenon
      <3> QED
        BY <3>3, <3>4, <3>5, Zenon
    <2> QED
      BY <2>1, <2>2, Zenon
  <1>6. HistoryTells'
    BY Zenon, <1>2, <1>5, TickKeeps DEF HistoryTells
  <1> QED
    BY <1>3, <1>4, <1>6 DEF SupportInv

\* A repair is recorded once per key; its repetition is told the first version.
LEMMA RepairKeeps ==
  ASSUME SupportInv,
         NEW report \in IssueReports, NEW key \in RepairKeys, NEW hash \in Hashes,
         RecordRepair(report, key, hash)
  PROVE  SupportInv'
  <1>1. UNCHANGED <<issues, told, reads, resolved>> /\ Tick(hash)
    BY Zenon DEF RecordRepair
  <1>2. /\ repairs' \in [IssueReports \X RepairKeys -> Hashes \cup {None}]
        /\ repairs'[<<report, key>>] \in Hashes
        /\ \A r \in IssueReports, k \in RepairKeys :
             repairs[<<r, k>>] # None => repairs'[<<r, k>>] = repairs[<<r, k>>]
    BY SupportAssumption, Zenon DEF RecordRepair, SupportInv, RepairsKept
  <1>3. ResolutionsRest'
    BY Zenon, <1>1, <1>2, ResolutionsStay, SupportAssumption
  <1>4. HistoryTells'
    <2>1. \A read \in reads : read.time \in 1..now' /\ history'[read.time + 1] = read.hash
      <3> SUFFICES ASSUME NEW read \in reads
                   PROVE  read.time \in 1..now' /\ history'[read.time + 1] = read.hash
        BY Zenon
      <3>1. read.time \in 1..now /\ history[read.time + 1] = read.hash
        BY Zenon DEF SupportInv, HistoryTells
      <3>2. /\ now' = now + 1 /\ now \in Nat
            /\ \A time \in 0..now : history'[time + 1] = history[time + 1]
        BY Zenon, <1>1, TickKeeps
      <3> QED
        BY <3>1, <3>2, TimesStay, Zenon
    <2> QED
      BY Zenon, <1>1, <2>1, TickKeeps DEF HistoryTells
  <1>5. repaired' = repaired \union
          {[incident |-> report, hash |-> repairs'[<<report, key>>], time |-> now']}
    BY Zenon DEF RecordRepair
  <1>6. ASSUME NEW repair \in repaired'
        PROVE  /\ repair.incident \in IssueReports /\ repair.time \in Nat /\ repair.hash \in Hashes
               /\ \E k \in RepairKeys : repairs'[<<repair.incident, k>>] = repair.hash
    <2>1. CASE repair \in repaired
      BY <1>2, <2>1, SupportAssumption, Zenon DEF SupportInv, RepairsKept
    <2>2. CASE repair \notin repaired
      <3>1. repair = [incident |-> report, hash |-> repairs'[<<report, key>>], time |-> now']
        BY Zenon, <1>5, <1>6, <2>2
      <3>2. /\ repair.incident = report /\ repair.time = now'
            /\ repair.hash = repairs'[<<report, key>>]
        BY Zenon, <3>1
      <3> QED
        BY Zenon, <1>1, <1>2, <3>2, TickKeeps
    <2> QED
      BY <2>1, <2>2, Zenon
  <1>7. RepairsKept' /\ ToldKept'
    BY Zenon, <1>1, <1>2, <1>6 DEF SupportInv, RepairsKept, ToldKept
  <1> QED
    BY <1>3, <1>4, <1>7 DEF SupportInv

\* A resolution names a repair and a read of the same hash after it.
LEMMA ResolveKeeps ==
  ASSUME SupportInv, NEW repair \in repaired, NEW read \in reads, ResolveIssue(repair, read)
  PROVE  SupportInv'
  <1>1. UNCHANGED <<now, artifact, history, issues, told, repairs, repaired, reads>>
    BY Zenon DEF ResolveIssue
  <1>2. HistoryTells' /\ RepairsKept' /\ ToldKept'
    BY Zenon, <1>1 DEF SupportInv, HistoryTells, RepairsKept, ToldKept
  <1>3. /\ repair.incident \in IssueReports /\ repair.time \in Nat /\ repair.hash \in Hashes
        /\ read.time \in 1..now /\ history[read.time + 1] = read.hash /\ now \in Nat
        /\ \E key \in RepairKeys : repairs[<<repair.incident, key>>] = repair.hash
    BY Zenon DEF SupportInv, HistoryTells, RepairsKept
  <1>4. read.hash = repair.hash /\ read.time > repair.time
    BY Zenon DEF ResolveIssue, Verified
  <1>5. read.time \in (repair.time + 1)..now
    <2>1. ASSUME NEW t \in 1..now, NEW r \in Nat, t > r
          PROVE  t \in (r + 1)..now
      BY <1>3, <2>1
    <2> QED
      BY <1>3, <1>4, <2>1, Zenon
  <1>6. resolved' = resolved \union {[incident |-> repair.incident, hash |-> read.hash,
                                      repaired_at |-> repair.time, resolved_at |-> read.time]}
    BY Zenon DEF ResolveIssue
  <1>7. ASSUME NEW res \in resolved'
        PROVE  /\ res.incident \in IssueReports /\ res.hash \in Hashes /\ res.repaired_at \in Nat
               /\ \E key \in RepairKeys : repairs'[<<res.incident, key>>] = res.hash
               /\ \E time \in (res.repaired_at + 1)..now' : history'[time + 1] = res.hash
    <2>1. CASE res \in resolved
      BY Zenon, <1>1, <2>1 DEF SupportInv, ResolutionsRest
    <2>2. CASE res \notin resolved
      <3>1. res = [incident |-> repair.incident, hash |-> read.hash,
                   repaired_at |-> repair.time, resolved_at |-> read.time]
        BY <1>6, <1>7, <2>2, Zenon
      <3>2. res.incident = repair.incident /\ res.hash = read.hash /\ res.repaired_at = repair.time
        BY <3>1, Zenon
      <3> QED
        BY Zenon, <1>1, <1>3, <1>4, <1>5, <3>2
    <2> QED
      BY <2>1, <2>2, Zenon
  <1>8. ResolutionsRest'
    BY <1>7, Zenon DEF ResolutionsRest
  <1> QED
    BY <1>2, <1>8 DEF SupportInv

\* ResolvedOnLaterRead, for any number of reports, keys, hashes and events.
THEOREM ResolutionsAreLater == SupportSpec => []ResolvedOnLaterRead
  <1>1. SupportInv /\ [SupportNext]_supportVars => SupportInv'
    <2> SUFFICES ASSUME SupportInv, [SupportNext]_supportVars PROVE SupportInv'
      OBVIOUS
    <2>1. CASE UNCHANGED supportVars
      BY Zenon, <2>1 DEF supportVars, SupportInv, HistoryTells, RepairsKept, ToldKept,
         ResolutionsRest
    <2> QED
      BY <2>1, OpenIssueKeeps, EventsKeep, RepairKeeps, ResolveKeeps, Zenon DEF SupportNext
  <1>2. SupportInv => ResolvedOnLaterRead
    BY Zenon DEF SupportInv, ToldKept, ResolutionsRest, ResolvedOnLaterRead
  <1> QED
    BY <1>1, <1>2, SupportInitInv, PTL DEF SupportSpec
=============================================================================
