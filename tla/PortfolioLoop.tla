--------------------------- MODULE PortfolioLoop ---------------------------
(***************************************************************************)
(* The closed loop of one shop's live listings: weekly collection plans    *)
(* and their triggers (metrics_fixture.py, closed_loop_store.py), the      *)
(* clock of live periods (maturity_clock.py), the HOLD, REPAIR, CULL and   *)
(* MULTIPLY decisions (portfolio_eligibility.py) and the confirmation of a *)
(* cull (closed_loop_store.py).                                            *)
(*                                                                         *)
(* Time runs in ticks; PeriodTicks of them are one 24-hour live period, so *)
(* that pauses leave fractions of a period behind.  The caller of these    *)
(* functions keeps every result and passes the last one of each listing as *)
(* its prior, takes live_days from the maturity clock, and treats a        *)
(* listing as in the window while it is active.                            *)
(***************************************************************************)
EXTENDS Integers, FiniteSets, FiniteSetsExt, Sequences, SequencesExt

CONSTANTS
  Listings,        \* the listings of the shop
  Rows,            \* listing -> the metrics rows its provider may report
  PeriodTicks,     \* ticks in one live period
  MaturityPeriods, \* _MATURITY_LIVE_DAYS (30 in the code)
  MinCohort,       \* _MIN_COHORT (5 in the code)
  CullPercent,     \* cull_bottom_percent (80 in the code)
  GapTicks,        \* _COLLECTION_GAP, also the length of a weekly window
  MaxTime,         \* bound: ticks
  MaxMishaps       \* bound: pauses and defects of listings

VARIABLES
  now,        \* the tick
  status,     \* listing -> "ACTIVE" | "INACTIVE"
  since,      \* listing -> the tick its status began
  intervals,  \* listing -> its closed intervals, [status, from, to]
  lived,      \* listing -> ticks it was really active (history)
  defect,     \* listing -> does it have a known defect
  snapshot,   \* listing -> its latest snapshot, or NoSnapshot
  planned,    \* the windows that have collection records
  triggers,   \* TriggerLedger._rows: the keys stored
  prior,      \* listing -> its last decision, or NoDecision
  culled,     \* the decisions whose cull was confirmed
  mishaps     \* pauses and defects so far

loopVars == <<now, status, since, intervals, lived, defect, snapshot, planned,
              triggers, prior, culled, mishaps>>

NoSnapshot == [window |-> -1, score |-> <<0, 0, 0, 0>>, reconciled |-> FALSE]
NoDecision == [decision |-> "NONE", window |-> -1, nextCollection |-> 0]
Window == now \div GapTicks

-----------------------------------------------------------------------------
(* The maturity clock. *)

\* The listing's intervals as the evaluation sees them: the current one ends now.
IntervalsAt(l) ==
  intervals[l] \union {[status |-> status[l], from |-> since[l], to |-> now]}

\* A plausible slip: paused time counts.
AccumulatedLivePeriods_Paused(l) ==
  MapThenSumSet(LAMBDA i : i.to - i.from, IntervalsAt(l)) \div PeriodTicks

\* The active ticks are added up and only their sum is rounded down.
AccumulatedLivePeriods(l) ==
  MapThenSumSet(LAMBDA i : i.to - i.from,
                {i \in IntervalsAt(l) : i.status = "ACTIVE"}) \div PeriodTicks

Mature(l) == AccumulatedLivePeriods(l) >= MaturityPeriods

-----------------------------------------------------------------------------
(* The decisions. *)

Orders(l) == snapshot[l].score[1]
Views(l) == snapshot[l].score[4]
Unsold(l) == Views(l) > 0 /\ Orders(l) = 0

\* _score orders snapshots by orders, revenue, favourites and views.
Below(a, b) ==
  \E i \in 1..4 : a[i] < b[i] /\ \A j \in 1..(i - 1) : a[j] = b[j]

Score(l) == snapshot[l].score

InCohort(l) ==
  /\ snapshot[l].reconciled
  /\ status[l] = "ACTIVE"
  /\ ~ defect[l]
  /\ Mature(l)
  /\ ~ Unsold(l)

Cohort == {l \in Listings : InCohort(l)}

\* Strictly below the last member of the pool, in cohorts that are large enough.
CullIds ==
  LET ordered == SetToSortSeq(Cohort, LAMBDA a, b : Below(Score(a), Score(b)))
      pool == (Len(ordered) * CullPercent) \div 100
  IN  IF Len(ordered) < MinCohort \/ pool <= 0 THEN {}
      ELSE {l \in Cohort : Below(Score(l), Score(ordered[pool]))}

\* The best listing, when it has orders and no other ties with it.
UniqueWinner ==
  LET ranked == SetToSortSeq(Cohort, LAMBDA a, b : Below(Score(b), Score(a)))
  IN  IF ranked = <<>> THEN {}
      ELSE {l \in {ranked[1]} :
              /\ Orders(l) > 0
              /\ Len(ranked) > 1 => Score(ranked[2]) # Score(l)}

MultiplyIds == UniqueWinner \ CullIds

Classify(l) ==
  IF defect[l] THEN "REPAIR"
  ELSE IF ~ Mature(l) THEN "NONE"
  ELSE IF Unsold(l) THEN "REPAIR"
  ELSE IF l \in CullIds THEN "CULL"
  ELSE IF l \in MultiplyIds THEN "MULTIPLY"
  ELSE IF status[l] = "ACTIVE" THEN "HOLD"
  ELSE "NONE"

\* A hold silences a listing until its next collection, a repair for as long
\* as the snapshot stays the same; culls and multiplies never do.
Suppressed(l) ==
  \/ prior[l].decision = "HOLD" /\ now < prior[l].nextCollection
  \/ prior[l].decision = "REPAIR" /\ prior[l].window = snapshot[l].window

\* The listings that get a decision; a listing without one is omitted.
Decided ==
  {l \in Listings : /\ snapshot[l].reconciled
                    /\ ~ Suppressed(l)
                    /\ Classify(l) # "NONE"}

\* The record of a decision; its ids derive from listing, snapshot and spec.
Result(l) ==
  [decision |-> Classify(l), window |-> snapshot[l].window,
   nextCollection |-> IF Classify(l) = "HOLD" THEN now + GapTicks ELSE 0]

-----------------------------------------------------------------------------
Init ==
  /\ now = 0
  /\ status = [l \in Listings |-> "ACTIVE"]
  /\ since = [l \in Listings |-> 0]
  /\ intervals = [l \in Listings |-> {}]
  /\ lived = [l \in Listings |-> 0]
  /\ defect = [l \in Listings |-> FALSE]
  /\ snapshot = [l \in Listings |-> NoSnapshot]
  /\ planned = {}
  /\ triggers = {}
  /\ prior = [l \in Listings |-> NoDecision]
  /\ culled = {}
  /\ mishaps = 0

Tick ==
  /\ now < MaxTime
  /\ now' = now + 1
  /\ lived' = [l \in Listings |-> lived[l] + IF status[l] = "ACTIVE" THEN 1 ELSE 0]
  /\ UNCHANGED <<status, since, intervals, defect, snapshot, planned, triggers,
                 prior, culled, mishaps>>

\* The shop pauses a listing, or takes it up again: an interval is closed.
Switch(l) ==
  /\ \/ status[l] = "ACTIVE" /\ mishaps < MaxMishaps /\ mishaps' = mishaps + 1
     \/ status[l] = "INACTIVE" /\ UNCHANGED mishaps
  /\ intervals' = [intervals EXCEPT ![l] = IntervalsAt(l)]
  /\ status' = [status EXCEPT ![l] = IF @ = "ACTIVE" THEN "INACTIVE" ELSE "ACTIVE"]
  /\ since' = [since EXCEPT ![l] = now]
  /\ UNCHANGED <<now, lived, defect, snapshot, planned, triggers, prior, culled>>

\* A defect is found, or the repair of one is done.
Defect(l) ==
  /\ \/ ~ defect[l] /\ mishaps < MaxMishaps /\ mishaps' = mishaps + 1
     \/ defect[l] /\ UNCHANGED mishaps
  /\ defect' = [defect EXCEPT ![l] = ~ @]
  /\ UNCHANGED <<now, status, since, intervals, lived, snapshot, planned, triggers,
                 prior, culled>>

\* plan_weekly's records: one collection per active listing and one shop review.
WeeklyRecords ==
  {<<"collection", l, Window>> : l \in {k \in Listings : status[k] = "ACTIVE"}}
    \union {<<"shop-review", Window>>}

\* persist_weekly_plan: a trigger for every new key, existing keys stay put.
PersistWeeklyPlan(records) == triggers' = triggers \union records

\* A window that has records gets no new ones.
PlanWeekly ==
  /\ Window \notin planned
  /\ planned' = planned \union {Window}
  /\ PersistWeeklyPlan(WeeklyRecords)
  /\ UNCHANGED <<now, status, since, intervals, lived, defect, snapshot, prior,
                 culled, mishaps>>

\* One row of the provider, its fields checked, as a snapshot of the window.
Observation(row) == [window |-> Window, score |-> row.score, reconciled |-> row.reconciled]

\* The rows a window's collections brought in become snapshots: one for each
\* listing and window, and a second one for the same window is refused.
Collect(rows) ==
  LET due == {l \in Listings : <<"collection", l, Window>> \in triggers}
  IN  /\ due # {}
      /\ \A l \in due : snapshot[l].window # Window
      /\ snapshot' = [l \in Listings |->
           IF l \in due THEN Observation(rows[l]) ELSE snapshot[l]]
      /\ UNCHANGED <<now, status, since, intervals, lived, defect, planned,
                     triggers, prior, culled, mishaps>>

\* evaluate_portfolio over all listings of the shop.
Evaluate ==
  /\ Decided # {}
  /\ prior' = [l \in Listings |-> IF l \in Decided THEN Result(l) ELSE prior[l]]
  /\ UNCHANGED <<now, status, since, intervals, lived, defect, snapshot, planned,
                 triggers, culled, mishaps>>

\* confirm_fixture_cull: only a confirmed read yields the event and the lesson.
ConfirmCull(l, fixtureStatus) ==
  /\ prior[l].decision = "CULL"
  /\ fixtureStatus = "CONFIRMED"
  /\ culled' = culled \union {<<l, prior[l].window>>}
  /\ UNCHANGED <<now, status, since, intervals, lived, defect, snapshot, planned,
                 triggers, prior, mishaps>>

Next ==
  \/ Tick
  \/ \E l \in Listings : Switch(l) \/ Defect(l)
  \/ PlanWeekly
  \/ \E rows \in {r \in [Listings -> UNION {Rows[l] : l \in Listings}] :
                    \A l \in Listings : r[l] \in Rows[l]} : Collect(rows)
  \/ Evaluate
  \/ \E l \in Listings, s \in {"CONFIRMED", "UNKNOWN", "FAILED"} : ConfirmCull(l, s)

Spec == Init /\ [][Next]_loopVars

-----------------------------------------------------------------------------
(* Properties. *)

\* evaluate_portfolio picks by sorting; what it promises has no order in it: a
\* listing may be culled only when fewer than the pool's number of its cohort
\* do no better than it, in a cohort of the minimum size, and multiplied only
\* when it has orders and beats every other listing of its cohort.  And no
\* listing is held, culled or multiplied before it was really live for the whole
\* maturity, whatever pauses its intervals record.
PicksAsPromised ==
  LET n == Cardinality(Cohort)
      pool == (n * CullPercent) \div 100
      NoBetter(l) == {k \in Cohort : ~ Below(Score(l), Score(k))}
  IN  /\ CullIds = {l \in Cohort : n >= MinCohort /\ Cardinality(NoBetter(l)) < pool}
      /\ MultiplyIds = {l \in Cohort : Orders(l) > 0 /\ NoBetter(l) = Cohort
                          /\ \A k \in Cohort \ {l} : Score(k) # Score(l)}
      /\ \A l \in Listings :
           prior[l].decision \in {"HOLD", "CULL", "MULTIPLY"}
             => lived[l] >= MaturityPeriods * PeriodTicks

\* "Defects bypass maturity and create repair work immediately" (D-0014): an
\* evaluation of a listing with a defect and reconciled metrics leaves a repair
\* as its last decision.
DefectRepairedAtOnce ==
  [][prior' # prior => \A l \in Listings :
       defect[l] /\ snapshot[l].reconciled => prior'[l].decision = "REPAIR"]_loopVars
=============================================================================
