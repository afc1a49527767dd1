--------------------------- MODULE PublishingRamp ---------------------------
(***************************************************************************)
(* The publishing ramp (assets/publishing_ramp_decision.py): may one more  *)
(* listing be published, given the reconciled publications in the rolling  *)
(* window.  The caller counts them and publishes when it may.              *)
(***************************************************************************)
EXTENDS Integers, FiniteSets, FiniteSetsExt

CONSTANTS
  PublishingEnabled,
  InitialCap,      \* initial_weekly_cap
  HardCap,         \* hard_weekly_cap
  RollingWindow,   \* rolling_window_days, in ticks
  Prompt,          \* does the caller reconcile a publication before it asks again
  MaxRampTime,     \* bound: ticks
  MaxPublications  \* bound: publications

\* _validate.
ASSUME RampAssumption ==
  /\ InitialCap \in Nat \ {0} /\ HardCap \in Nat \ {0} /\ RollingWindow \in Nat \ {0}
  /\ PublishingEnabled \in BOOLEAN /\ Prompt \in BOOLEAN

LaunchDefaultCap == 2

VARIABLES
  ramp_now,
  published,   \* the publications: [n, at, reconciled]
  ramp_opens   \* the open time last told, or NoTime once something was published

rampVars == <<ramp_now, published, ramp_opens>>

NoTime == -1

\* The reconciled publications the caller counts, external to the decision.
Counted == {p \in published : p.reconciled /\ p.at > ramp_now - RollingWindow}
Unreconciled == {p \in published : ~ p.reconciled}
Oldest == Min({p.at : p \in Counted})

\* A plausible slip: the wait starts one publication above the cap.
AtCap_OneAbove == Cardinality(Counted) > InitialCap

AtCap == Cardinality(Counted) >= InitialCap
AtHardCap == Cardinality(Counted) >= HardCap

\* The three ways to open below the cap, in the order of the code.
MayPublish ==
  /\ PublishingEnabled
  /\ ~ AtHardCap
  /\ ~ AtCap
  /\ \/ Unreconciled # {}
     \/ InitialCap = LaunchDefaultCap /\ Unreconciled = {}
     \/ InitialCap # LaunchDefaultCap

\* A closed window tells when its oldest publication leaves it.
NextPermissibleAt ==
  IF PublishingEnabled /\ (AtHardCap \/ AtCap) THEN Oldest + RollingWindow ELSE NoTime

RampInit == ramp_now = 0 /\ published = {} /\ ramp_opens = NoTime

RampTick == ramp_now < MaxRampTime /\ ramp_now' = ramp_now + 1 /\ UNCHANGED <<published, ramp_opens>>

Publish ==
  /\ Prompt => Unreconciled = {}
  /\ MayPublish
  /\ Cardinality(published) < MaxPublications
  /\ published' = published \union
       {[n |-> Cardinality(published), at |-> ramp_now, reconciled |-> FALSE]}
  /\ ramp_opens' = NoTime
  /\ UNCHANGED ramp_now

\* The caller is told to wait.
Wait ==
  /\ Prompt => Unreconciled = {}
  /\ ~ MayPublish
  /\ ramp_opens' = NextPermissibleAt
  /\ UNCHANGED <<ramp_now, published>>

ReconcilePublication(p) ==
  /\ ~ p.reconciled
  /\ published' = (published \ {p}) \union {[p EXCEPT !.reconciled = TRUE]}
  /\ ramp_opens' = NoTime
  /\ UNCHANGED ramp_now

RampNext == RampTick \/ Publish \/ Wait \/ \E p \in published : ReconcilePublication(p)

RampSpec == RampInit /\ [][RampNext]_rampVars

-----------------------------------------------------------------------------
\* The publications, reconciled or not, of the window that ends at t.
Window(t) == {p \in published : p.at <= t /\ p.at > t - RollingWindow}

\* decide_publishing_ramp keeps a caller that reconciles each publication
\* before it asks again within both caps, over every window of the past, and the
\* open time such a caller was told does open the ramp.
CapHolds ==
  /\ \A t \in 0..ramp_now :
       Cardinality(Window(t)) <= InitialCap /\ Cardinality(Window(t)) <= HardCap
  /\ ramp_opens # NoTime /\ ramp_now >= ramp_opens => MayPublish
=============================================================================
