--------------------------- MODULE MCTransactions ---------------------------
(***************************************************************************)
(* The protocols around one effect or one decision, for TLC: the three     *)
(* runs of DraftEffects, three calls of EtsyDraft, four dispatches of      *)
(* MultiplySuccessor, three reports of DraftSuccessor and three            *)
(* reconcilers of Reconciliation.  They share no state.  A behaviour is    *)
(* about one of them, which Init chooses; the others keep an initial       *)
(* state.                                                                  *)
(***************************************************************************)
EXTENDS DraftEffects, EtsyDraft, Reconciliation, MultiplySuccessor, DraftSuccessor, TLC

CONSTANTS p, s1, s2   \* workflow ids

VARIABLE component

\* Two MULTIPLY decisions and a HOLD about one parent: m1 is dispatched by two
\* jobs, m2 names the same spec in a workflow of its own.
MCDecisionOf  == [c1 |-> "m1", c2 |-> "m1", c3 |-> "m2", c4 |-> "hold"]
MCJobOf       == [c1 |-> "j1", c2 |-> "j2", c3 |-> "j1", c4 |-> "j1"]
MCSuccessorOf == [m1 |-> s1, m2 |-> s2]
MCSpecOf      == [m1 |-> "spec", m2 |-> "spec"]

\* c1 and c2 report for the same workflow, which may have a legacy row; c3
\* reports for another.
MCReportedBy == [c1 |-> "w1", c2 |-> "w1", c3 |-> "w2"]

-----------------------------------------------------------------------------
allVars == <<component, vars, etsyVars, multiplyVars, draftVars, reconcileVars>>

TransactionsInit ==
  /\ component \in {"effects", "etsy", "multiply", "draft", "uncertain"}
  /\ Init /\ EtsyInit /\ MultiplyInit /\ DraftInit /\ ReconcileInit
  /\ component # "multiply" => parent.state = "OBSERVING"
  /\ component # "draft" => events = {}
  /\ component # "uncertain" => attempt_rows[0] = "UNKNOWN"

TransactionsNext ==
  \/ component = "effects" /\ Next
     /\ UNCHANGED <<component, etsyVars, multiplyVars, draftVars, reconcileVars>>
  \/ component = "etsy" /\ EtsyNext
     /\ UNCHANGED <<component, vars, multiplyVars, draftVars, reconcileVars>>
  \/ component = "multiply" /\ MultiplyNext
     /\ UNCHANGED <<component, vars, etsyVars, draftVars, reconcileVars>>
  \/ component = "draft" /\ DraftNext
     /\ UNCHANGED <<component, vars, etsyVars, multiplyVars, reconcileVars>>
  \/ component = "uncertain" /\ ReconcileNext
     /\ UNCHANGED <<component, vars, etsyVars, multiplyVars, draftVars>>

TransactionsSpec == TransactionsInit /\ [][TransactionsNext]_allVars
=============================================================================
