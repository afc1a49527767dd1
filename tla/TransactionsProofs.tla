------------------------- MODULE TransactionsProofs -------------------------
(***************************************************************************)
(* Proofs about transactions that race for one effect or one decision:     *)
(* DraftEffects, Reconciliation and MultiplySuccessor.  They share no      *)
(* state; each section states the inductive invariant of one of them and   *)
(* derives from it the properties that the runs check on small instances.  *)
(***************************************************************************)
EXTENDS DraftEffects, Reconciliation, MultiplySuccessor, WellFoundedInduction, TLAPS

\* How long, in seconds, a prover may work on a step.
USE SMTT(30), ZenonT(30)

-----------------------------------------------------------------------------
(* DraftEffects.                                                           *)

\* A run that has written, or that its may_create still entitles to write.
Claimant(r) ==
  \/ r \in inflight \cup objects
  \/ mayCreate[r] /\ pc[r] \in {"look", "recheck", "guard", "send", "wait", "absent"}

\* The in-flight claim on the newest row belongs to one run; when the row says
\* that a new run may write, it belongs to none.
OneClaimant ==
  /\ \A r, s \in Runs : Claimant(r) /\ Claimant(s) => r = s
  /\ latest.state \in {"NONE", "ABSENT"} => \A r \in Runs : ~Claimant(r)

\* Where a run stands tells what it has sent: nothing before "wait", and a
\* failure is labelled absent only when nothing was sent or it was refused.
Progress ==
  \A r \in Runs :
    /\ pc[r] \in {"new", "ready", "look", "recheck", "guard", "send", "absent"} =>
         r \notin inflight \cup objects
    /\ pc[r] \in {"recheck", "guard", "send", "wait", "absent"} => mayCreate[r]
    /\ r \in inflight => r \notin objects

\* Ids in the runs and on the newest row are ids of objects that exist.
Identity ==
  /\ \A r \in Runs : /\ pc[r] \in {"created", "readback", "reread", "confirm"} => seen[r] \in objects
                     /\ known[r] \in objects \cup {NoId}
  /\ latest.id \in objects \cup {NoId}

IInv == TypeOK /\ OneClaimant /\ Progress /\ Identity /\ CompletedOnce

\* A step that makes no claimant and does not say that a new run may write.
LEMMA ClaimantsStay ==
  ASSUME OneClaimant, \A s \in Runs : Claimant(s)' => Claimant(s),
         latest'.state \in {"NONE", "ABSENT"} => \/ latest.state \in {"NONE", "ABSENT"}
                                               \/ \A s \in Runs : ~Claimant(s)'
  PROVE  OneClaimant'
  BY Zenon DEF OneClaimant

\* Nothing has been reserved, sent or created at the start.
LEMMA InitIInv == Init => IInv
  <1> SUFFICES ASSUME Init PROVE IInv
    OBVIOUS
  <1> USE DEF Init, Row
  <1>1. TypeOK
    BY Zenon DEF TypeOK
  <1>2. OneClaimant /\ Progress
    BY DEF OneClaimant, Claimant, Progress
  <1>3. Identity /\ CompletedOnce
    BY DEF Identity, CompletedOnce
  <1> QED
    BY <1>1, <1>2, <1>3 DEF IInv

\* Claiming the lease sends nothing.
LEMMA ClaimIInv ==
  ASSUME IInv, NEW r \in Runs, Claim(r)
  PROVE  IInv'
  <1> USE DEF IInv, Goto, Claim, dbVars, netVars
  <1>1. TypeOK'
    BY IdAssumption DEF TypeOK
  <1>2. OneClaimant'
    BY IdAssumption DEF TypeOK, OneClaimant, Claimant, Progress
  <1>3. Progress'
    BY IdAssumption DEF TypeOK, Progress
  <1>4. Identity'
    BY IdAssumption DEF TypeOK, Identity
  <1>5. CompletedOnce'
    BY IdAssumption, Zenon DEF TypeOK, CompletedOnce, Identity
  <1> QED
    BY <1>1, <1>2, <1>3, <1>4, <1>5

\* A run that stops writes nothing more.
LEMMA StopIInv ==
  ASSUME IInv, NEW r \in Runs, Stop(r)
  PROVE  IInv'
  <1> USE DEF IInv, Goto, Stop, dbVars, netVars
  <1>1. TypeOK'
    BY IdAssumption, Zenon DEF TypeOK
  <1>2. OneClaimant'
    <2>1. \A s \in Runs : Claimant(s)' => Claimant(s)
      BY DEF TypeOK, Claimant, Progress
    <2>2. latest' = latest
      BY Zenon
    <2> QED
      BY <2>1, <2>2, ClaimantsStay, Zenon
  <1>3. Progress'
    BY IdAssumption DEF TypeOK, Progress
  <1>4. Identity'
    BY IdAssumption DEF TypeOK, Identity
  <1>5. CompletedOnce'
    BY IdAssumption, Zenon DEF TypeOK, CompletedOnce, Identity
  <1> QED
    BY <1>1, <1>2, <1>3, <1>4, <1>5

\* The first transaction makes a run the claimant only when there is none.
LEMMA ReserveIInv ==
  ASSUME IInv, NEW r \in Runs, Reserve(r)
  PROVE  IInv'
  <1> USE DEF IInv, Goto, Reserve, MayCreate, Reserved, ReserveKey, Row, dbVars, netVars
  <1>1. TypeOK'
    BY IdAssumption DEF TypeOK
  <1>2. OneClaimant'
    <2>1. CASE MayCreate
      <3>1. \A s \in Runs : ~Claimant(s)
        BY <2>1 DEF OneClaimant
      <3>2. \A s \in Runs \ {r} : ~Claimant(s)'
        BY <3>1, Zenon DEF TypeOK, Claimant
      <3>3. latest'.state = "UNKNOWN"
        BY <2>1
      <3> QED
        BY <3>2, <3>3 DEF OneClaimant
    <2>2. CASE ~MayCreate
      <3>1. latest' = latest
        BY <2>2
      <3>2. ~Claimant(r)' \/ Claimant(r)
        BY Zenon, <2>2 DEF TypeOK, Claimant
      <3>3. \A s \in Runs \ {r} : Claimant(s)' => Claimant(s)
        BY Zenon DEF TypeOK, Claimant
      <3> QED
        BY <3>1, <3>2, <3>3 DEF OneClaimant
    <2> QED
      BY <2>1, <2>2
  <1>3. Progress'
    BY IdAssumption, Zenon DEF TypeOK, Progress
  <1>4. Identity'
    BY IdAssumption DEF TypeOK, Identity
  <1>5. CompletedOnce'
    BY IdAssumption DEF TypeOK, CompletedOnce, Identity
  <1> QED
    BY <1>1, <1>2, <1>3, <1>4, <1>5

\* An object that is found can be confirmed.
LEMMA LookFoundIInv ==
  ASSUME IInv, NEW r \in Runs, \E i \in Runs : LookFound(r, i)
  PROVE  IInv'
  <1> USE DEF IInv, Goto, LookFound, BeforeWriteFailure, dbVars, netVars
  <1>1. TypeOK'
    BY IdAssumption DEF TypeOK
  <1>2. OneClaimant'
    BY IdAssumption DEF TypeOK, OneClaimant, Claimant, Progress
  <1>3. Progress'
    BY IdAssumption DEF TypeOK, Progress
  <1>4. Identity'
    BY IdAssumption DEF TypeOK, Identity
  <1>5. CompletedOnce'
    BY IdAssumption DEF TypeOK, CompletedOnce, Identity
  <1> QED
    BY <1>1, <1>2, <1>3, <1>4, <1>5, Zenon

\* Finding nothing lets only the claimant go on.
LEMMA LookNothingIInv ==
  ASSUME IInv, NEW r \in Runs, LookNothing(r)
  PROVE  IInv'
  <1> USE DEF IInv, Goto, LookNothing, dbVars, netVars
  <1>1. TypeOK'
    BY IdAssumption, Zenon DEF TypeOK
  <1>2. OneClaimant'
    BY IdAssumption DEF TypeOK, OneClaimant, Claimant, Progress
  <1>3. Progress'
    BY IdAssumption, Zenon DEF TypeOK, Progress
  <1>4. Identity'
    BY IdAssumption DEF TypeOK, Identity
  <1>5. CompletedOnce'
    BY IdAssumption, Zenon DEF TypeOK, CompletedOnce, Identity
  <1> QED
    BY <1>1, <1>2, <1>3, <1>4, <1>5, Zenon

\* A failed lookup has sent nothing.
LEMMA LookFailsIInv ==
  ASSUME IInv, NEW r \in Runs, LookFails(r)
  PROVE  IInv'
  <1> USE DEF IInv, Goto, LookFails, BeforeWriteFailure, dbVars, netVars
  <1>1. TypeOK'
    BY IdAssumption, Zenon DEF TypeOK
  <1>2. OneClaimant'
    BY IdAssumption DEF TypeOK, OneClaimant, Claimant, Progress
  <1>3. Progress'
    BY IdAssumption, Zenon DEF TypeOK, Progress
  <1>4. Identity'
    BY IdAssumption, Zenon DEF TypeOK, Identity
  <1>5. CompletedOnce'
    BY IdAssumption, Zenon DEF TypeOK, CompletedOnce, Identity
  <1> QED
    BY <1>1, <1>2, <1>3, <1>4, <1>5, Zenon

\* The second transaction changes only where the run stands.
LEMMA RecheckIInv ==
  ASSUME IInv, NEW r \in Runs, Recheck(r)
  PROVE  IInv'
  <1> USE DEF IInv, Goto, Recheck, dbVars, netVars
  <1>1. TypeOK'
    BY IdAssumption, Zenon DEF TypeOK
  <1>2. OneClaimant'
    <2>1. \A s \in Runs : Claimant(s)' => Claimant(s)
      BY DEF TypeOK, Claimant, Progress
    <2>2. latest' = latest
      BY Zenon
    <2> QED
      BY <2>1, <2>2, ClaimantsStay, Zenon
  <1>3. Progress'
    BY IdAssumption, Zenon DEF TypeOK, Progress
  <1>4. Identity'
    BY IdAssumption, Zenon DEF TypeOK, Identity
  <1>5. CompletedOnce'
    BY IdAssumption, Zenon DEF TypeOK, CompletedOnce, Identity
  <1> QED
    BY <1>1, <1>2, <1>3, <1>4, <1>5

\* The adapter's guard changes only where the run stands.
LEMMA AssertLeaseIInv ==
  ASSUME IInv, NEW r \in Runs, AssertLease(r)
  PROVE  IInv'
  <1> USE DEF IInv, Goto, AssertLease, dbVars, netVars
  <1>1. TypeOK'
    BY IdAssumption, Zenon DEF TypeOK
  <1>2. OneClaimant'
    <2>1. \A s \in Runs : Claimant(s)' => Claimant(s)
      BY DEF TypeOK, Claimant, Progress
    <2>2. latest' = latest
      BY Zenon
    <2> QED
      BY <2>1, <2>2, ClaimantsStay, Zenon
  <1>3. Progress'
    BY IdAssumption, ZenonT(30) DEF TypeOK, Progress
  <1>4. Identity'
    BY IdAssumption, ZenonT(30) DEF TypeOK, Identity
  <1>5. CompletedOnce'
    BY IdAssumption, Zenon DEF TypeOK, CompletedOnce, Identity
  <1> QED
    BY <1>1, <1>2, <1>3, <1>4, <1>5

\* The claimant's POST leaves.
LEMMA SendIInv ==
  ASSUME IInv, NEW r \in Runs, Send(r)
  PROVE  IInv'
  <1> USE DEF IInv, Goto, Send, dbVars, netVars
  <1>1. TypeOK'
    BY IdAssumption, Zenon DEF TypeOK
  <1>2. OneClaimant'
    BY IdAssumption DEF TypeOK, OneClaimant, Claimant, Progress
  <1>3. Progress'
    BY IdAssumption, Zenon DEF TypeOK, Progress
  <1>4. Identity'
    BY IdAssumption, Zenon DEF TypeOK, Identity
  <1>5. CompletedOnce'
    BY IdAssumption, Zenon DEF TypeOK, CompletedOnce, Identity
  <1> QED
    BY <1>1, <1>2, <1>3, <1>4, <1>5

\* The claimant's POST arrives.
LEMMA ProviderCreatesIInv ==
  ASSUME IInv, NEW r \in Runs, ProviderCreates(r)
  PROVE  IInv'
  <1> USE DEF IInv, Goto, ProviderCreates, dbVars, netVars
  <1>1. TypeOK'
    BY IdAssumption, Zenon DEF TypeOK
  <1>2. OneClaimant'
    BY IdAssumption, Zenon DEF TypeOK, OneClaimant, Claimant, Progress
  <1>3. Progress'
    BY IdAssumption, Zenon DEF TypeOK, Progress
  <1>4. Identity'
    BY IdAssumption, Zenon DEF TypeOK, Identity
  <1>5. CompletedOnce'
    BY IdAssumption, Zenon DEF TypeOK, CompletedOnce, Identity
  <1> QED
    BY <1>1, <1>2, <1>3, <1>4, <1>5

\* A refused POST is no longer under way.
LEMMA ProviderRefusesIInv ==
  ASSUME IInv, NEW r \in Runs, ProviderRefuses(r)
  PROVE  IInv'
  <1> USE DEF IInv, Goto, ProviderRefuses, dbVars, netVars
  <1>1. TypeOK'
    BY IdAssumption, Zenon DEF TypeOK
  <1>2. OneClaimant'
    <2>1. \A s \in Runs : Claimant(s)' => Claimant(s)
      BY DEF TypeOK, Claimant, Progress
    <2>2. latest' = latest
      BY Zenon
    <2> QED
      BY <2>1, <2>2, ClaimantsStay, Zenon
  <1>3. Progress'
    BY IdAssumption, Zenon DEF TypeOK, Progress
  <1>4. Identity'
    BY IdAssumption, Zenon DEF TypeOK, Identity
  <1>5. CompletedOnce'
    BY IdAssumption, Zenon DEF TypeOK, CompletedOnce, Identity
  <1> QED
    BY <1>1, <1>2, <1>3, <1>4, <1>5

\* The id that create returns is the id of an object.
LEMMA CreateReturnsIInv ==
  ASSUME IInv, NEW r \in Runs, CreateReturns(r)
  PROVE  IInv'
  <1> USE DEF IInv, Goto, CreateReturns, dbVars, netVars
  <1>1. TypeOK'
    BY IdAssumption, Zenon DEF TypeOK
  <1>2. OneClaimant'
    <2>1. \A s \in Runs : Claimant(s)' => Claimant(s)
      BY DEF TypeOK, Claimant, Progress
    <2>2. latest' = latest
      BY Zenon
    <2> QED
      BY <2>1, <2>2, ClaimantsStay, Zenon
  <1>3. Progress'
    BY IdAssumption, Zenon DEF TypeOK, Progress
  <1>4. Identity'
    BY IdAssumption, Zenon DEF TypeOK, Identity
  <1>5. CompletedOnce'
    BY IdAssumption, Zenon DEF TypeOK, CompletedOnce, Identity
  <1> QED
    BY <1>1, <1>2, <1>3, <1>4, <1>5

\* A lost answer leaves the POST under way.
LEMMA WriteUncertainIInv ==
  ASSUME IInv, NEW r \in Runs, WriteUncertain(r)
  PROVE  IInv'
  <1> USE DEF IInv, Goto, WriteUncertain, dbVars, netVars
  <1>1. TypeOK'
    BY IdAssumption, Zenon DEF TypeOK
  <1>2. OneClaimant'
    BY IdAssumption, ZenonT(30) DEF TypeOK, OneClaimant, Claimant, Progress
  <1>3. Progress'
    BY IdAssumption, Zenon DEF TypeOK, Progress
  <1>4. Identity'
    BY IdAssumption, Zenon DEF TypeOK, Identity
  <1>5. CompletedOnce'
    BY IdAssumption, Zenon DEF TypeOK, CompletedOnce, Identity
  <1> QED
    BY <1>1, <1>2, <1>3, <1>4, <1>5

\* The accepted id goes on the newest row unless that row is final.
LEMMA RecordAcceptedIInv ==
  ASSUME IInv, NEW r \in Runs, RecordAccepted(r)
  PROVE  IInv'
  <1> USE DEF IInv, Goto, RecordAccepted, Row, dbVars, netVars
  <1>1. TypeOK'
    BY IdAssumption DEF TypeOK
  <1>2. OneClaimant'
    BY IdAssumption DEF TypeOK, OneClaimant, Claimant, Progress
  <1>3. Progress'
    BY IdAssumption DEF TypeOK, Progress
  <1>4. Identity'
    BY IdAssumption DEF TypeOK, Identity
  <1>5. CompletedOnce'
    BY IdAssumption DEF TypeOK, CompletedOnce, Identity
  <1> QED
    BY <1>1, <1>2, <1>3, <1>4, <1>5, Zenon

\* The lease check before the readback changes only where the run stands.
LEMMA CheckBeforeReadbackIInv ==
  ASSUME IInv, NEW r \in Runs, CheckBeforeReadback(r)
  PROVE  IInv'
  <1> USE DEF IInv, Goto, CheckBeforeReadback, dbVars, netVars
  <1>1. TypeOK'
    BY IdAssumption, Zenon DEF TypeOK
  <1>2. OneClaimant'
    <2>1. \A s \in Runs : Claimant(s)' => Claimant(s)
      BY DEF TypeOK, Claimant, Progress
    <2>2. latest' = latest
      BY Zenon
    <2> QED
      BY <2>1, <2>2, ClaimantsStay, Zenon
  <1>3. Progress'
    BY IdAssumption, Zenon DEF TypeOK, Progress
  <1>4. Identity'
    BY IdAssumption, Zenon DEF TypeOK, Identity
  <1>5. CompletedOnce'
    BY IdAssumption, Zenon DEF TypeOK, CompletedOnce, Identity
  <1> QED
    BY <1>1, <1>2, <1>3, <1>4, <1>5

\* The readback confirms an object that exists.
LEMMA ReadbackIInv ==
  ASSUME IInv, NEW r \in Runs, Readback(r)
  PROVE  IInv'
  <1> USE DEF IInv, Goto, Readback, dbVars, netVars
  <1>1. TypeOK'
    BY IdAssumption, Zenon DEF TypeOK
  <1>2. OneClaimant'
    BY IdAssumption DEF TypeOK, OneClaimant, Claimant, Progress
  <1>3. Progress'
    BY IdAssumption DEF TypeOK, Progress
  <1>4. Identity'
    BY IdAssumption, Zenon DEF TypeOK, Identity
  <1>5. CompletedOnce'
    BY IdAssumption, Zenon DEF TypeOK, CompletedOnce, Identity
  <1> QED
    BY <1>1, <1>2, <1>3, <1>4, <1>5

\* ABSENT is recorded by the claimant, which has sent nothing.
LEMMA RecordFailureIInv ==
  ASSUME IInv, NEW r \in Runs, RecordFailure(r)
  PROVE  IInv'
  <1> USE DEF IInv, Goto, RecordFailure, Row, dbVars, netVars
  <1>1. TypeOK'
    BY IdAssumption, Zenon DEF TypeOK
  <1>2. OneClaimant'
    <2>1. \A s \in Runs : Claimant(s)' => Claimant(s)
      BY DEF TypeOK, Claimant, Progress
    <2>2. CASE pc[r] = "absent"
      <3>1. Claimant(r) /\ ~Claimant(r)'
        BY <2>2 DEF TypeOK, Claimant, Progress
      <3> QED
        BY <2>1, <3>1, Zenon DEF OneClaimant
    <2>3. CASE pc[r] # "absent"
      <3>1. latest' = latest \/ latest'.state = "UNKNOWN"
        BY <2>3
      <3> QED
        BY <2>1, <3>1, ClaimantsStay, Zenon
    <2> QED
      BY <2>2, <2>3
  <1>3. Progress'
    BY IdAssumption, Zenon DEF TypeOK, Progress
  <1>4. Identity'
    BY IdAssumption, Zenon DEF TypeOK, Identity
  <1>5. CompletedOnce'
    BY IdAssumption, Zenon DEF TypeOK, CompletedOnce, Identity
  <1> QED
    BY <1>1, <1>2, <1>3, <1>4, <1>5, Zenon

\* The confirmation writes the first receipt, or nothing.
LEMMA RecordConfirmedIInv ==
  ASSUME IInv, NEW r \in Runs, RecordConfirmed(r)
  PROVE  IInv'
  <1> USE DEF IInv, Goto, RecordConfirmed, RecordReceipt, MarkCompleted, Row, dbVars, netVars
  <1>1. TypeOK'
    <2>1. CASE completed
      BY <2>1, Zenon DEF TypeOK
    <2>2. CASE ~completed
      <3>1. /\ latest' = [state |-> "CONFIRMED", id |-> seen[r]]
            /\ receipts' = receipts \cup {<<r, seen[r]>>}
            /\ completed' = TRUE
        BY <2>2
      <3>2. <<r, seen[r]>> \in Runs \X (Runs \cup {NoId})
        BY Zenon DEF TypeOK
      <3> QED
        BY <3>1, <3>2, Zenon DEF TypeOK
    <2> QED
      BY <2>1, <2>2
  <1>2. OneClaimant'
    BY IdAssumption DEF TypeOK, OneClaimant, Claimant, Progress
  <1>3. Progress'
    BY IdAssumption, Zenon DEF TypeOK, Progress
  <1>4. Identity'
    BY IdAssumption DEF TypeOK, Identity
  <1>5. CompletedOnce'
    <2>1. CASE completed
      BY <2>1, Zenon DEF TypeOK, CompletedOnce
    <2>2. CASE ~completed
      <3>1. receipts = {}
        BY <2>2, Zenon DEF CompletedOnce
      <3>2. /\ latest' = [state |-> "CONFIRMED", id |-> seen[r]]
            /\ receipts' = {<<r, seen[r]>>}
            /\ completed' = TRUE /\ objects' = objects
        BY <2>2, <3>1
      <3>3. seen[r] \in objects
        BY Zenon DEF Identity
      <3> HIDE DEF RecordConfirmed, RecordReceipt, MarkCompleted
      <3> QED
        BY <3>2, <3>3 DEF CompletedOnce
    <2> QED
      BY <2>1, <2>2
  <1> QED
    BY <1>1, <1>2, <1>3, <1>4, <1>5, Zenon

\* Every step of every run, of the lease and of the provider preserves it.
LEMMA NextIInv == IInv /\ [Next]_vars => IInv'
  <1> SUFFICES ASSUME IInv, [Next]_vars PROVE IInv'
    OBVIOUS
  <1>1. CASE LoseLease \/ UNCHANGED vars
    BY <1>1 DEF LoseLease, vars, dbVars, netVars, IInv, TypeOK, OneClaimant, Claimant, Progress,
                Identity, CompletedOnce
  <1>2. CASE \E r \in Runs : Claim(r) \/ Stop(r) \/ Provider(r)
    BY <1>2, ClaimIInv, StopIInv, ProviderCreatesIInv, ProviderRefusesIInv DEF Provider
  <1>3. CASE \E r \in Runs : Execute(r)
    BY <1>3, ReserveIInv, LookFoundIInv, LookNothingIInv, LookFailsIInv, RecheckIInv,
       AssertLeaseIInv, SendIInv, CreateReturnsIInv, WriteUncertainIInv, RecordAcceptedIInv,
       CheckBeforeReadbackIInv, ReadbackIInv, RecordFailureIInv, RecordConfirmedIInv, Zenon DEF Execute
  <1> QED
    BY <1>1, <1>2, <1>3 DEF Next

\* The inductive invariant holds in every behaviour.
LEMMA SpecIInv == Spec => []IInv
  BY InitIInv, NextIInv, PTL DEF Spec

\* Types of the rows, of the runs' locals and of the provider's objects.
THEOREM TypeCorrect == Spec => []TypeOK
  BY SpecIInv, PTL DEF IInv

\* However many runs, crashes and lost answers: one write per operation key.
THEOREM WritesOnce == Spec => []AtMostOneWrite
  <1>1. IInv => AtMostOneWrite
    BY Zenon DEF IInv, TypeOK, OneClaimant, Claimant, AtMostOneWrite
  <1> QED
    BY <1>1, SpecIInv, PTL

\* The row that licenses a new write never contradicts the provider.
THEOREM AbsentTrue == Spec => []AbsentIsTrue
  <1>1. IInv => AbsentIsTrue
    BY Zenon DEF IInv, TypeOK, OneClaimant, Claimant, Progress, AbsentIsTrue
  <1> QED
    BY <1>1, SpecIInv, PTL

\* One CONFIRMED row, one receipt, one completion, all for the same object.
THEOREM CompletesOnce == Spec => []CompletedOnce
  BY SpecIInv, PTL DEF IInv

\* A completed reservation is never written again.
LEMMA CompletedStays == IInv /\ [Next]_vars => (completed => UNCHANGED dbVars)
  <1> SUFFICES ASSUME IInv, [Next]_vars, completed PROVE UNCHANGED dbVars
    OBVIOUS
  <1>1. ~MayCreate
    BY DEF MayCreate, Reserved, IInv, CompletedOnce
  <1> QED
    BY ZenonT(30), <1>1 DEF Next, LoseLease, Claim, Stop, Execute, Provider, Reserve, LookFound, LookNothing,
        LookFails, Recheck, AssertLease, Send, ProviderCreates, ProviderRefuses, CreateReturns,
        WriteUncertain, RecordAccepted, CheckBeforeReadback, Readback, RecordFailure,
        RecordConfirmed, RecordReceipt, MarkCompleted, vars, dbVars, netVars

\* Late runs never reopen what has been confirmed.
THEOREM ConfirmationFinal == Spec => ConfirmedIsFinal
  BY SpecIInv, CompletedStays, PTL DEF Spec, ConfirmedIsFinal

\* The provider's step is the abstract creation.
LEMMA CreatesRefines ==
  ASSUME IInv, NEW r \in Runs, ProviderCreates(r)
  PROVE  Once!Create(r)
  <1>1. objects = {}
    BY Zenon DEF IInv, TypeOK, OneClaimant, Claimant, Progress, ProviderCreates
  <1>2. objects' = {r}
    BY <1>1 DEF ProviderCreates
  <1>3. Confirmed' = Confirmed
    BY DEF ProviderCreates, dbVars, Confirmed
  <1> QED
    BY <1>1, <1>2, <1>3 DEF Once!Create

\* The confirming transaction is the abstract confirmation, or a stutter.
LEMMA ConfirmRefines ==
  ASSUME IInv, NEW r \in Runs, RecordConfirmed(r)
  PROVE  Once!Confirm \/ UNCHANGED <<objects, Confirmed>>
  <1>1. objects' = objects
    BY Zenon DEF RecordConfirmed, RecordReceipt, MarkCompleted, netVars
  <1>2. CASE completed
    BY <1>1, <1>2, Zenon DEF RecordConfirmed, RecordReceipt, MarkCompleted, dbVars, Confirmed
  <1>3. CASE ~completed
    <2>1. seen[r] \in objects
      BY Zenon DEF IInv, Identity, RecordConfirmed, RecordReceipt, MarkCompleted
    <2>2. objects = {seen[r]}
      BY <2>1, Zenon DEF IInv, TypeOK, OneClaimant, Claimant
    <2>3. receipts = {}
      BY <1>3, Zenon DEF IInv, CompletedOnce
    <2>4. receipts' = {<<r, seen[r]>>}
      BY <1>3, <2>3, Zenon DEF RecordConfirmed, RecordReceipt, MarkCompleted
    <2>5. Confirmed = {} /\ Confirmed' = {seen[r]}
      BY <2>3, <2>4 DEF Confirmed
    <2> QED
      BY <1>1, <2>2, <2>5 DEF Once!Confirm
  <1> QED
    BY <1>2, <1>3

\* All other steps leave the abstract state alone.
LEMMA OtherStutters ==
  ASSUME IInv, [Next]_vars,
         ~(\E r \in Runs : ProviderCreates(r)), ~(\E r \in Runs : RecordConfirmed(r))
  PROVE  UNCHANGED <<objects, Confirmed>>
  <1>1. objects' = objects
    BY Zenon DEF Next, LoseLease, Claim, Stop, Execute, Provider, Reserve, LookFound, LookNothing,
        LookFails, Recheck, AssertLease, Send, ProviderRefuses, CreateReturns, WriteUncertain,
        RecordAccepted, CheckBeforeReadback, Readback, RecordFailure, vars, dbVars, netVars
  <1>2. receipts' = receipts
    BY Zenon DEF Next, LoseLease, Claim, Stop, Execute, Provider, Reserve, LookFound, LookNothing,
        LookFails, Recheck, AssertLease, Send, ProviderRefuses, CreateReturns, WriteUncertain,
        RecordAccepted, CheckBeforeReadback, Readback, RecordFailure, vars, dbVars, netVars
  <1> QED
    BY <1>1, <1>2 DEF Confirmed

\* execute implements the once-only promise.
THEOREM Refinement == Spec => OncePromise
  <1>1. Init => Once!Init
    BY Zenon DEF Init, Once!Init, Confirmed
  <1>2. IInv /\ [Next]_vars => [Once!Next]_<<objects, Confirmed>>
    BY CreatesRefines, ConfirmRefines, OtherStutters DEF Once!Next
  <1> QED
    BY <1>1, <1>2, SpecIInv, PTL DEF Spec, OncePromise, Once!Spec

-----------------------------------------------------------------------------
(* Reconciliation.                                                         *)

CallRecords ==
  [at : {"idle", "read", "query", "insert", "apply", "commit"}, version : Nat,
   number : Numbers, verdict : EffectState]

UncertainType ==
  /\ uncertain_job \in [status : {"UNCERTAIN_EXTERNAL_EFFECT", "SUCCEEDED", "FAILED",
                                  "READY", "BLOCKED"},
                        version : Nat]
  /\ attempt_rows \in [Numbers -> EffectState \cup {NoAttempt}]
  /\ reconcile_call \in [Reconcilers -> CallRecords]

\* The version a call has read tells it whether the job is still unsettled, and
\* the call that holds the row lock has read the current one.
VersionTells ==
  \A r \in Reconcilers :
    /\ reconcile_call[r].at # "idle" =>
         /\ reconcile_call[r].version <= uncertain_job.version
         /\ reconcile_call[r].version = uncertain_job.version =>
              uncertain_job.status = "UNCERTAIN_EXTERNAL_EFFECT"
    /\ HoldsJob(r) =>
         /\ reconcile_call[r].version = uncertain_job.version
         /\ \A o \in Reconcilers : HoldsJob(o) => o = r

\* An open insert has its number to itself.
InsertsApart ==
  \A r \in Reconcilers : HasInserted(r) =>
    /\ attempt_rows[reconcile_call[r].number] = NoAttempt
    /\ \A o \in Reconcilers :
         HasInserted(o) /\ o # r => reconcile_call[o].number # reconcile_call[r].number

\* A row with a verdict is there only beside the job it has settled.
VerdictSettles ==
  \A n \in Numbers :
    /\ attempt_rows[n] = "CONFIRMED" => uncertain_job.status = "SUCCEEDED"
    /\ attempt_rows[n] = "ABSENT" => uncertain_job.status \in {"FAILED", "READY"}

UncertainInv ==
  /\ UncertainType /\ VersionTells /\ InsertsApart /\ VerdictSettles
  /\ SettledOnEvidence

\* A non-empty set of attempt numbers has a largest element.
LEMMA LargestNumber ==
  ASSUME NEW N \in Nat, NEW S \in SUBSET (0..N), S # {}
  PROVE  \E n \in S : \A m \in S : m <= n
  <1> DEFINE T == {N - n : n \in S}
             Less == {ss \in Nat \X Nat : ss[1] < ss[2]}
  <1>1. T \subseteq Nat /\ T # {}
    <2>1. \A n \in S : N - n \in Nat
      OBVIOUS
    <2> QED
      BY Zenon, <2>1
  <1>2. IsWellFoundedOn(Less, Nat)
    BY NatLessThanWellFounded, Zenon DEF OpToRel
  <1>a. \A y, z \in Nat : <<y, z>> \notin Less => z <= y
    OBVIOUS
  <1> HIDE DEF Less
  <1>3. PICK x \in T : \A y \in T : <<y, x>> \notin Less
    BY Zenon, <1>1, <1>2, WFMin
  <1>4. \A y \in T : x <= y
    BY Zenon, <1>1, <1>3, <1>a
  <1>5. PICK n \in S : x = N - n
    OBVIOUS
  <1>6. \A m \in S : x <= N - m
    BY <1>4
  <1> QED
    BY <1>5, <1>6

\* The latest attempt number is an attempt number.
LEMMA LatestIsNumber ==
  ASSUME UncertainType
  PROVE  LatestNumber \in Numbers
  <1> DEFINE S == {n \in Numbers : attempt_rows[n] # NoAttempt}
  <1>1. CASE S = {}
    BY <1>1, ReconciliationAssumption DEF LatestNumber, Numbers
  <1>2. CASE S # {}
    <2>1. \E n \in S : \A m \in S : m <= n
      BY Zenon, <1>2, LargestNumber, ReconciliationAssumption DEF Numbers
    <2>2. \E n \in Numbers : IsLatest(n)
      BY <2>1, ReconciliationAssumption DEF Numbers, IsLatest
    <2> QED
      BY <1>2, <2>2 DEF LatestNumber
  <1> QED
    BY <1>1, <1>2

\* Before the first call.
LEMMA UncertainInit ==
  ASSUME ReconcileInit
  PROVE  UncertainInv
  BY ReconciliationAssumption DEF ReconcileInit, UncertainInv, UncertainType, CallRecords,
     VersionTells, InsertsApart, VerdictSettles, SettledOnEvidence, Numbers, EffectState,
     NoAttempt, Idle, HoldsJob, HasInserted

\* CallRecords is made of constants.
LEMMA SameRecords == CallRecords' = CallRecords
  BY DEF CallRecords, Numbers, EffectState

\* The steps of a call before its commit write no row.
LEMMA CallKeepsInv ==
  ASSUME UncertainInv, NEW r \in Reconcilers,
         \/ LoadUncertainJob(r)
         \/ ReadLatest(r)
         \/ \E answer \in EffectState : QueryProvider(r, answer)
         \/ RecordAttempt(r)
         \/ ApplyResult(r)
         \/ AbandonReconcile(r)
  PROVE  UncertainInv'
  <1> USE ReconciliationAssumption DEF UncertainInv, Idle, Numbers, EffectState, NoAttempt
  <1>1. UNCHANGED <<uncertain_job, attempt_rows>>
    BY DEF LoadUncertainJob, ReadLatest, QueryProvider,
       RecordAttempt, ApplyResult, AbandonReconcile
  <1>2. VerdictSettles' /\ SettledOnEvidence'
    BY <1>1 DEF VerdictSettles, SettledOnEvidence
  <1>3. CASE LoadUncertainJob(r)
    <2>1. UncertainType'
      <3>1. [reconcile_call[r] EXCEPT !.at = "read", !.version = uncertain_job.version] \in CallRecords
        BY ZenonT(30) DEF UncertainType, CallRecords
      <3> QED
        BY <1>1, <1>3, <3>1, SameRecords DEF LoadUncertainJob, UncertainType
    <2>2. VersionTells' /\ InsertsApart'
      BY <1>1, <1>3 DEF LoadUncertainJob, UncertainType, CallRecords, VersionTells, InsertsApart,
         HoldsJob, HasInserted, Settles
    <2> QED
      BY <1>2, <2>1, <2>2
  <1>4. CASE ReadLatest(r)
    <2> DEFINE next == LatestNumber + 1
    <2>1. next \in Nat /\ (~(next > MaxReconciliation) => next \in 0..MaxReconciliation)
      BY LatestIsNumber
    <2> HIDE DEF next
    <2>2. \/ reconcile_call' = [reconcile_call EXCEPT ![r] = Idle]
          \/ /\ next \in 0..MaxReconciliation
             /\ reconcile_call' = [reconcile_call EXCEPT ![r].at = "query", ![r].number = next]
      BY <1>4, <2>1 DEF ReadLatest, next
    <2>3. UncertainType'
      <3>1. CASE reconcile_call' = [reconcile_call EXCEPT ![r] = Idle]
        BY <1>1, <3>1 DEF UncertainType, CallRecords
      <3>2. CASE /\ next \in 0..MaxReconciliation
                 /\ reconcile_call' = [reconcile_call EXCEPT ![r].at = "query", ![r].number = next]
        <4>1. [reconcile_call[r] EXCEPT !.at = "query", !.number = next] \in CallRecords
          BY ZenonT(30), <3>2 DEF UncertainType, CallRecords
        <4> QED
          BY <1>1, <3>2, <4>1, SameRecords DEF UncertainType
      <3> QED
        BY <2>2, <3>1, <3>2
    <2>4. VersionTells' /\ InsertsApart'
      BY <1>1, <1>4, <2>2 DEF ReadLatest, UncertainType, CallRecords, VersionTells, InsertsApart,
         HoldsJob, HasInserted, Settles
    <2> QED
      BY <1>2, <2>3, <2>4
  <1>5. ASSUME NEW answer \in EffectState, QueryProvider(r, answer)
        PROVE  UncertainInv'
    <2>1. UncertainType'
      <3>1. [reconcile_call[r] EXCEPT !.at = "insert", !.verdict = answer] \in CallRecords
        BY ZenonT(30), <1>5 DEF UncertainType, CallRecords
      <3> QED
        BY <1>1, <1>5, <3>1, SameRecords DEF QueryProvider, UncertainType
    <2>2. /\ reconcile_call'[r].at = "insert" /\ reconcile_call[r].at = "query"
          /\ reconcile_call'[r].version = reconcile_call[r].version
          /\ \A o \in Reconcilers : o # r => reconcile_call'[o] = reconcile_call[o]
      BY <1>5 DEF QueryProvider, UncertainType, CallRecords
    <2>3. \A o \in Reconcilers : (HoldsJob(o)' => o # r /\ HoldsJob(o))
                                /\ (HasInserted(o)' => o # r /\ HasInserted(o))
      BY <2>2 DEF HoldsJob, HasInserted, Settles
    <2>4. VersionTells'
      BY <1>1, <2>2, <2>3 DEF VersionTells
    <2>5. InsertsApart'
      BY <1>1, <2>2, <2>3 DEF InsertsApart
    <2> QED
      BY <1>2, <2>1, <2>4, <2>5
  <1>6. CASE RecordAttempt(r)
    BY <1>1, <1>2, <1>6 DEF RecordAttempt, UncertainType, CallRecords, VersionTells, InsertsApart,
       HoldsJob, HasInserted, Settles
  <1>7. CASE ApplyResult(r)
    BY <1>1, <1>2, <1>7 DEF ApplyResult, UncertainType, CallRecords, VersionTells, InsertsApart,
       HoldsJob, HasInserted, Settles, UncertainUnlocked
  <1>8. CASE AbandonReconcile(r)
    BY <1>1, <1>2, <1>8 DEF AbandonReconcile, UncertainType, CallRecords, VersionTells,
       InsertsApart, HoldsJob, HasInserted, Settles
  <1> QED
    BY <1>3, <1>4, <1>5, <1>6, <1>7, <1>8

\* A commit writes the row it has inserted, and settles the job if it holds it.
LEMMA CommitKeepsInv ==
  ASSUME UncertainInv, NEW r \in Reconcilers,
         CommitReconcile(r)
  PROVE  UncertainInv'
  <1> USE ReconciliationAssumption DEF UncertainInv, Idle, Numbers, EffectState, NoAttempt,
     CommitReconcile
  <1> DEFINE n == reconcile_call[r].number
             v == reconcile_call[r].verdict
             next == NextStatus(v, n)
  <1>1. /\ n \in 0..MaxReconciliation /\ v \in EffectState
        /\ attempt_rows[n] = NoAttempt
        /\ attempt_rows' = [attempt_rows EXCEPT ![n] = v]
        /\ reconcile_call' = [reconcile_call EXCEPT ![r] = Idle]
    BY DEF UncertainType, CallRecords, InsertsApart, HasInserted
  <1>2. CASE Settles(r)
    <2>1. /\ uncertain_job.status = "UNCERTAIN_EXTERNAL_EFFECT"
          /\ uncertain_job' = [status |-> next, version |-> uncertain_job.version + 1]
          /\ \A o \in Reconcilers : HoldsJob(o) => o = r
      BY <1>2 DEF VersionTells, HoldsJob
    <2>2. \/ v = "CONFIRMED" /\ next = "SUCCEEDED"
          \/ v = "ABSENT" /\ next = "FAILED"
          \/ v = "UNKNOWN" /\ next = "BLOCKED" /\ n = MaxReconciliation
      BY <1>1, <1>2 DEF Settles, NextStatus
    <2> HIDE DEF next
    <2>3. UncertainType'
      BY <1>1, <2>1, <2>2 DEF UncertainType, CallRecords
    <2>4. VersionTells'
      BY <1>1, <2>1 DEF UncertainType, CallRecords, VersionTells, HoldsJob, Settles
    <2>5. InsertsApart'
      BY <1>1 DEF UncertainType, CallRecords, InsertsApart, HasInserted
    <2>6. VerdictSettles'
      BY <1>1, <2>1, <2>2 DEF UncertainType, CallRecords, VerdictSettles
    <2>7. SettledOnEvidence'
      BY <1>1, <2>1, <2>2 DEF UncertainType, CallRecords, SettledOnEvidence
    <2> QED
      BY <2>3, <2>4, <2>5, <2>6, <2>7
  <1>3. CASE ~Settles(r)
    <2>1. v = "UNKNOWN" /\ uncertain_job' = uncertain_job
      BY <1>1, <1>3 DEF Settles, NextStatus
    <2>2. UncertainType'
      BY <1>1, <2>1 DEF UncertainType, CallRecords
    <2>3. VersionTells'
      BY <1>1, <2>1 DEF UncertainType, CallRecords, VersionTells, HoldsJob, Settles
    <2>4. InsertsApart'
      BY <1>1 DEF UncertainType, CallRecords, InsertsApart, HasInserted
    <2>5. VerdictSettles' /\ SettledOnEvidence'
      BY <1>1, <2>1 DEF UncertainType, CallRecords, VerdictSettles, SettledOnEvidence
    <2> QED
      BY <2>2, <2>3, <2>4, <2>5
  <1> QED
    BY <1>2, <1>3

\* The operator's verdict replaces the latest row of a job nobody has settled.
LEMMA OperatorKeepsInv ==
  ASSUME UncertainInv,
         NEW verdict \in {"CONFIRMED", "ABSENT"}, OperatorReconciles(verdict)
  PROVE  UncertainInv'
  <1> USE ReconciliationAssumption DEF UncertainInv, Numbers, EffectState, NoAttempt,
     OperatorReconciles
  <1>1. PICK n \in Numbers :
          attempt_rows[n] # NoAttempt /\ attempt_rows' = [attempt_rows EXCEPT ![n] = verdict]
    BY Zenon DEF IsLatest
  <1>2. UncertainType'
    BY <1>1 DEF UncertainType, CallRecords
  <1>3. VersionTells'
    BY DEF UncertainType, CallRecords, VersionTells, UncertainUnlocked, HoldsJob,
       Settles
  <1>4. InsertsApart'
    BY <1>1 DEF UncertainType, CallRecords, InsertsApart, HasInserted
  <1>5. VerdictSettles' /\ SettledOnEvidence'
    BY <1>1 DEF UncertainType, CallRecords, VerdictSettles, SettledOnEvidence
  <1> QED
    BY <1>2, <1>3, <1>4, <1>5

\* A retry of the failed job raises its version.
LEMMA RetryKeepsInv ==
  ASSUME UncertainInv, RetryFailedJob
  PROVE  UncertainInv'
  BY DEF UncertainInv, UncertainType, CallRecords, VersionTells, InsertsApart, VerdictSettles,
     SettledOnEvidence, RetryFailedJob, HoldsJob,
     Settles, HasInserted, Numbers, EffectState,
     NoAttempt

\* Every step keeps the invariant.
LEMMA UncertainNext ==
  ASSUME UncertainInv, [ReconcileNext]_reconcileVars
  PROVE  UncertainInv'
  <1>1. CASE UNCHANGED reconcileVars
    BY <1>1 DEF reconcileVars, UncertainInv, UncertainType, CallRecords, VersionTells,
       InsertsApart, VerdictSettles, SettledOnEvidence, HoldsJob, Settles, HasInserted, Numbers,
       EffectState, NoAttempt
  <1> QED
    BY <1>1, CallKeepsInv, CommitKeepsInv, OperatorKeepsInv, RetryKeepsInv
    DEF ReconcileNext, Reconcile

\* The invariant holds in every behaviour.
LEMMA UncertainSafe == ReconcileSpec => []UncertainInv
  BY UncertainInit, UncertainNext, PTL DEF ReconcileSpec

\* Reconcilers that take no lock, an operator and crashes leave no job settled
\* without the committed attempt row that settled it.
THEOREM SettlementsHaveEvidence == ReconcileSpec => []SettledOnEvidence
  BY UncertainSafe, PTL DEF UncertainInv

\* A job that has been settled is moved again only by retry_failed_job, which
\* then finds the latest attempt row saying that the effect is absent.
THEOREM SettlementStands == ReconcileSpec => FirstSettlementStands
  <1> DEFINE Stands ==
        uncertain_job.status # "UNCERTAIN_EXTERNAL_EFFECT"
          /\ uncertain_job'.status # uncertain_job.status =>
            /\ uncertain_job.status = "FAILED" /\ uncertain_job'.status = "READY"
            /\ \E n \in Numbers :
                 IsLatest(n) /\ attempt_rows[n] = "ABSENT"
  <1>1. UncertainInv /\ [ReconcileNext]_reconcileVars => [Stands]_reconcileVars
    <2> SUFFICES ASSUME UncertainInv, ReconcileNext,
                        uncertain_job.status # "UNCERTAIN_EXTERNAL_EFFECT",
                        uncertain_job'.status # uncertain_job.status
                 PROVE  /\ uncertain_job.status = "FAILED" /\ uncertain_job'.status = "READY"
                        /\ \E n \in Numbers :
                             IsLatest(n) /\ attempt_rows[n] = "ABSENT"
      OBVIOUS
    <2>1. \A r \in Reconcilers : ~HoldsJob(r)
      BY DEF UncertainInv, VersionTells, HoldsJob
    <2>2. RetryFailedJob
      BY Zenon, <2>1 DEF ReconcileNext, Reconcile, LoadUncertainJob, ReadLatest,
         QueryProvider, RecordAttempt, ApplyResult,
         CommitReconcile, AbandonReconcile, OperatorReconciles, HoldsJob
    <2>3. Resolved
      BY <2>2 DEF RetryFailedJob, CanRetry
    <2> QED
      BY <2>2, <2>3 DEF Resolved, UncertainInv, VerdictSettles,
         RetryFailedJob
  <1> QED
    BY <1>1, UncertainSafe, PTL DEF ReconcileSpec, FirstSettlementStands

-----------------------------------------------------------------------------
(* MultiplySuccessor.                                                      *)

OwnWorkflow(c) == WorkflowRow(DecisionOf[c])
OwnJob(c)      == JobRow(DecisionOf[c])
OwnWinner(c)   == WinnerRow(DecisionOf[c], JobOf[c])
OwnCreated(c)  == CreatedRow(DecisionOf[c])
OwnRows(c)     == {OwnWorkflow(c), OwnJob(c), OwnWinner(c), OwnCreated(c)}

MultiplyType ==
  /\ parent.version \in Nat
  /\ multiply_call \in
       [Dispatches -> [at : OpenDispatch \cup {"raised", "returned"}, seen : Nat,
                  new : SUBSET UNION {OwnRows(c) : c \in Dispatches}]]

\* What a call has inserted when it reaches each of its statements.
Inserted(c) ==
  LET at  == multiply_call[c].at
      new == multiply_call[c].new
  IN  IF DecisionOf[c] \in MultiplyDecisions
      THEN /\ at \in {"check", "read", "update", "workflow", "raised", "returned"} => new = {}
           /\ at = "job" => new = {OwnWorkflow(c)}
           /\ at \in {"winner", "insert_winner"} => new = {OwnWorkflow(c), OwnJob(c)}
           /\ at = "created" => new = {OwnWorkflow(c), OwnJob(c), OwnWinner(c)}
           /\ at = "commit" => new = OwnRows(c)
      ELSE /\ at \in {"check", "winner", "insert_winner", "commit", "raised", "returned"}
           /\ new \subseteq {OwnWinner(c)}

\* Open inserts collide with no committed row and with no other open insert.
RowsApart ==
  \A c \in Dispatches : \A r \in multiply_call[c].new :
    /\ \A s \in multiply_rows : ~Collide(s, r)
    /\ \A o \in Dispatches \ {c} : \A s \in multiply_call[o].new : ~Collide(s, r)

\* One call at a time has updated the parent, and it has read the row that is
\* still there; whoever has read the current version has read SUCCESSOR_SPEC.
ParentRead ==
  \A c \in Dispatches :
    /\ multiply_call[c].at = "update" \/ HoldsParent(c) =>
         /\ SuccessorOf[DecisionOf[c]] # Parent
         /\ multiply_call[c].seen <= parent.version
         /\ multiply_call[c].seen = parent.version => parent.state = "SUCCESSOR_SPEC"
    /\ HoldsParent(c) =>
         /\ multiply_call[c].seen = parent.version
         /\ \A o \in Dispatches : HoldsParent(o) => o = c

IsWinner(r, d) == r.table = "event" /\ r.name = "WINNER_DETECTED" /\ r.decision = d

\* DecisionAtomic, row by row.
RowsWhole ==
  \A d \in MultiplyDecisions :
    /\ \A r \in multiply_rows : IsWinner(r, d) =>
         /\ {WorkflowRow(d), JobRow(d), CreatedRow(d)} \subseteq multiply_rows
         /\ \A s \in multiply_rows : IsWinner(s, d) => s = r
    /\ WorkflowRow(d) \in multiply_rows \/ CreatedRow(d) \in multiply_rows =>
         \E r \in multiply_rows : IsWinner(r, d)

MultiplyInv ==
  /\ MultiplyType /\ RowsApart /\ ParentRead /\ RowsWhole
  /\ \A c \in Dispatches : Inserted(c)

\* Rows that are whole are a decision and its successor together.
LEMMA WholeIsAtomic == RowsWhole => DecisionAtomic
  BY DEF RowsWhole, DecisionAtomic, IsWinner

\* Before the first decision.
LEMMA MultiplyInitInv == MultiplyInit => MultiplyInv
  BY DEF MultiplyInit, MultiplyInv, MultiplyType, RowsApart, ParentRead, RowsWhole, Inserted,
     HoldsParent, OpenDispatch

\* A row collides with itself, and collisions go both ways.
LEMMA CollideSymmetric ==
  ASSUME NEW r, NEW s
  PROVE  Collide(r, s) => Collide(s, r)
  BY DEF Collide

\* The flush of an INSERT either rolls the call back or adds a row that
\* collides with none.
LEMMA InsertApart ==
  ASSUME MultiplyInv, NEW c \in Dispatches, NEW row \in OwnRows(c), NEW step \in OpenDispatch,
         Insert(c, row, step), UNCHANGED multiply_rows
  PROVE  RowsApart'
  <1>1. CASE \E r \in multiply_rows : Collide(r, row)
    <2>1. /\ \A o \in Dispatches \ {c} : multiply_call'[o] = multiply_call[o]
          /\ multiply_call'[c].new = {}
      BY <1>1 DEF Insert, RaiseDispatch, MultiplyInv, MultiplyType
    <2> QED
      BY <2>1, Zenon DEF MultiplyInv, RowsApart
  <1>2. CASE ~ \E r \in multiply_rows : Collide(r, row)
    <2>1. /\ \A o \in Dispatches \ {c} : multiply_call'[o] = multiply_call[o]
          /\ multiply_call'[c].new = multiply_call[c].new \cup {row}
      BY <1>2 DEF Insert, MultiplyInv, MultiplyType
    <2>2. \A o \in Dispatches \ {c} : \A r \in multiply_call[o].new :
            ~Collide(r, row) /\ ~Collide(row, r)
      BY CollideSymmetric DEF Insert
    <2>3. RowsApart
      BY DEF MultiplyInv
    <2> QED
      BY <1>2, <2>1, <2>2, <2>3 DEF RowsApart
  <1> QED
    BY <1>1, <1>2

\* The statements that insert nothing.
LEMMA ReadsKeepInv ==
  ASSUME MultiplyInv, NEW c \in Dispatches,
         \/ CheckWinner(c) \/ ReadParent(c) \/ UpdateParent(c)
         \/ LookUpWinner(c) \/ AbandonDispatch(c)
  PROVE  MultiplyInv'
  <1> USE DEF MultiplyInv, DispatchGoto, RaiseDispatch
  <1>1. UNCHANGED <<parent, multiply_rows>>
    BY DEF CheckWinner, ReadParent, UpdateParent,
       LookUpWinner, AbandonDispatch
  <1>2. /\ \A o \in Dispatches \ {c} : multiply_call'[o] = multiply_call[o]
        /\ multiply_call'[c].new \in {multiply_call[c].new, {}}
        /\ MultiplyType'
    BY <1>1 DEF MultiplyType, CheckWinner, ReadParent, UpdateParent,
       LookUpWinner, AbandonDispatch, AfterWinner, OpenDispatch
  <1>3. RowsApart' /\ RowsWhole'
    BY <1>1, <1>2, Zenon DEF RowsApart, RowsWhole
  <1>4. Inserted(c)'
    <2>1. CASE LookUpWinner(c)
      <3>1. DecisionOf[c] \in MultiplyDecisions => OwnWinner(c) \notin multiply_rows
        <4> SUFFICES ASSUME DecisionOf[c] \in MultiplyDecisions, OwnWinner(c) \in multiply_rows
                     PROVE  FALSE
          OBVIOUS
        <4>1. OwnWorkflow(c) \in multiply_rows
          BY DEF RowsWhole, IsWinner, OwnWinner, OwnWorkflow, WinnerRow
        <4>2. OwnWorkflow(c) \in multiply_call[c].new
          BY <2>1 DEF Inserted, LookUpWinner
        <4> QED
          BY <4>1, <4>2, Zenon DEF RowsApart, Collide, OwnWorkflow, WorkflowRow
      <3> QED
        BY <2>1, <3>1 DEF LookUpWinner, AfterWinner, MultiplyType, Inserted,
           OwnWinner
    <2>2. CASE ~LookUpWinner(c)
      BY <2>2 DEF MultiplyType, Inserted, CheckWinner, ReadParent,
         UpdateParent, AbandonDispatch, InTransaction, OpenDispatch
    <2> QED
      BY <2>1, <2>2
  <1>5. \A o \in Dispatches : Inserted(o)'
    BY <1>2, <1>4, ZenonT(30) DEF Inserted
  <1>6. ParentRead'
    <2>1. CASE ReadParent(c)
      BY <1>1, <2>1 DEF ReadParent, MultiplyType, ParentRead, HoldsParent,
         RequireSuccessorSpawn
    <2>2. CASE UpdateParent(c)
      BY <1>1, <2>2 DEF UpdateParent, MultiplyType, ParentRead, HoldsParent,
         ParentUnlocked
    <2>3. CASE CheckWinner(c)
      BY <1>1, <2>3 DEF CheckWinner, MultiplyType, ParentRead, HoldsParent
    <2>4. CASE LookUpWinner(c)
      BY <1>1, <2>4 DEF LookUpWinner, AfterWinner, MultiplyType, ParentRead,
         HoldsParent
    <2>5. CASE AbandonDispatch(c)
      BY <1>1, <2>5 DEF AbandonDispatch, MultiplyType, ParentRead, HoldsParent
    <2> QED
      BY <2>1, <2>2, <2>3, <2>4, <2>5
  <1> QED
    BY <1>2, <1>3, <1>5, <1>6, Zenon

\* The statements that insert one row.
LEMMA InsertsKeepInv ==
  ASSUME MultiplyInv, NEW c \in Dispatches,
         \/ CreateSuccessorWorkflow(c) \/ CreateSuccessorEntryJob(c)
         \/ AppendWinner(c) \/ AppendSuccessorCreated(c)
  PROVE  MultiplyInv'
  <1> USE DEF MultiplyInv
  <1>1. UNCHANGED <<parent, multiply_rows>>
    BY DEF CreateSuccessorWorkflow, CreateSuccessorEntryJob,
       AppendWinner, AppendSuccessorCreated
  <1>2. PICK row \in OwnRows(c), step \in OpenDispatch : Insert(c, row, step)
    BY DEF CreateSuccessorWorkflow, CreateSuccessorEntryJob,
       AppendWinner, AppendSuccessorCreated, AfterWinner,
       OpenDispatch, OwnRows, OwnWorkflow, OwnJob, OwnWinner, OwnCreated
  <1>3. RowsApart' /\ RowsWhole'
    BY <1>1, <1>2, InsertApart DEF RowsWhole
  <1>4. MultiplyType' /\ \A o \in Dispatches \ {c} : multiply_call'[o] = multiply_call[o]
    BY <1>1, <1>2 DEF MultiplyType, Insert, RaiseDispatch
  <1>5. Inserted(c)'
    BY DEF MultiplyType, Inserted, Insert, RaiseDispatch, AfterWinner,
       CreateSuccessorWorkflow, CreateSuccessorEntryJob,
       AppendWinner, AppendSuccessorCreated,
       OwnRows, OwnWorkflow, OwnJob, OwnWinner, OwnCreated
  <1>6. HoldsParent(c)' => HoldsParent(c)
    BY DEF MultiplyType, Inserted, Insert, RaiseDispatch, AfterWinner,
       CreateSuccessorWorkflow, CreateSuccessorEntryJob,
       AppendWinner, AppendSuccessorCreated, HoldsParent,
       WorkflowRow, JobRow, WinnerRow, CreatedRow
  <1>7. ParentRead'
    <2>1. multiply_call'[c].at # "update" /\ multiply_call'[c].seen = multiply_call[c].seen
      BY DEF MultiplyType, Insert, RaiseDispatch, AfterWinner,
         CreateSuccessorWorkflow, CreateSuccessorEntryJob,
         AppendWinner, AppendSuccessorCreated
    <2> QED
      BY <1>1, <1>4, <1>6, <2>1 DEF ParentRead, HoldsParent
  <1> QED
    BY <1>3, <1>4, <1>5, <1>7, ZenonT(30) DEF Inserted

\* A commit adds all rows of its decision, of which none was there before.
LEMMA MultiplyCommitKeepsInv ==
  ASSUME MultiplyInv, NEW c \in Dispatches, CommitDispatch(c)
  PROVE  MultiplyInv'
  <1> USE DEF MultiplyInv, CommitDispatch
  <1> DEFINE d == DecisionOf[c]
  <1>1. /\ \A o \in Dispatches \ {c} : multiply_call'[o] = multiply_call[o]
        /\ multiply_call'[c].new = {} /\ multiply_call'[c].at = "returned"
        /\ multiply_call' \in
             [Dispatches -> [at : OpenDispatch \cup {"raised", "returned"}, seen : Nat,
                        new : SUBSET UNION {OwnRows(o) : o \in Dispatches}]]
    BY Zenon DEF MultiplyType
  <1>2. MultiplyType'
    BY <1>1 DEF MultiplyType, ParentAfterCommit
  <1>3. RowsApart'
    BY <1>1 DEF RowsApart
  <1>4. \A o \in Dispatches : Inserted(o)'
    BY <1>1 DEF Inserted
  <1>5. ParentRead'
    BY <1>1 DEF MultiplyType, ParentRead, HoldsParent, ParentAfterCommit
  <1>6. CASE d \in MultiplyDecisions
    <2>1. multiply_rows' = multiply_rows \cup OwnRows(c)
      BY <1>6 DEF Inserted
    <2>2. OwnWorkflow(c) \notin multiply_rows
      BY <1>6 DEF Inserted, OwnRows, RowsApart, Collide, OwnWorkflow,
         WorkflowRow
    <2>3. ~ \E r \in multiply_rows : IsWinner(r, d)
      BY <1>6, <2>2 DEF RowsWhole, OwnWorkflow
    <2>4. \A r \in OwnRows(c), e \in MultiplyDecisions : IsWinner(r, e) => e = d /\ r = OwnWinner(c)
      BY DEF OwnRows, IsWinner, OwnWorkflow, OwnJob, OwnWinner, OwnCreated,
         WorkflowRow, JobRow, WinnerRow, CreatedRow
    <2>5. \A e \in MultiplyDecisions :
            \/ WorkflowRow(e) \in OwnRows(c)
            \/ CreatedRow(e) \in OwnRows(c)
            => e = d
      <3>1. \A e \in MultiplyDecisions :
              /\ WorkflowRow(e).table = "workflow" /\ WorkflowRow(e).decision = e
              /\ CreatedRow(e).table = "event" /\ CreatedRow(e).decision = e
              /\ CreatedRow(e).name = "SUCCESSOR_CREATED"
        BY DEF WorkflowRow, CreatedRow
      <3>2. /\ OwnJob(c).table = "job" /\ OwnWinner(c).table = "event"
            /\ OwnWinner(c).decision = d
        BY DEF OwnJob, OwnWinner, JobRow, WinnerRow
      <3> QED
        BY <1>6, <3>1, <3>2 DEF OwnRows, OwnWorkflow, OwnCreated
    <2>6. IsWinner(OwnWinner(c), d)
      BY DEF IsWinner, OwnWinner, WinnerRow
    <2>7. RowsWhole'
      <3> SUFFICES ASSUME NEW e \in MultiplyDecisions
                   PROVE  /\ \A r \in multiply_rows' : IsWinner(r, e) =>
                               /\ {WorkflowRow(e), JobRow(e),
                                   CreatedRow(e)} \subseteq multiply_rows'
                               /\ \A s \in multiply_rows' : IsWinner(s, e) => s = r
                          /\ \/ WorkflowRow(e) \in multiply_rows'
                             \/ CreatedRow(e) \in multiply_rows'
                             => \E r \in multiply_rows' : IsWinner(r, e)
        BY DEF RowsWhole, IsWinner, WorkflowRow, JobRow, CreatedRow
      <3>1. CASE e = d
        BY <2>1, <2>3, <2>4, <2>6, <3>1 DEF OwnRows, OwnWorkflow, OwnJob, OwnCreated
      <3>2. CASE e # d
        BY <2>1, <2>4, <2>5, <3>2 DEF RowsWhole
      <3> QED
        BY <3>1, <3>2
    <2> QED
      BY <1>2, <1>3, <1>4, <1>5, <2>7
  <1>7. CASE d \notin MultiplyDecisions
    <2>1. multiply_call[c].new \subseteq {OwnWinner(c)}
      BY <1>7 DEF Inserted
    <2>2. /\ \A e \in MultiplyDecisions : ~IsWinner(OwnWinner(c), e)
          /\ \A e \in MultiplyDecisions : /\ OwnWinner(c) # WorkflowRow(e)
                                          /\ OwnWinner(c) # CreatedRow(e)
      <3>1. OwnWinner(c).decision = d /\ OwnWinner(c).table = "event"
        BY DEF OwnWinner, WinnerRow
      <3>2. \A e \in MultiplyDecisions :
              WorkflowRow(e).decision = e /\ CreatedRow(e).decision = e
        BY DEF WorkflowRow, CreatedRow
      <3> QED
        BY <1>7, <3>1, <3>2 DEF IsWinner
    <2>3. RowsWhole'
      BY <2>1, <2>2 DEF RowsWhole, IsWinner, WorkflowRow, JobRow,
         CreatedRow
    <2> QED
      BY <1>2, <1>3, <1>4, <1>5, <2>3
  <1> QED
    BY <1>6, <1>7

\* The parent moves only while no transaction holds it.
LEMMA ParentAdvancesKeepsInv ==
  ASSUME MultiplyInv, ParentAdvances
  PROVE  MultiplyInv'
  BY DEF MultiplyInv, ParentAdvances, MultiplyType, RowsApart, ParentRead, RowsWhole,
     Inserted, HoldsParent, ParentUnlocked

\* The invariant holds in every behaviour.
LEMMA MultiplySafe == MultiplySpec => []MultiplyInv
  <1>1. MultiplyInv /\ [MultiplyNext]_multiplyVars => MultiplyInv'
    <2>1. ASSUME MultiplyInv, UNCHANGED multiplyVars PROVE MultiplyInv'
      BY <2>1, ZenonT(30) DEF multiplyVars, MultiplyInv, MultiplyType, RowsApart, ParentRead, RowsWhole,
         Inserted, HoldsParent
    <2> QED
      BY <2>1, ReadsKeepInv, InsertsKeepInv, MultiplyCommitKeepsInv, ParentAdvancesKeepsInv
      DEF MultiplyNext, DispatchDecision
  <1> QED
    BY <1>1, MultiplyInitInv, PTL DEF MultiplySpec

\* dispatch_decision commits the rows of a MULTIPLY decision together, however
\* many transactions dispatch it and wherever they are rolled back.
THEOREM DecisionsAtomic == MultiplySpec => []DecisionAtomic
  BY MultiplySafe, WholeIsAtomic, PTL DEF MultiplyInv

\* One visit of the parent to SUCCESSOR_SPEC spawns at most one successor.
THEOREM SpawnOncePerVisit == MultiplySpec => SpawnLeavesSuccessorSpec
  <1> DEFINE Leaves ==
        \A d \in MultiplyDecisions :
          WorkflowRow(d) \in multiply_rows' \ multiply_rows =>
            /\ parent.state = "SUCCESSOR_SPEC" /\ parent'.state = "OBSERVING"
            /\ SuccessorOf[d] # Parent
            /\ \A e \in MultiplyDecisions :
                 WorkflowRow(e) \in multiply_rows' \ multiply_rows => e = d
  <1>1. MultiplyInv /\ [MultiplyNext]_multiplyVars => [Leaves]_multiplyVars
    <2> SUFFICES ASSUME MultiplyInv, MultiplyNext, NEW d \in MultiplyDecisions,
                        WorkflowRow(d) \in multiply_rows' \ multiply_rows
                 PROVE  /\ parent.state = "SUCCESSOR_SPEC" /\ parent'.state = "OBSERVING"
                        /\ SuccessorOf[d] # Parent
                        /\ \A e \in MultiplyDecisions :
                             WorkflowRow(e) \in multiply_rows' \ multiply_rows => e = d
      OBVIOUS
    <2>1. PICK c \in Dispatches : CommitDispatch(c)
      BY Zenon DEF MultiplyNext, DispatchDecision, ParentAdvances,
         CheckWinner, ReadParent, UpdateParent,
         CreateSuccessorWorkflow, CreateSuccessorEntryJob,
         LookUpWinner, AppendWinner, AppendSuccessorCreated,
         AbandonDispatch
    <2>2. \A e \in MultiplyDecisions :
            /\ WorkflowRow(e).table = "workflow" /\ WorkflowRow(e).decision = e
      BY DEF WorkflowRow
    <2>3. /\ OwnWorkflow(c).decision = DecisionOf[c]
          /\ OwnJob(c).table = "job" /\ OwnWinner(c).table = "event"
          /\ OwnCreated(c).table = "event"
      BY Zenon DEF OwnWorkflow, OwnJob, OwnWinner, OwnCreated, WorkflowRow,
         JobRow, WinnerRow, CreatedRow
    <2>4. \A e \in MultiplyDecisions :
            WorkflowRow(e) \in multiply_rows' \ multiply_rows => e = DecisionOf[c]
      BY <2>1, <2>2, <2>3 DEF MultiplyInv, Inserted, OwnRows, CommitDispatch
    <2>5. HoldsParent(c)
      BY <2>1, <2>2 DEF CommitDispatch, HoldsParent
    <2> QED
      BY <2>1, <2>4, <2>5 DEF CommitDispatch, ParentAfterCommit, MultiplyInv,
         ParentRead
  <1> QED
    BY <1>1, MultiplySafe, PTL DEF MultiplySpec, SpawnLeavesSuccessorSpec
=============================================================================
