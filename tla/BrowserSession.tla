--------------------------- MODULE BrowserSession ---------------------------
(***************************************************************************)
(* BrowserSessionManager of integrations/notion/browser_session.py: one    *)
(* session per profile, clicks that are never repeated, one receipt per    *)
(* idempotency key.  The manager is synchronous; each call of its driver   *)
(* is a step, and a driver call may answer, raise, or be interrupted       *)
(* (KeyboardInterrupt, SystemExit), with or without its effect.            *)
(***************************************************************************)
EXTENDS Naturals

CONSTANTS
  Profiles,
  MutationKeys,    \* idempotency keys, each of one mutation of one target
  MaxOpens         \* bound: sessions the driver opens

VARIABLES
  session,         \* session[p]: _open, "none", "healthy", "tainted" or "locked"
  windows,         \* windows[p]: sessions of p the driver holds
  seen,            \* seen[k]: the receipt of k, or NoReceipt
  clicks,          \* clicks[k]: clicks sent for k
  applied,         \* applied[k]: the page has the change
  mutation,        \* the mutation under way
  opens,
  cut              \* the close of a rejected session was interrupted

browserVars == <<session, windows, seen, clicks, applied, mutation, opens, cut>>

NoReceipt == [status |-> "none", click |-> "none"]
NoMutation == [step |-> "idle"]
Idle == mutation.step = "idle"
At(step) == mutation.step = step
Goes(step) == mutation' = [mutation EXCEPT !.step = step]

\* _require_open.
RequireOpen(p) == session[p] = "healthy"

\* _record: the receipt is stored last, a tainted session is unhealthy.
RecordReceipt(status, click, taint) ==
  /\ seen' = [seen EXCEPT ![mutation.key] = [status |-> status, click |-> click]]
  /\ session' = IF taint THEN [session EXCEPT ![mutation.profile] = "tainted"] ELSE session
  /\ mutation' = NoMutation
-----------------------------------------------------------------------------
(* Sessions.                                                               *)

\* open_session of an authenticated profile without a session: the session is
\* kept, or its id is rejected and it is closed; a close that fails locks.
OpenSession(p) ==
  /\ Idle /\ session[p] = "none" /\ opens < MaxOpens
  /\ opens' = opens + 1
  /\ \/ /\ session' = [session EXCEPT ![p] = "healthy"]
        /\ windows' = [windows EXCEPT ![p] = @ + 1] /\ UNCHANGED cut
     \/ UNCHANGED <<session, windows, cut>>
     \/ /\ session' = [session EXCEPT ![p] = "locked"]
        /\ windows' = [windows EXCEPT ![p] = @ + 1] /\ UNCHANGED cut
     \/ windows' = [windows EXCEPT ![p] = @ + 1] /\ cut' = TRUE /\ UNCHANGED session
  /\ UNCHANGED <<seen, clicks, applied, mutation>>

Restart(p) ==
  /\ Idle /\ session[p] \in {"healthy", "tainted"}
  /\ \/ session' = [session EXCEPT ![p] = "none"] /\ windows' = [windows EXCEPT ![p] = @ - 1]
     \/ session' = [session EXCEPT ![p] = "locked"] /\ UNCHANGED windows
  /\ UNCHANGED <<seen, clicks, applied, mutation, opens, cut>>

\* A read is answered, at the latest by its third attempt, or taints.
Read(p) ==
  /\ Idle /\ RequireOpen(p)
  /\ session' \in {session, [session EXCEPT ![p] = "tainted"]}
  /\ UNCHANGED <<windows, seen, clicks, applied, mutation, opens, cut>>
-----------------------------------------------------------------------------
(* mutate.  A key that has a receipt is answered with it, or refused when  *)
(* the call differs: neither changes anything.                             *)

Mutate(p, k) ==
  /\ Idle /\ seen[k] = NoReceipt /\ RequireOpen(p)
  /\ mutation' = [profile |-> p, key |-> k, step |-> "page", result |-> "none"]
  /\ UNCHANGED <<session, windows, seen, clicks, applied, opens, cut>>

\* page_kind: a normal page, or a page that blocks, or an interrupt.
PageKind ==
  /\ At("page")
  /\ \/ Goes("click") /\ UNCHANGED <<session, seen>>
     \/ RecordReceipt("Failure", "not-clicked", TRUE)
     \/ mutation' = NoMutation /\ UNCHANGED <<session, seen>>
  /\ UNCHANGED <<windows, clicks, applied, opens, cut>>

\* _click: applied; uncertain or timed out; raised; an outcome that is not
\* known; or interrupted.
Click ==
  /\ At("click")
  /\ clicks' = [clicks EXCEPT ![mutation.key] = @ + 1]
  /\ \/ applied' = [applied EXCEPT ![mutation.key] = TRUE] /\ RecordReceipt("Success", "applied", FALSE)
     \/ /\ applied' \in {applied, [applied EXCEPT ![mutation.key] = TRUE]}
        /\ \E to \in {"uncertain", "raised", "garbage", "finally"} : Goes(to)
        /\ UNCHANGED <<session, seen>>
  /\ UNCHANGED <<windows, opens, cut>>

\* _reconcile: what the driver observes is so, or it is unknown.
Reconcile ==
  /\ At("uncertain")
  /\ \/ applied[mutation.key] /\ RecordReceipt("Success", "uncertain", FALSE)
     \/ /\ ~applied[mutation.key] /\ mutation' = [mutation EXCEPT !.step = "capture", !.result = "Failure"]
        /\ UNCHANGED <<session, seen>>
     \/ mutation' = [mutation EXCEPT !.step = "capture", !.result = "Unknown"] /\ UNCHANGED <<session, seen>>
     \/ Goes("finally") /\ UNCHANGED <<session, seen>>
  /\ UNCHANGED <<windows, clicks, applied, opens, cut>>

\* The screenshot is taken, fails, or is interrupted before the receipt.
Capture ==
  /\ At("capture")
  /\ \/ RecordReceipt(mutation.result, "uncertain", TRUE)
     \/ Goes("finally") /\ UNCHANGED <<session, seen>>
  /\ UNCHANGED <<windows, clicks, applied, opens, cut>>

\* _record_raised_click: observed once, whatever is seen it stays Unknown.
RecordRaised ==
  /\ At("raised")
  /\ RecordReceipt("Unknown", "uncertain", TRUE) \/ (Goes("finally") /\ UNCHANGED <<session, seen>>)
  /\ UNCHANGED <<windows, clicks, applied, opens, cut>>

\* _block after a click with an outcome that is not known.
BlockAfterClick ==
  /\ At("garbage")
  /\ RecordReceipt("Failure", "error", TRUE) \/ (Goes("finally") /\ UNCHANGED <<session, seen>>)
  /\ UNCHANGED <<windows, clicks, applied, opens, cut>>

\* A plausible slip: an interrupt leaves no receipt.
Finally_Nothing ==
  /\ At("finally") /\ mutation' = NoMutation
  /\ UNCHANGED <<session, seen, windows, clicks, applied, opens, cut>>

\* The finally clause: one Unknown receipt before the interrupt goes on.
Finally ==
  /\ At("finally") /\ RecordReceipt("Unknown", "uncertain", TRUE)
  /\ UNCHANGED <<windows, clicks, applied, opens, cut>>

BrowserInit ==
  /\ session = [p \in Profiles |-> "none"] /\ windows = [p \in Profiles |-> 0]
  /\ seen = [k \in MutationKeys |-> NoReceipt] /\ clicks = [k \in MutationKeys |-> 0]
  /\ applied = [k \in MutationKeys |-> FALSE]
  /\ mutation = NoMutation /\ opens = 0 /\ cut = FALSE

BrowserNext ==
  \/ \E p \in Profiles : OpenSession(p) \/ Restart(p) \/ Read(p) \/ \E k \in MutationKeys : Mutate(p, k)
  \/ PageKind \/ Click \/ Reconcile \/ Capture \/ RecordRaised \/ BlockAfterClick \/ Finally

BrowserSpec == BrowserInit /\ [][BrowserNext]_browserVars
-----------------------------------------------------------------------------
(* Properties.                                                             *)

\* A key is clicked at most once, and a click leaves a receipt whatever the
\* driver raises and wherever it is interrupted, so that a second call of mutate
\* with the key finds it (browser_session.py: "A mutation is not clicked twice").
\* The receipt tells what is on the page: Success only of a change that is there,
\* Failure only of one that is not.  (The Failure of an outcome the driver does
\* not define, click = "error", claims nothing.)  And a session that could not be
\* closed locks its profile, so that the driver holds at most one of a profile
\* (an interrupted close of a rejected session aside).
ClickedOnce ==
  /\ \A k \in MutationKeys :
       /\ clicks[k] <= 1
       /\ clicks[k] = 1 /\ seen[k] = NoReceipt => ~Idle /\ mutation.key = k
       /\ seen[k].status = "Success" => applied[k]
       /\ seen[k].status = "Failure" /\ seen[k].click # "error" => ~applied[k]
  /\ ~cut => \A p \in Profiles : windows[p] <= 1
=============================================================================
