------------------------------ MODULE OnceOnly ------------------------------
(***************************************************************************)
(* What SqlDraftEffects.execute and create_draft promise about one key:    *)
(* however many runs, crashes, lost answers and lease changes there are,   *)
(* the provider creates at most one object, and what is recorded as done   *)
(* names that object.                                                      *)
(***************************************************************************)
CONSTANT Ids

VARIABLES objects,   \* the provider's objects for the key
          confirmed  \* the objects that are recorded as done

Init == objects = {} /\ confirmed = {}

Create(i) == objects = {} /\ objects' = {i} /\ UNCHANGED confirmed

Confirm ==
  /\ objects # {} /\ confirmed = {}
  /\ confirmed' = objects
  /\ UNCHANGED objects

Next == (\E i \in Ids : Create(i)) \/ Confirm

Spec == Init /\ [][Next]_<<objects, confirmed>>
=============================================================================
