----------------------------- MODULE MCNotionQA -----------------------------
(***************************************************************************)
(* A product of two variants and three troubles: edits, deaths, failing    *)
(* provider calls.  A missing hub page fails checks of all three functions *)
(* and makes the ledger refuse, a variant's title is seen by the ledger    *)
(* alone once there is a proof, and a link goes with its publication.      *)
(***************************************************************************)
EXTENDS NotionQA
=============================================================================
