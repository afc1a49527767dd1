---------------------------- MODULE MCEtsyDraft -----------------------------
(***************************************************************************)
(* Small instances of EtsyDraft for TLC.                                   *)
(***************************************************************************)
EXTENDS EtsyDraft
=============================================================================
