-------------------------- MODULE MCPortfolioLoop --------------------------
(* Three listings of one shop; each reports one of two rows. *)
EXTENDS PortfolioLoop

CONSTANTS l1, l2, l3

Row(score, reconciled) == [score |-> score, reconciled |-> reconciled]
Quiet == Row(<<0, 0, 0, 0>>, TRUE)
Viewed == Row(<<0, 0, 0, 2>>, TRUE)
Sold == Row(<<1, 9, 0, 2>>, TRUE)
Best == Row(<<1, 9, 1, 0>>, TRUE)
Late == Row(<<2, 18, 0, 2>>, FALSE)

MCRows == (l1 :> {Quiet, Best}) @@ (l2 :> {Viewed, Sold}) @@ (l3 :> {Sold, Late})
=============================================================================
