------------------------------ MODULE MCReview ------------------------------
(* Review over three photos in two orders.                                 *)
EXTENDS Review

CONSTANTS p1, p2, p3
MCPhoto == {p1, p2, p3}
MCSortOrder == [captured |-> <<p1, p2, p3>>, score |-> <<p3, p1, p2>>]
MCRendered == {p1, p3}
MCApplied == {p3}
=============================================================================
