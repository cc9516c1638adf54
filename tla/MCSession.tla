----------------------------- MODULE MCSession -----------------------------
(***************************************************************************)
(* Session for TLC.  Requests are interchangeable, and so are stages.      *)
(***************************************************************************)
EXTENDS Session, TLC

CONSTANTS r1, r2, s1, s2

MCRequest == {r1, r2}
MCStage == {s1, s2}
Symmetry == Permutations(MCRequest) \cup Permutations(MCStage)
=============================================================================
