------------------------------ MODULE MCNsimFib -----------------------------
(***************************************************************************)
(* The symmetry of routes for model checking NsimFib.                      *)
(***************************************************************************)
EXTENDS NsimFib, TLC

\* The fib_infos of either family differ in nothing.
InfoSymmetry == Permutations(Infos4) \cup Permutations(Infos6)
=============================================================================
