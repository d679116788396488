----------------------------- MODULE MCDispatch -----------------------------
(* The dispatch of four cases spread over three tests in two suites.      *)
EXTENDS Dispatch, TLC

MCN == 4
MCSymmetry == Permutations(Tests) \cup Permutations(Suites)
=============================================================================
