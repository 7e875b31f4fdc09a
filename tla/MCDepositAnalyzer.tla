-------------------------- MODULE MCDepositAnalyzer --------------------------
(* DepositAnalyzer on small instances.                                     *)
EXTENDS DepositAnalyzer, TLC

\* Runs of the job are interchangeable.
JobSymmetry == Permutations(Jobs)
=============================================================================
