----------------------------- MODULE MCJobStore -----------------------------
(* Instances of JobStore for TLC *)
EXTENDS JobStore, TLC

CONSTANTS j1, j2

TwoJobs == {j1, j2}
OneJob == {j1}
JobSymmetry == Permutations(Job)
=============================================================================
