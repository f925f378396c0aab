----------------------------- MODULE MCJobsPage -----------------------------
(* An instance of JobsPage for TLC *)
EXTENDS JobsPage

TwoJobs == {"j1", "j2"}
OneUnfinished == {"j2"}
TwoLimits == {0, 1}
=============================================================================
