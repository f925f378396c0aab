----------------------------- MODULE MCLogViewer -----------------------------
(* An instance of LogViewer for TLC *)
EXTENDS LogViewer

OneFilter == {"level"}
TwoDatasources == {"d1", "deleted"}
OneListed == {"d1"}
TwoRanges == {"all", "hour"}
=============================================================================
