--------------------------- MODULE MCExportWorker ---------------------------
(* Instances of ExportWorker for TLC *)
EXTENDS ExportWorker

AllJobs == Job
OneJob == {1}
OneLimit == {1}
TwoLimits == {1, 2}
=============================================================================
