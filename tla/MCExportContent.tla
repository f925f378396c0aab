--------------------------- MODULE MCExportContent ---------------------------
(* Instances of ExportContent for TLC *)
EXTENDS ExportContent

Sizes == 0 .. 3
=============================================================================
