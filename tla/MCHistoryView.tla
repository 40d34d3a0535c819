--------------------------- MODULE MCHistoryView ---------------------------
(* Instances of HistoryView for TLC.                                       *)
EXTENDS HistoryView
=============================================================================
