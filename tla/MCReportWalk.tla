---------------------------- MODULE MCReportWalk ----------------------------
(* ReportWalk on a small instance: only reports of a few errors are walked.  *)
EXTENDS ReportWalk
CONSTANT MaxWalked
SmallWalks == walk = "none" /\ walk' # "none" => Fresh <= MaxWalked + 1
===============================================================================
