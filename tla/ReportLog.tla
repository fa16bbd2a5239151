----------------------------- MODULE ReportLog ------------------------------
(***************************************************************************)
(* What a report promises the scan (docs/usage.md, "Reports"): a row that  *)
(* was saved stays, once, in the order of the saves, whatever write fails  *)
(* and wherever the process is interrupted.                                *)
(***************************************************************************)
EXTENDS Sequences

CONSTANT Rows

VARIABLE log  \* the rows the next user of the output path will find

LogInit == log = <<>>

LogNext == \E row \in Rows : log' = Append(log, row)

LogSpec == LogInit /\ [][LogNext]_log
=============================================================================
