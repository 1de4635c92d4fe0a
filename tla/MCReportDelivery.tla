-------------------------- MODULE MCReportDelivery --------------------------
(* Small instances of ReportDelivery for TLC. *)
EXTENDS ReportDelivery, TLC

\* The reports and the submitting threads are interchangeable.  Used by the
\* runs that check no liveness property.
Symmetric == Permutations(Report) \cup Permutations(Submitter)
=============================================================================
