-------------------------- MODULE MCReportProgress --------------------------
EXTENDS ReportProgress

\* One measurement of an engine, a failed one.
OneLine == <<[second |-> 1, label |-> "a", err |-> TRUE]>>
=============================================================================
