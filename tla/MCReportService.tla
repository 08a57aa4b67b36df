--------------------------- MODULE MCReportService ---------------------------
(* Instances of ReportService: a report with an issue, and one without.     *)
EXTENDS ReportService

CONSTANTS r1, r2

OneReport == {r1}
TwoReports == {r1, r2}
FirstHasIssue == {r1}

Alone == pc[r2] = "idle"

\* Two reports meet one reload and one log file; a crash or a directory that
\* cannot be deleted, and a third setup, meet one report, and so do rotations
\* that delete files, in one instance and a reload of it.
SafetyScope ==
  \/ Alone /\ (crashes = 0 \/ stuck = {}) /\ version["log"] <= 1
  \/ Alone /\ instance <= 2 /\ crashes = 0 /\ stuck = {}
  \/ instance <= 2 /\ crashes = 0 /\ stuck = {} /\ version["log"] <= 1

\* Two reports compete in one instance; one report meets a reload, and a crash
\* or a directory that cannot be deleted.
LiveScope ==
  \/ Alone /\ (crashes = 0 \/ stuck = {})
  \/ instance <= 1 /\ crashes = 0 /\ stuck = {}
=============================================================================
