-------------------------- MODULE MCReportPipeline --------------------------
(* Instances of ReportPipeline: three issues, one or two set-ups. *)
EXTENDS ReportPipeline

CONSTANTS i1, i2, i3

ThreeIssues == {i1, i2, i3}

Faults == crashes + Cardinality({i \in Issue : fate[i] = "abandoned"})
            + Cardinality(unsure) + Cardinality(stuck)

\* Issues are interchangeable: one order of theirs stands for all.  A third
\* issue meets reloads, and no fault.
Scope ==
  /\ stage[i2] # "none" => stage[i1] # "none"
  /\ stage[i3] # "none" => stage[i2] # "none" /\ Faults = 0
=============================================================================
