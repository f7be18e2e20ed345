------------------------- MODULE MCChartPublication -------------------------
(***************************************************************************)
(* Model-checking instance of ChartPublication: three charts of a host,    *)
(* one published by pattern, one mirrored from a child and published once  *)
(* the receiver has replicated it, one suppressed by the pattern.          *)
(***************************************************************************)
EXTENDS ChartPublication

CONSTANTS c1, c2, c3

MCCharts == {c1, c2, c3}
MCMatching == {c1, c2}
MCMirrored == {c2}
MCObsoletable == {c1, c3}

\* Only the chart published by pattern may be made obsolete by its
\* collector.
LiveObsoletable == {c1}

\* Every connection negotiates REPLICATION (a parent of the same version).
ReplicatingCaps == {{"REPLICATION"}}

=============================================================================
