-------------------------- MODULE MCMetricServer --------------------------
(* An instance of MetricServer: a metric with one path over two leaves,    *)
(* one whose path shares a leaf with it, and one without a description.    *)
EXTENDS MetricServer
CONSTANTS m1, m2, m3, l1, l2

MCPathsOf == [m \in Metrics |-> IF m = m1 THEN {{l1, l2}} ELSE {{l2}}]
MCConfigs == {{}, {m1}, {m1, m2}, {m3}}
===========================================================================
