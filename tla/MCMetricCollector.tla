------------------------- MODULE MCMetricCollector -------------------------
(* Two leaves, timestamps 1 and 2, notifications of up to two updates: the *)
(* least with which a notification has a prefix, a stale sample and a      *)
(* sample of another leaf behind it.                                       *)
EXTENDS MetricCollector
CONSTANTS p1, p2

MCPaths == {p1, p2}
============================================================================
