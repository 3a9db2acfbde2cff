----------------------------- MODULE TargetCache -----------------------------
(***************************************************************************)
(* What the application logic promises to the other users of the target    *)
(* cache (the metric server, the metric collectors): caches of targets     *)
(* come and go one at a time, and a cache goes only while its target is    *)
(* not on the list.  AppLogic is shown to implement this; the environment  *)
(* of MetricServer consists of these steps.                                *)
(***************************************************************************)
CONSTANT Targets           \* the network nodes there can be

VARIABLES
    listed,                \* targetInfo.config
    present                \* the targets that have a cache

targetVars == <<listed, present>>

CacheInit == listed = {} /\ present = {}

ListTargets == listed' \in SUBSET Targets /\ UNCHANGED present

(* A Set may still be at work on an older list, so that the target need    *)
(* not be on this one.                                                     *)
AddTarget(t) == present' = present \cup {t} /\ UNCHANGED listed

RemoveTarget(t) ==
    /\ t \notin listed
    /\ present' = present \ {t}
    /\ UNCHANGED listed

CacheNext ==
    \/ ListTargets
    \/ \E t \in Targets : AddTarget(t) \/ RemoveTarget(t)

CacheSpec == CacheInit /\ [][CacheNext]_targetVars
==============================================================================
