--------------------------- MODULE CollectorLife ---------------------------
(***************************************************************************)
(* What the holder of a metric collector may rely on: the life of ONE      *)
(* collector seen through its two operations, Start and Stop, and through  *)
(* the samples it stores.  The goroutines behind it are hidden; module     *)
(* MetricCollector is shown to implement this specification.               *)
(***************************************************************************)
CONSTANTS
    Stores,                \* the contents the target cache can have
    EmptyStore             \* the cache of a target that is not there

VARIABLES
    phase,                 \* created, starting, running, failed, stopped
    holder,                \* holding, stopping, released, panicked
    store                  \* content of the target cache

lifeVars == <<phase, holder, store>>

LifeInit ==
    /\ phase = "created"
    /\ holder = "holding"
    /\ store \in Stores

(* Start returns at once: the run loop is only spawned.                    *)
StartReturns ==
    /\ holder = "holding" /\ phase = "created"
    /\ phase' = "starting"
    /\ UNCHANGED <<holder, store>>

(* The spawned goroutine has installed the cancel function.                *)
BecomesStoppable ==
    /\ holder # "panicked"
    /\ phase = "starting"
    /\ phase' = "running"
    /\ UNCHANGED <<holder, store>>

(* Samples reach the cache only while the collector runs.                  *)
StoresSamples ==
    /\ holder # "panicked"
    /\ phase = "running"
    /\ store' \in Stores
    /\ UNCHANGED <<phase, holder>>

(* The stream broke: the run loop is gone, nothing restarts it.            *)
Fails ==
    /\ holder # "panicked"
    /\ phase = "running"
    /\ phase' = "failed"
    /\ UNCHANGED <<holder, store>>

(* Stop before the cancel function is there panics; later it waits.        *)
StopIsCalled ==
    /\ holder = "holding"
    /\ holder' = IF phase \in {"created", "starting"} THEN "panicked"
                                                      ELSE "stopping"
    /\ UNCHANGED <<phase, store>>

(* Stop returns only by handing its request to a live run loop.            *)
StopReturns ==
    /\ holder = "stopping" /\ phase = "running"
    /\ holder' = "released"
    /\ phase' = "stopped"
    /\ UNCHANGED store

(* The target's cache can be dropped from outside at any time.             *)
CacheDropped ==
    /\ store' = EmptyStore
    /\ UNCHANGED <<phase, holder>>

LifeNext ==
    \/ StartReturns \/ BecomesStoppable \/ StoresSamples \/ Fails
    \/ StopIsCalled \/ StopReturns \/ CacheDropped

LifeSpec == LifeInit /\ [][LifeNext]_lifeVars
============================================================================
