------------------------------ MODULE AppLogic ------------------------------
(***************************************************************************)
(* The application logic (internal/applogic): the one collector resource   *)
(* under the root, the target watcher that polls the network nodes and     *)
(* notifies the resource, and the goroutines of gNMI Set calls that        *)
(* update or delete the resource.  They share, without a lock, the map of  *)
(* metric collectors, the configuration and the list of targets.           *)
(*                                                                         *)
(* A metric collector is a handle with the run loops behind it, as module  *)
(* MetricCollector shows it to its holder: Stop needs a cancel function    *)
(* and returns only by meeting a live run loop.                            *)
(***************************************************************************)
EXTENDS Naturals, FiniteSets

CONSTANTS
    Targets,      \* the network nodes there can be
    Ids,          \* bound: metric collectors that can exist at a time
    Setters,      \* goroutines that serve Set calls
    Watcher,      \* the goroutine of targetWatcher
    Absent, Nil,  \* no entry in the map; an entry that holds a nil interface
    MaxSets,      \* bound: Set calls
    Overlap,      \* may a Set run while another Set or a tick does?
    Faults        \* what the environment may do: see AllFaults

AllFaults == {"dial",      \* a device refuses the gNMI dial
              "stream",    \* a device breaks its stream
              "list",      \* the API server refuses a List
              "copy"}      \* a configuration does not unmarshal

ASSUME ConstantsAssumption ==
    /\ Watcher \notin Setters
    /\ {Absent, Nil} \cap Ids = {} /\ Absent # Nil
    /\ MaxSets \in Nat
    /\ Overlap \in BOOLEAN
    /\ Faults \subseteq AllFaults

VARIABLES
    config,       \* targetInfo.config
    observers,    \* length of targetInfo.observerList
    round,        \* observers the current tick has still to notify
    active,       \* collector.activeTargets
    data,         \* collector.data, 0: nil
    mcs,          \* collector.metriccollectors
    cached,       \* the targets of the target cache
    stateCache,   \* the data in the state cache, 0: none
    col,          \* the metric collectors
    th,           \* the goroutines
    sets,         \* number of Set calls so far
    faulted,      \* history: the environment has done one of Faults
    crashed       \* a panic or a fatal runtime error ended the process

resourceVars == <<active, data, mcs>>
vars == <<config, observers, round, active, data, mcs, cached,
          stateCache, col, th, sets, faulted, crashed>>
history == <<sets, faulted>>

Threads == Setters \cup {Watcher}
Versions == 0 .. MaxSets

NoCollector == [tgt |-> Absent, cfg |-> 0, loops |-> 0, armed |-> FALSE]

(* job: what the goroutine does; pc: where it is in it; todo: the targets  *)
(* its loop has still to visit; tgt, cfg, id: the target, configuration    *)
(* and collector in hand.                                                  *)
Resting == [pc |-> "rest", job |-> "none", todo |-> {}, tgt |-> Absent,
            cfg |-> 0, id |-> Absent]

ThreadStates ==
    [pc : {"rest", "loop", "stop", "erase", "dial", "start", "publish", "dead"},
     job : {"none", "gone", "fresh", "update", "delete"},
     todo : SUBSET Targets, tgt : Targets \cup {Absent},
     cfg : Versions, id : Ids \cup {Absent}]

TypeOK ==
    /\ config \in SUBSET Targets
    /\ observers \in Nat
    /\ round \in Nat
    /\ active \in SUBSET Targets
    /\ data \in Versions
    /\ mcs \in [Targets -> Ids \cup {Absent, Nil}]
    /\ cached \in SUBSET Targets
    /\ stateCache \in Versions
    /\ col \in [Ids -> [tgt : Targets \cup {Absent}, cfg : Versions,
                        loops : Nat, armed : BOOLEAN]]
    /\ th \in [Threads -> ThreadStates]
    /\ sets \in Versions
    /\ faulted \in BOOLEAN
    /\ crashed \in BOOLEAN

Init ==
    /\ config = {} /\ observers = 0 /\ round = 0 /\ active = {}
    /\ data = 0
    /\ mcs = [t \in Targets |-> Absent]
    /\ cached = {} /\ stateCache = 0
    /\ col = [i \in Ids |-> NoCollector]
    /\ th = [p \in Threads |-> Resting]
    /\ sets = 0 /\ faulted = FALSE
    /\ crashed = FALSE

----------------------------------------------------------------------------
(* Shared pieces *)

AtRest == \A p \in Threads : th[p].pc \in {"rest", "dead"}

(* A call begins when it likes or, without Overlap, in a quiet moment.     *)
MayBegin ==
    \/ Overlap
    \/ AtRest /\ round = 0 /\ \A i \in Ids : col[i].loops > 0 => col[i].armed

(* A handle that nothing refers to any more can be used again.             *)
Free(i) == /\ col[i].loops = 0
           /\ \A t \in Targets : mcs[t] # i
           /\ \A p \in Threads : th[p].id # i

(* mc.Stop() on what the map holds, up to the rendezvous: a nil interface  *)
(* or a collector without a cancel function panics.                        *)
CallStop(p, t) ==
    IF mcs[t] = Nil \/ ~col[mcs[t]].armed
    THEN crashed' = TRUE /\ UNCHANGED th
    ELSE /\ th' = [th EXCEPT ![p].pc = "stop", ![p].tgt = t, ![p].id = mcs[t]]
         /\ UNCHANGED crashed

(* Seeded fault: the configuration is taken from what was last published.  *)
DiallingPublished(p, t) ==
    [th[p] EXCEPT !.pc = "dial", !.tgt = t, !.cfg = stateCache]

(* metriccollector.New(t, r.data): the arguments are read, the dial begins.*)
Dialling(p, t) == [th[p] EXCEPT !.pc = "dial", !.tgt = t, !.cfg = data]

(* Seeded fault: the loop does not advance.                                *)
DoneNotAdvanced(p, t) == [th[p] EXCEPT !.pc = "loop", !.tgt = Absent,
                                       !.cfg = 0, !.id = Absent]

(* The loop goes on to its next target.                                    *)
Done(p, t) == [th[p] EXCEPT !.pc = "loop", !.todo = @ \ {t}, !.tgt = Absent,
                            !.cfg = 0, !.id = Absent]

(* Seeded fault: the cache is only made for targets known to be active.    *)
AddActiveToCache(t) == cached' = cached \cup ({t} \cap active)

(* HasTarget, then Add.                                                    *)
AddToCache(t) == cached' = cached \cup {t}

(* r.metriccollectors[t.Name] = ..., over what the map held.               *)
Register(p, x) == mcs' = [mcs EXCEPT ![th[p].tgt] = x]

InLoop(p, job, t) == /\ ~crashed
                     /\ th[p].pc = "loop" /\ th[p].job = job
                     /\ t \in th[p].todo

Finished(p, job) == /\ ~crashed
                    /\ th[p].pc = "loop" /\ th[p].job = job
                    /\ th[p].todo = {}

----------------------------------------------------------------------------
(* Stop, New and Start as the loops of handleTargetUpdate,                 *)
(* handleConfigUpdate and handleDelete call them                           *)

(* Seeded fault: Stop does not wait for a run loop.                        *)
StopReturnUnmatched(p) ==
    /\ ~crashed
    /\ th[p].pc = "stop"
    /\ col' = [col EXCEPT ![th[p].id].loops = @ - 1]
    /\ th' = [th EXCEPT ![p].pc = "erase"]
    /\ UNCHANGED <<history, config, observers, round, resourceVars, cached,
                   stateCache, crashed>>

(* The rendezvous on stopCh: one run loop ends.                            *)
StopReturn(p) ==
    /\ ~crashed
    /\ th[p].pc = "stop" /\ col[th[p].id].loops > 0
    /\ col' = [col EXCEPT ![th[p].id].loops = @ - 1]
    /\ th' = [th EXCEPT ![p].pc = "erase"]
    /\ UNCHANGED <<history, config, observers, round, resourceVars, cached,
                   stateCache, crashed>>

(* Seeded fault: a collector that was stopped stays in the map.            *)
EraseNothing(p) ==
    LET t == th[p].tgt IN
    /\ ~crashed
    /\ th[p].pc = "erase"
    /\ th' = [th EXCEPT ![p] = IF @.job = "update"
                               THEN [Dialling(p, t) EXCEPT !.id = Absent]
                               ELSE Done(p, t)]
    /\ cached' = IF th[p].job = "gone" THEN cached \ {t} ELSE cached
    /\ UNCHANGED <<history, config, observers, round, resourceVars,
                   stateCache, col, crashed>>

(* delete(r.metriccollectors, name), whatever the map holds by now.        *)
Erase(p) ==
    LET t == th[p].tgt IN
    /\ ~crashed
    /\ th[p].pc = "erase"
    /\ mcs' = [mcs EXCEPT ![t] = Absent]
    /\ th' = [th EXCEPT ![p] = IF @.job = "update"
                               THEN [Dialling(p, t) EXCEPT !.id = Absent]
                               ELSE Done(p, t)]
    /\ cached' = IF th[p].job = "gone" THEN cached \ {t} ELSE cached
    /\ UNCHANGED <<history, config, observers, round, active, data,
                   stateCache, col, crashed>>

(* The dial succeeds: the map entry is overwritten.                        *)
DialOk(p) ==
    /\ ~crashed
    /\ th[p].pc = "dial"
    /\ \E i \in Ids :
         /\ Free(i)
         /\ col' = [col EXCEPT ![i] = [tgt |-> th[p].tgt, cfg |-> th[p].cfg,
                                       loops |-> 0, armed |-> FALSE]]
         /\ Register(p, i)
    /\ th' = [th EXCEPT ![p].pc = "start"]
    /\ UNCHANGED <<history, config, observers, round, active, data, cached,
                   stateCache, crashed>>

(* Seeded fault: the tick goes on with the next target.                    *)
AbandonTarget ==
    /\ th' = [th EXCEPT ![Watcher] = Done(Watcher, th[Watcher].tgt)]
    /\ UNCHANGED round

(* The return out of handleTargetUpdate: activeTargets stay as they were.  *)
AbandonTick ==
    /\ th' = [th EXCEPT ![Watcher] = Resting]
    /\ round' = round - 1

(* The dial fails: the entry becomes a nil interface and the whole         *)
(* handler returns; UpdateConfig goes on as if it had succeeded.           *)
DialFail(p) ==
    /\ ~crashed /\ "dial" \in Faults
    /\ th[p].pc = "dial"
    /\ Register(p, Nil)
    /\ IF p = Watcher
       THEN AbandonTick
       ELSE /\ th' = [th EXCEPT ![p] = [Resting EXCEPT !.pc = "publish",
                                                       !.job = "update",
                                                       !.cfg = data]]
            /\ UNCHANGED round
    /\ faulted' = TRUE
    /\ UNCHANGED <<sets, config, observers, active, data, cached,
                   stateCache, col, crashed>>

(* r.metriccollectors[t.Name].Start(): the map is read again.              *)
StartCollector(p) ==
    LET i == mcs[th[p].tgt] IN
    /\ ~crashed
    /\ th[p].pc = "start"
    /\ IF i \in Ids
       THEN /\ col' = [col EXCEPT ![i].loops = @ + 1]
            /\ th' = [th EXCEPT ![p] = Done(p, th[p].tgt)]
            /\ UNCHANGED crashed
       ELSE crashed' = TRUE /\ UNCHANGED <<col, th>>
    /\ UNCHANGED <<history, config, observers, round, resourceVars, cached,
                   stateCache>>

----------------------------------------------------------------------------
(* The target watcher *)

(* targetWatcher: the sleep is over, the nodes in condition configured are *)
(* listed (any of them, the cluster owns them), and the observers are      *)
(* notified one after the other (the slice is evaluated once).  The list   *)
(* stays until all of them have been told.                                 *)
Tick ==
    /\ ~crashed /\ MayBegin
    /\ th[Watcher].pc = "rest" /\ round = 0
    /\ config' \in SUBSET Targets
    /\ round' = observers
    /\ UNCHANGED <<history, observers, resourceVars, cached, stateCache, col,
                   th, crashed>>

(* A List error ends the goroutine.                                        *)
ListFail ==
    /\ ~crashed /\ "list" \in Faults /\ MayBegin
    /\ th[Watcher].pc = "rest" /\ round = 0
    /\ th' = [th EXCEPT ![Watcher].pc = "dead"]
    /\ faulted' = TRUE
    /\ UNCHANGED <<sets, config, observers, round, resourceVars, cached,
                   stateCache, col, crashed>>

(* Seeded fault: all that are active are taken for gone.                   *)
NotifyAllActive ==
    /\ ~crashed
    /\ th[Watcher].pc = "rest" /\ round > 0
    /\ th' = [th EXCEPT ![Watcher] = [Resting EXCEPT !.pc = "loop",
                            !.job = "gone", !.todo = active]]
    /\ UNCHANGED <<history, config, observers, round, resourceVars, cached,
                   stateCache, col, crashed>>

(* handleTargetUpdate: first the active targets that are gone ...          *)
Notify ==
    /\ ~crashed
    /\ th[Watcher].pc = "rest" /\ round > 0
    /\ th' = [th EXCEPT ![Watcher] = [Resting EXCEPT !.pc = "loop",
                            !.job = "gone", !.todo = active \ config]]
    /\ UNCHANGED <<history, config, observers, round, resourceVars, cached,
                   stateCache, col, crashed>>

GoneTarget(t) ==
    /\ InLoop(Watcher, "gone", t)
    /\ IF mcs[t] = Absent
       THEN /\ th' = [th EXCEPT ![Watcher] = Done(Watcher, t)]
            /\ cached' = cached \ {t}
            /\ UNCHANGED crashed
       ELSE CallStop(Watcher, t) /\ UNCHANGED cached
    /\ UNCHANGED <<history, config, observers, round, resourceVars,
                   stateCache, col>>

(* ... then the targets that are not active yet ...                        *)
GoneDone ==
    /\ Finished(Watcher, "gone")
    /\ th' = [th EXCEPT ![Watcher].job = "fresh",
                        ![Watcher].todo = config \ active]
    /\ UNCHANGED <<history, config, observers, round, resourceVars, cached,
                   stateCache, col, crashed>>

(* (no look at what the map holds for a target it takes for new)           *)
FreshTarget(t) ==
    /\ InLoop(Watcher, "fresh", t)
    /\ AddToCache(t)
    /\ th' = [th EXCEPT ![Watcher] = Dialling(Watcher, t)]
    /\ UNCHANGED <<history, config, observers, round, resourceVars,
                   stateCache, col, crashed>>

(* ... and only if all of them got a collector the new list is adopted.    *)
FreshDone ==
    /\ Finished(Watcher, "fresh")
    /\ active' = config
    /\ round' = round - 1
    /\ th' = [th EXCEPT ![Watcher] = Resting]
    /\ UNCHANGED <<history, config, observers, data, mcs, cached, stateCache,
                   col, crashed>>

----------------------------------------------------------------------------
(* The Set handlers *)

(* Seeded fault: the configuration is left for later.                      *)
CopyPostponed == UNCHANGED <<data, faulted>>

(* Copy: a configuration that does not unmarshal leaves the old one.       *)
CopyConfig ==
    \/ data' = sets + 1 /\ UNCHANGED faulted
    \/ "copy" \in Faults /\ faulted' = TRUE /\ UNCHANGED data

(* RegisterTargetObserver appends, whether the resource is in the list or  *)
(* not.                                                                    *)
RegisterTargetObserver == observers' = observers + 1

(* UpdateConfig: Copy, whose error is ignored, then RegisterTargetObserver *)
(* once more, then handleConfigUpdate over the targets of this moment.     *)
SetUpdate(p) ==
    /\ ~crashed /\ MayBegin
    /\ th[p].pc = "rest" /\ sets < MaxSets
    /\ sets' = sets + 1
    /\ CopyConfig
    /\ RegisterTargetObserver
    /\ th' = [th EXCEPT ![p] = [Resting EXCEPT !.pc = "loop",
                                    !.job = "update", !.todo = config]]
    /\ UNCHANGED <<config, round, active, mcs, cached, stateCache,
                   col, crashed>>

UpdateTarget(p, t) ==
    /\ InLoop(p, "update", t)
    /\ AddToCache(t)
    /\ IF mcs[t] = Absent
       THEN th' = [th EXCEPT ![p] = Dialling(p, t)] /\ UNCHANGED crashed
       ELSE CallStop(p, t)
    /\ UNCHANGED <<history, config, observers, round, resourceVars,
                   stateCache, col>>

(* UpdateStateCache marshals the data ...                                  *)
UpdateDone(p) ==
    /\ Finished(p, "update")
    /\ th' = [th EXCEPT ![p].pc = "publish", ![p].cfg = data]
    /\ UNCHANGED <<history, config, observers, round, resourceVars, cached,
                   stateCache, col, crashed>>

(* ... and only then takes a timestamp and writes it.                      *)
Publish(p) ==
    /\ ~crashed
    /\ th[p].pc = "publish"
    /\ stateCache' = th[p].cfg
    /\ th' = [th EXCEPT ![p] = Resting]
    /\ UNCHANGED <<history, config, observers, round, resourceVars, cached,
                   col, crashed>>

(* Seeded fault: only the targets that a tick has made active are stopped. *)
SetDeleteActive(p) ==
    /\ ~crashed /\ MayBegin
    /\ th[p].pc = "rest" /\ sets < MaxSets /\ observers > 0
    /\ sets' = sets + 1
    /\ th' = [th EXCEPT ![p] = [Resting EXCEPT !.pc = "loop",
                           !.job = "delete", !.todo = config \cap active]]
    /\ UNCHANGED <<faulted, config, observers, round, resourceVars, cached,
                   stateCache, col, crashed>>

(* DeleteStateCache: handleDelete over the targets of this moment; data,   *)
(* the observer's registration and the resource itself stay.               *)
SetDelete(p) ==
    /\ ~crashed /\ MayBegin
    /\ th[p].pc = "rest" /\ sets < MaxSets /\ observers > 0
    /\ sets' = sets + 1
    /\ th' = [th EXCEPT ![p] = [Resting EXCEPT !.pc = "loop",
                                    !.job = "delete", !.todo = config]]
    /\ UNCHANGED <<faulted, config, observers, round, resourceVars, cached,
                   stateCache, col, crashed>>

DeleteTarget(p, t) ==
    /\ InLoop(p, "delete", t)
    /\ IF mcs[t] = Absent
       THEN th' = [th EXCEPT ![p] = Done(p, t)] /\ UNCHANGED crashed
       ELSE CallStop(p, t)
    /\ UNCHANGED <<history, config, observers, round, resourceVars, cached,
                   stateCache, col>>

DeleteDone(p) ==
    /\ Finished(p, "delete")
    /\ stateCache' = 0
    /\ th' = [th EXCEPT ![p] = Resting]
    /\ UNCHANGED <<history, config, observers, round, resourceVars, cached,
                   col, crashed>>

----------------------------------------------------------------------------
(* The environment and the run loops *)

(* run() sets the cancel function; startSubscription reads the paths of    *)
(* the configuration, which must not be nil.                               *)
RunArms(i) ==
    /\ ~crashed
    /\ col[i].loops > 0 /\ ~col[i].armed
    /\ IF col[i].cfg = 0
       THEN crashed' = TRUE /\ UNCHANGED col
       ELSE col' = [col EXCEPT ![i].armed = TRUE] /\ UNCHANGED crashed
    /\ UNCHANGED <<history, config, observers, round, resourceVars, cached,
                   stateCache, th>>

(* A stream error, or the one that Stop's own cancellation causes, reaches *)
(* a run loop before the rendezvous: the loop is gone.                     *)
LoopDies(i) ==
    /\ ~crashed
    /\ col[i].loops > 0 /\ col[i].armed
    /\ \/ /\ \E p \in Threads : th[p].pc = "stop" /\ th[p].id = i
          /\ UNCHANGED faulted
       \/ "stream" \in Faults /\ faulted' = TRUE
    /\ col' = [col EXCEPT ![i].loops = @ - 1]
    /\ UNCHANGED <<sets, config, observers, round, resourceVars, cached,
                   stateCache, th, crashed>>

(* Two goroutines in the map at once, one writing: the runtime may notice. *)
WritesMap(p) == th[p].pc \in {"erase", "dial"}
UsesMap(p) ==
    \/ WritesMap(p) \/ th[p].pc = "start"
    \/ th[p].pc = "loop" /\ th[p].job # "fresh" /\ th[p].todo # {}

MapRace ==
    /\ ~crashed
    /\ \E p, q \in Threads : p # q /\ WritesMap(p) /\ UsesMap(q)
    /\ crashed' = TRUE
    /\ UNCHANGED <<history, config, observers, round, resourceVars, cached,
                   stateCache, col, th>>

----------------------------------------------------------------------------
(* The steps of a goroutine that is in the middle of its work.             *)
CallStep(p) == StopReturn(p) \/ Erase(p) \/ DialOk(p) \/ DialFail(p)
               \/ StartCollector(p)

WatcherStep == \/ CallStep(Watcher)
               \/ Notify \/ GoneDone \/ FreshDone
               \/ \E t \in Targets : GoneTarget(t) \/ FreshTarget(t)

SetterStep(p) == \/ CallStep(p)
                 \/ UpdateDone(p) \/ Publish(p) \/ DeleteDone(p)
                 \/ \E t \in Targets : UpdateTarget(p, t) \/ DeleteTarget(p, t)

Next ==
    \/ Tick \/ ListFail \/ WatcherStep
    \/ \E p \in Setters : SetUpdate(p) \/ SetDelete(p) \/ SetterStep(p)
    \/ MapRace
    \/ \E i \in Ids : RunArms(i) \/ LoopDies(i)

Spec == Init /\ [][Next]_vars

(* Ready goroutines run; dials end, at the latest by their timeout.        *)
FairSpec ==
    /\ Spec
    /\ WF_vars(WatcherStep)
    /\ \A p \in Setters : WF_vars(SetterStep(p))
    /\ \A i \in Ids : WF_vars(RunArms(i))

----------------------------------------------------------------------------
(* Properties *)

(* A mapped collector has a cache to write to: without one every sample is *)
(* refused (handler.go:23) and nothing would ever add it.                  *)
CollectorsHaveCache == \A t \in Targets : mcs[t] \in Ids => t \in cached

(* The list of active targets is only switched when every target that      *)
(* joins it has a collector and every target that leaves it has neither    *)
(* collector nor cache (collector.go:329 and the early return at l. 324).  *)
ActiveSwitchIsBacked ==
    [][active' # active =>
         /\ \A t \in active' \ active : mcs[t] \in Ids
         /\ \A t \in active \ active' : mcs[t] = Absent /\ t \notin cached]_vars

(* With no overlap and before any fault, once a Set has been answered and  *)
(* nothing moves, every target runs a collector with the configuration     *)
(* that the state cache reports (collector.go, UpdateConfig and            *)
(* UpdateStateCache).                                                      *)
Served ==
    ~faulted /\ AtRest /\ round = 0 /\ stateCache # 0 =>
        /\ stateCache = data
        /\ \A t \in config : /\ mcs[t] \in Ids
                             /\ col[mcs[t]].cfg = data
                             /\ col[mcs[t]].loops > 0

(* With no overlap the process dies only after a fault, and then of one of *)
(* two things: the Stop of a nil interface that a failed dial left, which  *)
(* a loop has just come to (collector.go, l. 260 and 317), or a run loop   *)
(* that looks for the paths of no configuration (l. 134).  It never dies   *)
(* of a Stop before the cancel function is there, of a Start of what is    *)
(* not in the map, or of two goroutines in the map.                        *)
DiesOfNil ==
    crashed =>
        /\ faulted
        /\ \/ \E p \in Threads : \E t \in th[p].todo :
                 th[p].pc = "loop" /\ th[p].job # "fresh" /\ mcs[t] = Nil
           \/ \E i \in Ids :
                 col[i].loops > 0 /\ ~col[i].armed /\ col[i].cfg = 0

(* With no overlap, when the state of the resource is withdrawn no target  *)
(* on the list has a collector any more ("delete all the metriccollectors  *)
(* that are active", collector.go:203), also one that only a Set served    *)
(* and one whose tick was abandoned.                                       *)
DeleteStopsListed ==
    [][stateCache # 0 /\ stateCache' = 0 =>
         \A t \in config : mcs[t] = Absent]_vars

(* The target cache is used as TargetCache promises: in any overlap and    *)
(* under every fault a cache goes only while its target is not on the list *)
(* (collector.go, l. 286-297, behind target.go, l. 148-171).               *)
Cache == INSTANCE TargetCache WITH listed <- config, present <- cached

CacheSpec == Cache!CacheSpec

(* What the map, the run loop and the goroutines make of a collector, in   *)
(* the terms of CollectorLife; its samples are MetricCollector's matter.   *)
Phase(i) ==
    IF col[i].loops > 0 THEN IF col[i].armed THEN "running" ELSE "starting"
    ELSE IF ~col[i].armed THEN "created"
    ELSE IF \E p \in Threads : th[p].pc = "erase" /\ th[p].id = i
         THEN "stopped" ELSE "failed"

Holder(i) ==
    IF \E p \in Threads : th[p].pc = "stop" /\ th[p].id = i THEN "stopping"
    ELSE IF \E p \in Threads : th[p].pc = "erase" /\ th[p].id = i
         THEN "released" ELSE "holding"

Life(i) == INSTANCE CollectorLife
    WITH phase <- Phase(i), holder <- Holder(i), store <- {},
         Stores <- {{}}, EmptyStore <- {}

(* From the dial on until it is out of the map and its loop is over.       *)
InUse(i) == col[i].loops > 0 \/ \E t \in Targets : mcs[t] = i

Lives(i) ==
    /\ ~InUse(i) /\ InUse(i)' => Life(i)!LifeInit'
    /\ InUse(i) /\ InUse(i)' => [Life(i)!LifeNext]_(Life(i)!lifeVars)

(* With no overlap a step of the application logic is, for every metric    *)
(* collector, a step that its life allows, or none: Start is called once   *)
(* and before anything else, Stop only when the cancel function is there,  *)
(* and once it has returned nothing refers to the collector any more.  So  *)
(* the two faces of a collector fit together under every fault             *)
(* (collector.go, l. 229-330, over metriccollector/collector.go).          *)
UsesCollectors == [][\A i \in Ids : Lives(i)]_vars

(* Every tick and every Set comes to its end, unless the process died or   *)
(* it waits in Stop for a run loop that is no longer there.                *)
OperationsEnd ==
    \A p \in Threads :
        th[p].pc # "rest" ~>
            \/ th[p].pc \in {"rest", "dead"}
            \/ th[p].pc = "stop" /\ col[th[p].id].loops = 0
            \/ crashed

----------------------------------------------------------------------------
(* What comments of the source say and the code does not do *)

Loops(t) == {i \in Ids : col[i].tgt = t /\ col[i].loops > 0}

(* "stop and start the collectors" (collector.go:250): the collector that  *)
(* is replaced is stopped, so a target has one at a time.                  *)
OneCollectorPerTarget == \A t \in Targets : Cardinality(Loops(t)) <= 1

(* "check for deleted targets" (collector.go:275): after a tick, no        *)
(* collector is kept for a target that is gone.                            *)
GoneTargetStopped ==
    AtRest /\ round = 0 => \A t \in Targets : mcs[t] \in Ids => t \in config

(* "delete all the metriccollectors that are active" (collector.go:203):   *)
(* while the resource is deleted, no collector is kept.                    *)
DeletedStaysDeleted ==
    AtRest /\ round = 0 /\ stateCache = 0 /\ data # 0 =>
        \A t \in Targets : mcs[t] \notin Ids

(* "handleTargetUpdate target running" (collector.go:282): a target that   *)
(* is found among the active ones has a collector.                         *)
FoundIsRunning ==
    AtRest /\ round = 0 /\ stateCache # 0 =>
        \A t \in active \cap config : mcs[t] # Absent

(* "metric collector exists stop and start" (collector.go:252): what the   *)
(* map holds can be stopped.                                               *)
MappedCanBeStopped ==
    \A p \in Setters, t \in Targets :
        InLoop(p, "update", t) => mcs[t] # Nil
============================================================================
