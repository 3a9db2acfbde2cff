---------------------------- MODULE MetricServer ----------------------------
(***************************************************************************)
(* The metric server (internal/metricserver/server.go).                    *)
(*                                                                         *)
(* Every scrape makes the registry call Collect with a channel that it     *)
(* closes when Collect has returned.  Collect reads the configuration and  *)
(* the list of targets once and then goes through the targets: for each a  *)
(* goroutine per metric, below it one per path, which queries the target   *)
(* cache, and below that one per sample, which sends it.  Every goroutine  *)
(* waits for those below it.  (What the cache holds is one update each,    *)
(* so the goroutine of a notification and that of its update are one.)     *)
(* Meanwhile the target watcher, the metric collectors and Sets change     *)
(* what Collect reads.                                                     *)
(*                                                                         *)
(* A goroutine is named by its way down: <<target, metric>>,               *)
(* <<target, metric, path>>, <<target, metric, path, <<cache, sample>>>>.  *)
(* The wait group that a goroutine makes has its name; the one of Collect  *)
(* is <<target>>.                                                          *)
(***************************************************************************)
EXTENDS Naturals, SequencesExt

CONSTANTS
    Targets,
    Metrics,       \* entries of the configuration
    Leaves,        \* what a device can report
    PathsOf,       \* per metric its paths; a path is the set of leaves below it
    Described,     \* the metrics that have a description
    Configs,       \* the configurations that are Set: sets of metrics
    MaxChanges     \* bound: changes of what a scrape reads, while it runs

Lists == {s \in SeqOf(Targets, Cardinality(Targets)) : IsInjective(s)}

ASSUME ConstantsAssumption ==
    /\ IsFiniteSet(Targets) /\ IsFiniteSet(Metrics) /\ IsFiniteSet(Leaves)
    /\ MaxChanges \in Nat
    /\ PathsOf \in [Metrics -> SUBSET SUBSET Leaves]
    /\ Described \subseteq Metrics
    /\ Configs \subseteq SUBSET Metrics

VARIABLES
    config,    \* config cache: the metrics asked for
    listed,    \* targets that the watcher listed last
    present,   \* target cache: the targets it has
    samples,   \* target cache: per target the leaves it has a sample of
    pc,        \* Start and Collect
    mine,      \* the metrics that the scrape read
    list, at,  \* the targets that it read, and the loop variable
    run,       \* goroutines that are to do their first step
    wg,        \* per goroutine that waits, what it still waits for
    sent,      \* samples sent to the registry
    changes,
    kept       \* history: targets and samples there ever since the scrape began

cacheVars  == <<config, listed, present, samples>>
scrapeVars == <<pc, mine, list, at, run, wg, sent>>
vars == <<cacheVars, scrapeVars, changes, kept>>

Sample == [label : Targets, metric : Metrics, from : Targets, leaf : Leaves]
Node   == {<<t>> : t \in Targets}
          \cup (Targets \X Metrics)
          \cup {<<t, m, p>> : t \in Targets, m \in Metrics, p \in SUBSET Leaves}

TypeOK ==
    /\ config \subseteq Metrics /\ mine \subseteq Metrics
    /\ listed \in Lists /\ list \in Lists /\ at \in 0 .. Len(list) + 1
    /\ present \subseteq Targets
    /\ samples \in [Targets -> SUBSET Leaves]
    /\ pc \in {"down", "idle", "targets", "next", "wait", "returned", "crashed"}
    /\ \A n \in run : Len(n) \in 2 .. 4
    /\ DOMAIN wg \subseteq Node
    /\ \A n \in DOMAIN wg : wg[n] \in Nat
    /\ sent \subseteq Sample
    /\ changes \in 0 .. MaxChanges
    /\ kept.targets \subseteq Targets
    /\ kept.samples \subseteq Targets \X Leaves

Nothing == [targets |-> {}, samples |-> {}]

Init ==
    /\ config = {} /\ listed = <<>>
    /\ present = {} /\ samples = [t \in Targets |-> {}]
    /\ pc = "down" /\ mine = {} /\ list = <<>> /\ at = 0
    /\ run = {} /\ wg = <<>> /\ sent = {}
    /\ changes = 0 /\ kept = Nothing

----------------------------------------------------------------------------
(* The other users of the caches *)

Change ==
    /\ pc # "crashed"
    /\ IF pc \in {"down", "idle"} THEN UNCHANGED changes
       ELSE changes < MaxChanges /\ changes' = changes + 1
    /\ UNCHANGED scrapeVars

(* A Set changes the configuration.                                        *)
Configure ==
    /\ \E c \in Configs : c # config /\ config' = c
    /\ Change
    /\ UNCHANGED <<listed, present, samples, kept>>

(* The watcher replaces its list before it tells the application logic.    *)
ListTargets ==
    /\ \E l \in Lists : l # listed /\ listed' = l
    /\ Change
    /\ UNCHANGED <<config, present, samples, kept>>

(* The steps of TargetCache, which AppLogic implements: a target gets a    *)
(* cache, from a Set with an older list also one that is gone; only one    *)
(* that is gone loses it.                                                  *)
AddTarget ==
    /\ \E t \in Targets \ present : present' = present \cup {t}
    /\ Change
    /\ UNCHANGED <<config, listed, samples, kept>>

RemoveTarget ==
    /\ \E t \in present \ Range(listed) :
         /\ present' = present \ {t}
         /\ samples' = [samples EXCEPT ![t] = {}]
         /\ kept' = [targets |-> kept.targets \ {t},
                     samples |-> kept.samples \ ({t} \X Leaves)]
    /\ Change
    /\ UNCHANGED <<config, listed>>

(* A metric collector stores a sample.  Only numeric ones get that far.    *)
StoreSample ==
    /\ \E t \in present : \E l \in Leaves \ samples[t] :
         samples' = [samples EXCEPT ![t] = @ \cup {l}]
    /\ Change
    /\ UNCHANGED <<config, listed, present, kept>>

----------------------------------------------------------------------------
(* Start, and the registry's call of Collect *)

(* The listener may fail; Start then sleeps and tries again.               *)
Listen ==
    /\ pc = "down"
    /\ pc' = "idle"
    /\ UNCHANGED <<cacheVars, mine, list, at, run, wg, sent, changes, kept>>

(* A scrape: the configuration is read, once.                              *)
Begin ==
    /\ pc = "idle"
    /\ pc' = "targets"
    /\ mine' = config
    /\ kept' = [targets |-> present,
                samples |-> {x \in Targets \X Leaves : x[2] \in samples[x[1]]}]
    /\ UNCHANGED <<cacheVars, list, at, run, wg, sent, changes>>

(* getCollectorConfig fails.                                               *)
ConfigFails ==
    /\ pc = "idle"
    /\ pc' = "returned"
    /\ UNCHANGED <<cacheVars, mine, list, at, run, wg, sent, changes, kept>>

(* The registry closes the channel and answers.                            *)
Answer ==
    /\ pc = "returned"
    /\ pc' = "idle"
    /\ mine' = {} /\ list' = <<>> /\ at' = 0 /\ sent' = {}
    /\ changes' = 0 /\ kept' = Nothing
    /\ UNCHANGED <<cacheVars, run, wg>>

----------------------------------------------------------------------------
(* The goroutines *)

Parent(n) == SubSeq(n, 1, Len(n) - 1)

(* wg.Add for those below, which start, and wg.Wait comes next.            *)
Spawn(n, below) ==
    /\ run' = (run \ {n}) \cup below
    /\ wg' = [x \in DOMAIN wg \cup {n} |->
                 IF x = n THEN Cardinality(below) ELSE wg[x]]

(* The deferred wg.Done.                                                   *)
Released(n, w) == [w EXCEPT ![Parent(n)] = @ - 1]

Forgotten(n, w) == [x \in DOMAIN w \ {n} |-> w[x]]

(* Seeded fault: the goroutine of a path does not wait for its samples.    *)
JoinedOrPath(n) == n \in DOMAIN wg /\ (wg[n] = 0 \/ Len(n) = 3)

(* wg.Wait returns.                                                        *)
Joined(n) == n \in DOMAIN wg /\ wg[n] = 0

----------------------------------------------------------------------------
(* Collect *)

(* The list of targets is read, once.                                      *)
GetTargets ==
    /\ pc = "targets"
    /\ pc' = "next" /\ list' = listed /\ at' = 1
    /\ UNCHANGED <<cacheVars, mine, run, wg, sent, changes, kept>>

Current == list[at]

(* All targets are done, there is nothing to collect, or there is a target *)
(* without a cache: the targets after it are not looked at.                *)
Return ==
    /\ pc = "next"
    /\ at <= Len(list) => mine = {} \/ Current \notin present
    /\ pc' = "returned"
    /\ UNCHANGED <<cacheVars, mine, list, at, run, wg, sent, changes, kept>>

CollectTarget ==
    /\ pc = "next" /\ at <= Len(list) /\ mine # {} /\ Current \in present
    /\ Spawn(<<Current>>, {<<Current, m>> : m \in mine})
    /\ pc' = "wait"
    /\ UNCHANGED <<cacheVars, mine, list, at, sent, changes, kept>>

(* Seeded fault: Collect waits only when no other target is to follow.     *)
NextTargetAtOnce ==
    LET more == at < Len(list) /\ list[at + 1] \in present IN
    /\ pc = "wait"
    /\ more \/ \A n \in DOMAIN wg : Len(n) = 1 /\ Joined(n)
    /\ wg' = IF more THEN wg ELSE <<>>
    /\ pc' = "next" /\ at' = at + 1
    /\ UNCHANGED <<cacheVars, mine, list, run, sent, changes, kept>>

NextTarget ==
    /\ pc = "wait" /\ Joined(<<Current>>)
    /\ wg' = Forgotten(<<Current>>, wg)
    /\ pc' = "next" /\ at' = at + 1
    /\ UNCHANGED <<cacheVars, mine, list, run, sent, changes, kept>>

(* The goroutine of a metric.                                              *)
CollectMetric ==
    /\ \E n \in run : Len(n) = 2 /\ Spawn(n, {Append(n, p) : p \in PathsOf[n[2]]})
    /\ UNCHANGED <<cacheVars, pc, mine, list, at, sent, changes, kept>>

(* Seeded fault: of what the query returns only one sample is looked at.   *)
QueryOne ==
    /\ \E n \in run :
         /\ Len(n) = 3 /\ Current \in present
         /\ \/ n[3] \cap samples[Current] = {} /\ Spawn(n, {})
            \/ \E l \in n[3] \cap samples[Current] :
                  Spawn(n, {Append(n, <<Current, l>>)})
    /\ UNCHANGED <<cacheVars, pc, mine, list, at, sent, changes, kept>>

(* The goroutine of a path.  The cache that it queries is the one of the   *)
(* loop variable, which it shares with Collect.                            *)
Query ==
    /\ \E n \in run :
         /\ Len(n) = 3 /\ Current \in present
         /\ Spawn(n, {Append(n, <<Current, l>>) : l \in n[3] \cap samples[Current]})
    /\ UNCHANGED <<cacheVars, pc, mine, list, at, sent, changes, kept>>

(* Seeded fault: Done is not deferred, and a query that fails skips it.    *)
QueryFailsNotDone ==
    /\ \E n \in run : /\ Len(n) = 3 /\ Current \notin present
                      /\ run' = run \ {n}
    /\ UNCHANGED <<cacheVars, pc, mine, list, at, wg, sent, changes, kept>>

(* Seeded fault: a query that fails says Done itself, and it is deferred.  *)
QueryFailsDoneTwice ==
    /\ \E n \in run : /\ Len(n) = 3 /\ Current \notin present
                      /\ run' = run \ {n}
                      /\ wg' = Released(n, Released(n, wg))
    /\ UNCHANGED <<cacheVars, pc, mine, list, at, sent, changes, kept>>

(* The target has left the cache since Collect looked.                     *)
QueryFails ==
    /\ \E n \in run : /\ Len(n) = 3 /\ Current \notin present
                      /\ run' = run \ {n}
                      /\ wg' = Released(n, wg)
    /\ UNCHANGED <<cacheVars, pc, mine, list, at, sent, changes, kept>>

(* A goroutine whose wait is over.                                         *)
Done ==
    /\ \E n \in DOMAIN wg : /\ Len(n) > 1 /\ Joined(n)
                            /\ wg' = Forgotten(n, Released(n, wg))
    /\ UNCHANGED <<cacheVars, pc, mine, list, at, run, sent, changes, kept>>

(* The goroutine of a sample.  Its target label is the target that Collect *)
(* was at when it was started.  The description is optional in the API and *)
(* is dereferenced here: without one the process dies.                     *)
Send ==
    /\ \E n \in run :
         /\ Len(n) = 4
         /\ IF n[2] \in Described
            THEN /\ sent' = sent \cup {[label |-> n[1], metric |-> n[2],
                                        from |-> n[4][1], leaf |-> n[4][2]]}
                 /\ run' = run \ {n} /\ wg' = Released(n, wg)
                 /\ UNCHANGED pc
            ELSE pc' = "crashed" /\ UNCHANGED <<run, wg, sent>>
    /\ UNCHANGED <<cacheVars, mine, list, at, changes, kept>>

Collect ==
    /\ pc # "crashed"
    /\ \/ GetTargets \/ Return \/ CollectTarget \/ NextTarget \/ CollectMetric
       \/ Query \/ QueryFails \/ Done \/ Send

----------------------------------------------------------------------------
Next ==
    \/ Configure \/ ListTargets \/ AddTarget \/ RemoveTarget \/ StoreSample
    \/ Listen \/ Begin \/ ConfigFails \/ Answer
    \/ Collect

Spec == Init /\ [][Next]_vars

(* The goroutines run, and the registry takes what they send.              *)
FairSpec == Spec /\ WF_vars(Collect)

----------------------------------------------------------------------------
(* Properties *)

(* When Collect has returned none of its goroutines is left: the registry  *)
(* closes the channel then, and a send would panic (server.go:184-278).    *)
NoSendAfterReturn ==
    pc \in {"idle", "returned"} => run = {} /\ DOMAIN wg = {}

(* A sample is labelled with the target whose cache it was read from,      *)
(* though the query uses the loop variable and the label a copy of it      *)
(* (server.go:197-198, 222, 244).                                          *)
SampleOfItsTarget == \A x \in sent : x.label = x.from

(* A scrape whose targets kept their caches, up to some target of the      *)
(* list, has of that target everything that was cached all along and that  *)
(* the configuration it read asks for (server.go:197-277).                 *)
ScrapeIsComplete ==
    pc = "returned" =>
        \A i \in DOMAIN list :
            (\A j \in 1 .. i : list[j] \in kept.targets) =>
                \A m \in mine : \A p \in PathsOf[m] : \A l \in p :
                    <<list[i], l>> \in kept.samples =>
                        [label |-> list[i], metric |-> m,
                         from |-> list[i], leaf |-> l] \in sent

(* A scrape returns, whatever becomes of its targets, or the process died  *)
(* (server.go:210-276).                                                    *)
ScrapeEnds ==
    pc \in {"targets", "next", "wait"} ~> pc \in {"returned", "crashed"}

(* A scrape reports a target that is cached all along, whatever the others *)
(* do.  It does not: Collect stops at the first target without a cache.    *)
OthersReported ==
    pc = "returned" =>
        \A t \in Range(list) \cap kept.targets :
            \A m \in mine : \A p \in PathsOf[m] : \A l \in p :
                <<t, l>> \in kept.samples =>
                    [label |-> t, metric |-> m, from |-> t, leaf |-> l] \in sent

(* A metric without a description, which the API allows, can be scraped.   *)
(* It cannot (server.go:260).                                              *)
NoCrash == pc # "crashed"
=============================================================================
