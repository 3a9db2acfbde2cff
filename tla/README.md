# nddc-metric-collector: TLA+ models, checks and proofs

The program polls the Kubernetes API for network nodes, keeps one gNMI
subscription ("metric collector") per configured node, stores the numeric
samples in an openconfig cache and exports them to Prometheus. What it collects
is configured by a gNMI `Set` (sent by the program's own reconciler) and held in
two caches, one for configuration and one for state.

The modules below model the parts where goroutines meet. Everything is
translated from the Go source under `src/`; `PROJECT.json` maps each definition
to its lines.

Contents: 1 inventory, 2 modules and the code, 3 runs, 4 fairness and bounds,
5 proofs, 6 where comments and code differ, 7 not modelled, 8 plan.

## 1. Inventory

### 1.1 Metric collector (`internal/metriccollector`)

State: the cancel function of the subscription, the unbuffered `stopCh`, the
gnmic target and its two unbuffered channels (responses, errors); the samples
go to the shared target cache.
Operations: `New` (dials the device), `Start`, `run`, `startSubscription`,
`handleSubscription`, `Stop`/`stopSubscription`.
Four goroutines: the holder, `run`, `startSubscription`, gnmic's feed.
Hard: `Stop` is a cancellation followed by a rendezvous with a loop that may be
gone or about to go; `Stop` may come before `run` has set the cancel function;
a notification is stored sample by sample while the target's cache can be
dropped by somebody else.
Correct when: after `Stop` returns nothing more is stored and nothing is half
handled; samples of a notification are taken in order; a target that is not in
the cache holds no samples; a `Stop` that has begun returns.

### 1.2 Application logic (`internal/applogic`)

State: `collector` has `activeTargets`, `data` (the configuration) and
`metriccollectors`, a Go map from target name to collector; `targetInfo` has the
list of configured targets and the list of observers; the target cache and the
state cache are shared with the servers.
Operations: the watcher's tick (`targetWatcher`: list the nodes, replace the
list, notify the observers with `handleTargetUpdate`), `UpdateConfig` (copy the
configuration, register as an observer, `handleConfigUpdate`,
`UpdateStateCache`), `DeleteStateCache` (`handleDelete`).
Interactions: the watcher is one goroutine, each gNMI `Set` is another; both
stop, erase, create and start collectors through the same map with no lock, and
both dial devices in between, for up to ten seconds.
Hard: two notions of which targets are served (`activeTargets` of the watcher,
the map of everyone) that drift apart; early returns after a failed dial; a nil
interface in the map; the order of reading `data`, dialling and storing.
Correct when: every configured target has one running collector with the
published configuration and a cache to write to; a target that left has none;
after a delete there are none; the operations end and do not panic.

### 1.3 gNMI server (`internal/gnmiserver`)

State: the config cache, the state cache, 64 permits for unary calls and 64
spots for subscriptions, one match for the paths of all subscriptions and a
queue per subscription, the root resource with its collector object.
Operations: `Set` (write the config cache entry by entry, read it back, tell the
collector resource), `Get`, `Subscribe` (ONCE, POLL, STREAM, updates only),
`Start` and `New` (permits, caches, cache event handlers, initial state).
Interactions: the reconciler and any other client call Set, Get and Subscribe
concurrently; a Set ends in the application logic (1.2); both caches call back
into the match on every write, which fills the queues.
Hard: a `Set` that fails between changing the cache and telling the resource,
concurrent first `Set`s, a permit or a spot that is not given back, changes that
arrive while a subscription registers and reads the initial state, a client
that leaves, a restart that loses the caches.
Correct when: the collector resource runs the configuration that was asked for;
permits and spots taken are given back; a STREAM subscriber misses no change,
and its sync marker comes after the initial state.

### 1.4 Collector controller (`internal/controllers/collector`)

State: none of its own, the Kubernetes resource and the two caches behind gNMI.
Operations: `SetupCollector`, `Connect` (dials the program's own gNMI server),
the four validators with `GetConfig`, `Observe`, `Create`, `Update`, `Delete`,
`processObserve`.
Hard: retries against the caches after a partial failure; deciding "up to date"
from the config cache and not from what runs; its server may not listen.
Correct when: repeated reconciliation leads to the wanted configuration.

### 1.5 Metric server (`internal/metricserver`)

State: the HTTP server; per scrape a tree of goroutines and their wait groups.
Reads the config cache, the watcher's list and the target cache.
Operations: `Start` (retries until it listens), `Collect` (one goroutine per
metric, path and sample, target after target), `getCollectorConfig`,
`getLabels`, `getFloat`.
Hard: names and labels that are joined from a path's elements and keys in the
order of a Go map and can become equal, where the Prometheus client panics or
drops; targets that leave the cache between the check and the query; a loop
variable shared with goroutines; nested wait groups, and a channel that is
closed when `Collect` returns; a scrape that stops at the first target without
a cache.
Correct when: a scrape ends, leaves no goroutine behind, and reports every
sample cached for a target that stays, under that target's name and the name
and keys of its path.

### 1.6 The process (`cmd`, `kapi`, `restconf`)

State: how far `RunE` has come, the goroutines it has started, the ports they
hold, whether the caches have their handlers and the initial state.
Operations: the steps of `RunE`, in order: manager, client, root resource (whose
watcher polls from then on), controllers, restconf, gNMI server, metric server,
initial state, `Run` of the gNMI server, manager. `kapi` is a client and one
`List`; `restconf` answers every request with the state cache.
Hard: two listeners hand their errors to channels that nobody reads; the metric
server is started in line and retries for ever; the reconciler is a client of a
server that another goroutine of the process starts; an API server that goes
away ends some parts and not others.
Correct when: the process comes up when it can, nothing answers before it is
ready, and the reconciler reaches its server.

`yangschema` (generated tables) and `apis` (types) keep no state that changes in
an order of interest.

External: gnmic's `Target.Subscribe` and openconfig's cache are not in this
repository. They are modelled by what the code relies on: the feed blocks on an
unbuffered send and returns on cancellation; the cache refuses samples older
than the one it holds and samples for an unknown target.

## 2. Modules and the code

| module | models |
|---|---|
| `CollectorLife` | what the holder of one collector may rely on (abstract) |
| `MetricCollector` | one collector, its four goroutines; implements `CollectorLife` |
| `MetricCollector_proofs` | theorems about it |
| `AppLogic` | the watcher, the Set handlers, the collectors as handles |
| `AppLogic_proofs` | theorems about it |
| `TargetCache` | what the other users of the target cache may rely on (abstract); `AppLogic` implements it |
| `DesiredState` | what a user of the Kubernetes resource may rely on (abstract) |
| `ConfigSet` | reconciler, Set, Get, both caches, the collector object; implements `DesiredState` |
| `ConfigSet_proofs` | theorems about it |
| `Subscribe` | subscriptions, their queues and goroutines, beside Sets |
| `Subscribe_proofs` | theorems about it that hold whoever Sets |
| `SubscribeStream_proofs` | theorems about what a stream is sent, one Set at a time |
| `MetricServer` | a scrape beside the other users of the caches |
| `MetricServer_proofs` | theorems about it |
| `Series` | what a scrape makes of a leaf: name, labels, panic |
| `Series_proofs` | theorems about the labels |
| `Startup` | the process: `RunE`, the goroutines it leaves behind, exits and restarts |
| `Startup_proofs` | theorems about it |
| `MCMetricCollector`, `MCAppLogic`, `MCConfigSet`, `MCSubscribe`, `MCMetricServer`, `MCSeries` | instances for TLC |

The modules meet at these places. A collector handle of `AppLogic` behaves as
in `CollectorLife`, which `MetricCollector` implements. The collector object of
`ConfigSet` is the one whose work with targets is `AppLogic`; there a Set is one
of the calls that `ConfigSet` takes apart up to `Apply` and `DeleteChild`. A Set
of `Subscribe` is what `ConfigSet` does to the two caches, seen leaf by leaf.
`AddTarget`, `RemoveTarget` and `ListTargets` of `MetricServer` are the steps of
`TargetCache`, which `AppLogic` implements in any overlap and under every fault;
`StoreSample` is what `MetricCollector` does. `Series` is the innermost goroutine
of `MetricServer`, which leaves names alone. `Restart` of `ConfigSet` is what
`Startup` does from `Exit` to `Manage`, and `Reconciles` is why the fairness of
`ConfigSet`'s reconciler is justified.

**MetricCollector.** `owner` is the holder's place in Start/Stop, `run` the
place of the run goroutine (`armed` once the cancel function is set, `select` in
the loop, `handle` inside `handleSubscription`, `failed` after the return on an
error, `ended` after the one on `stopCh`), `sub` and `feed` the two other
goroutines, `out` what the feed is blocked on sending, `note` and `pos` the
notification in hand and the next sample. `leaf` is the timestamp cached for
each path, 0 for none. Values of samples are not distinguished. `Receive` is
the response case of the select with `HasTarget`; `HandleUpdate` is one turn of
the handler's loop with the numeric filter and the cache's refusal.
`StopCancel` and `StopSend` are the two halves of `Stop`. `TargetRemoved` and
`TargetAdded` are the other users of the target cache.

**CollectorLife** has three variables: the phase, the holder and the store. It
says that samples are stored only while the collector runs, that `Stop` returns
only by ending a live loop, that a `Stop` before the loop is armed panics and
that a failed loop is never restarted. `LifeSpec` of `MetricCollector` is this
specification under the mapping `phaseOf`, `holderOf`, `leaf`.

**AppLogic.** A goroutine is a record `th[p]`: which loop it is in (`job`: the
watcher's `gone` and `fresh`, a Set's `update` and `delete`), the targets still
to visit (Go ranges over maps and slices in an order nobody relies on), and the
target, configuration and collector in hand. `pc` splits a loop body where
another goroutine can come between: `stop` (blocked in `Stop`), `erase`
(delete from the map), `dial` (inside `New`), `start` (the map is read again),
`publish` (between marshalling the state and writing it). A collector is a
handle `col[i]` seen as in `CollectorLife`: its target, its configuration, how
many run loops it has and whether it is armed; `RunArms` is `BecomesStoppable`,
`StopReturn` is `StopReturns`, `LoopDies` is `Fails`. `DialFail` stores `Nil`,
the nil interface. `MapRace` is Go's "concurrent map writes" fatal error, which
the runtime may but need not raise. `crashed` is any panic. The content of a
configuration is the number of the Set that brought it; 0 is nil data.

`faulted` is history: one of the faults has happened. `Served` speaks of the time
before, and `DiesOfNil` says that nothing panics in it.

Two constants say what the environment does. `Faults` is the set of things
that may go wrong: a dial refused, a stream broken, a List refused, a
configuration that does not unmarshal. `Overlap` says whether a Set can run
while another or a tick does. Nothing in the code prevents overlap:
`Overlap = FALSE` is an assumption about the callers, and a property checked
only under it is a statement about the sequential behaviour. It also lets a
call begin only when the loops started before are armed (a few instructions).

**ConfigSet.** `th[p]` is a goroutine: the reconciler, or one that serves another
client. Its `pc` walks through a Set: `write` and `delete` (the updates and
deletes of the request against the config cache, one entry at a time), `read`
(`GetJson` of what the cache now holds), `lookup` and `attach`
(`HandleConfigEvent` looks for the collector object, `CreateChild` makes one),
`apply` (`UpdateConfig`), `marshal` and `publish` (`UpdateStateCache`). `goal`,
`puts` and `dels` are the request, `d` the JSON in hand, `res` the object in
hand. Each write, the read and the publication can fail; the Set then returns,
its permit with it, and nothing is undone; `troubles.failed` remembers since the
last restart which of them did. The reconciler fetches the resource
(`Fetch`), has it validated (`Validate`: the schema has no leaf references and
the root path neither a parent nor keys, so that of all validators can do only
the refused permit of `GetConfig` is left, `ValidateFails`), reads the config cache by a Get (`Observe`), computes the request as
`processObserve` does (`Delta`) and Sets it, or finds the resource up to date.
`Restart` loses everything but the Kubernetes resource: nothing in the program
writes the status that `GetInitialState` would restore.

**DesiredState** says that what is served is always something that was asked for
as a whole, or nothing. `DesiredSpec` of `ConfigSet` is this specification for
`spec`, `past` and the data of the attached object.

**TargetCache** says that targets get and lose their caches one at a time, and
that a cache goes only while its target is not on the list. `CacheSpec` of
`AppLogic` is this specification for `config` and `cached`.

**Subscribe.** `call[s]` is a Subscribe call with the goroutines that it starts:
`pc` its own place (`wait` is the loop over `errChan`, which never ends),
`handler` the place of `handleSubscriptionRequest` (or of the goroutine of mode
ONCE), `sender` that of `sendStreamingResults`, `reg` the paths registered,
`todo` those still to query, `queue` the coalescing queue. Queues hold leaves,
not values: `leaf[n]` is what a leaf says now, and the sender sends that. A
deletion is a leaf of its own that is in no tree. A Set writes the config cache,
then the state cache (`WriteState`), then the match is told (`TellState`); a
Subscribe can come between the last two. `last` and `snap` are history: what was
sent, and what the cache held when the call began.

**MetricServer.** A goroutine is named by its way down the tree, and `wg[n]` is
the counter of the wait group that goroutine `n` waits on. `run` are the
goroutines that have not done their first step. `Current` is the loop variable
of `Collect`, which the queries read; the first element of a name is the copy
`targetName`, which becomes the label. `kept` is history: what was cached all
through the scrape.

**Series.** `up[l]` is the goroutine of the cached leaf `l` on its way through
`getLabels`: the element it is at, the keys still to come (Go hands them out in
any order), the name as far as it is joined and the two slices of labels. A name
is the sequence of its words: the regular expression makes underscores of what
separates them, and joining with another underscore is joining the words, so
that different names can become one as in the code. A name with underscores in
front has empty words there, which `metricName` trims (`Trimmed`). `Make` is
`metricName`, `NewDesc` and `MustNewConstMetric`, which panics on whatever is
refused (`Accepts`): no name or one that begins with a digit, a label that begins
with a digit or with two underscores, a label that comes twice. `Digits` are the
words that begin with a digit, `Prefix` gives the prefix of the entry a leaf is
collected for, which is any string.

**Startup.** `proc` is the process: `main` the step of `RunE` to come, the rest
what its goroutines have come to. `Exit` forgets it all. A listener that is
`starting` asks for its port once and is then `listening` or `lost`. The
environment holds ports, takes the API server away, signals and starts the
process again.

Operators whose comment begins "Seeded fault" are variants of the definition
after them with a plausible bug; they are part of no specification. They show
that each property can fail: `PROJECT.json` lists which fault breaks which.

## 3. Runs

| run | question | answer |
|---|---|---|
| `collector` | one collector, all interleavings with the feed and the cache's other users: `TypeOK`, `StopIsClean`, `StoredPrefix`, `AbsentIsEmpty`, `LifeSpec`, `StopReturnsOrLoopDied` | hold (85,726 states) |
| `collector_stop` | does a Stop return? `StopReturns` | no, see 6 |
| `applogic_serial` | one call at a time, every fault: `TypeOK`, `CollectorsHaveCache`, `ActiveSwitchIsBacked`, `DeleteStopsListed`, `UsesCollectors`, `DiesOfNil`, and before the first fault `Served` | hold (1.54 million states) |
| `applogic_ends` | overlap, links fail: does every tick and every Set end (`OperationsEnd`), and is the target cache used as promised (`CacheSpec`)? | yes, or it hangs in Stop on a dead loop, or the process died; yes |
| `applogic_one` | is there one collector per target? `OneCollectorPerTarget` | no, see 6 |
| `config_faults` | every step can fail, another client Gets, restarts: `DesiredSpec`, `UpToDateIsServed`, `StateFollows`, `DesiredIsServed` | hold (731,786 states) |
| `config_clients` | another client Sets, every step can fail, a restart: `TypeOK`, `PermitsAccounted` | hold (1.25 million states) |
| `config_repair` | is a resource that is up to date served also after a failed Set? `RepairedIsServed` | no, see 6 |
| `subscribe` | two calls, Sets, a client that may leave: `TypeOK`, `NothingMissed`, `SyncMeansComplete`, `SpotsAccounted`, `NeverOlder`, `ViewConverges`, `GoneFreesSpot` | hold (441,301 states) |
| `scrape` | a scrape while targets, samples and configuration change: `TypeOK`, `NoSendAfterReturn`, `SampleOfItsTarget`, `ScrapeIsComplete`, `ScrapeEnds` | hold (451,964 states) |
| `series` | three of eighteen leaves at a time, all orders of their keys: `ExportedAsNamed`, `EntriesAreDistinct` | hold (204,619 states) |
| `startup` | exits, signals, ports of others, outages: `TypeOK`, `AnswersAreReady`, `NothingBeforeMetrics`, `ComesUp`, `Reconciles` | hold (3,033 states) |

What the properties mean:

- `StopIsClean`: once Stop has returned, the loop is over, the subscription
  cancelled and no notification half handled; and a loop that ended in good
  order ended by serving a Stop.
- `StoredPrefix`: the numeric samples of the current notification already
  passed are stored under its timestamp, unless the target was dropped since.
- `AbsentIsEmpty`: no samples of a target that is not cached.
- `StopReturnsOrLoopDied`: a Stop returns, or its loop died of a stream error.
- `Served`: before any fault, once a Set is answered and nothing moves, each
  configured target has a running collector with the configuration that the
  state cache reports.
- `DiesOfNil`: the process dies only after a fault, and then of the nil that a
  failed dial left in the map, when a loop comes to it, or of a run loop without a
  configuration; never of a Stop before the cancel function is there.
- `DeleteStopsListed`: when the state is withdrawn, no listed target has a
  collector any more, also one that only a Set served or whose tick was
  abandoned.
- `CacheSpec`: a cache goes only while its target is not on the list.
- `CollectorsHaveCache`: a mapped collector has a cache to write to.
- `ActiveSwitchIsBacked`: the active list is only switched when each target
  that joins has a collector and each that leaves has neither collector nor
  cache.
- `UsesCollectors`: what a tick, a Set or the end of a run does to a collector is
  a step that `CollectorLife` allows: one Start, then one Stop, and after that
  nothing refers to it any more.
- `DesiredSpec`: the collector resource never runs a mixture of two contents,
  though a Set writes entry by entry and can stop anywhere.
- `PermitsAccounted`: permits left and calls in progress add up.
- `UpToDateIsServed`: a resource that the reconciler finds up to date runs,
  unless a Set of this process failed before it told the collector resource.
- `DesiredIsServed`: when edits and restarts cease and the other clients rest,
  what is asked for comes to be served, with the same exception. A resource
  without entries is excepted too (see 6).
- `StateFollows`: when no Set is in progress and none has failed, the state
  shows every entry of the configuration as configured.
- `NothingMissed`: what a stream was sent and what it has queued leave its
  client with what the state cache holds, for every path already queried,
  whatever fell between registration and query or was coalesced.
- `SyncMeansComplete`: the marker comes after everything that was there when the
  call began and still is.
- `SpotsAccounted`: spots left, live calls and the spots lost to unrecognised
  modes add up.
- `NeverOlder`: what is sent about a path does not go back in time.
- `ViewConverges`: a client that stays is left with the state cache's content.
- `GoneFreesSpot`: a client that leaves frees its spot.
- `NoSendAfterReturn`: no goroutine of a scrape outlives `Collect`.
- `SampleOfItsTarget`: a sample's label names the target it was read from.
- `ScrapeIsComplete`: what stays cached is reported, for every target up to the
  first one that lost its cache.
- `ScrapeEnds`: a scrape returns whatever its targets do, or a missing
  description ended the process.
- `ExportedAsNamed`: a leaf is exported under the name of its path with every
  key as the label that belongs to it, in whatever order the keys came, and the
  process dies only of a leaf that cannot be exported so: two of its labels
  coincide, or Prometheus refuses a label or the name, prefix included.
- `EntriesAreDistinct`: two entries of the same lists never become one series.
- `AnswersAreReady`: who reaches the gNMI server finds semaphores, event
  handlers and initial state.
- `NothingBeforeMetrics`: without a metric server there is neither a gNMI server
  nor a reconciler.
- `ComesUp`: when the ports are free and the API server answers for good, the
  process comes to manage, its metric server up.
- `Reconciles`: then the reconciler reaches its server again and again, unless
  the gNMI listener was lost.

`CHECK_DEADLOCK FALSE` is in every configuration because the system really can
stop: a panic ends the process, a Stop can hang, a Subscribe never returns, all
leaves are exported, the bounded number of Sets, edits and troubles is used up.

## 4. Fairness and bounds

Fairness. `MetricCollector!FairSpec` has weak fairness of the run goroutine's
own steps: the Go scheduler runs a goroutine that is ready. It has none for the
feed, the holder or the network. It has strong fairness of `StopSend`: Go's
select chooses at random among ready cases, so a Stop that is offered again and
again is not passed over for ever, however fast samples arrive.
`AppLogic!FairSpec` has weak fairness of each goroutine's steps and of
`RunArms`; a dial is such a step because gnmic's timeout ends it one way or the
other. Ticks, Sets and faults have no fairness.
`ConfigSet!FairSpec` has weak fairness of the reconciler's steps: it comes back
after its poll interval, and its calls run. Failing steps have none; they are
bounded, which stands for faults that cease.
`Subscribe!FairSpec` has weak fairness of the steps of a call, of its handler
and of its sender, each on its own, and of a Set that is under way. That a
sender goes on assumes that a client which has not left reads what it is sent;
nothing makes a client leave, a query fail or a Set begin.
`MetricServer!FairSpec` has weak fairness of the goroutines of a scrape taken
together: each takes finitely many steps, so all of them come to be done. That a
send is possible is the registry's promise to read the channel until it closes
it. Changes of the caches have no fairness.
`Startup!FairSpec` has weak fairness of `RunE` (a retry is the step that is not
yet enabled), of the gNMI server's goroutine, of the reconciler (the work queue
tries a failed reconcile again) and of the kubelet, which starts an ended
container again. The environment frees ports and comes back without fairness:
`ComesUp` and `Reconciles` assume it in their left sides.

Bounds. One collector: two leaves, timestamps 1 and 2, notifications of up to
two samples. Those are the least with which a notification has a stored prefix,
a stale sample and another leaf behind it. Application logic: two targets (one
joins, one leaves, and a failed dial of one can cut off the other), one Set
goroutine beside the watcher, three Sets (first configuration, change, delete
or change again), and two or four handles. A handle that no map entry, no
goroutine and no run loop refers to is reused, so `Ids` bounds the collectors
that exist at a time, the leaked ones included: when none is free `DialOk`
waits. Four are enough for two targets with one leaked collector each.
In `applogic_ends` the handle bound cannot block the dial, which may also fail.
Configuration: two entries with two values each, so that a Set has an update
and a delete, or two updates, between which it can fail; three edits (create,
change, withdraw), two failures or restarts between them. `config_clients` has
one value, two collector objects (two first Sets can make both) and as many
permits as threads; the permits are only counted, so more of them show nothing
new. Subscriptions: two leaves of the schema, three Sets (a leaf can be made,
deleted and made again), one spot that two calls compete for; the second call
asks for an unrecognised mode, which needs no more than a spot. There is one
Set at a time: two that overlap can tell of a deletion and a rewrite in the
wrong order, which no code prevents, and then `NothingMissed` and
`ViewConverges` need not hold. Scrapes: two targets in either order, a
configuration with two overlapping entries, one with a single entry, an empty
one and one without a description; a path with two samples. While a scrape runs
two changes can happen (a target leaves the list and then the cache); between
scrapes there is no bound, so that every state of the caches is a state to
start from. Scrapes share nothing but the caches, so one at a time is enough.
Series: leaves with one and with two keys, a list in a list, a list whose name
comes twice, names that contain what separates names, a key that collides with
the label of the target, names with underscores in front (`_lag`, `_5g`,
`__meta`), and entries with a prefix, with none and with one that begins with a
digit; three at a time, because a duplicate needs two.
Process: three troubles (a port taken, an outage, a signal), so that the
process can be ended once while a port is taken and the API server is away.
Symmetry is used for entries (`ConfigSet`) and for targets and handles
(`AppLogic`) in runs without liveness properties.

## 5. Proofs

Checked by TLAPS for every value of the constants that the named assumptions of
the modules allow. These say what the code cannot be without: bounds are natural
numbers, model values are distinct, what is finite in a process (its goroutines,
calls, targets, metrics and leaves) is a finite set, and a path is a sequence of
elements with a name and a map of keys, each name of at least one word
(`LeavesAssumption` of `Series`). TLC
evaluates each of them in a run.

Three hypotheses stand in the theorems that need them, never in a module:

- `~ClientsSet` (`ConfigSet`): nobody but the reconciler Sets. With other writers
  a mixture of two contents is possible, and TLC shows it.
- `OneAtATime` (`SubscribeStream_proofs`): one goroutine serves the Sets, any
  number of them one after the other. Nothing in the code orders two that
  overlap; what then goes wrong is the hazard at `subscribe.go:269`.
- `~Overlap` (`AppLogic`): neither a tick nor a Set begins while another is under
  way or a collector that was started has not come to its select. The code does not
  enforce it; it holds when ticks and Sets are far apart. What overlap does is the
  subject of the three configurations `MCAppLogicOverlap*.cfg` in section 6.

The last two are the settings of the runs `subscribe` and `applogic_serial`, and
the first that of all runs of `ConfigSet` but `config_clients`: each theorem
extends what its run checks to every number of targets, collectors, calls and
leaves, and to every bound on Sets and faults.

`MetricCollector_proofs`: `TypeCorrect`, `StopIsCleanHolds`,
`AbsentIsEmptyHolds`, `StoredPrefixHolds` and `ImplementsLife`. The inductive
invariant adds two facts to `TypeOK`. The first (`HandlingNote`) ties the run
goroutine's place to what it holds: in `handle` it has a notification of kind
update with `pos` at most one past the end, elsewhere it has none. `TypeOK`
needs it, because `HandleUpdate` increments `pos`. The second (`Stopped`) ties
the holder to the loop and the cancellation: `stopping` means cancelled,
`stopped` means cancelled and ended, `ended` means stopped. `AbsentIsEmpty` and
`StoredPrefix` are then inductive relative to it. The refinement is one step of
each kind: the initial states map to `LifeInit`, and each action maps to the
`CollectorLife` action of the same meaning or to a stutter.

`AppLogic_proofs`: `TypeCorrect` and `ImplementsTargetCache`, both for any
overlap and any faults. `TypeOK` needs `RoundOpen`: while the watcher is in its
loops a round is open, so that `round - 1` stays a natural number. The refinement
of `TargetCache` needs `GoneIsGone`: what the watcher has still to visit in its
loop over gone targets, and the one it is at, are not on the list. `Notify`
makes it true, only a tick changes the list, and a tick begins only when that
loop is over.

`CollectorsHaveCacheHolds`, `ActiveSwitchIsBackedHolds`,
`DeleteStopsListedHolds` and `ServedHolds` are for `~Overlap`. The first three hold under every fault and rest on `SInv`. `Alone` says that at
most one goroutine is at work; on it `Working` can say for that one what its
job is and what is left of it (`Job`), what it knows of the target in its hand
(`Hand`) and what it has done for those it has visited (`Visited`). `Hand` is
why `CollectorsHaveCache` is inductive: who dials for a target has added its
cache, and no one else has been at work since. `Visited` with nothing left to
visit is `ActiveSwitchIsBacked` and `DeleteStopsListed`. After a crash only
`CollectorsHaveCache` is claimed. `ServedHolds` asks for a process without faults
so far and rests on `FInv`: something to do means there is a
configuration and an observer (`Configured`), every entry of the map but the
one in a hand has been started (`Started`), what may be stopped is armed
(`Armed`), so that Stop and Start do not panic; and `Serving` says which
targets run a collector with the configuration: those that an update or a tick
has been through, and at rest all that are listed, but for the ones a tick that
is not over has still to adopt.

`UsesCollectorsHolds` ties the two modules of a collector together. `AppLogic`
keeps of a collector no more than whether it is armed, how many run loops it has
and its configuration; under the mapping `Life(i)` every step of `AppLogic`
is, for every collector, a step of `CollectorLife` or a stutter (`Lives`), and
`ImplementsLife` says that `MetricCollector` implements the same
`CollectorLife`. So the application logic never asks of a collector what the
collector's own proofs do not cover: no second Start, no Stop before the cancel
function is there. It is for `~Overlap` and every fault; the invariant `LInv`
says that what is in the map is at its start, armed or running, and what a
goroutine that stops or starts one knows of it (`Held`). A collector that is
overwritten in the map while it runs may go on; what the theorem asks is that a
handle is made anew only when it is out of the map and runs no loop.
`DiesOfNilHolds` names every way in which the process can end: before a fault
there is none (`FInv`), and after it there are the nil that a failed dial left in
the map, when a loop comes to it, and a run loop without a configuration
(`NilFound` of `OInv`, with `LInv`). With overlap both fail, as TLC shows.

`OperationsAdvanceHolds` is for any overlap and any faults: whatever changes a
goroutine that is in the middle of a tick or a Set ends its work or takes it
on, to fewer targets or further with the one in hand (`Onward`). It is the part
of `OperationsEnd` that needs no fairness: no tick and no Set goes round in
circles, so one that does not end is one that waits. `HandsInv` says what it has
in hand, so that the target it is at is one that was left to do.

`ConfigSet_proofs`: `ImplementsDesired`, that `Spec` implements `DesiredSpec`
when nobody but the reconciler Sets (`~ClientsSet`; with other writers a mixture
of two contents is possible, and TLC shows it). The invariant `IInv` behind it,
theorem `Invariance`, says where a Set is: `Carried` ties the config cache to the
request in hand (the cache, with what is still to be written and deleted, makes
the `goal`), so that when everything is written the JSON read back is the goal,
a content that was asked for as a whole; from there to `Apply` the goroutine
carries it in `d`. A failing step leaves the request, and the invariant asks
nothing of a goroutine that rests: that is why a mixture stays in the config
cache and never reaches the collector object. The refinement then has `Edit` as
`Ask`, `Restart` as `Forget`, `Apply` as `Serve` and stutters for the rest.
`UpToDateIsServedHolds` and `StateFollowsHolds` rest on a second invariant,
`FInv`, relative to the first. `Follows` says how far the collector object is
behind the config cache at each step of a Set: not at all when none is in
progress, and the JSON in hand is the config cache from `lookup` to `apply`; it
is asked for while only publications have failed. `Shows` says the same of the
state cache, while nothing has failed.
`ShownWasAskedForHolds` asks less of the state cache and after every fault:
entries that left the configuration stay in it, but each has a value that the
resource once asked for. On the way there is always a whole content
(`ToBeShown`), which is the refinement's invariant once more.
`PermitsAccountedHolds` and `TypeCorrect` are for any number of clients, whoever
Sets. The account is inductive by itself, once a step is known to move one
goroutine (`Held` is what it holds before and after). `TypeOK` needs in addition
what a goroutine has in hand (`InHand`): data that it has read, and an object
that has data.

`Subscribe_proofs`: `SpotsAccountedHolds` and `TypeCorrect`, for any number of
calls and of goroutines that Set. `TInv` adds to the types that a Set in progress
has a number (`SettersBusy`) and that a sender runs only for a call that has
registered (`Staged`), so that the spot passes from the call to its sender
without being counted twice.

`SubscribeStream_proofs`: `NeverOlderHolds`, `SyncMeansCompleteHolds` and
`NothingMissedHolds`, one Set at a time. Queues hold leaves and not values, so
the invariants first order the leaves (`CacheInv`): a version belongs to one leaf,
the tree holds the one written last for its path, and so does a Set that has still
to tell of what it wrote. Then the leaves of a path stand in a queue in the order
of their versions, none older than what was sent (`Ordered`); this is
`NeverOlder`. `SInv` follows a stream: a leaf that was there when it began has
still to be queried, is queued before the marker, or was sent (`Covered`); and the
leaf that was written last is queued, or was sent, or there is none and the
client knows of none, unless a Set is about to tell of it (`UpToDate`, `Pending`).
`Pending` is where a second Set would break the proof.

`MetricServer_proofs`: `TypeCorrect`, `NoSendAfterReturnHolds`,
`SampleOfItsTargetHolds` and `ScrapeIsCompleteHolds`, for every interleaving of
the goroutines with each other and with the other users of the caches. The
goroutines of a target are a tree in which every one waits for those below it
(`TreeOf`): its wait group is exactly their number. So `wg` is never negative,
a parent goes on only when nothing is left below it, and when `Collect` goes on
to the next target or returns the tree is gone (`Phases`); all of its nodes
carry the target that the loop is at, which is why the shared loop variable
does no harm. `CInv` adds what the scrape owes: a sample that was cached all
along has been sent or a goroutine is on its way to it (`Paid`), and a scrape
that stopped short met a target without a cache (`Stopped`).

`NobodyWaitsForNothingHolds` and `ScrapeAdvancesHolds` follow a scrape to its
end. A tree of goroutines that all wait has a leaf, and a leaf waits for nobody
(`TreeGoesOn`): while `Collect` waits some goroutine can go on, so that a scrape
cannot deadlock. And each step of a scrape ends it or makes a row of natural
numbers smaller, the first that changes deciding (`Nearer`): what is left of the
loop over the targets, the goroutines of each of the three levels that have not
done their first step, and those that wait; the steps of the caches' other users
leave it alone. What is left of `ScrapeEnds` is that a goroutine
that can run does.

`Series_proofs`: `ExportedAsNamedHolds` and `EntriesAreDistinctHolds`, for
every set of paths, every prefix and any number of goroutines. The two slices of `getLabels`
hold the target and then each key that has been seen, once, in the order in
which the map gave them out; `Collected` says so with a function from the
places of the slices onto the keys seen. With all keys seen the pairs are
`LabelsOf` the path, whatever the order; and paths of one schema with the same
labels have the same keys. So what `NewDesc` refuses (`Accepts`, a name or a
label that is none or two labels that coincide) is what cannot be had of the path
in any order (`Exportable`). The name is joined from the elements of a path that
may have any length. That what has been joined so far is the name so far
(`Named`, `JoinedTo`) is an induction over that length; it is made without the
library's induction theorems, whose parameter is an operator: were there a
length at which it fails there would be a least one (`WFMin` of
`WellFoundedInduction`, on a set of numbers), and the step leads down from it.

`Startup_proofs`: `TypeCorrect`, `AnswersAreReadyHolds` and
`NothingBeforeMetricsHolds`. The invariant `Ready` ties what the goroutines have
come to to how far `RunE` had come when it started them: from the step after
`NewGnmi` on, and whenever the gNMI server's goroutine exists, the handlers and
the initial state are there; from the step after `StartMetrics` on, and whenever
that goroutine or the reconciler exists, the metric server listens.

Only model-checked: the liveness properties (`StopReturnsOrLoopDied`,
`OperationsEnd`, `DesiredIsServed`, `ViewConverges`, `GoneFreesSpot`,
`ScrapeEnds`, `ComesUp`, `Reconciles`). Fairness and ENABLED are beyond TLAPS
1.4.5; of `OperationsEnd` and `ScrapeEnds` the part that is not fairness is
proved. Every inductive invariant was checked by TLC on the instance of a run
before it was proved, and so were `UsesCollectors`, `OperationsAdvance` and
`ScrapeAdvances`.

## 6. Where comments and code differ

Three have a run that ends in a counterexample, and `PROJECT.json` quotes their
lines.

- `collector_stop`: "metric collector exists stop and start". Stop cancels the
  stream and then waits for the loop's select. The cancellation itself can
  reach the loop as a stream error, on which it returns; Stop then waits for
  ever, and with it the Set or the watcher.
- `applogic_one`: "stop and start the collectors". A Set starts a collector for
  a target that no tick has made active; the next tick takes the target for
  new, overwrites the entry and the first collector runs on out of reach.
- `config_repair`: "resource is up to date". Observe compares the resource with
  the config cache. A Set that failed half way has changed that cache and not
  told the collector resource; if the cache agrees with the resource by then,
  it is never told.

The others have a configuration beside the runs. TLC ends each with a
counterexample:

- `MCAppLogicGoneTargetStopped`: "check for deleted targets". Only active ones
  are looked at: a target that a Set served and that leaves before a tick
  adopted it keeps its collector and its cache.
- `MCAppLogicDeletedStaysDeleted`: "delete all the metriccollectors that are
  active". The delete goes through the targets listed at that moment, not
  through the collectors there are.
- `MCAppLogicFoundIsRunning`: "handleTargetUpdate target running". After a
  failed dial the handler returns before it adopts the new list. A target
  stopped in the same round stays in the old one and is not served when it
  returns.
- `MCAppLogicMappedCanBeStopped`: "metric collector exists stop and start". A
  failed dial puts a nil interface in the map; the next Set calls Stop on it.
- `MCAppLogicOverlap`: a tick and a Set that both create a collector for a target
  overwrite each other's entry of the map, and each then starts what it finds
  there: one collector is started twice, the other one never (`UsesCollectors`).
- `MCAppLogicOverlapServed`: a tick reads the configuration for a dial, a Set
  brings a new one, and the entry of the tick is the last. The Set is answered and
  the state shows its configuration, but the target runs the old one (`Served`).
- `MCAppLogicOverlapCache`: a tick drops the cache of a target that left while a Set
  creates a collector for it from the list it began with (`CollectorsHaveCache`).
- `MCConfigSetOthersSet`: the reconciler's Observe falls between another client's
  write of the config cache and its news to the collector resource. What it takes
  for up to date is not served yet (`UpToDateIsServed`).
- `MCConfigSetConfigIsApplied`: "handles config updates as a transaction". Two
  Sets at a time apply their readings of the cache in either order, and two
  first Sets can each make a collector object, one of which is lost.
- `MCConfigSetEmptyIsApplied`: "aggregate all updates and map them to the
  resources". Deleting the last entry makes an update without data, which the
  collector resource is not told of.
- `MCConfigSetStateShowsData`: "update the state cache". Entries that left the
  configuration stay in it.
- `MCStartupLostServerEndsProcess`: "unable to start grpc server". A listener
  that finds its port taken hands the error to a channel that nobody reads; the
  process goes on without a gNMI server.
- `MCStartupWatcherGoesOn`: "get targets". A List that fails once ends the
  watcher, and the process goes on without it.
- `MCStartupOneAnswer`: `handleRestconf` has no return after `http.Error`, so a
  request gets an error and a document.
- `MCSeriesLeavesAreDistinct`: "prometheus names should all be _ based". Leaves
  of different schemas become one series (`state/in-octets` and
  `state-in/octets`), of which the registry drops one.
- `MCSeriesNoPanic`: a leaf that Prometheus refuses ends the process at its
  first sample. Two keys that become one label are refused (a list below a list
  of the same name, or the key `name` of a list `target`); so are a reserved
  label (a key of a list `__meta`) and a name that begins with a digit: the prefix
  of an entry is a string that nothing validates (`5g`), and `metricName` takes the
  underscore away that an element `_5g` begins with.
- `MCSubscribeGoneIsRemoved`: "defer remove()". `errChan` is never closed, so
  the call never returns and its paths stay registered.
- `MCMetricServerOthersReported`: a scrape stops at the first listed target
  without a cache; no text says otherwise, but the targets behind it, whose
  samples are cached, are not reported.
- `MCMetricServerNoCrash`: "description,omitempty" of the API. A metric without
  a description ends the process when its first sample is exported.

## 7. Not modelled

Leaked goroutines are not counted (`startSubscription` and the goroutine that
`Start` hands its error channel to never end). `RemoveTargetObserver` and the
watcher's `stopCh` are never used by the program. The content of
configurations, paths, samples and labels is abstracted to what the properties
tell apart: an entry of a configuration is a number, a sample is there or not,
a path is the set of leaves below it. In `Subscribe` the leaves of the config
cache pass through the queue (both caches feed the one match, though
`server.go:148` calls it "only used for statecache for now") but what they say
is not recorded. The deletions of a notification and the path of its prefix,
which `handleSubscription` does not look at, are not part of a notification
here. A target is its name: that a node comes back with another address, which
`handleTargetUpdate` does not notice, is not seen. The lists of targets and of
observers are read and replaced in one step, though nothing locks them (the
race on the map of collectors is `MapRace`). `handleRestconf` answers from the
state cache; what it says is not modelled, and neither is `restconf.Serve`, which
nobody calls. Leader election and the probes belong to the manager of
controller-runtime. The components with status `not_modelled` in
`PROJECT.json` carry their reason there.

## 8. Plan

The order was by how much of the program depends on a part: the collector, the
application logic around it, the way of a configuration to it, the two servers
that read the caches, and the process around them. Every component with
behaviour of its own has its module. Every safety property and every action
property that a run checks to hold is proved. What could still be said:

1. `AppLogic` with overlap: what remains of `CollectorsHaveCache` and `Served` when
   a Set and a tick meet (they fail as they stand), for instance for targets that
   neither of the two has on its list of work.
2. `Subscribe` with two Sets at a time: `NeverOlder` and `NothingMissed` for the
   paths that only one of them writes.
3. `MetricServer` on top of `TargetCache`: that what the other users of the caches
   may do in it is what `AppLogic` is proved to do.
4. A shorter proof of the steps of a stream in `SubscribeStream_proofs`.
