----------------------------- MODULE ConfigSet -----------------------------
(***************************************************************************)
(* The way of a configuration: from the Kubernetes resource through the    *)
(* reconciler (internal/controllers/collector) and the gNMI server's Get   *)
(* and Set (internal/gnmiserver) into the config cache, from there to the  *)
(* collector resource (internal/applogic) and into the state cache.        *)
(*                                                                         *)
(* Other gNMI clients can Get and Set beside the reconciler; a step of a   *)
(* Set can fail and return early; the process can restart, which loses all *)
(* but the Kubernetes resource.  What the collector resource does with its *)
(* targets is the subject of AppLogic.                                     *)
(***************************************************************************)
EXTENDS Naturals, FiniteSets

CONSTANTS
    Metrics,       \* the entries a configuration can have
    MaxValue,      \* bound: what an entry can say is 1 .. MaxValue
    Reconciler,    \* the goroutine of the reconciler (concurrency is 1)
    Clients,       \* goroutines that serve other gNMI clients
    ClientsSet,    \* do they Set, or only Get?
    Resources,     \* bound: collector objects made between two restarts
    None,          \* no object, nil data, no Kubernetes resource
    Gone,          \* the Kubernetes resource is being deleted
    MaxUnary,      \* unary permits (64 in the program)
    Faults,        \* the steps of a call that can fail: see AllFaults
    MaxEdits,      \* bound: edits of the Kubernetes resource
    MaxTroubles    \* bound: faults and restarts

AllFaults == {"write",     \* the config cache refuses an update
              "read",      \* GetJson fails
              "publish"}   \* the state cache refuses an update

Contents == [Metrics -> 0 .. MaxValue]       \* 0: not configured
Empty == [m \in Metrics |-> 0]
Threads == Clients \cup {Reconciler}

ASSUME ConstantsAssumption ==
    /\ MaxValue \in Nat
    /\ IsFiniteSet(Clients) /\ Reconciler \notin Clients
    /\ ClientsSet \in BOOLEAN
    /\ None \notin Resources /\ None # Gone
    /\ {None, Gone} \cap Contents = {}
    /\ MaxUnary \in Nat
    /\ Faults \subseteq AllFaults
    /\ MaxEdits \in Nat /\ MaxTroubles \in Nat

VARIABLES
    spec,         \* the Kubernetes resource
    past,         \* history: the contents it has had
    config,       \* the config cache
    child,        \* root.collectors
    data,         \* collector.data of each object
    published,    \* the state cache
    permits,      \* unary permits left
    th,           \* the goroutines
    edits,
    troubles      \* faults and restarts, and what the faults were of late

cacheVars == <<config, child, data, published>>
serverVars == <<cacheVars, permits, th>>
userVars == <<spec, past, edits>>
vars == <<spec, past, config, child, data, published, permits, th,
          edits, troubles>>

(* goal: the content asked for; puts, dels: the entries that the request   *)
(* has still to write and to delete; root: it deletes /collector itself;   *)
(* d: the JSON in hand; res: the collector object in hand.                 *)
Resting == [pc |-> "rest", goal |-> None, puts |-> {}, dels |-> {},
            root |-> FALSE, d |-> None, res |-> None]

InSet == {"write", "delete", "read", "lookup", "attach", "apply",
          "marshal", "publish"}
HoldsPermit == InSet \cup {"get"}

TypeOK ==
    /\ spec \in Contents \cup {None, Gone}
    /\ past \in SUBSET Contents
    /\ config \in Contents
    /\ child \in Resources \cup {None}
    /\ data \in [Resources -> Contents \cup {None}]
    /\ published \in Contents
    /\ permits \in 0 .. MaxUnary
    /\ th \in [Threads ->
          [pc : HoldsPermit \cup
                  {"rest", "fetched", "valid", "uptodate", "call"},
           goal : Contents \cup {None, Gone},
           puts : SUBSET Metrics, dels : SUBSET Metrics, root : BOOLEAN,
           d : Contents \cup {None}, res : Resources \cup {None}]]
    /\ edits \in 0 .. MaxEdits
    /\ troubles \in [count : 0 .. MaxTroubles, failed : SUBSET Faults]

(* New reads the status of the Kubernetes resource into the state cache;   *)
(* nothing in the program writes that status.                              *)
Volatile ==
    [config |-> Empty, child |-> None, data |-> [r \in Resources |-> None],
     published |-> Empty, permits |-> MaxUnary,
     th |-> [p \in Threads |-> Resting]]

Init ==
    /\ spec = None /\ past = {}
    /\ config = Volatile.config /\ child = Volatile.child
    /\ data = Volatile.data /\ published = Volatile.published
    /\ permits = Volatile.permits /\ th = Volatile.th
    /\ edits = 0 /\ troubles = [count |-> 0, failed |-> {}]

----------------------------------------------------------------------------
(* The user and the process *)

(* The user creates, changes or deletes the resource; a resource that is   *)
(* being deleted can come back only when the reconciler has let it go.     *)
Edit ==
    /\ edits < MaxEdits /\ spec # Gone
    /\ spec' \in Contents \cup (IF spec = None THEN {} ELSE {Gone})
    /\ spec' # spec
    /\ past' = past \cup ({spec'} \cap Contents)
    /\ edits' = edits + 1
    /\ UNCHANGED <<serverVars, troubles>>

Restart ==
    /\ troubles.count < MaxTroubles
    /\ troubles' = [count |-> troubles.count + 1, failed |-> {}]
    /\ config' = Volatile.config /\ child' = Volatile.child
    /\ data' = Volatile.data /\ published' = Volatile.published
    /\ permits' = Volatile.permits /\ th' = Volatile.th
    /\ UNCHANGED userVars

(* A Set of this process fails half way ...                                *)
Fails(fault) ==
    /\ fault \in Faults /\ troubles.count < MaxTroubles
    /\ troubles' = [count |-> troubles.count + 1,
                    failed |-> troubles.failed \cup {fault}]

(* ... or a Get does, which leaves nothing behind.                         *)
Refuses(fault) ==
    /\ fault \in Faults /\ troubles.count < MaxTroubles
    /\ troubles' = [count |-> troubles.count + 1,
                    failed |-> troubles.failed]

----------------------------------------------------------------------------
(* The reconciler *)

(* The managed reconciler reads the Kubernetes resource ...                *)
Fetch ==
    /\ th[Reconciler].pc = "rest" /\ spec # None
    /\ th' = [th EXCEPT ![Reconciler].pc = "fetched",
                        ![Reconciler].goal = spec]
    /\ UNCHANGED <<userVars, cacheVars, permits, troubles>>

(* ... and the validators pass it on: the schema has no leaf references,   *)
(* and the root path neither a parent nor keys that could have changed.    *)
(* The whole configuration they get for it asks for no path, so that only  *)
(* the permit matters.                                                     *)
Validate ==
    /\ th[Reconciler].pc = "fetched" /\ permits > 0
    /\ th' = [th EXCEPT ![Reconciler].pc = "valid"]
    /\ UNCHANGED <<userVars, cacheVars, permits, troubles>>

(* GetConfig is refused its permit.                                        *)
ValidateFails ==
    /\ th[Reconciler].pc = "fetched" /\ permits = 0
    /\ th' = [th EXCEPT ![Reconciler] = Resting]
    /\ UNCHANGED <<userVars, cacheVars, permits, troubles>>

(* Seeded fault: what is no longer wanted is overlooked.                   *)
DeltaWithoutDeletes(goal) ==
    [puts |-> {m \in Metrics : goal[m] \notin {0, config[m]}}, dels |-> {}]

(* FindResourceDelta between the specification and the config cache.       *)
Delta(goal) ==
    [puts |-> {m \in Metrics : goal[m] \notin {0, config[m]}},
     dels |-> {m \in Metrics : goal[m] = 0 /\ config[m] # 0}]

(* ... and Observe gets the config cache and decides: Delete, Create,      *)
(* Update, or up to date.  There is nothing to create without any entry.   *)
Observe ==
    LET goal == th[Reconciler].goal
        Call(puts, dels, root) ==
            /\ th' = [th EXCEPT ![Reconciler].pc = "call",
                        ![Reconciler].puts = puts,
                        ![Reconciler].dels = dels,
                        ![Reconciler].root = root]
            /\ UNCHANGED userVars
        Rest == th' = [th EXCEPT ![Reconciler] = Resting]
    IN
    /\ th[Reconciler].pc = "valid" /\ permits > 0
    /\ \/ /\ goal = Gone /\ config # Empty
          /\ Call({}, {}, TRUE)
       \/ /\ goal = Gone /\ config = Empty
          /\ Rest
          /\ spec' = None
          /\ UNCHANGED <<past, edits>>
       \/ /\ goal \in Contents /\ Delta(goal) # [puts |-> {}, dels |-> {}]
          /\ Call(Delta(goal).puts, Delta(goal).dels, FALSE)
       \/ /\ goal \in Contents /\ Delta(goal) = [puts |-> {}, dels |-> {}]
          /\ IF config = Empty
             THEN Rest
             ELSE th' = [th EXCEPT ![Reconciler].pc = "uptodate"]
          /\ UNCHANGED userVars
    /\ UNCHANGED <<cacheVars, permits, troubles>>

(* The Get fails: no permit, or no JSON.                                   *)
ObserveFails ==
    /\ th[Reconciler].pc = "valid"
    /\ \/ permits = 0 /\ UNCHANGED troubles
       \/ permits > 0 /\ Refuses("read")
    /\ th' = [th EXCEPT ![Reconciler] = Resting]
    /\ UNCHANGED <<userVars, cacheVars, permits>>

ReconcileDone ==
    /\ th[Reconciler].pc = "uptodate"
    /\ th' = [th EXCEPT ![Reconciler] = Resting]
    /\ UNCHANGED <<userVars, cacheVars, permits, troubles>>

----------------------------------------------------------------------------
(* Other clients *)

(* A client states a content entry by entry, or deletes the whole.         *)
ClientRequest(p) ==
    /\ ClientsSet /\ th[p].pc = "rest"
    /\ \E g \in Contents, root \in BOOLEAN :
         th' = [th EXCEPT ![p] = [Resting EXCEPT !.pc = "call", !.goal = g,
            !.puts = IF root THEN {} ELSE {m \in Metrics : g[m] # 0},
            !.dels = IF root THEN {} ELSE {m \in Metrics : g[m] = 0},
            !.root = root]]
    /\ UNCHANGED <<userVars, cacheVars, permits, troubles>>

(* Get: with a permit it runs to its end, without one it is refused.       *)
GetBegins(p) ==
    /\ th[p].pc = "rest" /\ permits > 0
    /\ permits' = permits - 1
    /\ th' = [th EXCEPT ![p].pc = "get"]
    /\ UNCHANGED <<userVars, cacheVars, troubles>>

GetEnds(p) ==
    /\ th[p].pc = "get"
    /\ permits' = permits + 1
    /\ th' = [th EXCEPT ![p] = Resting]
    /\ UNCHANGED <<userVars, cacheVars, troubles>>

----------------------------------------------------------------------------
(* Set *)

(* Seeded fault: released by hand and once more by the defer.              *)
LeaveTwice(p) == permits' = permits + 2 /\ th' = [th EXCEPT ![p] = Resting]

(* Every return of Set gives the permit back.                              *)
Leave(p) == permits' = permits + 1 /\ th' = [th EXCEPT ![p] = Resting]

SetBegins(p) ==
    /\ th[p].pc = "call"
    /\ IF permits > 0
       THEN permits' = permits - 1 /\ th' = [th EXCEPT ![p].pc = "write"]
       ELSE th' = [th EXCEPT ![p] = Resting] /\ UNCHANGED permits
    /\ UNCHANGED <<userVars, cacheVars, troubles>>

(* Replaces and updates first, then deletes, each a write of its own.      *)
WritePut(p) ==
    /\ th[p].pc = "write"
    /\ \E m \in th[p].puts :
         /\ config' = [config EXCEPT ![m] = th[p].goal[m]]
         /\ th' = [th EXCEPT ![p].puts = @ \ {m}]
    /\ UNCHANGED <<userVars, child, data, published, permits, troubles>>

WriteDelete(p) ==
    /\ th[p].pc = "write" /\ th[p].puts = {}
    /\ \E m \in th[p].dels :
         /\ config' = [config EXCEPT ![m] = 0]
         /\ th' = [th EXCEPT ![p].dels = @ \ {m}]
    /\ UNCHANGED <<userVars, child, data, published, permits, troubles>>

WriteRoot(p) ==
    /\ th[p].pc = "write" /\ th[p].root
    /\ config' = Empty
    /\ th' = [th EXCEPT ![p].pc = "delete"]
    /\ UNCHANGED <<userVars, child, data, published, permits, troubles>>

LeftToWrite(p) == th[p].root \/ th[p].puts \cup th[p].dels # {}

(* Seeded fault: an early return that forgets the permit.                  *)
WriteFailsHoldingPermit(p) ==
    /\ th[p].pc = "write" /\ LeftToWrite(p) /\ Fails("write")
    /\ th' = [th EXCEPT ![p] = Resting]
    /\ UNCHANGED <<userVars, cacheVars, permits>>

(* Seeded fault: the error is not looked at.                               *)
WriteErrorIgnored(p) ==
    /\ th[p].pc = "write" /\ LeftToWrite(p) /\ Fails("write")
    /\ th' = [th EXCEPT ![p].pc = "read"]
    /\ UNCHANGED <<userVars, cacheVars, permits>>

(* The early return leaves what is already written.                        *)
WriteFails(p) ==
    /\ th[p].pc = "write" /\ LeftToWrite(p) /\ Fails("write")
    /\ Leave(p)
    /\ UNCHANGED <<userVars, cacheVars>>

(* All written: one update event for /collector.                           *)
WriteDone(p) ==
    /\ th[p].pc = "write" /\ ~th[p].root
    /\ th[p].puts = {} /\ th[p].dels = {}
    /\ th' = [th EXCEPT ![p].pc = "read"]
    /\ UNCHANGED <<userVars, cacheVars, permits, troubles>>

(* DeleteChild: the object stays, with its data; its state goes.           *)
DeleteChild(p) ==
    /\ th[p].pc = "delete"
    /\ IF child = None
       THEN UNCHANGED <<published, troubles>>
       ELSE \/ published' = Empty /\ UNCHANGED troubles
            \/ Fails("publish") /\ UNCHANGED published
    /\ Leave(p)
    /\ UNCHANGED <<userVars, config, child, data>>

(* The whole of /collector is read back from the config cache.             *)
ReadConfig(p) ==
    /\ th[p].pc = "read"
    /\ th' = [th EXCEPT ![p].pc = "lookup", ![p].d = config]
    /\ UNCHANGED <<userVars, cacheVars, permits, troubles>>

ReadFails(p) ==
    /\ th[p].pc = "read" /\ Fails("read")
    /\ Leave(p)
    /\ UNCHANGED <<userVars, cacheVars>>

(* CreateChild looks the object up, or makes one ...                       *)
Lookup(p) ==
    /\ th[p].pc = "lookup"
    /\ IF child # None
       THEN th' = [th EXCEPT ![p].pc = "apply", ![p].res = child]
       ELSE \E r \in Resources :
              /\ data[r] = None /\ \A q \in Threads : th[q].res # r
              /\ th' = [th EXCEPT ![p].pc = "attach", ![p].res = r]
    /\ UNCHANGED <<userVars, cacheVars, permits, troubles>>

(* ... and puts it into the map, over what another call has put there.     *)
Attach(p) ==
    /\ th[p].pc = "attach"
    /\ child' = th[p].res
    /\ th' = [th EXCEPT ![p].pc = "apply"]
    /\ UNCHANGED <<userVars, config, data, published, permits, troubles>>

(* UpdateConfig, unless the config cache had nothing to hand on (nil).     *)
Apply(p) ==
    /\ th[p].pc = "apply"
    /\ IF th[p].d = Empty
       THEN Leave(p) /\ UNCHANGED data
       ELSE /\ data' = [data EXCEPT ![th[p].res] = th[p].d]
            /\ th' = [th EXCEPT ![p].pc = "marshal"]
            /\ UNCHANGED permits
    /\ UNCHANGED <<userVars, config, child, published, troubles>>

(* UpdateStateCache reads the data ...                                     *)
Marshal(p) ==
    /\ th[p].pc = "marshal"
    /\ th' = [th EXCEPT ![p].pc = "publish", ![p].d = data[th[p].res]]
    /\ UNCHANGED <<userVars, cacheVars, permits, troubles>>

(* Seeded fault: an entry that is already there is not written again.      *)
PublishNewOnly(p) ==
    /\ th[p].pc = "publish"
    /\ published' = [m \in Metrics |-> IF published[m] = 0 THEN th[p].d[m]
                                                           ELSE published[m]]
    /\ Leave(p)
    /\ UNCHANGED <<userVars, config, child, data, troubles>>

(* ... and writes its entries; entries that are not in it stay.            *)
Publish(p) ==
    /\ th[p].pc = "publish"
    /\ published' = [m \in Metrics |-> IF th[p].d[m] # 0 THEN th[p].d[m]
                                                         ELSE published[m]]
    /\ Leave(p)
    /\ UNCHANGED <<userVars, config, child, data, troubles>>

PublishFails(p) ==
    /\ th[p].pc = "publish" /\ Fails("publish")
    /\ Leave(p)
    /\ UNCHANGED <<userVars, cacheVars>>

----------------------------------------------------------------------------
(* The steps of a Set that nothing in its way makes fail.                  *)
SetStep(p) ==
    \/ SetBegins(p) \/ WritePut(p) \/ WriteDelete(p) \/ WriteRoot(p)
    \/ WriteDone(p) \/ DeleteChild(p) \/ ReadConfig(p)
    \/ Lookup(p) \/ Attach(p) \/ Apply(p) \/ Marshal(p) \/ Publish(p)

SetFails(p) == WriteFails(p) \/ ReadFails(p) \/ PublishFails(p)

Reconcile == \/ Fetch \/ Validate \/ Observe \/ ReconcileDone
             \/ SetStep(Reconciler)

Next ==
    \/ Edit \/ Restart
    \/ Reconcile \/ ValidateFails \/ ObserveFails
    \/ \E p \in Threads : SetFails(p)
    \/ \E p \in Clients : ClientRequest(p) \/ GetBegins(p) \/ GetEnds(p)
                          \/ SetStep(p)

Spec == Init /\ [][Next]_vars

(* The reconciler comes back after its poll interval, and a reconcile that *)
(* nothing makes fail runs to its end.                                     *)
FairSpec == Spec /\ WF_vars(Reconcile)

----------------------------------------------------------------------------
(* Properties *)

(* A permit is held by exactly the calls in progress: every early return   *)
(* of Set and Get gives it back (set.go:35-39, get.go:35-39).              *)
PermitsAccounted ==
    permits + Cardinality({p \in Threads : th[p].pc \in HoldsPermit})
        = MaxUnary

(* When the reconciler finds the resource up to date, the collector        *)
(* resource runs what it asks for ("resource is up to date",               *)
(* collectorcollector_controller.go:428): Observe looks at the config      *)
(* cache only.  Asked of a process in which no Set has failed before it    *)
(* had told the collector resource.                                        *)
Told == troubles.failed \subseteq {"publish"}

RepairedIsServed ==
    th[Reconciler].pc = "uptodate" =>
        child # None /\ data[child] = th[Reconciler].goal

UpToDateIsServed == Told => RepairedIsServed

(* Once the user stops editing, the process stops restarting and the other *)
(* clients leave it alone, the collector resource comes to run what the    *)
(* Kubernetes resource asks for (collectorcollector_controller.go,         *)
(* Observe, Create and Update), a resource without entries excepted, if no *)
(* Set failed before it had told the collector resource.                   *)
Undisturbed == Told /\ \A p \in Clients : th[p].pc = "rest"

DesiredIsServed ==
    <>[]Undisturbed =>
        <>[](spec \in Contents \ {Empty} =>
                 child # None /\ data[child] = spec)

(* When no Set is in progress and none has failed, the state shows every   *)
(* entry of the configuration as it is configured (UpdateStateCache,       *)
(* applogic/collector.go:166-200, behind set.go:122-134).  What else it    *)
(* shows is the subject of StateShowsData.                                 *)
Quiet == \A p \in Threads : th[p].pc \notin InSet

StateFollows ==
    Quiet /\ troubles.failed = {} =>
        \A m \in Metrics : config[m] # 0 => published[m] = config[m]

(* The collector resource implements DesiredState: through failing Sets    *)
(* and restarts it never runs a mixture of two contents (set.go:122-134).  *)
servedNow == IF child = None THEN None ELSE data[child]

Desired == INSTANCE DesiredState WITH
    Contents <- Contents, NoContent <- None,
    desired <- spec, past <- past, served <- servedNow

DesiredSpec == Desired!DesiredSpec

----------------------------------------------------------------------------
(* What comments of the source say and the code does not do *)

(* RepairedIsServed (above): the same comment                              *)
(* (collectorcollector_controller.go:428) makes no such exception.         *)

(* "handles config updates as a transaction" and "update the resources in  *)
(* the application logic as a single transaction" (set.go:59, 122): when   *)
(* no Set is in progress, the collector resource runs what the config      *)
(* cache holds.                                                            *)
ConfigIsApplied ==
    Quiet /\ config # Empty => child # None /\ data[child] = config

(* "aggregate all updates and map them to the resources in the application *)
(* logic" (set.go:60): that nothing is configured any more is a change     *)
(* like any other.                                                         *)
EmptyIsApplied == Quiet /\ config = Empty => published = Empty

(* "update the state cache" (applogic/collector.go:140): when no Set is in *)
(* progress the state shows no entry that the data do not have.            *)
StateShowsData ==
    Quiet /\ child # None =>
        \A m \in Metrics : data[child][m] = 0 => published[m] = 0
============================================================================
