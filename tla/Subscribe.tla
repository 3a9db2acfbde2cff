----------------------------- MODULE Subscribe -----------------------------
(***************************************************************************)
(* gNMI Subscribe (internal/gnmiserver/subscribe.go).                      *)
(*                                                                         *)
(* A call takes a spot, registers its paths with the match of the server,  *)
(* starts a goroutine that queues what the state cache holds and one that  *)
(* sends what is queued.  Meanwhile Sets write the config cache and the    *)
(* state cache; both tell the match of every leaf they write or delete     *)
(* (ConfigCacheEvents, StateCacheEvents), and the match puts the leaf into *)
(* the queue of each call that registered its path.                        *)
(*                                                                         *)
(* A queue holds leaves and not values: what is sent is the value that the *)
(* leaf has by then, and a leaf that is queued already is not queued again *)
(* (package coalesce).  A deletion is a leaf of its own.                   *)
(***************************************************************************)
EXTENDS Naturals, Sequences, FiniteSets

CONSTANTS
    Paths,         \* the leaves of the schema; every call subscribes to all
    Calls,         \* Subscribe calls, each made once
    Asks,          \* the modes that each call may ask for
    Setters,       \* goroutines that serve Sets
    MaxSpots,      \* subscription spots (64 in the program)
    MaxSets        \* bound: Sets

Caches == {"config", "state"}
Modes  == {"ONCE", "POLL", "STREAM", "UPDATES_ONLY", "UNRECOGNIZED"}
Sets   == 1 .. MaxSets           \* the n-th Set, and what it writes
Sync   == <<"sync", 0>>          \* syncMarker; other items are <<cache, n>>

ASSUME ConstantsAssumption ==
    /\ IsFiniteSet(Calls) /\ MaxSpots \in Nat /\ MaxSets \in Nat
    /\ Asks \in [Calls -> SUBSET Modes]
    /\ Paths # {}

VARIABLES
    tree,     \* per cache and path: the leaf there (named by the Set that
              \*   made it), 0 for none
    leaf,     \* each leaf of the state cache: its path, the Set that wrote
              \*   it last, and whether it is a deletion
    set,      \* the goroutines that serve Sets
    sets,     \* Sets so far
    spots,    \* spots left
    call,     \* the calls
    last      \* per call and path: what was sent last from the state cache

cacheVars == <<tree, leaf, set, sets>>
vars == <<cacheVars, spots, call, last>>

NoLeaf   == [path |-> CHOOSE p \in Paths : TRUE, ver |-> 0, del |-> TRUE]
Resting  == [pc |-> "rest", n |-> 0, path |-> NoLeaf.path, del |-> FALSE]
NotMade  == [pc |-> "new", mode |-> "POLL", reg |-> {}, todo |-> {},
             handler |-> "none", sender |-> "none", queue |-> <<>>,
             closed |-> FALSE, gone |-> FALSE, synced |-> FALSE,
             snap |-> [p \in Paths |-> 0]]
NotSent  == [ver |-> 0, del |-> TRUE]

Items == {Sync} \cup (Caches \X Sets)

TypeOK ==
    /\ tree \in [Caches -> [Paths -> 0 .. MaxSets]]
    /\ leaf \in [Sets -> [path : Paths, ver : 0 .. MaxSets, del : BOOLEAN]]
    /\ set \in [Setters ->
          [pc : {"rest", "state", "tellState"},
           n : 0 .. MaxSets, path : Paths, del : BOOLEAN]]
    /\ sets \in 0 .. MaxSets
    /\ spots \in 0 .. MaxSpots
    /\ DOMAIN call = Calls
    /\ \A s \in Calls :
          /\ call[s].pc \in {"new", "refused", "returned", "register", "wait"}
          /\ call[s].mode \in Modes
          /\ call[s].reg \subseteq Paths /\ call[s].todo \subseteq Paths
          /\ call[s].handler \in {"none", "close", "query", "done", "failed"}
          /\ call[s].sender \in {"none", "run", "ended"}
          /\ \A i \in DOMAIN call[s].queue : call[s].queue[i] \in Items
          /\ {call[s].closed, call[s].gone, call[s].synced} \subseteq BOOLEAN
          /\ call[s].snap \in [Paths -> 0 .. MaxSets]
    /\ last \in [Calls -> [Paths -> [ver : 0 .. MaxSets, del : BOOLEAN]]]

Init ==
    /\ tree = [c \in Caches |-> [p \in Paths |-> 0]]
    /\ leaf = [n \in Sets |-> NoLeaf]
    /\ set = [w \in Setters |-> Resting] /\ sets = 0
    /\ spots = MaxSpots
    /\ call = [s \in Calls |-> NotMade]
    /\ last = [s \in Calls |-> [p \in Paths |-> NotSent]]

----------------------------------------------------------------------------
(* The caches and the queues *)

(* A leaf that is queued stays where it is; a closed queue takes nothing.  *)
(* What goes into a queue that is no longer read is not recorded.          *)
Insert(q, item) ==
    IF q.closed \/ q.sender = "ended" \/ \E i \in DOMAIN q.queue : q.queue[i] = item
    THEN q
    ELSE [q EXCEPT !.queue = Append(@, item)]

(* The leaf that the n-th Set writes: the one of the path, or a new one.   *)
Written(c, p, n) == IF tree[c][p] = 0 THEN n ELSE tree[c][p]

(* UpdateNotification: the match tells every call that registered the path.*)
Tell(c, p, l) ==
    call' = [s \in Calls |-> IF p \in call[s].reg
                             THEN Insert(call[s], <<c, l>>) ELSE call[s]]

----------------------------------------------------------------------------
(* A Set: the config cache, then the state cache (see ConfigSet) *)

(* An update of a path, or the deletion of a leaf, which is told by a leaf *)
(* that is in no tree.  That the config cache is written and that it tells *)
(* the match are one step: what is sent from it is not recorded.           *)
WriteConfig(w) ==
    /\ set[w].pc = "rest" /\ sets < MaxSets
    /\ sets' = sets + 1
    /\ \E p \in Paths, del \in BOOLEAN :
         LET l == IF del THEN sets' ELSE Written("config", p, sets') IN
         /\ del => tree["config"][p] # 0
         /\ tree' = [tree EXCEPT !["config"][p] = IF del THEN 0 ELSE l]
         /\ Tell("config", p, l)
         /\ set' = [set EXCEPT ![w] = [pc |-> "state", n |-> sets',
                                       path |-> p, del |-> del]]
    /\ UNCHANGED <<leaf, spots, last>>

(* A Set that fails half way does not come to the state cache.             *)
SetFails(w) ==
    /\ set[w].pc = "state"
    /\ set' = [set EXCEPT ![w] = Resting]
    /\ UNCHANGED <<tree, leaf, sets, spots, call, last>>

(* UpdateStateCache or DeleteStateCache; there may be nothing to delete.   *)
WriteState(w) ==
    LET n == set[w].n
        p == set[w].path
        del == set[w].del
        l == IF del THEN n ELSE Written("state", p, n)
    IN
    /\ set[w].pc = "state"
    /\ IF del /\ tree["state"][p] = 0
       THEN set' = [set EXCEPT ![w] = Resting] /\ UNCHANGED <<tree, leaf>>
       ELSE /\ tree' = [tree EXCEPT !["state"][p] = IF del THEN 0 ELSE l]
            /\ leaf' = [leaf EXCEPT ![l] = [path |-> p, ver |-> n, del |-> del]]
            /\ set' = [set EXCEPT ![w].pc = "tellState", ![w].n = l]
    /\ UNCHANGED <<sets, spots, call, last>>

(* Seeded fault: deletions are not told.                                   *)
TellStateUpdates(w) ==
    /\ set[w].pc = "tellState"
    /\ IF set[w].del THEN UNCHANGED call
       ELSE Tell("state", set[w].path, set[w].n)
    /\ set' = [set EXCEPT ![w] = Resting]
    /\ UNCHANGED <<tree, leaf, sets, spots, last>>

TellState(w) ==
    /\ set[w].pc = "tellState"
    /\ Tell("state", set[w].path, set[w].n)
    /\ set' = [set EXCEPT ![w] = Resting]
    /\ UNCHANGED <<tree, leaf, sets, spots, last>>

SetStep(w) == WriteState(w) \/ TellState(w)

----------------------------------------------------------------------------
(* The call *)

(* What the switch over the modes makes of a call that has a spot.  An     *)
(* unrecognised mode returns with it.                                      *)
Dispatched(mode) ==
    LET c == [NotMade EXCEPT !.mode = mode] IN
    CASE mode = "ONCE" ->
            [c EXCEPT !.pc = "wait", !.sender = "run", !.handler = "close"]
      [] mode = "POLL" -> [c EXCEPT !.pc = "wait", !.sender = "run"]
      [] mode = "STREAM" ->
            [c EXCEPT !.pc = "register", !.snap = tree["state"]]
      [] mode = "UPDATES_ONLY" ->
            [c EXCEPT !.pc = "register", !.queue = <<Sync>>]
      [] mode = "UNRECOGNIZED" -> [c EXCEPT !.pc = "returned"]

(* The request arrives, and there is a spot or not.                        *)
Begin(s) ==
    /\ call[s].pc = "new"
    /\ IF spots = 0
       THEN call' = [call EXCEPT ![s].pc = "refused"] /\ UNCHANGED spots
       ELSE /\ spots' = spots - 1
            /\ \E mode \in Asks[s] : call' = [call EXCEPT ![s] = Dispatched(mode)]
    /\ UNCHANGED <<cacheVars, last>>

(* addSubscription: one query at a time.                                   *)
Register(s) ==
    /\ call[s].pc = "register"
    /\ \E p \in Paths \ call[s].reg :
         call' = [call EXCEPT ![s].reg = @ \cup {p}]
    /\ UNCHANGED <<cacheVars, spots, last>>

Launched(s) ==
    [call[s] EXCEPT !.pc = "wait", !.sender = "run",
        !.handler = IF call[s].mode = "STREAM" THEN "query" ELSE "none",
        !.todo = IF call[s].mode = "STREAM" THEN Paths ELSE {}]

(* Seeded fault: addSubscription returns after the first path.             *)
LaunchAfterFirst(s) ==
    /\ call[s].pc = "register" /\ call[s].reg # {}
    /\ call' = [call EXCEPT ![s] = Launched(s)]
    /\ UNCHANGED <<cacheVars, spots, last>>

(* Seeded fault: the marker is queued ahead of the leaves.                 *)
LaunchMarkerFirst(s) ==
    /\ call[s].pc = "register" /\ call[s].reg = Paths
    /\ call' = [call EXCEPT ![s] = Insert(Launched(s), Sync)]
    /\ UNCHANGED <<cacheVars, spots, last>>

(* All registered: the two goroutines start.  The call then ranges over    *)
(* errChan, which nobody closes: whatever the two report, it waits on and  *)
(* never runs its deferred remove.                                         *)
Launch(s) ==
    /\ call[s].pc = "register" /\ call[s].reg = Paths
    /\ call' = [call EXCEPT ![s] = Launched(s)]
    /\ UNCHANGED <<cacheVars, spots, last>>

ClientLeaves(s) ==
    /\ call[s].pc \in {"register", "wait"} /\ ~call[s].gone
    /\ call' = [call EXCEPT ![s].gone = TRUE]
    /\ UNCHANGED <<cacheVars, spots, last>>

----------------------------------------------------------------------------
(* handleSubscriptionRequest, and the goroutine of mode ONCE *)

CloseOnce(s) ==
    /\ call[s].handler = "close"
    /\ call' = [call EXCEPT ![s].closed = TRUE, ![s].handler = "done"]
    /\ UNCHANGED <<cacheVars, spots, last>>

Query(s) ==
    /\ call[s].handler = "query"
    /\ \E p \in call[s].todo :
         LET c == [call[s] EXCEPT !.todo = @ \ {p}] IN
         call' = [call EXCEPT ![s] = IF tree["state"][p] = 0 THEN c
                              ELSE Insert(c, <<"state", tree["state"][p]>>)]
    /\ UNCHANGED <<cacheVars, spots, last>>

QueryFails(s) ==
    /\ call[s].handler = "query" /\ call[s].todo # {}
    /\ call' = [call EXCEPT ![s].closed = TRUE, ![s].handler = "failed"]
    /\ UNCHANGED <<cacheVars, spots, last>>

QueryDone(s) ==
    /\ call[s].handler = "query" /\ call[s].todo = {}
    /\ call' = [call EXCEPT ![s] = [Insert(@, Sync) EXCEPT !.handler = "done"]]
    /\ UNCHANGED <<cacheVars, spots, last>>

HandlerStep(s) == CloseOnce(s) \/ Query(s) \/ QueryDone(s)

----------------------------------------------------------------------------
(* sendStreamingResults *)

(* Seeded fault: what came last is taken first.                            *)
TakingLast(q) == [item |-> q[Len(q)], left |-> SubSeq(q, 1, Len(q) - 1)]

Taking(q) == [item |-> Head(q), left |-> Tail(q)]

Taken(s) == [call[s] EXCEPT !.queue = Taking(@).left]

(* The sender has returned; what the client was sent is history.           *)
Ended(s, c) ==
    /\ call' = [call EXCEPT ![s] = [c EXCEPT !.sender = "ended",
                       !.queue = <<>>, !.snap = NotMade.snap]]
    /\ last' = [last EXCEPT ![s] = [p \in Paths |-> NotSent]]

(* Seeded fault: the spot is given back once by hand and once deferred.    *)
EndTwice(s, c) == spots' = spots + 2 /\ Ended(s, c)

(* Seeded fault: a return that forgets the spot.                           *)
EndHoldingSpot(s, c) == spots' = spots /\ Ended(s, c)

(* Every return gives the spot back.                                       *)
End(s, c) == spots' = spots + 1 /\ Ended(s, c)

(* The next item is sent with the value it has now.                        *)
Send(s) ==
    LET x == Taking(call[s].queue).item IN
    /\ call[s].sender = "run" /\ call[s].queue # <<>> /\ ~call[s].gone
    /\ IF x = Sync
       THEN /\ call' = [call EXCEPT ![s] = [Taken(s) EXCEPT !.synced = TRUE]]
            /\ UNCHANGED last
       ELSE LET l == leaf[x[2]] IN
            /\ call' = [call EXCEPT ![s] = Taken(s)]
            /\ last' = IF x[1] = "config" THEN last
                       ELSE [last EXCEPT ![s][l.path] =
                                [ver |-> l.ver, del |-> l.del]]
    /\ UNCHANGED <<cacheVars, spots>>

SendFails(s) ==
    /\ call[s].sender = "run" /\ call[s].queue # <<>> /\ call[s].gone
    /\ End(s, Taken(s))
    /\ UNCHANGED cacheVars

(* Seeded fault: the wait for the next item does not look at the stream.   *)
SenderEndsOnClose(s) ==
    /\ call[s].sender = "run" /\ call[s].queue = <<>> /\ call[s].closed
    /\ End(s, call[s])
    /\ UNCHANGED cacheVars

(* The queue is empty, and closed or the stream is over.                   *)
SenderEnds(s) ==
    /\ call[s].sender = "run" /\ call[s].queue = <<>>
    /\ call[s].closed \/ call[s].gone
    /\ End(s, call[s])
    /\ UNCHANGED cacheVars

SenderStep(s) == Send(s) \/ SendFails(s) \/ SenderEnds(s)

----------------------------------------------------------------------------
CallStep(s) == Register(s) \/ Launch(s)

Next ==
    \/ \E w \in Setters : WriteConfig(w) \/ SetFails(w) \/ SetStep(w)
    \/ \E s \in Calls :
          \/ Begin(s) \/ ClientLeaves(s) \/ QueryFails(s)
          \/ CallStep(s) \/ HandlerStep(s) \/ SenderStep(s)

Spec == Init /\ [][Next]_vars

(* Every goroutine that can go on does; a client that stays reads on.      *)
FairSpec ==
    /\ Spec
    /\ \A w \in Setters : WF_vars(SetStep(w))
    /\ \A s \in Calls : /\ WF_vars(CallStep(s))
                        /\ WF_vars(HandlerStep(s))
                        /\ WF_vars(SenderStep(s))

----------------------------------------------------------------------------
(* Properties *)

Version(r) == IF r.del THEN 0 ELSE r.ver

(* What the state cache holds for a path, 0 for nothing.                   *)
Current(p) == IF tree["state"][p] = 0 THEN 0
              ELSE leaf[tree["state"][p]].ver

(* A STREAM that is being served.                                          *)
Served(s) == /\ call[s].mode = "STREAM" /\ call[s].pc = "wait"
             /\ call[s].handler # "failed" /\ call[s].sender = "run"

(* What the client will hold for a path once its queue is sent.            *)
Outcome(s, p) ==
    LET q == call[s].queue
        about == {i \in DOMAIN q : /\ q[i][1] = "state"
                                   /\ leaf[q[i][2]].path = p}
    IN  IF about = {} THEN Version(last[s][p])
        ELSE LET i == CHOOSE i \in about : \A j \in about : j <= i
             IN  Version(leaf[q[i][2]])

(* No change falls between the registration and the initial query, or is   *)
(* lost in the coalescing: for every path that is queried, what was sent   *)
(* and what is queued leave the client with what the state cache holds,    *)
(* unless a Set is about to tell of the path (subscribe.go:92-96, 150-185).*)
NothingMissed ==
    \A s \in Calls, p \in Paths :
        /\ Served(s) /\ p \notin call[s].todo
        /\ \A w \in Setters : set[w].pc = "tellState" => set[w].path # p
        => Outcome(s, p) = Current(p)

(* The sync marker comes after every leaf that was in the state cache when *)
(* the call began and still is (subscribe.go:163-184).                     *)
SyncMeansComplete ==
    \A s \in Calls, p \in Paths :
        /\ call[s].mode = "STREAM" /\ call[s].synced
        /\ call[s].snap[p] # 0 /\ tree["state"][p] = call[s].snap[p]
        => last[s][p].ver >= call[s].snap[p]

(* A spot is left, in use by a call with a live sender, or lost to a call  *)
(* of an unrecognised mode (subscribe.go:73, 100, 191).                    *)
HoldsSpot(s) == call[s].pc = "register" \/ call[s].sender = "run"

SpotsAccounted ==
    spots + Cardinality({s \in Calls : HoldsSpot(s)
                                       \/ call[s].pc = "returned"}) = MaxSpots

(* What a client is sent from the state cache about a path never goes back *)
(* in time (subscribe.go:187-230).                                         *)
NeverOlder ==
    [][\A s \in Calls, p \in Paths :
          call'[s].sender = "run" => last'[s][p].ver >= last[s][p].ver]_vars

(* Once the Sets are over, a client that stays is left with what the state *)
(* cache holds (subscribe.go:102-103).                                     *)
ViewConverges ==
    \A s \in Calls :
        <>[](Served(s) /\ ~call[s].gone =>
               \A p \in Paths : Version(last[s][p]) = Current(p))

(* A client that leaves frees its spot (subscribe.go:191).                 *)
GoneFreesSpot == \A s \in Calls : call[s].gone ~> ~HoldsSpot(s)

(* A client that leaves is taken out of the match ("defer remove()",       *)
(* subscribe.go:93).  The call never returns, so it is not.                *)
GoneIsRemoved == \A s \in Calls : call[s].gone ~> call[s].reg = {}
============================================================================
