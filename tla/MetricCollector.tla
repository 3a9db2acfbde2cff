-------------------------- MODULE MetricCollector --------------------------
(***************************************************************************)
(* One metric collector (internal/metriccollector): the goroutine of its   *)
(* holder, which calls Start and later Stop; the goroutine of run();  the  *)
(* goroutine of startSubscription(); and the goroutine in which gnmic's    *)
(* Target.Subscribe feeds the two unbuffered channels that run() reads.    *)
(* The target cache is openconfig's: it refuses a sample older than the    *)
(* one it holds, and a sample of a target it does not have.                *)
(***************************************************************************)
EXTENDS Naturals, Sequences

CONSTANTS
    Paths,                 \* the leaves of the target
    MaxTime,               \* bound: device timestamps are 1 .. MaxTime
    MaxUpdates             \* bound: updates in one notification

ASSUME BoundsAssumption == MaxTime \in Nat /\ MaxUpdates \in Nat

VARIABLES
    owner,        \* new, started, stopping, stopped, panicked
    run,          \* none, spawned, armed, select, handle, failed, ended
    sub,          \* none, create, waiting
    feed,         \* none, open, returned
    out,          \* what the feed is blocked on sending (a message) or Nothing
    note,         \* the notification run() is handling
    pos,          \* the next update of note to look at
    cancelled,    \* the subscription's context is cancelled
    present,      \* the target is in the target cache
    leaf          \* timestamp of the cached sample of a path, 0: no sample

vars == <<owner, run, sub, feed, out, note, pos, cancelled, present, leaf>>
cacheVars == <<present, leaf>>
noteVars == <<note, pos>>

----------------------------------------------------------------------------
(* Messages *)

Times == 0 .. MaxTime

Updates == [path : Paths, numeric : BOOLEAN]

Notifications ==
    [kind : {"update"}, ts : 1 .. MaxTime,
     ups : UNION {[1 .. n -> Updates] : n \in 0 .. MaxUpdates}]

Nothing == [kind |-> "nothing", ts |-> 0, ups |-> <<>>]
Sync    == [kind |-> "sync",    ts |-> 0, ups |-> <<>>]
Failure == [kind |-> "error",   ts |-> 0, ups |-> <<>>]

EmptyCache == [p \in Paths |-> 0]

(* Seeded fault: the filter lets the wrong half through.                   *)
IsNumericInverted(u) == ~u.numeric

(* getFloat: booleans and non-numeric strings are filtered out.            *)
IsNumeric(u) == u.numeric

(* Seeded fault: only staleness is looked at.                              *)
RefusesStaleOnly(u, ts) == ts < leaf[u.path]

(* cache.GnmiUpdate: the cache refuses what is older than what it holds,   *)
(* and everything for a target it does not have.                           *)
Refuses(u, ts) == ~present \/ ts < leaf[u.path]

TypeOK ==
    /\ owner \in {"new", "started", "stopping", "stopped", "panicked"}
    /\ run \in {"none", "spawned", "armed", "select", "handle", "failed", "ended"}
    /\ sub \in {"none", "create", "waiting"}
    /\ feed \in {"none", "open", "returned"}
    /\ out \in Notifications \cup {Nothing, Sync, Failure}
    /\ note \in Notifications \cup {Nothing}
    /\ pos \in 1 .. MaxUpdates + 1
    /\ cancelled \in BOOLEAN
    /\ present \in BOOLEAN
    /\ leaf \in [Paths -> Times]

(* New has dialled the device; the caches may hold samples of an earlier   *)
(* collector of the same target.                                           *)
Init ==
    /\ owner = "new" /\ run = "none" /\ sub = "none" /\ feed = "none"
    /\ out = Nothing
    /\ note = Nothing /\ pos = 1
    /\ cancelled = FALSE
    /\ present \in BOOLEAN
    /\ leaf \in IF present THEN [Paths -> Times] ELSE {EmptyCache}

----------------------------------------------------------------------------
(* The run loop *)

(* A panic of one goroutine ends the process: nothing moves after it.      *)
Alive == owner # "panicked"

(* Seeded fault: an index that starts one too low.                         *)
BeginAtZero == run' = "handle" /\ note' = out /\ pos' = 0

(* The response handler's loop over the updates of a notification.        *)
BeginNotification == run' = "handle" /\ note' = out /\ pos' = 1
EndNotification   == run' = "select" /\ note' = Nothing /\ pos' = 1

(* Start: spawn run() and return.                                          *)
Start ==
    /\ Alive
    /\ owner = "new"
    /\ owner' = "started"
    /\ run' = "spawned"
    /\ UNCHANGED <<sub, feed, out, noteVars, cancelled, cacheVars>>

(* run: from here on Stop has a cancel function to call.                   *)
Arm ==
    /\ Alive
    /\ run = "spawned"
    /\ run' = "armed"
    /\ UNCHANGED <<owner, sub, feed, out, noteVars, cancelled, cacheVars>>

(* run: spawn startSubscription, take the channels, enter the loop.        *)
SpawnSubscription ==
    /\ Alive
    /\ run = "armed"
    /\ run' = "select"
    /\ sub' = "create"
    /\ UNCHANGED <<owner, feed, out, noteVars, cancelled, cacheVars>>

(* select, a response: a sync response is dropped, an update is dropped    *)
(* when the target is not in the cache; else its updates are gone through. *)
Receive ==
    /\ Alive
    /\ run = "select"
    /\ out.kind \in {"sync", "update"}
    /\ IF out.kind = "update" /\ present
       THEN BeginNotification
       ELSE UNCHANGED <<run, noteVars>>
    /\ out' = Nothing
    /\ UNCHANGED <<owner, sub, feed, cancelled, cacheVars>>

(* select, an error: run returns; gnmic will retry, run will not.          *)
ReceiveError ==
    /\ Alive
    /\ run = "select"
    /\ out = Failure
    /\ run' = "failed"
    /\ out' = Nothing
    /\ UNCHANGED <<owner, sub, feed, noteVars, cancelled, cacheVars>>

(* handleSubscription: one update.  A refused one ends the notification.   *)
HandleUpdate ==
    /\ Alive
    /\ run = "handle" /\ pos <= Len(note.ups)
    /\ LET u == note.ups[pos] IN
       \/ /\ ~IsNumeric(u)
          /\ pos' = pos + 1
          /\ UNCHANGED <<run, note, leaf>>
       \/ /\ IsNumeric(u) /\ ~Refuses(u, note.ts)
          /\ leaf' = [leaf EXCEPT ![u.path] = note.ts]
          /\ pos' = pos + 1
          /\ UNCHANGED <<run, note>>
       \/ /\ IsNumeric(u) /\ Refuses(u, note.ts)
          /\ EndNotification
          /\ UNCHANGED leaf
    /\ UNCHANGED <<owner, sub, feed, out, cancelled, present>>

(* Seeded fault: a cancelled loop stays in the handler.                    *)
HandleDoneUnlessCancelled ==
    /\ Alive /\ run = "handle" /\ pos > Len(note.ups) /\ ~cancelled
    /\ EndNotification
    /\ UNCHANGED <<owner, sub, feed, out, cancelled, cacheVars>>

HandleDone ==
    /\ Alive
    /\ run = "handle" /\ pos > Len(note.ups)
    /\ EndNotification
    /\ UNCHANGED <<owner, sub, feed, out, cancelled, cacheVars>>

----------------------------------------------------------------------------
(* Stop, called by the holder *)

(* Seeded fault: the cancel function is taken to be there.                 *)
StopCancelUnchecked ==
    /\ Alive /\ owner \in {"new", "started"}
    /\ owner' = "stopping" /\ cancelled' = TRUE
    /\ UNCHANGED <<run, sub, feed, out, noteVars, cacheVars>>

(* stopSubscription calls the cancel function, which run() has to have set.*)
StopCancel ==
    /\ Alive
    /\ owner \in {"new", "started"}
    /\ IF run \in {"none", "spawned"}
       THEN owner' = "panicked" /\ UNCHANGED cancelled
       ELSE owner' = "stopping" /\ cancelled' = TRUE
    /\ UNCHANGED <<run, sub, feed, out, noteVars, cacheVars>>

(* Seeded fault: a buffered stopCh, on which Stop does not wait.           *)
StopSendBuffered ==
    /\ Alive /\ owner = "stopping"
    /\ owner' = "stopped"
    /\ UNCHANGED <<run, sub, feed, out, noteVars, cancelled, cacheVars>>

(* c.stopCh <- true: a rendezvous with run()'s select.                     *)
StopSend ==
    /\ Alive
    /\ owner = "stopping" /\ run = "select"
    /\ owner' = "stopped"
    /\ run' = "ended"
    /\ UNCHANGED <<sub, feed, out, noteVars, cancelled, cacheVars>>

----------------------------------------------------------------------------
(* startSubscription, gnmic's feed, and the target cache's other users *)

(* startSubscription: spawn Target.Subscribe, then wait on a channel       *)
(* nobody sends on.                                                        *)
Subscribe ==
    /\ Alive
    /\ sub = "create"
    /\ sub' = "waiting"
    /\ feed' = "open"
    /\ UNCHANGED <<owner, run, out, noteVars, cancelled, cacheVars>>

(* The stream yields a message; what it has buffered may still come after  *)
(* the cancellation.                                                       *)
FeedDeliver(m) ==
    /\ Alive
    /\ feed = "open" /\ out = Nothing
    /\ out' = m
    /\ UNCHANGED <<owner, run, sub, feed, noteVars, cancelled, cacheVars>>

FeedReturn ==
    /\ Alive
    /\ feed = "open" /\ out = Nothing /\ cancelled
    /\ feed' = "returned"
    /\ UNCHANGED <<owner, run, sub, out, noteVars, cancelled, cacheVars>>

(* handleTargetUpdate of applogic removes and adds the target's cache.     *)
TargetRemoved ==
    /\ Alive
    /\ present
    /\ present' = FALSE
    /\ leaf' = EmptyCache
    /\ UNCHANGED <<owner, run, sub, feed, out, noteVars, cancelled>>

TargetAdded ==
    /\ Alive
    /\ ~present
    /\ present' = TRUE
    /\ UNCHANGED <<owner, run, sub, feed, out, noteVars, cancelled, leaf>>

----------------------------------------------------------------------------
RunLoop == Arm \/ SpawnSubscription \/ Receive \/ ReceiveError
           \/ HandleUpdate \/ HandleDone

Feed == \/ Subscribe
        \/ \E m \in Notifications \cup {Sync, Failure} : FeedDeliver(m)
        \/ FeedReturn

Next == \/ Start \/ RunLoop \/ StopCancel \/ StopSend
        \/ Feed \/ TargetRemoved \/ TargetAdded

Spec == Init /\ [][Next]_vars

(* The Go scheduler runs every ready goroutine; select picks among ready   *)
(* cases at random, so it does not pass over a waiting Stop for ever.      *)
FairSpec ==
    /\ Spec
    /\ WF_vars(Arm \/ SpawnSubscription \/ HandleUpdate \/ HandleDone)
    /\ SF_vars(StopSend)

----------------------------------------------------------------------------
(* Properties *)

(* Stop waits on cancellation and on the run loop: once it has returned    *)
(* the loop is over, the subscription is cancelled and no notification is  *)
(* left half stored by this collector, and the only loop that ends in good *)
(* order is one that served a Stop (collector.go, l. 175-181, 218-236).    *)
StopIsClean ==
    /\ owner = "stopped" => run = "ended" /\ cancelled /\ note = Nothing
    /\ run = "ended" => owner = "stopped"

(* Samples are looked at in order: the numeric ones before the current     *)
(* position are in the cache under the notification's timestamp, or were   *)
(* dropped with the target meanwhile (handler.go, l. 29-51).               *)
StoredPrefix ==
    run = "handle" =>
        \A i \in 1 .. pos - 1 : note.ups[i].numeric =>
            leaf[note.ups[i].path] \in {note.ts, 0}

(* The cache only ever holds samples of a target that is present.          *)
AbsentIsEmpty == ~present => leaf = EmptyCache

(* A Stop that does not return is one whose run loop died of an error.     *)
StopReturnsOrLoopDied ==
    owner = "stopping" ~> (owner = "stopped" \/ run = "failed")

(* "metric collector exists stop and start" (applogic/collector.go:252):   *)
(* the holder starts the next collector when Stop has returned.            *)
StopReturns == owner = "stopping" ~> owner = "stopped"

----------------------------------------------------------------------------
(* The collector implements CollectorLife. *)

phaseOf ==
    CASE run = "none"    -> "created"
      [] run = "spawned" -> "starting"
      [] run \in {"armed", "select", "handle"} -> "running"
      [] run = "failed"  -> "failed"
      [] run = "ended"   -> "stopped"

holderOf ==
    CASE owner \in {"new", "started"} -> "holding"
      [] owner = "stopping" -> "stopping"
      [] owner = "stopped"  -> "released"
      [] owner = "panicked" -> "panicked"

Life == INSTANCE CollectorLife WITH
            phase <- phaseOf, holder <- holderOf, store <- leaf,
            Stores <- [Paths -> Times], EmptyStore <- EmptyCache

(* A collector is no more than what CollectorLife lets its holder expect:  *)
(* in particular it stores nothing before it runs and nothing after Stop   *)
(* has returned (collector.go, Start, run and Stop).                       *)
LifeSpec == Life!LifeSpec
============================================================================
