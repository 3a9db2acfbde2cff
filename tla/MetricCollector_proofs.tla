----------------------- MODULE MetricCollector_proofs -----------------------
(* What holds of one metric collector whatever the leaves, the timestamps  *)
(* and the size of a notification are.                                     *)
EXTENDS MetricCollector, TLAPS

(* A notification is a sequence of at most MaxUpdates updates.             *)
LEMMA UpdatesAreSequence ==
    ASSUME NEW m \in Notifications
    PROVE  /\ m.ups \in Seq(Updates) /\ Len(m.ups) <= MaxUpdates
           /\ m.ts \in Times
<1>1. PICK n \in 0 .. MaxUpdates : m.ups \in [1 .. n -> Updates]
  BY DEF Notifications
<1>2. m.ups \in Seq(Updates) /\ Len(m.ups) = n
  BY <1>1, BoundsAssumption
<1>3. m.ts \in Times
  BY BoundsAssumption DEF Notifications, Times
<1> QED BY <1>1, <1>2, <1>3, BoundsAssumption

----------------------------------------------------------------------------
(* While run() handles a notification, note is that notification and pos   *)
(* at most one past its end.                                               *)
HandlingNote ==
    /\ run = "handle" => note \in Notifications /\ pos <= Len(note.ups) + 1
    /\ run # "handle" => note = Nothing

(* Stop has been served exactly by the run loop that ended.                *)
Stopped ==
    /\ owner \in {"stopping", "stopped"} => cancelled
    /\ owner = "stopped" => run = "ended"
    /\ run = "ended" => owner = "stopped"
    /\ owner = "new" => run = "none"

IInv == TypeOK /\ HandlingNote /\ Stopped

LEMMA InitInv == Init => IInv
<1> SUFFICES ASSUME Init PROVE IInv
  OBVIOUS
<1> USE BoundsAssumption
<1>1. EmptyCache \in [Paths -> Times]
  BY DEF EmptyCache, Times
<1>2. leaf \in [Paths -> Times]
  BY <1>1 DEF Init
<1>3. pos \in 1 .. MaxUpdates + 1
  BY DEF Init
<1>4. TypeOK
  BY <1>2, <1>3 DEF Init, TypeOK
<1> QED
  BY <1>4 DEF Init, IInv, HandlingNote, Stopped

LEMMA NextInv == IInv /\ [Next]_vars => IInv'
<1> SUFFICES ASSUME IInv, [Next]_vars PROVE IInv'
  OBVIOUS
<1> USE BoundsAssumption
<1>1. CASE Start
  BY <1>1 DEF Start, IInv, TypeOK, HandlingNote, Stopped, noteVars, cacheVars
<1>2. CASE Arm
  BY <1>2 DEF Arm, IInv, TypeOK, HandlingNote, Stopped, noteVars, cacheVars
<1>3. CASE SpawnSubscription
  BY <1>3 DEF SpawnSubscription, IInv, TypeOK, HandlingNote, Stopped,
              noteVars, cacheVars
<1>4. CASE Receive
  <2>1. out.kind = "update" => out \in Notifications
    BY DEF IInv, TypeOK, Nothing, Sync, Failure
  <2> QED
    BY <1>4, <2>1 DEF Receive, BeginNotification, IInv, TypeOK, HandlingNote,
                      Stopped, noteVars, cacheVars
<1>5. CASE ReceiveError
  BY <1>5 DEF ReceiveError, IInv, TypeOK, HandlingNote, Stopped,
              noteVars, cacheVars
<1>6. CASE HandleUpdate
  <2> DEFINE u == note.ups[pos]
  <2>1. /\ note \in Notifications /\ note.ts \in Times
        /\ Len(note.ups) \in Nat /\ Len(note.ups) <= MaxUpdates
    BY <1>6, UpdatesAreSequence DEF HandleUpdate, IInv, HandlingNote
  <2>2. CASE ~IsNumeric(u)
    <3>1. pos' = pos + 1 /\ UNCHANGED <<run, note, leaf>>
      BY <1>6, <2>2 DEF HandleUpdate
    <3> QED
      BY <1>6, <2>1, <3>1 DEF HandleUpdate, IInv, TypeOK, HandlingNote, Stopped
  <2>3. CASE IsNumeric(u) /\ ~Refuses(u, note.ts)
    <3>1. /\ pos' = pos + 1 /\ UNCHANGED <<run, note>>
          /\ leaf' = [leaf EXCEPT ![u.path] = note.ts]
      BY <1>6, <2>3 DEF HandleUpdate
    <3>2. leaf' \in [Paths -> Times]
      BY <2>1, <3>1 DEF IInv, TypeOK
    <3> QED
      BY <1>6, <2>1, <3>1, <3>2
      DEF HandleUpdate, IInv, TypeOK, HandlingNote, Stopped
  <2>4. CASE IsNumeric(u) /\ Refuses(u, note.ts)
    <3>1. EndNotification /\ UNCHANGED leaf
      BY <1>6, <2>4 DEF HandleUpdate
    <3>2. pos' \in 1 .. MaxUpdates + 1
      BY <3>1 DEF EndNotification
    <3>3. note' = Nothing /\ run' = "select"
      BY <3>1 DEF EndNotification
    <3> QED
      BY <1>6, <3>1, <3>2, <3>3
      DEF HandleUpdate, IInv, TypeOK, HandlingNote, Stopped
  <2> QED BY <2>2, <2>3, <2>4
<1>7. CASE HandleDone
  BY <1>7 DEF HandleDone, EndNotification, IInv, TypeOK, HandlingNote,
              Stopped, cacheVars
<1>8. CASE StopCancel
  BY ZenonT(30), <1>8
  DEF StopCancel, Alive, IInv, TypeOK, HandlingNote, Stopped, noteVars,
      cacheVars
<1>9. CASE StopSend
  BY <1>9 DEF StopSend, IInv, TypeOK, HandlingNote, Stopped,
              noteVars, cacheVars
<1>10. CASE Feed
  BY <1>10 DEF Feed, Subscribe, FeedDeliver, FeedReturn, IInv, TypeOK,
               HandlingNote, Stopped, noteVars, cacheVars
<1>11. CASE TargetRemoved
  <2>1. EmptyCache \in [Paths -> Times]
    BY DEF EmptyCache, Times
  <2>2. /\ leaf' \in [Paths -> Times] /\ present' \in BOOLEAN
        /\ UNCHANGED <<owner, run, sub, feed, out, note, pos, cancelled>>
    BY <1>11, <2>1 DEF TargetRemoved, noteVars
  <2>3. TypeOK'
    BY <2>2 DEF IInv, TypeOK
  <2> QED
    BY <2>2, <2>3 DEF IInv, HandlingNote, Stopped
<1>12. CASE TargetAdded
  BY <1>12 DEF TargetAdded, IInv, TypeOK, HandlingNote, Stopped, noteVars
<1>13. CASE UNCHANGED vars
  BY <1>13 DEF vars, IInv, TypeOK, HandlingNote, Stopped
<1> QED
  BY <1>1, <1>2, <1>3, <1>4, <1>5, <1>6, <1>7, <1>8, <1>9, <1>10, <1>11,
     <1>12, <1>13 DEF Next, RunLoop

LEMMA SpecInv == Spec => []IInv
BY InitInv, NextInv, PTL DEF Spec

(* Every variable keeps the type its declaration names; in particular the  *)
(* position never leaves the notification (handler.go, l. 29).             *)
THEOREM TypeCorrect == Spec => []TypeOK
<1>1. IInv => TypeOK
  BY DEF IInv
<1> QED BY <1>1, SpecInv, PTL

(* When Stop has returned the run loop is over, the subscription is        *)
(* cancelled and no notification is half handled, and the only loop that   *)
(* ends in good order is one that served a Stop (collector.go, Stop, run). *)
THEOREM StopIsCleanHolds == Spec => []StopIsClean
<1>1. IInv => StopIsClean
  BY DEF IInv, Stopped, HandlingNote, StopIsClean
<1> QED BY <1>1, SpecInv, PTL

----------------------------------------------------------------------------
(* What is in the cache *)

LEMMA AbsentNext == IInv /\ AbsentIsEmpty /\ [Next]_vars => AbsentIsEmpty'
<1> SUFFICES ASSUME IInv, AbsentIsEmpty, [Next]_vars PROVE AbsentIsEmpty'
  OBVIOUS
<1>1. CASE HandleUpdate
  BY <1>1 DEF HandleUpdate, Refuses, AbsentIsEmpty
<1>2. CASE TargetRemoved \/ TargetAdded
  BY <1>2 DEF TargetRemoved, TargetAdded, AbsentIsEmpty
<1>3. CASE UNCHANGED cacheVars
  BY <1>3 DEF cacheVars, AbsentIsEmpty, EmptyCache
<1> QED
  BY <1>1, <1>2, <1>3
  DEF Next, RunLoop, Feed, vars, cacheVars, Start, Arm, SpawnSubscription,
      Receive, ReceiveError, HandleDone, StopCancel, StopSend, Subscribe,
      FeedDeliver, FeedReturn

(* A target that is not in the cache has no samples in it: a sample that   *)
(* is handled while the target is dropped is refused (handler.go, l. 47).  *)
THEOREM AbsentIsEmptyHolds == Spec => []AbsentIsEmpty
<1>1. Init => AbsentIsEmpty
  BY DEF Init, AbsentIsEmpty
<1> QED BY <1>1, SpecInv, AbsentNext, PTL DEF Spec

LEMMA PrefixNext == IInv /\ StoredPrefix /\ [Next]_vars => StoredPrefix'
<1> SUFFICES ASSUME IInv, StoredPrefix, [Next]_vars, run' = "handle",
                    NEW i \in 1 .. pos' - 1, note'.ups[i].numeric
             PROVE  leaf'[note'.ups[i].path] \in {note'.ts, 0}
  BY DEF StoredPrefix
<1> USE BoundsAssumption
<1>1. CASE Receive
  <2>1. CASE run = "handle"
    BY <1>1, <2>1 DEF Receive
  <2>2. CASE run # "handle"
    <3>1. pos' = 1
      BY <1>1, <2>2 DEF Receive, BeginNotification
    <3> QED BY <3>1
  <2> QED BY <2>1, <2>2
<1>2. CASE HandleUpdate
  <2>1. /\ note \in Notifications /\ note.ups \in Seq(Updates)
        /\ pos \in 1 .. Len(note.ups) /\ Len(note.ups) \in Nat
    BY <1>2, UpdatesAreSequence
    DEF HandleUpdate, IInv, TypeOK, HandlingNote
  <2>2. run = "handle" /\ note' = note /\ pos' = pos + 1
    BY <1>2 DEF HandleUpdate, EndNotification
  <2>3. /\ i \in 1 .. Len(note.ups) /\ note.ups[i] \in Updates
        /\ note.ups[i].path \in Paths
    <3>1. i \in 1 .. Len(note.ups)
      BY <2>1, <2>2
    <3>2. note.ups[i] \in Updates
      BY <2>1, <3>1
    <3> QED BY <3>1, <3>2 DEF Updates
  <2>4. leaf \in [Paths -> Times]
    BY DEF IInv, TypeOK
  <2>5. CASE ~IsNumeric(note.ups[pos])
    <3>1. leaf' = leaf
      BY <1>2, <2>5 DEF HandleUpdate
    <3>2. i # pos
      BY <2>2, <2>5 DEF IsNumeric
    <3>3. i \in 1 .. pos - 1
      BY <2>1, <2>2, <3>2
    <3> QED BY <2>2, <3>1, <3>3 DEF StoredPrefix
  <2>6. CASE IsNumeric(note.ups[pos])
    <3>1. leaf' = [leaf EXCEPT ![note.ups[pos].path] = note.ts]
      BY <1>2, <2>2, <2>6 DEF HandleUpdate, EndNotification
    <3>2. CASE note.ups[i].path = note.ups[pos].path
      BY <2>2, <2>3, <2>4, <3>1, <3>2
    <3>3. CASE note.ups[i].path # note.ups[pos].path
      <4>1. i \in 1 .. pos - 1
        BY <2>1, <2>2, <3>3
      <4> QED BY <2>2, <2>3, <2>4, <3>1, <3>3, <4>1 DEF StoredPrefix
    <3> QED BY <3>2, <3>3
  <2> QED BY <2>5, <2>6
<1>3. CASE TargetRemoved
  <2>1. run = "handle" /\ note' = note /\ pos' = pos /\ leaf' = EmptyCache
    BY <1>3 DEF TargetRemoved, noteVars
  <2>2. note.ups \in Seq(Updates) /\ pos <= Len(note.ups) + 1
    BY <2>1, UpdatesAreSequence DEF IInv, HandlingNote
  <2>3. i \in 1 .. Len(note.ups)
    BY <2>1, <2>2 DEF IInv, TypeOK
  <2>4. note.ups[i] \in Updates
    BY <2>2, <2>3
  <2>5. note.ups[i].path \in Paths
    BY <2>4 DEF Updates
  <2> QED BY <2>1, <2>5 DEF EmptyCache
<1>4. CASE UNCHANGED <<run, note, pos, leaf>>
  BY <1>4 DEF StoredPrefix
<1>5. ~(Start \/ Arm \/ SpawnSubscription \/ ReceiveError \/ HandleDone
        \/ StopSend)
  BY DEF Start, Arm, SpawnSubscription, ReceiveError, HandleDone,
         EndNotification, StopSend
<1> QED
  BY <1>1, <1>2, <1>3, <1>4, <1>5
  DEF Next, RunLoop, Feed, vars, noteVars, cacheVars, StopCancel,
      Subscribe, FeedDeliver, FeedReturn, TargetAdded

(* The numeric samples that were looked at are in the cache, in the order  *)
(* of the notification, unless the target was dropped meanwhile            *)
(* (handler.go, l. 29-51).                                                 *)
THEOREM StoredPrefixHolds == Spec => []StoredPrefix
<1>1. Init => StoredPrefix
  BY DEF Init, StoredPrefix
<1> QED BY <1>1, SpecInv, PrefixNext, PTL DEF Spec

----------------------------------------------------------------------------
(* Refinement of CollectorLife *)

LEMMA InitLife == Init => Life!LifeInit
BY BoundsAssumption
   DEF Init, Life!LifeInit, phaseOf, holderOf, Times, EmptyCache

(* A step that leaves the mapped variables alone.                          *)
LEMMA Hidden ==
    ASSUME UNCHANGED <<phaseOf, holderOf, leaf>>
    PROVE  [Life!LifeNext]_Life!lifeVars
BY DEF Life!lifeVars

LEMMA NextLife == IInv /\ [Next]_vars => [Life!LifeNext]_Life!lifeVars
<1> SUFFICES ASSUME IInv, [Next]_vars
             PROVE  [Life!LifeNext]_Life!lifeVars
  OBVIOUS
<1> USE DEF Alive
<1>1. CASE Start
  <2>1. Life!StartReturns
    BY <1>1 DEF Start, IInv, Stopped, Life!StartReturns, phaseOf, holderOf,
                cacheVars
  <2> QED BY <2>1 DEF Life!LifeNext
<1>2. CASE Arm
  <2>1. Life!BecomesStoppable
    BY <1>2 DEF Arm, IInv, TypeOK, Life!BecomesStoppable, phaseOf, holderOf,
                cacheVars
  <2> QED BY <2>1 DEF Life!LifeNext
<1>3. CASE SpawnSubscription
  BY <1>3, Hidden DEF SpawnSubscription, phaseOf, holderOf, cacheVars
<1>4. CASE Receive
  BY <1>4, Hidden
  DEF Receive, BeginNotification, phaseOf, holderOf, cacheVars
<1>5. CASE ReceiveError
  <2>1. Life!Fails
    BY <1>5 DEF ReceiveError, IInv, TypeOK, Life!Fails, phaseOf, holderOf,
                cacheVars
  <2> QED BY <2>1 DEF Life!LifeNext
<1>6. CASE HandleUpdate
  <2>1. CASE UNCHANGED leaf
    BY <1>6, <2>1, Hidden
    DEF HandleUpdate, EndNotification, phaseOf, holderOf
  <2>2. CASE leaf' # leaf
    <3>1. UNCHANGED <<run, owner>> /\ run = "handle"
      BY <1>6, <2>2 DEF HandleUpdate
    <3>2. leaf' \in [Paths -> Times]
      BY NextInv DEF IInv, TypeOK
    <3>3. Life!StoresSamples
      BY <1>6, <3>1, <3>2
      DEF HandleUpdate, IInv, TypeOK, Life!StoresSamples, phaseOf, holderOf
    <3> QED BY <3>3 DEF Life!LifeNext
  <2> QED BY <2>1, <2>2
<1>7. CASE HandleDone
  BY <1>7, Hidden DEF HandleDone, EndNotification, phaseOf, holderOf, cacheVars
<1>8. CASE StopCancel
  <2>1. Life!StopIsCalled
    BY <1>8 DEF StopCancel, IInv, TypeOK, Life!StopIsCalled, phaseOf, holderOf,
                cacheVars
  <2> QED BY <2>1 DEF Life!LifeNext
<1>9. CASE StopSend
  <2>1. Life!StopReturns
    BY <1>9 DEF StopSend, Life!StopReturns, phaseOf, holderOf, cacheVars
  <2> QED BY <2>1 DEF Life!LifeNext
<1>10. CASE Feed
  BY <1>10, Hidden DEF Feed, Subscribe, FeedDeliver, FeedReturn,
                       phaseOf, holderOf, cacheVars
<1>11. CASE TargetRemoved
  <2>1. Life!CacheDropped
    BY <1>11 DEF TargetRemoved, Life!CacheDropped, phaseOf, holderOf
  <2> QED BY <2>1 DEF Life!LifeNext
<1>12. CASE TargetAdded
  BY <1>12, Hidden DEF TargetAdded, phaseOf, holderOf
<1>13. CASE UNCHANGED vars
  BY <1>13, Hidden DEF vars, phaseOf, holderOf
<1> QED
  BY <1>1, <1>2, <1>3, <1>4, <1>5, <1>6, <1>7, <1>8, <1>9, <1>10, <1>11,
     <1>12, <1>13 DEF Next, RunLoop

(* The goroutines behind a collector show its holder nothing but a         *)
(* CollectorLife: no sample before it runs or after Stop returned, no Stop *)
(* that returns without a live run loop (collector.go, Start, run, Stop).  *)
THEOREM ImplementsLife == Spec => LifeSpec
<1>1. Spec => []IInv
  BY SpecInv
<1> QED
  BY <1>1, InitLife, NextLife, PTL DEF Spec, LifeSpec, Life!LifeSpec
============================================================================
