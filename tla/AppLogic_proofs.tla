--------------------------- MODULE AppLogic_proofs ---------------------------
(* What holds of the application logic for any number of targets, of Set   *)
(* handlers and of collectors, with every fault and overlap allowed.       *)
EXTENDS AppLogic, TLAPS

USE ConstantsAssumption
USE DEF history

(* What the goroutines write about themselves has its type.                *)
LEMMA ThreadTypes ==
    ASSUME TypeOK, NEW p \in Threads, NEW t \in Targets \cup {Absent}
    PROVE  /\ Resting \in ThreadStates
           /\ Done(p, t) \in ThreadStates
           /\ Dialling(p, t) \in ThreadStates
           /\ [Dialling(p, t) EXCEPT !.id = Absent] \in ThreadStates
<1>1. th[p] \in ThreadStates /\ data \in Versions
  BY DEF TypeOK
<1>2. 0 \in Versions
  BY DEF Versions
<1>3. Resting \in ThreadStates
  BY <1>2 DEF Resting, ThreadStates
<1>4. Done(p, t) \in ThreadStates
  BY <1>1, <1>2 DEF Done, ThreadStates
<1>5. Dialling(p, t) \in ThreadStates
  BY <1>1 DEF Dialling, ThreadStates
<1>6. [Dialling(p, t) EXCEPT !.id = Absent] \in ThreadStates
  BY <1>5 DEF ThreadStates
<1> QED BY <1>3, <1>4, <1>5, <1>6

LEMMA WatcherIsThread == Watcher \in Threads /\ Setters \subseteq Threads
BY DEF Threads

(* While the watcher is at work it has an observer to notify.              *)
RoundOpen == th[Watcher].pc \notin {"rest", "dead"} => round > 0

IInv == TypeOK /\ RoundOpen

LEMMA InitInv == Init => IInv
<1> SUFFICES ASSUME Init PROVE IInv
  OBVIOUS
<1>1. 0 \in Versions
  BY DEF Versions
<1>2. Resting \in ThreadStates
  BY <1>1 DEF Resting, ThreadStates
<1>3. NoCollector \in [tgt : Targets \cup {Absent}, cfg : Versions,
                       loops : Nat, armed : BOOLEAN]
  BY <1>1 DEF NoCollector
<1>4. TypeOK
  BY <1>1, <1>2, <1>3 DEF Init, TypeOK
<1>5. RoundOpen
  BY WatcherIsThread DEF Init, RoundOpen, Resting
<1> QED BY <1>4, <1>5 DEF IInv

(* A goroutine that changes its own state.                                 *)
LEMMA OneThread ==
    ASSUME TypeOK, NEW p \in Threads, NEW r \in ThreadStates,
           th' = [th EXCEPT ![p] = r]
    PROVE  /\ th' \in [Threads -> ThreadStates]
           /\ th'[p] = r
           /\ \A q \in Threads \ {p} : th'[q] = th[q]
BY DEF TypeOK

(* Only a watcher that was resting needs an open round to become busy.     *)
LEMMA RoundKept ==
    ASSUME IInv, NEW p \in Threads, NEW r \in ThreadStates,
           th' = [th EXCEPT ![p] = r], round' = round,
           p = Watcher => th[p].pc \notin {"rest", "dead"} \/ round > 0
    PROVE  RoundOpen'
<1>1. CASE p = Watcher
  BY <1>1 DEF IInv, RoundOpen
<1>2. CASE p # Watcher
  <2>1. th'[Watcher] = th[Watcher]
    BY <1>2, OneThread, WatcherIsThread DEF IInv
  <2> QED BY <2>1 DEF IInv, RoundOpen
<1> QED BY <1>1, <1>2

(* The map after a Register of something that may be in it.                *)
LEMMA RegisterType ==
    ASSUME TypeOK, NEW p \in Threads, NEW x \in Ids \cup {Absent, Nil},
           Register(p, x)
    PROVE  mcs' \in [Targets -> Ids \cup {Absent, Nil}]
BY DEF TypeOK, Register

(* The two outcomes of a call of Stop.                                     *)
LEMMA CallStopInv ==
    ASSUME IInv, NEW p \in Threads, NEW t \in Targets, CallStop(p, t),
           th[p].pc = "loop", round' = round
    PROVE  /\ th' \in [Threads -> ThreadStates] /\ crashed' \in BOOLEAN
           /\ RoundOpen'
<1>1. CASE UNCHANGED th
  BY <1>1 DEF IInv, TypeOK, CallStop, RoundOpen
<1>2. CASE ~UNCHANGED th
  <2> DEFINE r == [th[p] EXCEPT !.pc = "stop", !.tgt = t, !.id = mcs[t]]
  <2>1. mcs[t] # Nil /\ UNCHANGED crashed /\ th' = [th EXCEPT ![p] = r]
    BY <1>2 DEF CallStop
  <2>2. mcs[t] \in Ids \cup {Absent} /\ th[p] \in ThreadStates
    BY <2>1 DEF IInv, TypeOK
  <2>3. r \in ThreadStates
    BY <2>2 DEF ThreadStates
  <2>4. th' \in [Threads -> ThreadStates]
    BY <2>1, <2>3, OneThread DEF IInv
  <2>5. RoundOpen'
    BY <2>1, <2>3, RoundKept
  <2> QED BY <2>1, <2>4, <2>5 DEF IInv, TypeOK
<1> QED BY <1>1, <1>2

----------------------------------------------------------------------------
(* The steps that every goroutine takes *)

LEMMA StopReturnInv ==
    ASSUME IInv, NEW p \in Threads, StopReturn(p) PROVE IInv'
<1>1. [th[p] EXCEPT !.pc = "erase"] \in ThreadStates
  BY DEF IInv, TypeOK, ThreadStates
<1>2. th' = [th EXCEPT ![p] = [th[p] EXCEPT !.pc = "erase"]]
  BY DEF StopReturn
<1>3. th' \in [Threads -> ThreadStates]
  BY <1>1, <1>2, OneThread DEF IInv
<1>4. col' \in [Ids -> [tgt : Targets \cup {Absent}, cfg : Versions,
                        loops : Nat, armed : BOOLEAN]]
  <2> DEFINE i == th[p].id
  <2>1. /\ col' = [col EXCEPT ![i].loops = @ - 1] /\ col[i].loops > 0
    BY DEF StopReturn
  <2>2. CASE i \in Ids
    <3>1. col[i].loops - 1 \in Nat
      BY <2>1, <2>2 DEF IInv, TypeOK
    <3> QED BY <2>1, <2>2, <3>1 DEF IInv, TypeOK
  <2>3. CASE i \notin Ids
    BY <2>1, <2>3 DEF IInv, TypeOK
  <2> QED BY <2>2, <2>3
<1>5. TypeOK'
  BY <1>3, <1>4 DEF StopReturn, resourceVars, IInv, TypeOK
<1>6. RoundOpen'
  BY <1>1, <1>2, RoundKept DEF StopReturn
<1> QED BY <1>5, <1>6 DEF IInv

LEMMA EraseInv ==
    ASSUME IInv, NEW p \in Threads, Erase(p) PROVE IInv'
<1> DEFINE t == th[p].tgt
           r == IF th[p].job = "update"
                THEN [Dialling(p, t) EXCEPT !.id = Absent] ELSE Done(p, t)
<1>1. t \in Targets \cup {Absent}
  BY DEF IInv, TypeOK, ThreadStates
<1>2. r \in ThreadStates
  BY <1>1, ThreadTypes DEF IInv
<1>3. th' = [th EXCEPT ![p] = r]
  BY DEF Erase
<1>4. th' \in [Threads -> ThreadStates]
  BY <1>2, <1>3, OneThread DEF IInv
<1>5. mcs' \in [Targets -> Ids \cup {Absent, Nil}]
  BY DEF Erase, IInv, TypeOK
<1>6. TypeOK'
  BY <1>4, <1>5 DEF Erase, IInv, TypeOK
<1>7. RoundOpen'
  BY <1>2, <1>3, RoundKept DEF Erase
<1> QED BY <1>6, <1>7 DEF IInv

LEMMA DialOkInv ==
    ASSUME IInv, NEW p \in Threads, DialOk(p) PROVE IInv'
<1>1. [th[p] EXCEPT !.pc = "start"] \in ThreadStates
  BY DEF IInv, TypeOK, ThreadStates
<1>2. th' = [th EXCEPT ![p] = [th[p] EXCEPT !.pc = "start"]]
  BY DEF DialOk
<1>3. th' \in [Threads -> ThreadStates]
  BY <1>1, <1>2, OneThread DEF IInv
<1>4. PICK i \in Ids :
        /\ col' = [col EXCEPT ![i] = [tgt |-> th[p].tgt, cfg |-> th[p].cfg,
                                      loops |-> 0, armed |-> FALSE]]
        /\ Register(p, i)
  BY DEF DialOk
<1>5. th[p].tgt \in Targets \cup {Absent} /\ th[p].cfg \in Versions
  BY DEF IInv, TypeOK, ThreadStates
<1>6. col' \in [Ids -> [tgt : Targets \cup {Absent}, cfg : Versions,
                        loops : Nat, armed : BOOLEAN]]
  BY <1>4, <1>5 DEF IInv, TypeOK
<1>7. mcs' \in [Targets -> Ids \cup {Absent, Nil}]
  BY <1>4, RegisterType DEF IInv
<1>8. TypeOK'
  BY <1>3, <1>6, <1>7 DEF DialOk, IInv, TypeOK
<1>9. RoundOpen'
  BY <1>1, <1>2, RoundKept DEF DialOk
<1> QED BY <1>8, <1>9 DEF IInv

LEMMA DialFailInv ==
    ASSUME IInv, NEW p \in Threads, DialFail(p) PROVE IInv'
<1>1. mcs' \in [Targets -> Ids \cup {Absent, Nil}]
  BY RegisterType DEF DialFail, IInv
<1>2. CASE p = Watcher
  <2>1. th' = [th EXCEPT ![Watcher] = Resting] /\ round' = round - 1
    BY <1>2 DEF DialFail, AbandonTick
  <2>2. Resting \in ThreadStates
    BY ThreadTypes DEF IInv
  <2>3. th' \in [Threads -> ThreadStates] /\ th'[Watcher] = Resting
    BY <2>1, <2>2, OneThread, WatcherIsThread DEF IInv
  <2>4. round' \in Nat
    BY <1>2, <2>1 DEF DialFail, IInv, TypeOK, RoundOpen
  <2>5. TypeOK'
    BY <1>1, <2>3, <2>4 DEF DialFail, IInv, TypeOK
  <2> QED BY <2>3, <2>5 DEF IInv, RoundOpen, Resting
<1>3. CASE p # Watcher
  <2> DEFINE r == [Resting EXCEPT !.pc = "publish", !.job = "update",
                                  !.cfg = data]
  <2>1. th' = [th EXCEPT ![p] = r] /\ round' = round
    BY <1>3 DEF DialFail
  <2>2. r \in ThreadStates
    BY ThreadTypes DEF IInv, TypeOK, ThreadStates
  <2>3. th' \in [Threads -> ThreadStates]
    BY <2>1, <2>2, OneThread DEF IInv
  <2>4. TypeOK'
    BY <1>1, <2>1, <2>3 DEF DialFail, IInv, TypeOK
  <2>5. RoundOpen'
    BY <1>3, <2>1, <2>2, RoundKept
  <2> QED BY <2>4, <2>5 DEF IInv
<1> QED BY <1>2, <1>3

LEMMA StartCollectorInv ==
    ASSUME IInv, NEW p \in Threads, StartCollector(p) PROVE IInv'
<1> DEFINE i == mcs[th[p].tgt]
           r == Done(p, th[p].tgt)
<1>1. CASE i \in Ids
  <2>1. /\ col' = [col EXCEPT ![i].loops = @ + 1]
        /\ th' = [th EXCEPT ![p] = r] /\ UNCHANGED crashed
    BY <1>1 DEF StartCollector
  <2>2. th[p].tgt \in Targets \cup {Absent}
    BY DEF IInv, TypeOK, ThreadStates
  <2>3. r \in ThreadStates
    BY <2>2, ThreadTypes DEF IInv
  <2>4. th' \in [Threads -> ThreadStates]
    BY <2>1, <2>3, OneThread DEF IInv
  <2>5. col' \in [Ids -> [tgt : Targets \cup {Absent}, cfg : Versions,
                          loops : Nat, armed : BOOLEAN]]
    BY <1>1, <2>1 DEF IInv, TypeOK
  <2>6. TypeOK'
    BY <2>1, <2>4, <2>5 DEF StartCollector, resourceVars, IInv, TypeOK
  <2>7. RoundOpen'
    BY <2>1, <2>3, RoundKept DEF StartCollector
  <2> QED BY <2>6, <2>7 DEF IInv
<1>2. CASE i \notin Ids
  <2>1. UNCHANGED <<col, th, round>> /\ crashed' = TRUE
    BY <1>2 DEF StartCollector
  <2> QED
    BY <2>1 DEF StartCollector, resourceVars, IInv, TypeOK, RoundOpen
<1> QED BY <1>1, <1>2

LEMMA CallStepInv ==
    ASSUME IInv, NEW p \in Threads, CallStep(p) PROVE IInv'
BY StopReturnInv, EraseInv, DialOkInv, DialFailInv, StartCollectorInv
   DEF CallStep

----------------------------------------------------------------------------
(* The watcher's own steps *)

LEMMA WatcherInv == ASSUME IInv, WatcherStep PROVE IInv'
<1> USE WatcherIsThread
<1>1. CASE CallStep(Watcher)
  BY <1>1, CallStepInv
<1>2. CASE Notify
  <2> DEFINE r == [Resting EXCEPT !.pc = "loop", !.job = "gone",
                                  !.todo = active \ config]
  <2>1. r \in ThreadStates
    BY ThreadTypes DEF IInv, TypeOK, ThreadStates
  <2>2. th' = [th EXCEPT ![Watcher] = r] /\ round > 0 /\ round' = round
    BY <1>2 DEF Notify
  <2>3. th' \in [Threads -> ThreadStates] /\ RoundOpen'
    BY <2>1, <2>2, OneThread, RoundKept DEF IInv
  <2> QED BY <1>2, <2>3 DEF Notify, resourceVars, IInv, TypeOK
<1>3. CASE GoneDone
  <2> DEFINE r == [th[Watcher] EXCEPT !.job = "fresh",
                                      !.todo = config \ active]
  <2>1. r \in ThreadStates
    BY ZenonT(30) DEF IInv, TypeOK, ThreadStates
  <2>2. /\ th' = [th EXCEPT ![Watcher] = r] /\ round' = round
        /\ th[Watcher].pc = "loop"
    BY <1>3 DEF GoneDone, Finished
  <2>3. th' \in [Threads -> ThreadStates] /\ RoundOpen'
    BY <2>1, <2>2, OneThread, RoundKept DEF IInv
  <2> QED BY <1>3, <2>3 DEF GoneDone, resourceVars, IInv, TypeOK
<1>4. CASE FreshDone
  <2>1. Resting \in ThreadStates
    BY ThreadTypes DEF IInv
  <2>2. /\ th' = [th EXCEPT ![Watcher] = Resting] /\ round' = round - 1
        /\ th[Watcher].pc = "loop"
    BY <1>4 DEF FreshDone, Finished
  <2>3. th' \in [Threads -> ThreadStates] /\ th'[Watcher] = Resting
    BY <2>1, <2>2, OneThread DEF IInv
  <2>4. round' \in Nat
    BY <2>2 DEF IInv, TypeOK, RoundOpen
  <2>5. TypeOK'
    BY <1>4, <2>3, <2>4 DEF FreshDone, IInv, TypeOK
  <2> QED BY <2>3, <2>5 DEF IInv, RoundOpen, Resting
<1>5. ASSUME NEW t \in Targets, GoneTarget(t) PROVE IInv'
  <2>1. th[Watcher].pc = "loop" /\ round' = round
    BY <1>5 DEF GoneTarget, InLoop
  <2>2. CASE mcs[t] = Absent
    <3>1. Done(Watcher, t) \in ThreadStates
      BY ThreadTypes DEF IInv
    <3>2. th' = [th EXCEPT ![Watcher] = Done(Watcher, t)]
      BY <1>5, <2>2 DEF GoneTarget
    <3>3. th' \in [Threads -> ThreadStates] /\ RoundOpen'
      BY <2>1, <3>1, <3>2, OneThread, RoundKept DEF IInv
    <3> QED
      BY <1>5, <2>2, <3>3 DEF GoneTarget, resourceVars, IInv, TypeOK
  <2>3. CASE mcs[t] # Absent
    <3>1. CallStop(Watcher, t) /\ UNCHANGED cached
      BY <1>5, <2>3 DEF GoneTarget
    <3>2. /\ th' \in [Threads -> ThreadStates] /\ crashed' \in BOOLEAN
          /\ RoundOpen'
      BY <2>1, <3>1, CallStopInv
    <3> QED BY <1>5, <3>1, <3>2 DEF GoneTarget, resourceVars, IInv, TypeOK
  <2> QED BY <2>2, <2>3
<1>6. ASSUME NEW t \in Targets, FreshTarget(t) PROVE IInv'
  <2>1. Dialling(Watcher, t) \in ThreadStates
    BY ThreadTypes DEF IInv
  <2>2. /\ th' = [th EXCEPT ![Watcher] = Dialling(Watcher, t)]
        /\ round' = round /\ th[Watcher].pc = "loop"
    BY <1>6 DEF FreshTarget, InLoop
  <2>3. th' \in [Threads -> ThreadStates] /\ RoundOpen'
    BY <2>1, <2>2, OneThread, RoundKept DEF IInv
  <2> QED
    BY <1>6, <2>3 DEF FreshTarget, AddToCache, resourceVars, IInv, TypeOK
<1> QED BY <1>1, <1>2, <1>3, <1>4, <1>5, <1>6 DEF WatcherStep

----------------------------------------------------------------------------
(* The steps of a Set handler *)

LEMMA SetterInv ==
    ASSUME IInv, NEW p \in Setters, SetterStep(p) PROVE IInv'
<1> USE WatcherIsThread
<1>1. CASE CallStep(p)
  BY <1>1, CallStepInv
<1>2. CASE UpdateDone(p)
  <2> DEFINE r == [th[p] EXCEPT !.pc = "publish", !.cfg = data]
  <2>1. r \in ThreadStates
    BY ZenonT(30) DEF IInv, TypeOK, ThreadStates
  <2>2. th' = [th EXCEPT ![p] = r] /\ round' = round
    BY <1>2 DEF UpdateDone
  <2>3. th' \in [Threads -> ThreadStates] /\ RoundOpen'
    BY <2>1, <2>2, OneThread, RoundKept DEF IInv
  <2> QED BY <1>2, <2>3 DEF UpdateDone, resourceVars, IInv, TypeOK
<1>3. CASE Publish(p) \/ DeleteDone(p)
  <2>1. Resting \in ThreadStates
    BY ThreadTypes DEF IInv
  <2>2. th' = [th EXCEPT ![p] = Resting] /\ round' = round
    BY <1>3 DEF Publish, DeleteDone
  <2>3. th' \in [Threads -> ThreadStates] /\ RoundOpen'
    BY <2>1, <2>2, OneThread, RoundKept DEF IInv
  <2>4. stateCache' \in Versions
    BY <1>3 DEF Publish, DeleteDone, IInv, TypeOK, ThreadStates, Versions
  <2> QED
    BY <1>3, <2>3, <2>4 DEF Publish, DeleteDone, resourceVars, IInv, TypeOK
<1>4. ASSUME NEW t \in Targets, UpdateTarget(p, t) PROVE IInv'
  <2>1. th[p].pc = "loop" /\ round' = round /\ AddToCache(t)
    BY <1>4 DEF UpdateTarget, InLoop
  <2>2. CASE mcs[t] = Absent
    <3>1. Dialling(p, t) \in ThreadStates
      BY ThreadTypes DEF IInv
    <3>2. th' = [th EXCEPT ![p] = Dialling(p, t)] /\ UNCHANGED crashed
      BY <1>4, <2>2 DEF UpdateTarget
    <3>3. th' \in [Threads -> ThreadStates] /\ RoundOpen'
      BY <2>1, <3>1, <3>2, OneThread, RoundKept DEF IInv
    <3> QED
      BY <1>4, <2>1, <3>2, <3>3
      DEF UpdateTarget, AddToCache, resourceVars, IInv, TypeOK
  <2>3. CASE mcs[t] # Absent
    <3>1. CallStop(p, t)
      BY <1>4, <2>3 DEF UpdateTarget
    <3>2. /\ th' \in [Threads -> ThreadStates] /\ crashed' \in BOOLEAN
          /\ RoundOpen'
      BY <2>1, <3>1, CallStopInv
    <3> QED
      BY <1>4, <2>1, <3>2
      DEF UpdateTarget, AddToCache, resourceVars, IInv, TypeOK
  <2> QED BY <2>2, <2>3
<1>5. ASSUME NEW t \in Targets, DeleteTarget(p, t) PROVE IInv'
  <2>1. th[p].pc = "loop" /\ round' = round
    BY <1>5 DEF DeleteTarget, InLoop
  <2>2. CASE mcs[t] = Absent
    <3>1. Done(p, t) \in ThreadStates
      BY ThreadTypes DEF IInv
    <3>2. th' = [th EXCEPT ![p] = Done(p, t)] /\ UNCHANGED crashed
      BY <1>5, <2>2 DEF DeleteTarget
    <3>3. th' \in [Threads -> ThreadStates] /\ RoundOpen'
      BY <2>1, <3>1, <3>2, OneThread, RoundKept DEF IInv
    <3> QED
      BY <1>5, <3>2, <3>3 DEF DeleteTarget, resourceVars, IInv, TypeOK
  <2>3. CASE mcs[t] # Absent
    <3>1. CallStop(p, t)
      BY <1>5, <2>3 DEF DeleteTarget
    <3>2. /\ th' \in [Threads -> ThreadStates] /\ crashed' \in BOOLEAN
          /\ RoundOpen'
      BY <2>1, <3>1, CallStopInv
    <3> QED BY <1>5, <3>2 DEF DeleteTarget, resourceVars, IInv, TypeOK
  <2> QED BY <2>2, <2>3
<1> QED BY <1>1, <1>2, <1>3, <1>4, <1>5 DEF SetterStep

LEMMA SetBeginsInv ==
    ASSUME IInv, NEW p \in Setters, SetUpdate(p) \/ SetDelete(p) PROVE IInv'
<1> USE WatcherIsThread
<1> DEFINE r(job) == [Resting EXCEPT !.pc = "loop", !.job = job,
                                     !.todo = config]
<1>1. r("update") \in ThreadStates /\ r("delete") \in ThreadStates
  BY ThreadTypes DEF IInv, TypeOK, ThreadStates
<1>2. PICK job \in {"update", "delete"} : th' = [th EXCEPT ![p] = r(job)]
  BY DEF SetUpdate, SetDelete
<1>3. th' \in [Threads -> ThreadStates]
  BY <1>1, <1>2, OneThread DEF IInv
<1>4. round' = round
  BY DEF SetUpdate, SetDelete
<1>5. RoundOpen'
  BY <1>1, <1>2, <1>4, RoundKept, p # Watcher
<1>6. sets + 1 \in Versions /\ sets' = sets + 1
  BY DEF SetUpdate, SetDelete, IInv, TypeOK, Versions
<1>7. data' \in Versions /\ observers' \in Nat
  BY <1>6 DEF SetUpdate, SetDelete, CopyConfig, RegisterTargetObserver,
                 resourceVars, IInv, TypeOK
<1>9. faulted' \in BOOLEAN
  BY DEF SetUpdate, SetDelete, CopyConfig, IInv, TypeOK
<1>8. TypeOK'
  BY <1>3, <1>6, <1>7, <1>9
  DEF SetUpdate, SetDelete, resourceVars, IInv, TypeOK
<1> QED BY <1>5, <1>8 DEF IInv

----------------------------------------------------------------------------
LEMMA NextInv == IInv /\ [Next]_vars => IInv'
<1> SUFFICES ASSUME IInv, [Next]_vars PROVE IInv'
  OBVIOUS
<1>1. CASE Tick
  BY <1>1 DEF Tick, resourceVars, IInv, TypeOK, RoundOpen
<1>2. CASE ListFail
  <2> DEFINE r == [th[Watcher] EXCEPT !.pc = "dead"]
  <2>1. r \in ThreadStates
    BY WatcherIsThread DEF IInv, TypeOK, ThreadStates
  <2>2. th' = [th EXCEPT ![Watcher] = r]
    BY <1>2 DEF ListFail
  <2>3. th' \in [Threads -> ThreadStates] /\ th'[Watcher] = r
    BY <2>1, <2>2, OneThread, WatcherIsThread DEF IInv
  <2>4. TypeOK'
    BY <1>2, <2>3 DEF ListFail, resourceVars, IInv, TypeOK
  <2> QED BY <2>1, <2>3, <2>4 DEF IInv, RoundOpen
<1>3. CASE WatcherStep
  BY <1>3, WatcherInv
<1>4. ASSUME NEW p \in Setters, SetUpdate(p) \/ SetDelete(p) PROVE IInv'
  BY <1>4, SetBeginsInv
<1>5. ASSUME NEW p \in Setters, SetterStep(p) PROVE IInv'
  BY <1>5, SetterInv
<1>6. CASE MapRace
  BY <1>6 DEF MapRace, resourceVars, IInv, TypeOK, RoundOpen
<1>7. ASSUME NEW i \in Ids, RunArms(i) PROVE IInv'
  <2>1. /\ col' \in [Ids -> [tgt : Targets \cup {Absent}, cfg : Versions,
                             loops : Nat, armed : BOOLEAN]]
        /\ crashed' \in BOOLEAN
    <3>1. CASE col[i].cfg = 0
      BY <1>7, <3>1 DEF RunArms, IInv, TypeOK
    <3>2. CASE col[i].cfg # 0
      <4>1. col' = [col EXCEPT ![i].armed = TRUE] /\ UNCHANGED crashed
        BY <1>7, <3>2 DEF RunArms
      <4> QED BY <4>1 DEF IInv, TypeOK
    <3> QED BY <3>1, <3>2
  <2> QED BY <1>7, <2>1 DEF RunArms, resourceVars, IInv, TypeOK, RoundOpen
<1>8. ASSUME NEW i \in Ids, LoopDies(i) PROVE IInv'
  <2>1. col[i].loops - 1 \in Nat
    BY <1>8 DEF LoopDies, IInv, TypeOK
  <2>2. col' \in [Ids -> [tgt : Targets \cup {Absent}, cfg : Versions,
                          loops : Nat, armed : BOOLEAN]]
    BY <1>8, <2>1 DEF LoopDies, IInv, TypeOK
  <2> QED BY <1>8, <2>2 DEF LoopDies, resourceVars, IInv, TypeOK, RoundOpen
<1>9. CASE UNCHANGED vars
  BY <1>9 DEF vars, IInv, TypeOK, RoundOpen
<1> QED
  BY <1>1, <1>2, <1>3, <1>4, <1>5, <1>6, <1>7, <1>8, <1>9 DEF Next

LEMMA SpecInv == Spec => []IInv
BY InitInv, NextInv, PTL DEF Spec

(* Every variable keeps its type; in particular no counter of run loops or *)
(* of observers still to notify goes below zero (collector.go, Stop;       *)
(* target.go, l. 168-171).                                                 *)
THEOREM TypeCorrect == Spec => []TypeOK
<1>1. IInv => TypeOK
  BY DEF IInv
<1> QED BY <1>1, SpecInv, PTL

----------------------------------------------------------------------------
(* The map *)

(* The collector that the map holds for a target is one of that target.    *)
HandleMatchesTarget ==
    \A t \in Targets : mcs[t] \in Ids => col[mcs[t]].tgt = t

(* A step that moves no collector to another target and puts nothing in    *)
(* the map.                                                                *)
LEMMA MapKept ==
    ASSUME TypeOK, TypeOK', HandleMatchesTarget,
           \A i \in Ids : col'[i].tgt = col[i].tgt,
           \A t \in Targets : mcs'[t] \in {mcs[t], Absent, Nil}
    PROVE  HandleMatchesTarget'
BY DEF HandleMatchesTarget, TypeOK

LEMMA MatchNext ==
    IInv /\ HandleMatchesTarget /\ [Next]_vars => HandleMatchesTarget'
<1> SUFFICES ASSUME IInv, HandleMatchesTarget, [Next]_vars
             PROVE  HandleMatchesTarget'
  OBVIOUS
<1> USE DEF IInv
<1>0. TypeOK'
  BY NextInv
<1>1. ASSUME NEW p \in Threads, DialOk(p) PROVE HandleMatchesTarget'
  <2>1. PICK i \in Ids :
          /\ Free(i)
          /\ col' = [col EXCEPT ![i] = [tgt |-> th[p].tgt, cfg |-> th[p].cfg,
                                        loops |-> 0, armed |-> FALSE]]
          /\ mcs' = [mcs EXCEPT ![th[p].tgt] = i]
    BY <1>1 DEF DialOk, Register
  <2> SUFFICES ASSUME NEW t \in Targets, mcs'[t] \in Ids
               PROVE  col'[mcs'[t]].tgt = t
    BY DEF HandleMatchesTarget
  <2>2. CASE t = th[p].tgt
    <3>1. mcs'[t] = i
      BY <2>1, <2>2 DEF TypeOK
    <3> QED BY <2>1, <2>2, <3>1 DEF TypeOK
  <2>3. CASE t # th[p].tgt
    <3>1. mcs'[t] = mcs[t]
      BY <2>1, <2>3 DEF TypeOK
    <3>2. mcs[t] # i
      BY <2>1 DEF Free
    <3>3. col'[mcs[t]] = col[mcs[t]]
      BY <2>1, <3>1, <3>2 DEF TypeOK
    <3> QED BY <3>1, <3>3 DEF HandleMatchesTarget
  <2> QED BY <2>2, <2>3
<1>2. ASSUME NEW p \in Threads, Erase(p) \/ DialFail(p)
      PROVE  HandleMatchesTarget'
  <2>1. col' = col /\ \A t \in Targets : mcs'[t] \in {mcs[t], Absent, Nil}
    BY <1>2 DEF Erase, DialFail, Register, TypeOK
  <2> QED BY <1>0, <2>1, MapKept
<1>3. ASSUME NEW p \in Threads, StopReturn(p) \/ StartCollector(p)
      PROVE  HandleMatchesTarget'
  <2>1. mcs' = mcs /\ \A i \in Ids : col'[i].tgt = col[i].tgt
    BY <1>3 DEF StopReturn, StartCollector, resourceVars, TypeOK
  <2> QED BY <1>0, <2>1, MapKept
<1>4. ASSUME NEW i \in Ids, RunArms(i) \/ LoopDies(i)
      PROVE  HandleMatchesTarget'
  <2>1. mcs' = mcs /\ \A j \in Ids : col'[j].tgt = col[j].tgt
    BY <1>4 DEF RunArms, LoopDies, resourceVars, TypeOK
  <2> QED BY <1>0, <2>1, MapKept
<1>5. CASE UNCHANGED <<mcs, col>>
  BY <1>5 DEF HandleMatchesTarget
<1>6. CASE WatcherStep
  BY <1>1, <1>2, <1>3, <1>5, <1>6, WatcherIsThread
  DEF WatcherStep, CallStep, Notify, GoneDone, FreshDone, GoneTarget,
      FreshTarget, resourceVars
<1>7. ASSUME NEW p \in Setters, SetterStep(p) PROVE HandleMatchesTarget'
  BY <1>1, <1>2, <1>3, <1>5, <1>7, WatcherIsThread
  DEF SetterStep, CallStep, UpdateDone, Publish, DeleteDone, UpdateTarget,
      DeleteTarget, resourceVars
<1> QED
  BY <1>4, <1>5, <1>6, <1>7
  DEF Next, Tick, ListFail, SetUpdate, SetDelete, MapRace, vars, resourceVars

LEMMA SpecMatches == Spec => []HandleMatchesTarget
<1>1. Init => HandleMatchesTarget
  BY DEF Init, HandleMatchesTarget
<1> QED BY <1>1, SpecInv, MatchNext, PTL DEF Spec

----------------------------------------------------------------------------
(* The target cache *)

(* What the watcher takes for gone is not on the list, at every step of    *)
(* its loop, and no Set handler is ever at that loop.                      *)
GoneIsGone ==
    /\ \A p \in Setters : th[p].job # "gone"
    /\ th[Watcher].job = "gone" /\ th[Watcher].pc \notin {"rest", "dead"} =>
          /\ th[Watcher].pc \in {"loop", "stop", "erase"}
          /\ th[Watcher].todo \cap config = {}
          /\ th[Watcher].pc # "loop" => th[Watcher].tgt \notin config

(* The part of GoneIsGone that speaks of one goroutine.                    *)
GoneState(p, r) ==
    r.job = "gone" =>
        /\ p = Watcher
        /\ r.pc \notin {"rest", "dead"} =>
              /\ r.pc \in {"loop", "stop", "erase"}
              /\ r.todo \cap config = {}
              /\ r.pc # "loop" => r.tgt \notin config

LEMMA GoneByThread ==
    ASSUME TypeOK PROVE GoneIsGone <=> \A p \in Threads : GoneState(p, th[p])
BY DEF GoneIsGone, GoneState, Threads

LEMMA OneMoves ==
    ASSUME TypeOK, TypeOK', GoneIsGone, config' = config,
           NEW p \in Threads, NEW r \in ThreadStates,
           th' = [th EXCEPT ![p] = r], GoneState(p, r)
    PROVE  GoneIsGone'
<1>1. \A q \in Threads : th'[q] = IF q = p THEN r ELSE th[q]
  BY DEF TypeOK
<1> QED
  BY <1>1 DEF GoneIsGone, GoneState, Threads

LEMMA CallStepGone ==
    ASSUME IInv, TypeOK', GoneIsGone, NEW p \in Threads, CallStep(p)
    PROVE  GoneIsGone'
<1> USE DEF IInv
<1> DEFINE t == th[p].tgt
<1>0. /\ config' = config /\ GoneState(p, th[p])
      /\ th[p] \in ThreadStates /\ t \in Targets \cup {Absent}
  BY GoneByThread
  DEF CallStep, StopReturn, Erase, DialOk, DialFail, StartCollector, TypeOK,
      ThreadStates
<1>1. CASE StopReturn(p)
  <2> DEFINE r == [th[p] EXCEPT !.pc = "erase"]
  <2>1. th[p].pc = "stop" /\ th' = [th EXCEPT ![p] = r]
    BY <1>1 DEF StopReturn
  <2>2. r \in ThreadStates /\ GoneState(p, r)
    BY <1>0, <2>1 DEF ThreadStates, GoneState
  <2> QED BY <1>0, <2>1, <2>2, OneMoves
<1>2. CASE Erase(p)
  <2> DEFINE d == [Dialling(p, t) EXCEPT !.id = Absent]
             r == IF th[p].job = "update" THEN d ELSE Done(p, t)
  <2>1. th[p].pc = "erase" /\ th' = [th EXCEPT ![p] = r]
    BY <1>2 DEF Erase
  <2>2. r \in ThreadStates
    BY <1>0, ThreadTypes
  <2>3. Done(p, t).job = th[p].job /\ Done(p, t).pc = "loop"
        /\ Done(p, t).todo = th[p].todo \ {t}
    BY <1>0 DEF Done, ThreadStates
  <2>4. d.job = th[p].job
    BY <1>0 DEF Dialling, ThreadStates
  <2>5. GoneState(p, r)
    BY <1>0, <2>1, <2>3, <2>4 DEF GoneState
  <2> QED BY <1>0, <2>1, <2>2, <2>5, OneMoves
<1>3. CASE DialOk(p)
  <2> DEFINE r == [th[p] EXCEPT !.pc = "start"]
  <2>1. th[p].pc = "dial" /\ th' = [th EXCEPT ![p] = r]
    BY <1>3 DEF DialOk
  <2>2. r \in ThreadStates /\ GoneState(p, r)
    BY <1>0, <2>1 DEF ThreadStates, GoneState
  <2> QED BY <1>0, <2>1, <2>2, OneMoves
<1>4. CASE DialFail(p)
  <2> DEFINE x == [Resting EXCEPT !.pc = "publish", !.job = "update",
                                  !.cfg = data]
  <2>1. th' \in {[th EXCEPT ![p] = Resting], [th EXCEPT ![p] = x]}
    BY <1>4 DEF DialFail, AbandonTick
  <2>2. Resting \in ThreadStates /\ x \in ThreadStates
    BY ThreadTypes DEF TypeOK, ThreadStates
  <2>3. GoneState(p, Resting) /\ GoneState(p, x)
    BY DEF GoneState, Resting
  <2> QED BY <1>0, <2>1, <2>2, <2>3, OneMoves
<1>5. CASE StartCollector(p)
  <2>1. th[p].pc = "start" /\ th' \in {th, [th EXCEPT ![p] = Done(p, t)]}
    BY <1>5 DEF StartCollector
  <2>2. Done(p, t) \in ThreadStates /\ Done(p, t).job = th[p].job
    <3>1. Done(p, t) \in ThreadStates
      BY <1>0, ThreadTypes
    <3>2. th[p] \in ThreadStates
      BY DEF TypeOK
    <3> QED BY <3>1, <3>2 DEF Done, ThreadStates
  <2>3. GoneState(p, Done(p, t))
    BY <1>0, <2>1, <2>2 DEF GoneState
  <2> QED BY <1>0, <2>1, <2>2, <2>3, OneMoves DEF GoneIsGone
<1> QED BY <1>1, <1>2, <1>3, <1>4, <1>5 DEF CallStep

(* What CallStop does to the goroutine that calls it.                      *)
LEMMA CallStopGone ==
    ASSUME IInv, TypeOK', GoneIsGone, config' = config,
           NEW p \in Threads, NEW t \in Targets, CallStop(p, t),
           th[p].pc = "loop", t \in th[p].todo
    PROVE  GoneIsGone'
<1> USE DEF IInv
<1> DEFINE r == [th[p] EXCEPT !.pc = "stop", !.tgt = t, !.id = mcs[t]]
<1>1. CASE UNCHANGED th
  BY <1>1 DEF GoneIsGone
<1>2. CASE ~UNCHANGED th
  <2>1. mcs[t] # Nil /\ th' = [th EXCEPT ![p] = r]
    BY <1>2 DEF CallStop
  <2>2. th[p] \in ThreadStates /\ mcs[t] \in Ids \cup {Absent}
    BY <2>1 DEF TypeOK
  <2>3. r \in ThreadStates
    BY <2>2 DEF ThreadStates
  <2>4. GoneState(p, r)
    BY <2>2, GoneByThread DEF ThreadStates, GoneState
  <2> QED BY <2>1, <2>3, <2>4, OneMoves
<1> QED BY <1>1, <1>2

LEMMA WatcherGone ==
    ASSUME IInv, TypeOK', GoneIsGone, WatcherStep PROVE GoneIsGone'
<1> USE WatcherIsThread DEF IInv
<1> DEFINE w == th[Watcher]
<1>0. w \in ThreadStates /\ GoneState(Watcher, w)
  BY GoneByThread DEF TypeOK
<1>1. CASE CallStep(Watcher)
  BY <1>1, CallStepGone
<1>2. CASE Notify
  <2> DEFINE r == [Resting EXCEPT !.pc = "loop", !.job = "gone",
                                  !.todo = active \ config]
  <2>1. r \in ThreadStates
    BY ThreadTypes DEF TypeOK, ThreadStates
  <2>2. GoneState(Watcher, r)
    BY DEF GoneState, Resting
  <2> QED BY <1>2, <2>1, <2>2, OneMoves DEF Notify
<1>3. CASE GoneDone
  <2> DEFINE r == [w EXCEPT !.job = "fresh", !.todo = config \ active]
  <2>1. r \in ThreadStates /\ r.job = "fresh"
    BY <1>0 DEF TypeOK, ThreadStates
  <2>2. th' = [th EXCEPT ![Watcher] = r] /\ config' = config
    BY <1>3 DEF GoneDone
  <2> QED BY <2>1, <2>2, OneMoves DEF GoneState
<1>4. CASE FreshDone
  <2>1. Resting \in ThreadStates /\ Resting.job = "none"
    BY ThreadTypes DEF Resting
  <2> QED BY <1>4, <2>1, OneMoves DEF FreshDone, GoneState
<1>5. ASSUME NEW t \in Targets, GoneTarget(t) PROVE GoneIsGone'
  <2>1. w.pc = "loop" /\ t \in w.todo /\ config' = config
    BY <1>5 DEF GoneTarget, InLoop
  <2>2. CASE mcs[t] = Absent
    <3>1. Done(Watcher, t) \in ThreadStates
      BY ThreadTypes
    <3>2. th' = [th EXCEPT ![Watcher] = Done(Watcher, t)]
      BY <1>5, <2>2 DEF GoneTarget
    <3>3. GoneState(Watcher, Done(Watcher, t))
      BY <1>0, <2>1 DEF Done, ThreadStates, GoneState
    <3> QED BY <2>1, <3>1, <3>2, <3>3, OneMoves
  <2>3. CASE mcs[t] # Absent
    BY <1>5, <2>1, <2>3, CallStopGone DEF GoneTarget
  <2> QED BY <2>2, <2>3
<1>6. ASSUME NEW t \in Targets, FreshTarget(t) PROVE GoneIsGone'
  <2>1. w.job = "fresh" /\ config' = config
        /\ th' = [th EXCEPT ![Watcher] = Dialling(Watcher, t)]
    BY <1>6 DEF FreshTarget, InLoop
  <2>2. Dialling(Watcher, t) \in ThreadStates
        /\ Dialling(Watcher, t).job = "fresh"
    BY <1>0, <2>1, ThreadTypes DEF Dialling, ThreadStates
  <2> QED BY <2>1, <2>2, OneMoves DEF GoneState
<1> QED BY <1>1, <1>2, <1>3, <1>4, <1>5, <1>6 DEF WatcherStep

LEMMA SetterGone ==
    ASSUME IInv, TypeOK', GoneIsGone, NEW p \in Setters,
           SetterStep(p) \/ SetUpdate(p) \/ SetDelete(p)
    PROVE  GoneIsGone'
<1> USE WatcherIsThread DEF IInv
<1>0. th[p] \in ThreadStates /\ th[p].job # "gone" /\ GoneState(p, th[p])
  BY GoneByThread DEF TypeOK, GoneIsGone
<1>1. CASE CallStep(p)
  BY <1>1, CallStepGone
<1>2. CASE UpdateDone(p)
  <2> DEFINE r == [th[p] EXCEPT !.pc = "publish", !.cfg = data]
  <2>1. r \in ThreadStates /\ r.job # "gone"
    BY <1>0 DEF TypeOK, ThreadStates
  <2>2. th' = [th EXCEPT ![p] = r] /\ config' = config
    BY <1>0, <1>2 DEF UpdateDone, TypeOK, ThreadStates
  <2> QED BY <2>1, <2>2, OneMoves DEF GoneState
<1>3. CASE Publish(p) \/ DeleteDone(p)
  <2>1. Resting \in ThreadStates /\ Resting.job = "none"
    BY ThreadTypes DEF Resting
  <2> QED BY <1>3, <2>1, OneMoves DEF Publish, DeleteDone, GoneState
<1>4. ASSUME NEW t \in Targets, UpdateTarget(p, t) \/ DeleteTarget(p, t)
      PROVE  GoneIsGone'
  <2>1. th[p].pc = "loop" /\ t \in th[p].todo /\ config' = config
    BY <1>4 DEF UpdateTarget, DeleteTarget, InLoop
  <2>2. CASE CallStop(p, t)
    BY <2>1, <2>2, CallStopGone
  <2>3. CASE ~CallStop(p, t)
    <3>1. th' \in {[th EXCEPT ![p] = Dialling(p, t)],
                   [th EXCEPT ![p] = Done(p, t)]}
      BY <1>4, <2>3 DEF UpdateTarget, DeleteTarget
    <3>2. Dialling(p, t) \in ThreadStates /\ Done(p, t) \in ThreadStates
      BY ThreadTypes
    <3>3. Dialling(p, t).job # "gone" /\ Done(p, t).job # "gone"
      BY <1>0 DEF Dialling, Done, ThreadStates
    <3> QED BY <2>1, <3>1, <3>2, <3>3, OneMoves DEF GoneState
  <2> QED BY <2>2, <2>3
<1>5. CASE SetUpdate(p) \/ SetDelete(p)
  <2> DEFINE r(job) == [Resting EXCEPT !.pc = "loop", !.job = job,
                                       !.todo = config]
  <2>1. PICK job \in {"update", "delete"} : th' = [th EXCEPT ![p] = r(job)]
    BY <1>5 DEF SetUpdate, SetDelete
  <2>2. r(job) \in ThreadStates /\ r(job).job # "gone"
    BY ThreadTypes DEF TypeOK, ThreadStates, Resting
  <2>3. config' = config
    BY <1>5 DEF SetUpdate, SetDelete
  <2> QED BY <2>1, <2>2, <2>3, OneMoves DEF GoneState
<1> QED BY <1>1, <1>2, <1>3, <1>4, <1>5 DEF SetterStep

LEMMA GoneNext == IInv /\ GoneIsGone /\ [Next]_vars => GoneIsGone'
<1> SUFFICES ASSUME IInv, GoneIsGone, [Next]_vars PROVE GoneIsGone'
  OBVIOUS
<1> USE WatcherIsThread
<1>0. TypeOK /\ TypeOK'
  BY NextInv DEF IInv
<1>1. CASE Tick
  BY <1>1 DEF Tick, GoneIsGone
<1>2. CASE ListFail
  <2>1. th'[Watcher].pc = "dead" /\ \A p \in Setters : th'[p] = th[p]
    BY <1>0, <1>2 DEF ListFail, TypeOK, ThreadStates
  <2> QED BY <2>1 DEF GoneIsGone
<1>3. CASE WatcherStep
  BY <1>0, <1>3, WatcherGone
<1>4. ASSUME NEW p \in Setters, SetUpdate(p) \/ SetDelete(p) \/ SetterStep(p)
      PROVE  GoneIsGone'
  BY <1>0, <1>4, SetterGone
<1>5. CASE UNCHANGED <<th, config>>
  BY <1>5 DEF GoneIsGone
<1> QED
  BY <1>1, <1>2, <1>3, <1>4, <1>5 DEF Next, MapRace, RunArms, LoopDies, vars

(* Every step is one of the target cache's own.                            *)
LEMMA CacheStep ==
    ASSUME IInv, GoneIsGone, [Next]_vars, TypeOK'
    PROVE  [Cache!CacheNext]_(Cache!targetVars)
<1> USE WatcherIsThread
    DEF Cache!CacheNext, Cache!targetVars, Cache!ListTargets,
        Cache!AddTarget, Cache!RemoveTarget
<1>1. CASE Tick
  BY <1>1 DEF Tick
<1>2. ASSUME NEW p \in Threads, Erase(p)
      PROVE  [Cache!CacheNext]_(Cache!targetVars)
  <2> DEFINE t == th[p].tgt
  <2>1. CASE th[p].job = "gone"
    <3>1. p = Watcher /\ t \notin config
      BY <1>2, <2>1 DEF GoneIsGone, Erase, Threads
    <3>2. cached' = cached \ {t} /\ config' = config
      BY <1>2, <2>1 DEF Erase
    <3>3. CASE t \in Targets
      BY <3>1, <3>2, <3>3
    <3>4. CASE t \notin Targets
      <4>1. t \notin cached
        BY <3>4 DEF IInv, TypeOK
      <4> QED BY <3>2, <4>1
    <3> QED BY <3>3, <3>4
  <2>2. CASE th[p].job # "gone"
    BY <1>2, <2>2 DEF Erase
  <2> QED BY <2>1, <2>2
<1>3. ASSUME NEW t \in Targets, GoneTarget(t)
      PROVE  [Cache!CacheNext]_(Cache!targetVars)
  <2>1. t \notin config
    BY <1>3 DEF GoneTarget, InLoop, GoneIsGone
  <2>2. config' = config /\ cached' \in {cached, cached \ {t}}
    BY <1>3 DEF GoneTarget
  <2> QED BY <2>1, <2>2
<1>4. ASSUME NEW t \in Targets,
             FreshTarget(t) \/ \E p \in Setters : UpdateTarget(p, t)
      PROVE  [Cache!CacheNext]_(Cache!targetVars)
  BY <1>4 DEF FreshTarget, UpdateTarget, AddToCache
<1>5. CASE UNCHANGED <<config, cached>>
  BY <1>5
<1>6. ASSUME NEW p \in Threads, CallStep(p)
      PROVE  [Cache!CacheNext]_(Cache!targetVars)
  BY <1>2, <1>5, <1>6
  DEF CallStep, StopReturn, DialOk, DialFail, StartCollector, resourceVars
<1>7. CASE WatcherStep
  BY <1>3, <1>4, <1>5, <1>6, <1>7
  DEF WatcherStep, Notify, GoneDone, FreshDone
<1>8. ASSUME NEW p \in Setters, SetterStep(p)
      PROVE  [Cache!CacheNext]_(Cache!targetVars)
  BY <1>4, <1>5, <1>6, <1>8
  DEF SetterStep, UpdateDone, Publish, DeleteDone, DeleteTarget
<1> QED
  BY <1>1, <1>5, <1>7, <1>8
  DEF Next, ListFail, SetUpdate, SetDelete, MapRace, RunArms, LoopDies, vars

(* In any overlap and under every fault the application logic uses the     *)
(* target cache as TargetCache promises: a cache goes only while its       *)
(* target is not on the list (applogic/collector.go, l. 286-297).          *)
THEOREM ImplementsTargetCache == Spec => CacheSpec
<1>1. Init => Cache!CacheInit
  BY DEF Init, Cache!CacheInit
<1>2. Init => GoneIsGone
  BY WatcherIsThread DEF Init, GoneIsGone, Resting
<1>3. IInv /\ GoneIsGone /\ [Next]_vars => GoneIsGone'
  BY GoneNext
<1>4. IInv /\ IInv' /\ GoneIsGone /\ [Next]_vars
      => [Cache!CacheNext]_(Cache!targetVars)
  BY CacheStep DEF IInv
<1> QED
  BY <1>1, <1>2, <1>3, <1>4, SpecInv, PTL
  DEF Spec, CacheSpec, Cache!CacheSpec

----------------------------------------------------------------------------
(* One operation at a time *)

Busy(p) == th[p].pc \notin {"rest", "dead"}

(* Without Overlap a Set has the resource for itself, and so has a tick.   *)
Alone ==
    /\ \A p \in Setters : th[p].pc # "dead"
    /\ \A p \in Setters : Busy(p) => round = 0
    /\ \A p, q \in Setters : Busy(p) /\ Busy(q) => p = q

(* What a goroutine is doing, and which targets it has still to visit.     *)
Job(p, r) ==
    /\ r.job \in IF p = Watcher THEN {"gone", "fresh"} ELSE {"update", "delete"}
    /\ r.pc \in {"stop", "erase"} => r.job # "fresh"
    /\ r.pc \in {"dial", "start"} => r.job \in {"fresh", "update"}
    /\ r.pc = "publish" => r.job = "update" /\ r.todo = {}
    /\ r.pc \in {"stop", "erase", "dial", "start"} => r.tgt \in r.todo
    /\ r.todo \subseteq CASE r.job = "gone"  -> active \ config
                          [] r.job = "fresh" -> config \ active
                          [] OTHER           -> config

(* What it knows of the target in its hand, for nobody else is at work.    *)
Hand(r) ==
    /\ r.pc = "stop" => r.id \in Ids /\ mcs[r.tgt] = r.id
    /\ r.pc = "start" => mcs[r.tgt] \in Ids /\ col[mcs[r.tgt]].cfg = data
    /\ r.pc = "dial" \/ (r.pc \in {"stop", "erase"} /\ r.job = "update") =>
          r.tgt \in cached
    /\ r.pc \in {"dial", "publish"} => r.cfg = data

(* What it has done for the targets that it has visited.                   *)
Visited(r) ==
    /\ r.job = "gone" =>
          \A t \in (active \ config) \ r.todo :
             mcs[t] = Absent /\ t \notin cached
    /\ r.job = "fresh" =>
          /\ \A t \in active \ config : mcs[t] = Absent /\ t \notin cached
          /\ \A t \in (config \ active) \ r.todo : mcs[t] \in Ids
    /\ r.job = "delete" => \A t \in config \ r.todo : mcs[t] = Absent

Working == \A p \in Threads :
              Busy(p) => Job(p, th[p]) /\ Hand(th[p]) /\ Visited(th[p])

(* What the state cache shows was a configuration of the resource.         *)
ShownIsData == stateCache # 0 => data # 0

SInv == /\ CollectorsHaveCache
        /\ ~crashed => Alone /\ Working /\ ShownIsData

(* Before any fault: there is a configuration when there is an observer,   *)
(* and when there is anything to do.                                       *)
Configured ==
    /\ observers > 0 => data # 0
    /\ round > 0 \/ active # {} \/ stateCache # 0 => observers > 0
    /\ \A p \in Threads : Busy(p) => observers > 0
    /\ \A i \in Ids : col[i].loops > 0 => col[i].cfg # 0

(* Every entry of the map has been started, but the one in a hand.         *)
Started ==
    \A t \in Targets :
        /\ mcs[t] # Nil
        /\ mcs[t] \in Ids =>
              \/ col[mcs[t]].loops > 0
              \/ \E p \in Threads : /\ th[p].tgt = t
                                     /\ th[p].pc \in {"stop", "erase", "start"}

(* A collector that may still be stopped is armed.                         *)
Armed ==
    /\ \A p \in Setters : Busy(p) =>
          \A t \in th[p].todo : mcs[t] \in Ids =>
              col[mcs[t]].armed \/ (th[p].tgt = t /\ th[p].pc = "start")
    /\ round > 0 => \A t \in Targets \ config :
                        mcs[t] \in Ids => col[mcs[t]].armed

Serves(t) == mcs[t] \in Ids /\ col[mcs[t]].cfg = data /\ col[mcs[t]].loops > 0

(* Which targets run a collector with the configuration.                   *)
Serving ==
    /\ round = 0 => active \subseteq config
    /\ \A p \in Threads :
          /\ Busy(p) /\ th[p].job = "update" =>
                \A t \in config \ th[p].todo : Serves(t)
          /\ Busy(p) /\ th[p].job = "fresh" =>
                \A t \in (config \ active) \ th[p].todo : Serves(t)
    /\ stateCache # 0 /\ (\A p \in Setters : ~Busy(p)) =>
          /\ stateCache = data
          /\ \A t \in config : t \in active \/ round = 0 => Serves(t)

Healthy == Configured /\ Started /\ Armed /\ Serving

FInv == ~faulted => ~crashed /\ Healthy

(* The operation of a goroutine that is at work is the only one.           *)
LEMMA OnlyBusy ==
    ASSUME IInv, Alone, NEW p \in Threads, Busy(p)
    PROVE  /\ \A q \in Threads \ {p} : ~Busy(q)
           /\ p \in Setters => round = 0
           /\ p \in Setters => p # Watcher
<1>1. \A q \in Setters : Busy(q) => round = 0
  BY DEF Alone
<1>2. Busy(Watcher) => round > 0 /\ round # 0
  BY DEF IInv, TypeOK, RoundOpen, Busy
<1> QED BY <1>1, <1>2 DEF Alone, Threads

(* A goroutine whose work is all that there is goes on with it.            *)
LEMMA Moved ==
    ASSUME TypeOK, NEW p \in Threads, NEW r \in ThreadStates,
           th' = [th EXCEPT ![p] = r],
           \A q \in Threads \ {p} : ~Busy(q),
           p \in Setters => round' = 0 /\ r.pc # "dead",
           \A q \in Setters : th[q].pc # "dead",
           r.pc \notin {"rest", "dead"} => Job(p, r)' /\ Hand(r)' /\ Visited(r)'
    PROVE  Alone' /\ Working'
<1>1. \A q \in Threads : th'[q] = IF q = p THEN r ELSE th[q]
  BY DEF TypeOK
<1>2. \A q \in Threads : Busy(q)' => q = p
  BY <1>1 DEF Busy
<1>3. Alone'
  BY <1>1, <1>2 DEF Alone, Threads
<1>4. Working'
  BY <1>1, <1>2 DEF Working, Busy
<1> QED BY <1>3, <1>4

(* The same, of one that was at work before.                               *)
LEMMA GoesOn ==
    ASSUME IInv, Alone, NEW p \in Threads, NEW r \in ThreadStates, Busy(p),
           th' = [th EXCEPT ![p] = r], round' = round \/ p = Watcher,
           r.pc # "dead",
           r.pc # "rest" => Job(p, r)' /\ Hand(r)' /\ Visited(r)'
    PROVE  Alone' /\ Working'
<1>1. /\ \A q \in Threads \ {p} : ~Busy(q)
      /\ p \in Setters => round = 0 /\ p # Watcher
  BY OnlyBusy
<1>2. TypeOK /\ \A q \in Setters : th[q].pc # "dead"
  BY DEF IInv, Alone
<1> QED BY <1>1, <1>2, Moved

(* The records that a goroutine goes on with.                              *)
LEMMA DoneRecord ==
    ASSUME TypeOK, NEW p \in Threads, NEW t \in Targets, NEW r,
           r = Done(p, t)
    PROVE  /\ r \in ThreadStates /\ r.pc = "loop" /\ r.tgt = Absent
           /\ r.job = th[p].job /\ r.todo = th[p].todo \ {t}
<1>1. th[p] \in ThreadStates /\ Done(p, t) \in ThreadStates
  BY ThreadTypes DEF TypeOK
<1> QED BY <1>1 DEF Done, ThreadStates

LEMMA DialRecord ==
    ASSUME TypeOK, NEW p \in Threads, NEW t \in Targets, NEW r,
           r = Dialling(p, t) \/ r = [Dialling(p, t) EXCEPT !.id = Absent]
    PROVE  /\ r \in ThreadStates /\ r.pc = "dial" /\ r.tgt = t /\ r.cfg = data
           /\ r.job = th[p].job /\ r.todo = th[p].todo
<1>1. th[p] \in ThreadStates
  BY DEF TypeOK
<1>2. Dialling(p, t) \in ThreadStates
  BY ThreadTypes
<1>3. [Dialling(p, t) EXCEPT !.id = Absent] \in ThreadStates
  BY ThreadTypes
<1>4. r \in ThreadStates
  BY <1>2, <1>3
<1> QED BY <1>1, <1>4 DEF Dialling, ThreadStates

(* Stop is called on a collector.                                          *)
LEMMA CallStopFits ==
    ASSUME IInv, Alone, Working, NEW p \in Threads, NEW t \in Targets,
           th[p].pc = "loop", t \in th[p].todo, th[p].job # "fresh",
           mcs[t] # Absent, CallStop(p, t), ~crashed',
           UNCHANGED <<config, active, mcs, col, data, round>>,
           cached' = cached \/ th[p].job \in {"update", "delete"},
           th[p].job = "update" => t \in cached'
    PROVE  Alone' /\ Working'
<1>1. PICK r : r = [th[p] EXCEPT !.pc = "stop", !.tgt = t, !.id = mcs[t]]
  OBVIOUS
<1>2. th' = [th EXCEPT ![p] = r] /\ mcs[t] \in Ids
  BY <1>1 DEF CallStop, IInv, TypeOK
<1>3. /\ r \in ThreadStates /\ r.pc = "stop" /\ r.tgt = t /\ r.id = mcs[t]
      /\ r.job = th[p].job /\ r.todo = th[p].todo
  BY ZenonT(30), <1>1, <1>2 DEF IInv, TypeOK, ThreadStates
<1>4. Busy(p) /\ Job(p, th[p]) /\ Visited(th[p])
  BY DEF Working, Busy
<1>5. Job(p, r)'
  BY <1>3, <1>4 DEF Job
<1>6. Hand(r)'
  BY <1>2, <1>3 DEF Hand
<1>7. Visited(r)'
  BY <1>3, <1>4 DEF Visited
<1> QED BY <1>2, <1>3, <1>4, <1>5, <1>6, <1>7, GoesOn

LEMMA StopReturnAlone ==
    ASSUME IInv, Alone, Working, NEW p \in Threads, StopReturn(p)
    PROVE  Alone' /\ Working'
<1>1. PICK r : r = [th[p] EXCEPT !.pc = "erase"]
  OBVIOUS
<1>2. /\ th' = [th EXCEPT ![p] = r] /\ th[p].pc = "stop"
      /\ UNCHANGED <<config, active, mcs, cached, data, round>>
  BY <1>1 DEF StopReturn, resourceVars
<1>3. /\ r \in ThreadStates /\ r.pc = "erase" /\ r.tgt = th[p].tgt
      /\ r.job = th[p].job /\ r.todo = th[p].todo
  BY <1>1 DEF IInv, TypeOK, ThreadStates
<1>4. Busy(p) /\ Job(p, th[p]) /\ Hand(th[p]) /\ Visited(th[p])
  BY <1>2 DEF Working, Busy
<1>5. Job(p, r)'
  BY <1>2, <1>3, <1>4 DEF Job
<1>6. Hand(r)'
  BY <1>2, <1>3, <1>4 DEF Hand
<1>7. Visited(r)'
  BY <1>2, <1>3, <1>4 DEF Visited
<1> QED BY <1>2, <1>3, <1>4, <1>5, <1>6, <1>7, GoesOn

LEMMA EraseAlone ==
    ASSUME IInv, Alone, Working, NEW p \in Threads, Erase(p)
    PROVE  Alone' /\ Working'
<1> DEFINE t == th[p].tgt
<1>1. PICK r : r = IF th[p].job = "update"
                   THEN [Dialling(p, t) EXCEPT !.id = Absent] ELSE Done(p, t)
  OBVIOUS
<1>2. /\ th' = [th EXCEPT ![p] = r] /\ th[p].pc = "erase"
      /\ mcs' = [mcs EXCEPT ![t] = Absent]
      /\ cached' = IF th[p].job = "gone" THEN cached \ {t} ELSE cached
      /\ UNCHANGED <<config, active, data, round, col>>
  BY <1>1 DEF Erase
<1>3. Busy(p) /\ Job(p, th[p]) /\ Hand(th[p]) /\ Visited(th[p])
  BY <1>2 DEF Working, Busy
<1>4. t \in th[p].todo /\ t \in Targets /\ th[p].todo \subseteq Targets
      /\ th[p].job # "fresh"
  BY <1>2, <1>3 DEF Job, IInv, TypeOK, ThreadStates
<1>5. \A u \in Targets : mcs'[u] = IF u = t THEN Absent ELSE mcs[u]
  BY <1>2, <1>4 DEF IInv, TypeOK
<1>6. config \subseteq Targets /\ active \subseteq Targets
  BY DEF IInv, TypeOK
<1>7. CASE th[p].job = "update"
  <2>1. /\ r \in ThreadStates /\ r.pc = "dial" /\ r.tgt = t /\ r.cfg = data
        /\ r.job = "update" /\ r.todo = th[p].todo
    BY <1>1, <1>4, <1>7, DialRecord DEF IInv
  <2>2. t \in cached
    BY <1>2, <1>3, <1>7 DEF Hand
  <2>3. Job(p, r)'
    BY <1>2, <1>3, <1>4, <1>7, <2>1 DEF Job
  <2>4. Hand(r)' /\ Visited(r)'
    BY <1>2, <1>7, <2>1, <2>2 DEF Hand, Visited
  <2> QED BY <1>2, <1>3, <2>1, <2>3, <2>4, GoesOn
<1>8. CASE th[p].job # "update"
  <2>1. /\ r \in ThreadStates /\ r.pc = "loop" /\ r.job = th[p].job
        /\ r.todo = th[p].todo \ {t}
    BY <1>1, <1>4, <1>8, DoneRecord DEF IInv
  <2>2. Job(p, r)'
    BY <1>2, <1>3, <2>1 DEF Job
  <2>3. Hand(r)'
    BY <2>1 DEF Hand
  <2>4. Visited(r)'
    BY <1>2, <1>3, <1>4, <1>5, <1>6, <2>1 DEF Visited
  <2> QED BY <1>2, <1>3, <2>1, <2>2, <2>3, <2>4, GoesOn
<1> QED BY <1>7, <1>8

LEMMA DialOkAlone ==
    ASSUME IInv, Alone, Working, NEW p \in Threads, DialOk(p)
    PROVE  Alone' /\ Working'
<1> DEFINE t == th[p].tgt
<1>1. PICK r : r = [th[p] EXCEPT !.pc = "start"]
  OBVIOUS
<1>2. PICK i \in Ids :
         /\ col' = [col EXCEPT ![i] = [tgt |-> t, cfg |-> th[p].cfg,
                                       loops |-> 0, armed |-> FALSE]]
         /\ mcs' = [mcs EXCEPT ![t] = i]
  BY DEF DialOk, Register
<1>3. /\ th' = [th EXCEPT ![p] = r] /\ th[p].pc = "dial"
      /\ UNCHANGED <<config, active, data, round, cached>>
  BY <1>1 DEF DialOk
<1>4. /\ r \in ThreadStates /\ r.pc = "start" /\ r.tgt = t
      /\ r.job = th[p].job /\ r.todo = th[p].todo
  BY <1>1 DEF IInv, TypeOK, ThreadStates
<1>5. Busy(p) /\ Job(p, th[p]) /\ Hand(th[p]) /\ Visited(th[p])
  BY <1>3 DEF Working, Busy
<1>6. t \in th[p].todo /\ t \in Targets /\ th[p].job \in {"fresh", "update"}
  BY <1>3, <1>5 DEF Job, IInv, TypeOK, ThreadStates
<1>7. \A u \in Targets : mcs'[u] = IF u = t THEN i ELSE mcs[u]
  BY <1>2, <1>6 DEF IInv, TypeOK
<1>8. config \subseteq Targets /\ active \subseteq Targets
  BY DEF IInv, TypeOK
<1>9. th[p].cfg = data /\ col'[i].cfg = th[p].cfg
  BY <1>2, <1>3, <1>5 DEF Hand, IInv, TypeOK
<1>10. Job(p, r)'
  BY <1>3, <1>4, <1>5, <1>6 DEF Job
<1>11. Hand(r)'
  BY <1>3, <1>4, <1>6, <1>7, <1>9 DEF Hand
<1>12. Visited(r)'
  BY <1>3, <1>4, <1>5, <1>6, <1>7, <1>8 DEF Visited, Job
<1> QED BY <1>3, <1>4, <1>5, <1>10, <1>11, <1>12, GoesOn

LEMMA DialFailAlone ==
    ASSUME IInv, Alone, Working, NEW p \in Threads, DialFail(p)
    PROVE  Alone' /\ Working'
<1>1. th[p].pc = "dial" /\ UNCHANGED <<config, active, data, cached, col>>
  BY DEF DialFail
<1>2. Busy(p) /\ Job(p, th[p])
  BY <1>1 DEF Working, Busy
<1>3. CASE p = Watcher
  <2>1. Resting \in ThreadStates /\ Resting.pc = "rest"
    BY ThreadTypes DEF IInv, Resting
  <2>2. th' = [th EXCEPT ![p] = Resting]
    BY <1>3 DEF DialFail, AbandonTick
  <2> QED BY <1>2, <1>3, <2>1, <2>2, GoesOn
<1>4. CASE p # Watcher
  <2>1. PICK r : r = [Resting EXCEPT !.pc = "publish", !.job = "update",
                                     !.cfg = data]
    OBVIOUS
  <2>2. th' = [th EXCEPT ![p] = r] /\ round' = round
    BY <1>4, <2>1 DEF DialFail
  <2>3. /\ r \in ThreadStates /\ r.pc = "publish" /\ r.job = "update"
        /\ r.cfg = data /\ r.todo = {}
    BY <2>1, ThreadTypes DEF IInv, TypeOK, ThreadStates, Resting
  <2>4. Job(p, r)'
    BY <1>4, <2>3 DEF Job
  <2>5. Hand(r)' /\ Visited(r)'
    BY <1>1, <2>3 DEF Hand, Visited
  <2> QED BY <1>2, <2>2, <2>3, <2>4, <2>5, GoesOn
<1> QED BY <1>3, <1>4

LEMMA StartCollectorAlone ==
    ASSUME IInv, Alone, Working, NEW p \in Threads, StartCollector(p), ~crashed'
    PROVE  Alone' /\ Working'
<1> DEFINE t == th[p].tgt
<1>1. PICK r : r = Done(p, t)
  OBVIOUS
<1>2. /\ th[p].pc = "start" /\ mcs[t] \in Ids /\ th' = [th EXCEPT ![p] = r]
      /\ UNCHANGED <<config, active, data, round, cached, mcs>>
  BY <1>1 DEF StartCollector, resourceVars
<1>3. Busy(p) /\ Job(p, th[p]) /\ Visited(th[p])
  BY <1>2 DEF Working, Busy
<1>4. t \in Targets
  BY <1>2, <1>3 DEF Job, IInv, TypeOK, ThreadStates
<1>5. /\ r \in ThreadStates /\ r.pc = "loop" /\ r.job = th[p].job
      /\ r.todo = th[p].todo \ {t}
  BY <1>1, <1>4, DoneRecord DEF IInv
<1>6. Job(p, r)'
  BY <1>2, <1>3, <1>5 DEF Job
<1>7. Hand(r)'
  BY <1>5 DEF Hand
<1>8. Visited(r)'
  BY <1>2, <1>3, <1>5 DEF Visited, Job
<1> QED BY <1>2, <1>3, <1>5, <1>6, <1>7, <1>8, GoesOn

----------------------------------------------------------------------------
(* The watcher's own steps *)

LEMMA NotifyAlone ==
    ASSUME IInv, Alone, Working, Notify PROVE Alone' /\ Working'
<1> USE WatcherIsThread
<1>1. PICK r : r = [Resting EXCEPT !.pc = "loop", !.job = "gone",
                                   !.todo = active \ config]
  OBVIOUS
<1>2. /\ th' = [th EXCEPT ![Watcher] = r] /\ round > 0
      /\ UNCHANGED <<config, active, mcs, cached, data, round, col>>
  BY <1>1 DEF Notify, resourceVars
<1>3. /\ r \in ThreadStates /\ r.pc = "loop" /\ r.job = "gone"
      /\ r.todo = active \ config
  BY <1>1, ThreadTypes DEF IInv, TypeOK, ThreadStates, Resting
<1>4. Job(Watcher, r)' /\ Hand(r)' /\ Visited(r)'
  BY <1>2, <1>3 DEF Job, Hand, Visited
<1>5. round # 0
  BY <1>2 DEF IInv, TypeOK
<1>6. \A q \in Threads \ {Watcher} : ~Busy(q)
  BY <1>5 DEF Alone, Threads
<1>7. TypeOK /\ \A q \in Setters : th[q].pc # "dead"
  BY DEF IInv, Alone
<1>8. Watcher \notin Setters
  OBVIOUS
<1> QED BY <1>2, <1>3, <1>4, <1>6, <1>7, <1>8, Moved

LEMMA GoneTargetAlone ==
    ASSUME IInv, Alone, Working, NEW t \in Targets, GoneTarget(t), ~crashed'
    PROVE  Alone' /\ Working'
<1> USE WatcherIsThread
<1> DEFINE w == th[Watcher]
<1>1. /\ w.pc = "loop" /\ w.job = "gone" /\ t \in w.todo
      /\ UNCHANGED <<config, active, mcs, data, round, col>>
  BY DEF GoneTarget, InLoop, resourceVars
<1>2. Busy(Watcher) /\ Job(Watcher, w) /\ Visited(w)
  BY <1>1 DEF Working, Busy
<1>3. CASE mcs[t] = Absent
  <2>1. PICK r : r = Done(Watcher, t)
    OBVIOUS
  <2>2. th' = [th EXCEPT ![Watcher] = r] /\ cached' = cached \ {t}
    BY <1>3, <2>1 DEF GoneTarget
  <2>3. /\ r \in ThreadStates /\ r.pc = "loop" /\ r.job = "gone"
        /\ r.todo = w.todo \ {t}
    BY <1>1, <2>1, DoneRecord DEF IInv
  <2>4. Job(Watcher, r)'
    BY <1>1, <1>2, <2>3 DEF Job
  <2>5. Hand(r)'
    BY <2>3 DEF Hand
  <2>6. Visited(r)'
    BY <1>1, <1>2, <1>3, <2>2, <2>3 DEF Visited
  <2> QED BY <1>1, <1>2, <2>2, <2>3, <2>4, <2>5, <2>6, GoesOn
<1>4. CASE mcs[t] # Absent
  <2>1. CallStop(Watcher, t) /\ cached' = cached
    BY <1>4 DEF GoneTarget
  <2> QED BY <1>1, <1>4, <2>1, CallStopFits
<1> QED BY <1>3, <1>4

LEMMA GoneDoneAlone ==
    ASSUME IInv, Alone, Working, GoneDone PROVE Alone' /\ Working'
<1> USE WatcherIsThread
<1> DEFINE w == th[Watcher]
<1>1. PICK r : r = [w EXCEPT !.job = "fresh", !.todo = config \ active]
  OBVIOUS
<1>2. /\ th' = [th EXCEPT ![Watcher] = r]
      /\ w.pc = "loop" /\ w.job = "gone" /\ w.todo = {}
      /\ UNCHANGED <<config, active, mcs, data, round, col, cached>>
  BY <1>1 DEF GoneDone, Finished, resourceVars, IInv, TypeOK, ThreadStates
<1>3. /\ r \in ThreadStates /\ r.pc = "loop" /\ r.job = "fresh"
      /\ r.todo = config \ active
  BY ZenonT(30), <1>1, <1>2 DEF IInv, TypeOK, ThreadStates
<1>4. Busy(Watcher) /\ Visited(w)
  BY <1>2 DEF Working, Busy
<1>5. Job(Watcher, r)' /\ Hand(r)'
  BY <1>2, <1>3 DEF Job, Hand
<1>6. Visited(r)'
  BY <1>2, <1>3, <1>4 DEF Visited
<1> QED BY <1>2, <1>3, <1>4, <1>5, <1>6, GoesOn

LEMMA FreshTargetAlone ==
    ASSUME IInv, Alone, Working, NEW t \in Targets, FreshTarget(t)
    PROVE  Alone' /\ Working'
<1> USE WatcherIsThread
<1> DEFINE w == th[Watcher]
<1>1. PICK r : r = Dialling(Watcher, t)
  OBVIOUS
<1>2. /\ w.pc = "loop" /\ w.job = "fresh" /\ t \in w.todo
      /\ th' = [th EXCEPT ![Watcher] = r] /\ cached' = cached \cup {t}
      /\ UNCHANGED <<config, active, mcs, data, round, col>>
  BY <1>1 DEF FreshTarget, InLoop, resourceVars, AddToCache
<1>3. Busy(Watcher) /\ Job(Watcher, w) /\ Visited(w)
  BY <1>2 DEF Working, Busy
<1>4. /\ r \in ThreadStates /\ r.pc = "dial" /\ r.tgt = t /\ r.cfg = data
      /\ r.job = "fresh" /\ r.todo = w.todo
  BY <1>1, <1>2, DialRecord DEF IInv
<1>5. Job(Watcher, r)'
  BY <1>2, <1>3, <1>4 DEF Job
<1>6. Hand(r)'
  BY <1>2, <1>4 DEF Hand
<1>7. t \notin active \ config
  BY <1>2, <1>3 DEF Job
<1>8. Visited(r)'
  BY <1>2, <1>3, <1>4, <1>7 DEF Visited
<1> QED BY <1>2, <1>3, <1>4, <1>5, <1>6, <1>8, GoesOn

LEMMA FreshDoneAlone ==
    ASSUME IInv, Alone, Working, FreshDone PROVE Alone' /\ Working'
<1> USE WatcherIsThread
<1>1. Resting \in ThreadStates /\ Resting.pc = "rest"
  BY ThreadTypes DEF IInv, Resting
<1>2. th' = [th EXCEPT ![Watcher] = Resting] /\ th[Watcher].pc = "loop"
  BY DEF FreshDone, Finished
<1>3. Busy(Watcher)
  BY <1>2 DEF Busy
<1> QED BY <1>1, <1>2, <1>3, GoesOn

----------------------------------------------------------------------------
(* The steps of a Set *)

LEMMA UpdateTargetAlone ==
    ASSUME IInv, Alone, Working, NEW p \in Setters, NEW t \in Targets,
           UpdateTarget(p, t), ~crashed'
    PROVE  Alone' /\ Working'
<1> USE WatcherIsThread
<1>1. /\ th[p].pc = "loop" /\ th[p].job = "update" /\ t \in th[p].todo
      /\ cached' = cached \cup {t}
      /\ UNCHANGED <<config, active, mcs, data, round, col>>
  BY DEF UpdateTarget, InLoop, resourceVars, AddToCache
<1>2. Busy(p) /\ Job(p, th[p]) /\ Visited(th[p])
  BY <1>1 DEF Working, Busy
<1>3. CASE mcs[t] = Absent
  <2>1. PICK r : r = Dialling(p, t)
    OBVIOUS
  <2>2. th' = [th EXCEPT ![p] = r]
    BY <1>3, <2>1 DEF UpdateTarget
  <2>3. /\ r \in ThreadStates /\ r.pc = "dial" /\ r.tgt = t /\ r.cfg = data
        /\ r.job = "update" /\ r.todo = th[p].todo
    BY <1>1, <2>1, DialRecord DEF IInv
  <2>4. Job(p, r)'
    BY <1>1, <1>2, <2>3 DEF Job
  <2>5. Hand(r)' /\ Visited(r)'
    BY <1>1, <2>3 DEF Hand, Visited
  <2> QED BY <1>1, <1>2, <2>2, <2>3, <2>4, <2>5, GoesOn
<1>4. CASE mcs[t] # Absent
  <2>1. CallStop(p, t)
    BY <1>4 DEF UpdateTarget
  <2> QED BY <1>1, <1>4, <2>1, CallStopFits
<1> QED BY <1>3, <1>4

LEMMA DeleteTargetAlone ==
    ASSUME IInv, Alone, Working, NEW p \in Setters, NEW t \in Targets,
           DeleteTarget(p, t), ~crashed'
    PROVE  Alone' /\ Working'
<1> USE WatcherIsThread
<1>1. /\ th[p].pc = "loop" /\ th[p].job = "delete" /\ t \in th[p].todo
      /\ UNCHANGED <<config, active, mcs, data, round, col, cached>>
  BY DEF DeleteTarget, InLoop, resourceVars
<1>2. Busy(p) /\ Job(p, th[p]) /\ Visited(th[p])
  BY <1>1 DEF Working, Busy
<1>3. CASE mcs[t] = Absent
  <2>1. PICK r : r = Done(p, t)
    OBVIOUS
  <2>2. th' = [th EXCEPT ![p] = r]
    BY <1>3, <2>1 DEF DeleteTarget
  <2>3. /\ r \in ThreadStates /\ r.pc = "loop" /\ r.job = "delete"
        /\ r.todo = th[p].todo \ {t}
    BY <1>1, <2>1, DoneRecord DEF IInv
  <2>4. Job(p, r)'
    BY <1>1, <1>2, <2>3 DEF Job
  <2>5. Hand(r)'
    BY <2>3 DEF Hand
  <2>6. Visited(r)'
    BY <1>1, <1>2, <1>3, <2>3 DEF Visited
  <2> QED BY <1>1, <1>2, <2>2, <2>3, <2>4, <2>5, <2>6, GoesOn
<1>4. CASE mcs[t] # Absent
  <2>1. CallStop(p, t)
    BY <1>4 DEF DeleteTarget
  <2> QED BY <1>1, <1>4, <2>1, CallStopFits
<1> QED BY <1>3, <1>4

LEMMA UpdateDoneAlone ==
    ASSUME IInv, Alone, Working, NEW p \in Setters, UpdateDone(p)
    PROVE  Alone' /\ Working'
<1> USE WatcherIsThread
<1>1. PICK r : r = [th[p] EXCEPT !.pc = "publish", !.cfg = data]
  OBVIOUS
<1>2. /\ th' = [th EXCEPT ![p] = r]
      /\ th[p].pc = "loop" /\ th[p].job = "update" /\ th[p].todo = {}
      /\ UNCHANGED <<config, active, mcs, data, round, col, cached>>
  BY <1>1 DEF UpdateDone, Finished, resourceVars, IInv, TypeOK, ThreadStates
<1>3. /\ r \in ThreadStates /\ r.pc = "publish" /\ r.job = "update"
      /\ r.todo = {} /\ r.cfg = data
  BY ZenonT(30), <1>1, <1>2 DEF IInv, TypeOK, ThreadStates
<1>4. Busy(p) /\ p # Watcher
  BY <1>2 DEF Busy
<1>5. Job(p, r)' /\ Hand(r)' /\ Visited(r)'
  BY <1>2, <1>3, <1>4 DEF Job, Hand, Visited
<1> QED BY <1>2, <1>3, <1>4, <1>5, GoesOn

LEMMA SetEndsAlone ==
    ASSUME IInv, Alone, Working, NEW p \in Setters, Publish(p) \/ DeleteDone(p)
    PROVE  Alone' /\ Working'
<1> USE WatcherIsThread
<1>1. Resting \in ThreadStates /\ Resting.pc = "rest"
  BY ThreadTypes DEF IInv, Resting
<1>2. /\ th' = [th EXCEPT ![p] = Resting] /\ Busy(p) /\ round' = round
  BY DEF Publish, DeleteDone, Finished, Busy
<1> QED BY <1>1, <1>2, GoesOn

LEMMA SetBeginsAlone ==
    ASSUME ~Overlap, IInv, Alone, Working, NEW p \in Setters,
           SetUpdate(p) \/ SetDelete(p)
    PROVE  Alone' /\ Working'
<1> USE WatcherIsThread
<1>1. PICK job \in {"update", "delete"} :
         th' = [th EXCEPT ![p] = [Resting EXCEPT !.pc = "loop", !.job = job,
                                                 !.todo = config]]
  BY DEF SetUpdate, SetDelete
<1>2. PICK r : r = [Resting EXCEPT !.pc = "loop", !.job = job,
                                   !.todo = config]
  OBVIOUS
<1>3. /\ AtRest /\ round = 0 /\ round' = 0 /\ UNCHANGED <<config, active, mcs>>
  BY DEF SetUpdate, SetDelete, MayBegin, resourceVars
<1>4. /\ r \in ThreadStates /\ r.pc = "loop" /\ r.job = job
      /\ r.todo = config
  BY <1>2, ThreadTypes DEF IInv, TypeOK, ThreadStates, Resting
<1>5. Job(p, r)' /\ Hand(r)' /\ Visited(r)'
  BY <1>3, <1>4 DEF Job, Hand, Visited
<1>6. TypeOK /\ \A q \in Setters : th[q].pc # "dead"
  BY DEF IInv, Alone
<1>7. \A q \in Threads \ {p} : ~Busy(q)
  BY <1>3 DEF AtRest, Busy
<1> QED BY <1>1, <1>2, <1>3, <1>4, <1>5, <1>6, <1>7, Moved

----------------------------------------------------------------------------
(* Quiet steps *)

LEMMA TickAlone ==
    ASSUME ~Overlap, IInv, Alone, Working, Tick \/ ListFail
    PROVE  Alone' /\ Working'
<1> USE WatcherIsThread
<1>1. AtRest /\ \A q \in Setters : th'[q] = th[q]
  BY DEF Tick, ListFail, MayBegin, IInv, TypeOK
<1>2. \A q \in Threads : ~Busy(q)'
  <2>1. \A q \in Setters : ~Busy(q)'
    BY <1>1 DEF AtRest, Busy
  <2>2. ~Busy(Watcher)'
    BY <1>1 DEF Tick, ListFail, AtRest, Busy, IInv, TypeOK, ThreadStates
  <2> QED BY <2>1, <2>2 DEF Threads
<1> QED BY <1>1, <1>2 DEF Alone, Working

(* Nobody's work is touched by a run loop.                                 *)
LEMMA LoopAlone ==
    ASSUME IInv, Alone, Working, NEW i \in Ids, RunArms(i) \/ LoopDies(i)
    PROVE  Alone' /\ Working'
<1>1. UNCHANGED <<config, active, mcs, data, round, cached, th>>
  BY DEF RunArms, LoopDies, resourceVars
<1>2. \A j \in Ids : col'[j].cfg = col[j].cfg
  BY DEF RunArms, LoopDies, IInv, TypeOK
<1>3. Alone'
  BY <1>1 DEF Alone, Busy
<1>4. ASSUME NEW p \in Threads, Busy(p)'
      PROVE  Job(p, th[p])' /\ Hand(th[p])' /\ Visited(th[p])'
  <2>1. PICK r : r = th[p]
    OBVIOUS
  <2>2. Job(p, r) /\ Hand(r) /\ Visited(r) /\ th'[p] = r
    BY <1>1, <1>4, <2>1 DEF Working, Busy
  <2>3. Job(p, r)'
    BY <1>1, <2>2 DEF Job
  <2>4. Hand(r)'
    BY <1>1, <1>2, <2>2 DEF Hand
  <2>5. Visited(r)'
    BY <1>1, <2>2 DEF Visited
  <2> QED BY <2>2, <2>3, <2>4, <2>5
<1> QED BY <1>3, <1>4 DEF Working

----------------------------------------------------------------------------
(* All the steps *)

(* A process that has died takes no step.                                  *)
LEMMA DeadStops == ASSUME IInv, crashed, [Next]_vars PROVE UNCHANGED vars
BY DEF Next, Tick, ListFail, WatcherStep, SetterStep, CallStep, StopReturn,
       Erase, DialOk, DialFail, StartCollector, Notify, GoneTarget, GoneDone,
       FreshTarget, FreshDone, InLoop, Finished, SetUpdate, SetDelete,
       UpdateTarget, UpdateDone, Publish, DeleteTarget, DeleteDone, MapRace,
       RunArms, LoopDies

LEMMA CallStepAlone ==
    ASSUME IInv, Alone, Working, NEW p \in Threads, CallStep(p), ~crashed'
    PROVE  Alone' /\ Working'
BY StopReturnAlone, EraseAlone, DialOkAlone, DialFailAlone,
   StartCollectorAlone DEF CallStep

LEMMA AloneNext ==
    ASSUME ~Overlap, IInv, Alone, Working, [Next]_vars, ~crashed'
    PROVE  Alone' /\ Working'
<1> USE WatcherIsThread
<1>1. CASE Tick \/ ListFail
  BY <1>1, TickAlone
<1>2. CASE WatcherStep
  BY <1>2, CallStepAlone, NotifyAlone, GoneDoneAlone, FreshDoneAlone,
     GoneTargetAlone, FreshTargetAlone DEF WatcherStep
<1>3. ASSUME NEW p \in Setters, SetterStep(p) PROVE Alone' /\ Working'
  BY <1>3, CallStepAlone, UpdateDoneAlone, SetEndsAlone, UpdateTargetAlone,
     DeleteTargetAlone DEF SetterStep
<1>4. ASSUME NEW p \in Setters, SetUpdate(p) \/ SetDelete(p)
      PROVE  Alone' /\ Working'
  BY <1>4, SetBeginsAlone
<1>5. ASSUME NEW i \in Ids, RunArms(i) \/ LoopDies(i)
      PROVE  Alone' /\ Working'
  BY <1>5, LoopAlone
<1>6. CASE UNCHANGED vars
  BY <1>6
  DEF vars, Alone, Working, Busy, Job, Hand, Visited
<1> QED BY <1>1, <1>2, <1>3, <1>4, <1>5, <1>6 DEF Next, MapRace

(* The map and the target cache change hand in hand.                       *)
LEMMA CacheNext ==
    ASSUME IInv, Working, CollectorsHaveCache, [Next]_vars
    PROVE  CollectorsHaveCache'
<1> USE WatcherIsThread
<1>1. CASE mcs' = mcs /\ cached \subseteq cached'
  BY <1>1 DEF CollectorsHaveCache
<1>2. ASSUME NEW p \in Threads, Erase(p) PROVE CollectorsHaveCache'
  <2> DEFINE t == th[p].tgt
  <2>1. t \in th[p].todo /\ th[p].todo \subseteq Targets
    BY <1>2 DEF Erase, Working, Busy, Job, IInv, TypeOK, ThreadStates
  <2>2. \A u \in Targets : mcs'[u] = IF u = t THEN Absent ELSE mcs[u]
    BY <1>2, <2>1 DEF Erase, IInv, TypeOK
  <2>3. cached \ {t} \subseteq cached'
    BY <1>2 DEF Erase
  <2> QED BY <2>1, <2>2, <2>3 DEF CollectorsHaveCache
<1>3. ASSUME NEW p \in Threads, DialOk(p) \/ DialFail(p)
      PROVE  CollectorsHaveCache'
  <2> DEFINE t == th[p].tgt
  <2>1. t \in Targets /\ t \in cached
    BY <1>3
    DEF DialOk, DialFail, Working, Busy, Job, Hand, IInv, TypeOK, ThreadStates
  <2>2. cached' = cached /\ \E x \in Ids \cup {Nil} : Register(p, x)
    BY <1>3 DEF DialOk, DialFail
  <2>3. \A u \in Targets : u # t => mcs'[u] = mcs[u]
    BY <2>1, <2>2 DEF Register, IInv, TypeOK
  <2> QED BY <2>1, <2>2, <2>3 DEF CollectorsHaveCache
<1>4. ASSUME NEW t \in Targets, GoneTarget(t) PROVE CollectorsHaveCache'
  <2>1. mcs' = mcs /\ (cached' = cached \/ mcs[t] = Absent)
        /\ cached \ {t} \subseteq cached'
    BY <1>4 DEF GoneTarget, resourceVars
  <2> QED BY <2>1 DEF CollectorsHaveCache
<1>5. ASSUME NEW p \in Threads, CallStep(p) PROVE CollectorsHaveCache'
  BY <1>1, <1>2, <1>3, <1>5
  DEF CallStep, StopReturn, StartCollector, resourceVars
<1>6. CASE WatcherStep
  BY <1>1, <1>4, <1>5, <1>6
  DEF WatcherStep, Notify, GoneDone, FreshDone, FreshTarget, AddToCache,
      resourceVars
<1>7. ASSUME NEW p \in Setters, SetterStep(p) PROVE CollectorsHaveCache'
  BY <1>1, <1>5, <1>7
  DEF SetterStep, UpdateDone, Publish, DeleteDone, UpdateTarget, DeleteTarget,
      AddToCache, resourceVars
<1> QED
  BY <1>1, <1>6, <1>7
  DEF Next, Tick, ListFail, SetUpdate, SetDelete, MapRace, RunArms, LoopDies,
      vars, resourceVars

LEMMA ShownNext ==
    ASSUME IInv, Working, ShownIsData, [Next]_vars PROVE ShownIsData'
<1> USE WatcherIsThread
<1>1. CASE UNCHANGED <<stateCache, data>>
  BY <1>1 DEF ShownIsData
<1>2. ASSUME NEW p \in Setters, SetUpdate(p) PROVE ShownIsData'
  <2>1. stateCache' = stateCache /\ (data' = sets + 1 \/ data' = data)
    BY <1>2 DEF SetUpdate, CopyConfig
  <2>2. sets + 1 # 0
    BY DEF IInv, TypeOK, Versions
  <2> QED BY <2>1, <2>2 DEF ShownIsData
<1>3. ASSUME NEW p \in Setters, Publish(p) \/ DeleteDone(p)
      PROVE  ShownIsData'
  <2>1. Publish(p) => th[p].cfg = data
    BY DEF Publish, Working, Busy, Hand
  <2> QED BY <1>3, <2>1 DEF Publish, DeleteDone, ShownIsData, resourceVars
<1>4. ASSUME NEW p \in Threads, CallStep(p) PROVE ShownIsData'
  BY <1>1, <1>4
  DEF CallStep, StopReturn, Erase, DialOk, DialFail, StartCollector,
      resourceVars
<1>5. CASE WatcherStep
  BY <1>1, <1>4, <1>5
  DEF WatcherStep, Notify, GoneDone, FreshDone, GoneTarget, FreshTarget,
      resourceVars
<1>6. ASSUME NEW p \in Setters, SetterStep(p) PROVE ShownIsData'
  BY <1>1, <1>3, <1>4, <1>6
  DEF SetterStep, UpdateDone, UpdateTarget, DeleteTarget, resourceVars
<1> QED
  BY <1>1, <1>2, <1>5, <1>6
  DEF Next, Tick, ListFail, SetDelete, MapRace, RunArms, LoopDies, vars,
      resourceVars

LEMMA SerialInit == Init => SInv
<1> SUFFICES ASSUME Init PROVE SInv
  OBVIOUS
<1>1. \A p \in Threads : th[p].pc = "rest"
  BY DEF Init, Resting
<1>2. Alone /\ Working
  BY <1>1, WatcherIsThread DEF Alone, Working, Busy
<1>3. ShownIsData
  BY DEF Init, ShownIsData
<1>4. CollectorsHaveCache
  BY DEF Init, CollectorsHaveCache
<1> QED BY <1>2, <1>3, <1>4 DEF SInv

LEMMA SerialNext ==
    ASSUME ~Overlap, IInv, SInv, [Next]_vars PROVE SInv'
<1>1. CASE crashed
  BY <1>1, DeadStops DEF SInv, vars, CollectorsHaveCache
<1>2. CASE ~crashed
  <2>1. CollectorsHaveCache' /\ ShownIsData'
    BY <1>2, CacheNext, ShownNext DEF SInv
  <2>2. ~crashed' => Alone' /\ Working'
    BY <1>2, AloneNext DEF SInv
  <2> QED BY <2>1, <2>2 DEF SInv
<1> QED BY <1>1, <1>2

LEMMA SpecSerial == ASSUME ~Overlap PROVE Spec => [](IInv /\ SInv)
<1>1. SInv /\ IInv /\ [Next]_vars => SInv'
  BY SerialNext
<1> QED BY <1>1, SerialInit, SpecInv, PTL DEF Spec

(* When Sets and ticks come one at a time, a mapped collector always has   *)
(* a target cache to write its samples to (collector.go, l. 229-330, and   *)
(* handler.go:23), under every fault and also after a crash.               *)
THEOREM CollectorsHaveCacheHolds ==
    ASSUME ~Overlap PROVE Spec => []CollectorsHaveCache
<1>1. SInv => CollectorsHaveCache
  BY DEF SInv
<1> QED BY <1>1, SpecSerial, PTL

LEMMA SwitchStep ==
    ASSUME IInv, SInv, [Next]_vars, active' # active
    PROVE  /\ \A t \in active' \ active : mcs[t] \in Ids
           /\ \A t \in active \ active' : mcs[t] = Absent /\ t \notin cached
<1> USE WatcherIsThread
<1>1. FreshDone
  BY DEF Next, Tick, ListFail, WatcherStep, SetterStep, CallStep, StopReturn,
         Erase, DialOk, DialFail, StartCollector, Notify, GoneTarget,
         GoneDone, FreshTarget, SetUpdate, SetDelete, UpdateTarget,
         UpdateDone, Publish, DeleteTarget, DeleteDone, MapRace, RunArms,
         LoopDies, vars, resourceVars
<1>2. /\ th[Watcher].job = "fresh" /\ th[Watcher].todo = {} /\ ~crashed
      /\ active' = config /\ Busy(Watcher)
  BY <1>1 DEF FreshDone, Finished, Busy
<1>3. Visited(th[Watcher])
  BY <1>2 DEF SInv, Working
<1> QED BY <1>2, <1>3 DEF Visited

(* When Sets and ticks come one at a time, the list of active targets is   *)
(* only switched when every target that joins it has a collector, and      *)
(* every target that leaves it neither collector nor cache                 *)
(* (collector.go:329 and the early return at l. 324).                      *)
THEOREM ActiveSwitchIsBackedHolds ==
    ASSUME ~Overlap PROVE Spec => ActiveSwitchIsBacked
<1>1. IInv /\ SInv /\ [Next]_vars =>
        [active' # active =>
           /\ \A t \in active' \ active : mcs[t] \in Ids
           /\ \A t \in active \ active' :
                 mcs[t] = Absent /\ t \notin cached]_vars
  BY SwitchStep
<1> QED BY <1>1, SpecSerial, PTL DEF Spec, ActiveSwitchIsBacked

LEMMA WithdrawStep ==
    ASSUME IInv, SInv, [Next]_vars, stateCache # 0, stateCache' = 0
    PROVE  \A t \in config : mcs[t] = Absent
<1> USE WatcherIsThread
<1>1. PICK p \in Setters : Publish(p) \/ DeleteDone(p)
  BY DEF Next, Tick, ListFail, WatcherStep, SetterStep, CallStep, StopReturn,
         Erase, DialOk, DialFail, StartCollector, Notify, GoneTarget,
         GoneDone, FreshTarget, FreshDone, SetUpdate, SetDelete,
         UpdateTarget, UpdateDone, DeleteTarget, MapRace, RunArms, LoopDies,
         vars, resourceVars
<1>2. ~crashed /\ Busy(p)
  BY <1>1 DEF Publish, DeleteDone, Finished, Busy
<1>3. Hand(th[p]) /\ Visited(th[p]) /\ data # 0
  BY <1>2 DEF SInv, Working, ShownIsData
<1>4. DeleteDone(p)
  BY <1>1, <1>3 DEF Publish, Hand
<1> QED BY <1>3, <1>4 DEF DeleteDone, Finished, Visited

(* When Sets and ticks come one at a time, no target on the list has a     *)
(* collector any more when the state of the resource is withdrawn          *)
(* (collector.go:203), whatever a tick or a Set left half done before.     *)
THEOREM DeleteStopsListedHolds ==
    ASSUME ~Overlap PROVE Spec => DeleteStopsListed
<1>1. IInv /\ SInv /\ [Next]_vars =>
        [stateCache # 0 /\ stateCache' = 0 =>
           \A t \in config : mcs[t] = Absent]_vars
  BY WithdrawStep
<1> QED BY <1>1, SpecSerial, PTL DEF Spec, DeleteStopsListed

----------------------------------------------------------------------------
(* Ticks and Sets come to their end *)

(* The target in the hand of a goroutine is one that it has still to visit.*)
InHand(r) == r.pc \in {"stop", "erase", "dial", "start"} => r.tgt \in r.todo

(* How far the visit of a target is from its end.                          *)
Height(r) == CASE r.pc = "loop"  -> 5 [] r.pc = "stop"  -> 4
               [] r.pc = "erase" -> 3 [] r.pc = "dial"  -> 2
               [] r.pc = "start" -> 1 [] OTHER          -> 0

(* From the targets that are gone to those that are new, and with either   *)
(* to fewer targets, or with as many on in the visit of one.               *)
Onward(r, s) ==
    \/ r.job = "gone" /\ s.job # "gone"
    \/ /\ r.job = "gone" <=> s.job = "gone"
       /\ s.todo \subseteq r.todo
       /\ s.todo = r.todo => Height(s) < Height(r)

(* A goroutine that is in the middle of its work ends it or goes on with   *)
(* it, and never back (collector.go, l. 229-330).                          *)
Advances(p) ==
    th'[p] # th[p] /\ th[p].pc # "rest" =>
        th'[p].pc \in {"rest", "dead"} \/ Onward(th[p], th'[p])

OperationsAdvance == [][\A p \in Threads : Advances(p)]_vars

HandsInv == \A p \in Threads : InHand(th[p])

(* Only one goroutine moves, to a state from where it can go on.           *)
Goes(p) ==
    /\ \A q \in Threads \ {p} : th'[q] = th[q]
    /\ InHand(th'[p])
    /\ Advances(p)

LEMMA GoneOn ==
    ASSUME IInv, HandsInv, NEW p \in Threads, Goes(p)
    PROVE  HandsInv' /\ \A q \in Threads : Advances(q)
BY DEF Goes, HandsInv, Advances

LEMMA Turned ==
    ASSUME IInv, NEW p \in Threads, NEW r, th' = [th EXCEPT ![p] = r],
           InHand(r),
           r.pc \in {"rest", "dead"} \/ th[p].pc = "rest" \/ Onward(th[p], r)
    PROVE  Goes(p)
<1>1. \A q \in Threads : th'[q] = IF q = p THEN r ELSE th[q]
  BY DEF IInv, TypeOK
<1> QED BY <1>1 DEF Goes, Advances

(* The visit of a target is over.                                          *)
LEMMA DoneGoes ==
    ASSUME IInv, NEW p \in Threads, NEW t \in th[p].todo, t \in Targets,
           th' = [th EXCEPT ![p] = Done(p, t)]
    PROVE  Goes(p)
<1>1. PICK r : r = Done(p, t)
  OBVIOUS
<1>2. r.pc = "loop" /\ r.job = th[p].job /\ r.todo = th[p].todo \ {t}
  BY <1>1, DoneRecord DEF IInv
<1>3. InHand(r) /\ Onward(th[p], r)
  BY <1>2 DEF InHand, Onward
<1> QED BY <1>1, <1>3, Turned

(* The visit of a target goes on.                                          *)
LEMMA VisitGoes ==
    ASSUME IInv, NEW p \in Threads, NEW r, th' = [th EXCEPT ![p] = r],
           InHand(r), r.job = th[p].job, r.todo = th[p].todo,
           \/ th[p].pc = "loop" /\ r.pc \in {"stop", "dial", "publish"}
           \/ th[p].pc = "stop" /\ r.pc = "erase"
           \/ th[p].pc = "erase" /\ r.pc = "dial"
           \/ th[p].pc = "dial" /\ r.pc = "start"
    PROVE  Goes(p)
<1>1. Height(r) < Height(th[p])
  <2>1. /\ 0 < 5 /\ 4 < 5 /\ 2 < 5 /\ 3 < 4 /\ 2 < 3 /\ 1 < 2
    OBVIOUS
  <2> QED BY <2>1 DEF Height
<1>2. Onward(th[p], r)
  BY <1>1 DEF Onward
<1> QED BY <1>2, Turned

LEMMA CallStopGoes ==
    ASSUME IInv, HandsInv, NEW p \in Threads, NEW t \in th[p].todo,
           th[p].pc = "loop", CallStop(p, t)
    PROVE  th' = th \/ Goes(p)
<1>1. CASE th' = th
  BY <1>1
<1>2. CASE th' # th
  <2>1. PICK r : r = [th[p] EXCEPT !.pc = "stop", !.tgt = t, !.id = mcs[t]]
    OBVIOUS
  <2>2. th' = [th EXCEPT ![p] = r]
    BY <1>2, <2>1 DEF CallStop
  <2>3. th[p] \in ThreadStates
    BY DEF IInv, TypeOK
  <2>4. /\ r.pc = "stop" /\ r.tgt = t /\ r.job = th[p].job
        /\ r.todo = th[p].todo
    BY <2>1, <2>3 DEF ThreadStates
  <2>5. InHand(r)
    BY <2>4 DEF InHand
  <2> QED BY <2>2, <2>4, <2>5, VisitGoes
<1> QED BY <1>1, <1>2

LEMMA DialGoes ==
    ASSUME IInv, NEW p \in Threads, NEW t \in th[p].todo, t \in Targets,
           th[p].pc \in {"loop", "erase"}, NEW r,
           r = Dialling(p, t) \/ r = [Dialling(p, t) EXCEPT !.id = Absent],
           th' = [th EXCEPT ![p] = r]
    PROVE  Goes(p)
<1>1. /\ r.pc = "dial" /\ r.tgt = t /\ r.job = th[p].job
      /\ r.todo = th[p].todo
  BY DialRecord DEF IInv
<1>2. InHand(r)
  BY <1>1 DEF InHand
<1> QED BY <1>1, <1>2, VisitGoes

LEMMA CallGoes ==
    ASSUME IInv, HandsInv, NEW p \in Threads, CallStep(p)
    PROVE  th' = th \/ Goes(p)
<1> DEFINE t == th[p].tgt
<1>1. th[p] \in ThreadStates /\ th[p].todo \subseteq Targets
  BY DEF IInv, TypeOK, ThreadStates
<1>2. th[p].pc \in {"stop", "erase", "dial", "start"} => t \in th[p].todo
  BY DEF HandsInv, InHand
<1>3. CASE StopReturn(p)
  <2>1. PICK r : r = [th[p] EXCEPT !.pc = "erase"]
    OBVIOUS
  <2>2. th[p].pc = "stop" /\ th' = [th EXCEPT ![p] = r]
    BY <1>3, <2>1 DEF StopReturn
  <2>3. /\ r.pc = "erase" /\ r.tgt = t /\ r.job = th[p].job
        /\ r.todo = th[p].todo
    BY <1>1, <2>1 DEF ThreadStates
  <2>4. InHand(r)
    BY <1>2, <2>2, <2>3 DEF InHand
  <2> QED BY <2>2, <2>3, <2>4, VisitGoes
<1>4. CASE Erase(p)
  <2>1. th[p].pc = "erase" /\ t \in th[p].todo /\ t \in Targets
    BY <1>1, <1>2, <1>4 DEF Erase
  <2>2. \/ th' = [th EXCEPT ![p] = [Dialling(p, t) EXCEPT !.id = Absent]]
        \/ th' = [th EXCEPT ![p] = Done(p, t)]
    BY <1>4 DEF Erase
  <2> QED BY <2>1, <2>2, DoneGoes, DialGoes
<1>5. CASE DialOk(p)
  <2>1. PICK r : r = [th[p] EXCEPT !.pc = "start"]
    OBVIOUS
  <2>2. th[p].pc = "dial" /\ th' = [th EXCEPT ![p] = r]
    BY <1>5, <2>1 DEF DialOk
  <2>3. /\ r.pc = "start" /\ r.tgt = t /\ r.job = th[p].job
        /\ r.todo = th[p].todo
    BY <1>1, <2>1 DEF ThreadStates
  <2>4. InHand(r)
    BY <1>2, <2>2, <2>3 DEF InHand
  <2> QED BY <2>2, <2>3, <2>4, VisitGoes
<1>6. CASE DialFail(p)
  <2>1. t \in th[p].todo
    BY <1>2, <1>6 DEF DialFail
  <2>2. CASE p = Watcher
    <3>1. th' = [th EXCEPT ![p] = Resting]
      BY <1>6, <2>2 DEF DialFail, AbandonTick
    <3>2. Resting.pc = "rest" /\ InHand(Resting)
      BY DEF Resting, InHand
    <3> QED BY <3>1, <3>2, Turned
  <2>3. CASE p # Watcher
    <3>1. PICK r : r = [Resting EXCEPT !.pc = "publish", !.job = "update",
                                       !.cfg = data]
      OBVIOUS
    <3>2. th' = [th EXCEPT ![p] = r]
      BY <1>6, <2>3, <3>1 DEF DialFail
    <3>3. r.pc = "publish" /\ r.job = "update" /\ r.todo = {}
      BY <3>1 DEF Resting
    <3>4. InHand(r) /\ Onward(th[p], r)
      BY <2>1, <3>3 DEF InHand, Onward
    <3> QED BY <3>2, <3>4, Turned
  <2> QED BY <2>2, <2>3
<1>7. CASE StartCollector(p)
  <2>1. t \in th[p].todo /\ t \in Targets
    BY <1>1, <1>2, <1>7 DEF StartCollector
  <2>2. th' = th \/ th' = [th EXCEPT ![p] = Done(p, t)]
    BY <1>7 DEF StartCollector
  <2> QED BY <2>1, <2>2, DoneGoes
<1> QED BY <1>3, <1>4, <1>5, <1>6, <1>7 DEF CallStep

LEMMA TargetGoes ==
    ASSUME IInv, HandsInv, NEW p \in Threads, NEW t \in Targets,
           \/ p = Watcher /\ (GoneTarget(t) \/ FreshTarget(t))
           \/ UpdateTarget(p, t) \/ DeleteTarget(p, t)
    PROVE  th' = th \/ Goes(p)
<1>1. th[p].pc = "loop" /\ t \in th[p].todo
  BY DEF GoneTarget, FreshTarget, UpdateTarget, DeleteTarget, InLoop
<1>2. \/ CallStop(p, t) \/ th' = [th EXCEPT ![p] = Done(p, t)]
      \/ th' = [th EXCEPT ![p] = Dialling(p, t)]
  BY DEF GoneTarget, FreshTarget, UpdateTarget, DeleteTarget
<1> QED BY <1>1, <1>2, CallStopGoes, DoneGoes, DialGoes

(* The beginnings and the ends of loops.                                   *)
LEMMA LoopGoes ==
    ASSUME IInv, HandsInv, NEW p \in Threads,
           \/ p = Watcher /\ (ListFail \/ Notify \/ GoneDone \/ FreshDone)
           \/ SetUpdate(p) \/ SetDelete(p)
           \/ UpdateDone(p) \/ Publish(p) \/ DeleteDone(p)
    PROVE  Goes(p)
<1>1. th[p] \in ThreadStates
  BY DEF IInv, TypeOK
<1>2. Resting.pc = "rest" /\ InHand(Resting)
  BY DEF Resting, InHand
<1>3. CASE th' = [th EXCEPT ![p] = Resting]
  BY <1>2, <1>3, Turned
<1>4. ASSUME NEW job, NEW todo, th[p].pc = "rest",
             th' = [th EXCEPT ![p] = [Resting EXCEPT !.pc = "loop",
                                          !.job = job, !.todo = todo]]
      PROVE  Goes(p)
  <2>1. PICK r : r = [Resting EXCEPT !.pc = "loop", !.job = job,
                                     !.todo = todo]
    OBVIOUS
  <2>2. InHand(r)
    BY <2>1 DEF Resting, InHand
  <2> QED BY <1>4, <2>1, <2>2, Turned
<1>5. CASE p = Watcher /\ ListFail
  <2>1. PICK r : r = [th[p] EXCEPT !.pc = "dead"]
    OBVIOUS
  <2>2. r.pc = "dead" /\ InHand(r)
    BY <1>1, <2>1 DEF ThreadStates, InHand
  <2>3. th' = [th EXCEPT ![p] = r]
    BY <1>5, <2>1 DEF ListFail
  <2> QED BY <2>2, <2>3, Turned
<1>6. CASE p = Watcher /\ GoneDone
  <2>1. PICK r : r = [th[p] EXCEPT !.job = "fresh",
                                   !.todo = config \ active]
    OBVIOUS
  <2>2. /\ th[p].pc = "loop" /\ th[p].job = "gone"
        /\ th' = [th EXCEPT ![p].job = "fresh",
                            ![p].todo = config \ active]
    BY <1>6 DEF GoneDone, Finished
  <2>3. th' = [th EXCEPT ![p] = r]
    BY <2>1, <2>2 DEF IInv, TypeOK
  <2>4. r.pc = "loop" /\ r.job = "fresh"
    BY <1>1, <2>1, <2>2 DEF ThreadStates
  <2>5. InHand(r) /\ Onward(th[p], r)
    BY <2>2, <2>4 DEF InHand, Onward
  <2> QED BY <2>3, <2>5, Turned
<1>7. CASE UpdateDone(p)
  <2>1. PICK r : r = [th[p] EXCEPT !.pc = "publish", !.cfg = data]
    OBVIOUS
  <2>2. th[p].pc = "loop" /\ th' = [th EXCEPT ![p] = r]
    BY <1>7, <2>1 DEF UpdateDone, Finished
  <2>3. r.pc = "publish" /\ r.job = th[p].job /\ r.todo = th[p].todo
    BY <1>1, <2>1 DEF ThreadStates
  <2>4. InHand(r)
    BY <2>3 DEF InHand
  <2> QED BY <2>2, <2>3, <2>4, VisitGoes
<1>8. CASE p = Watcher /\ Notify
  BY <1>4, <1>8 DEF Notify
<1>9. CASE SetUpdate(p) \/ SetDelete(p)
  BY <1>4, <1>9 DEF SetUpdate, SetDelete
<1>10. CASE (p = Watcher /\ FreshDone) \/ Publish(p) \/ DeleteDone(p)
  BY <1>3, <1>10 DEF FreshDone, Publish, DeleteDone
<1> QED BY <1>5, <1>6, <1>7, <1>8, <1>9, <1>10

LEMMA NextGoes ==
    ASSUME IInv, HandsInv, [Next]_vars
    PROVE  HandsInv' /\ \A p \in Threads : Advances(p)
<1> USE WatcherIsThread
<1>1. CASE th' = th
  BY <1>1 DEF HandsInv, Advances
<1>2. CASE \E p \in Threads : Goes(p)
  BY <1>2, GoneOn
<1>3. CASE WatcherStep
  BY <1>1, <1>2, <1>3, CallGoes, TargetGoes, LoopGoes DEF WatcherStep
<1>4. ASSUME NEW p \in Setters, SetUpdate(p) \/ SetDelete(p) \/ SetterStep(p)
      PROVE  th' = th \/ \E q \in Threads : Goes(q)
  BY <1>4, CallGoes, TargetGoes, LoopGoes DEF SetterStep
<1>5. CASE Tick \/ ListFail \/ MapRace
  BY <1>1, <1>2, <1>5, LoopGoes DEF Tick, MapRace
<1>6. ASSUME NEW i \in Ids, RunArms(i) \/ LoopDies(i) PROVE th' = th
  BY <1>6 DEF RunArms, LoopDies
<1>7. UNCHANGED vars => th' = th
  BY DEF vars
<1> QED BY <1>1, <1>2, <1>3, <1>4, <1>5, <1>6, <1>7 DEF Next

(* In any overlap and under every fault, a goroutine in the middle of a    *)
(* tick or of a Set only goes forward: it ends, or has fewer targets left, *)
(* or is further on with one of as many.  So it comes to its end unless it *)
(* waits for good, which is in Stop, for a run loop that is gone           *)
(* (collector.go, l. 229-330).                                             *)
THEOREM OperationsAdvanceHolds == Spec => OperationsAdvance
<1>1. Init => HandsInv
  BY DEF Init, Resting, HandsInv, InHand
<1>2. HandsInv /\ IInv /\ [Next]_vars => HandsInv'
  BY NextGoes
<1>3. HandsInv /\ IInv /\ [Next]_vars => [\A p \in Threads : Advances(p)]_vars
  BY NextGoes
<1> QED BY <1>1, <1>2, <1>3, SpecInv, PTL DEF Spec, OperationsAdvance

----------------------------------------------------------------------------
(* Collectors and those who hold them                                      *)

(* A goroutine before its Start has a collector as New made it, one in     *)
(* Stop has one that can be stopped, and one after Stop has one whose loop *)
(* is over.                                                                *)
Held(r) ==
    /\ r.pc = "start" => col[mcs[r.tgt]].loops = 0 /\ ~col[mcs[r.tgt]].armed
    /\ r.pc \in {"stop", "erase"} =>
          r.id \in Ids /\ mcs[r.tgt] = r.id /\ col[r.id].armed
    /\ r.pc = "erase" => col[r.id].loops = 0

AtStart(t) == \E p \in Threads : th[p].tgt = t /\ th[p].pc = "start"

LInv ==
    /\ \A i \in Ids : col[i].loops <= 1
    /\ \A t \in Targets : mcs[t] \in Ids =>
          AtStart(t) \/ col[mcs[t]].armed \/ col[mcs[t]].loops > 0
    /\ \A p \in Threads : Held(th[p])
    /\ Armed

(* What ends the process: see DiesOfNil.                                   *)
NilFound ==
    crashed =>
        \/ \E p \in Threads : \E t \in th[p].todo :
              th[p].pc = "loop" /\ th[p].job # "fresh" /\ mcs[t] = Nil
        \/ \E i \in Ids :
              col[i].loops > 0 /\ ~col[i].armed /\ col[i].cfg = 0

OInv == NilFound /\ (~crashed => LInv)

(* Nobody meets another one in the map.                                    *)
LEMMA NoRace == ASSUME IInv, Alone PROVE ~MapRace
<1>1. ASSUME NEW p \in Threads, NEW q \in Threads, p # q,
             WritesMap(p), UsesMap(q)
      PROVE  FALSE
  <2>1. Busy(p) /\ Busy(q)
    BY <1>1 DEF WritesMap, UsesMap, Busy
  <2> QED BY <1>1, <2>1, OnlyBusy
<1> QED BY <1>1 DEF MapRace

(* As long as nothing is created, started, armed, stopped or erased, every *)
(* collector is where it was.                                              *)
LEMMA SameLife ==
    ASSUME UNCHANGED <<mcs, col>>,
           \A p \in Threads :
              \/ th'[p].pc = th[p].pc /\ th'[p].id = th[p].id
              \/ /\ th'[p].pc \notin {"stop", "erase"}
                 /\ th[p].pc \notin {"stop", "erase"}
    PROVE  \A i \in Ids : Lives(i)
<1> SUFFICES ASSUME NEW i \in Ids PROVE Lives(i)
  OBVIOUS
<1>1. InUse(i)' <=> InUse(i)
  BY DEF InUse
<1>2. \A p \in Threads : /\ th'[p].pc = "stop" /\ th'[p].id = i <=>
                            th[p].pc = "stop" /\ th[p].id = i
                         /\ th'[p].pc = "erase" /\ th'[p].id = i <=>
                            th[p].pc = "erase" /\ th[p].id = i
  OBVIOUS
<1>3. Phase(i)' = Phase(i)
  BY <1>2 DEF Phase
<1>4. Holder(i)' = Holder(i)
  BY <1>2 DEF Holder
<1>5. Life(i)!lifeVars' = Life(i)!lifeVars
  BY <1>3, <1>4 DEF Life!lifeVars
<1> QED BY <1>1, <1>5 DEF Lives

(* What a setter has still to visit is armed as long as it is no more than *)
(* it was.                                                                 *)
LEMMA ArmedKept ==
    ASSUME Armed, NEW p \in Threads,
           \A q \in Threads \ {p} : th'[q] = th[q],
           UNCHANGED <<config, mcs, col>>, round' > 0 => round > 0,
           p \in Setters /\ Busy(p)' =>
              Busy(p) /\ th'[p].todo \subseteq th[p].todo /\ th[p].pc # "start"
    PROVE  Armed'
<1>1. ASSUME NEW q \in Setters, Busy(q)', NEW t \in th'[q].todo,
             mcs[t] \in Ids
      PROVE  col[mcs[t]].armed \/ (th'[q].tgt = t /\ th'[q].pc = "start")
  <2>1. CASE q = p
    <3>1. Busy(p) /\ t \in th[p].todo /\ th[p].pc # "start"
      BY <1>1, <2>1
    <3> QED BY <1>1, <2>1, <3>1 DEF Armed
  <2>2. CASE q # p
    <3>1. th'[q] = th[q] /\ Busy(q)
      BY <1>1, <2>2, WatcherIsThread DEF Busy
    <3> QED BY <1>1, <3>1 DEF Armed
  <2> QED BY <2>1, <2>2
<1>2. round' > 0 => \A t \in Targets \ config : mcs[t] \in Ids =>
                       col[mcs[t]].armed
  BY DEF Armed
<1> QED BY <1>1, <1>2 DEF Armed

(* A goroutine goes on, and no collector with it.                          *)
LEMMA TurnLife ==
    ASSUME LInv, NEW p \in Threads, \A q \in Threads \ {p} : th'[q] = th[q],
           UNCHANGED <<mcs, col>>, Armed',
           th[p].pc \notin {"stop", "erase", "start"},
           th'[p].pc \notin {"stop", "erase", "start"}
    PROVE  LInv' /\ \A i \in Ids : Lives(i)
<1>1. \A i \in Ids : Lives(i)
  <2>1. \A q \in Threads :
           \/ th'[q].pc = th[q].pc /\ th'[q].id = th[q].id
           \/ /\ th'[q].pc \notin {"stop", "erase"}
              /\ th[q].pc \notin {"stop", "erase"}
    OBVIOUS
  <2> QED BY <2>1, SameLife
<1>2. \A t \in Targets : AtStart(t)' <=> AtStart(t)
  BY DEF AtStart
<1>3. ASSUME NEW q \in Threads PROVE Held(th[q])'
  BY DEF LInv, Held
<1> QED BY <1>1, <1>2, <1>3 DEF LInv

(* Stop is only called on what can be stopped, or on the nil interface.    *)
LEMMA CallStopLife ==
    ASSUME IInv, Alone, Working, LInv, NEW p \in Threads, NEW t \in Targets,
           th[p].pc = "loop", t \in th[p].todo, th[p].job # "fresh",
           mcs[t] # Absent, CallStop(p, t), UNCHANGED <<config, round, mcs, col>>
    PROVE  /\ crashed' => mcs[t] = Nil \/ crashed
           /\ ~crashed' => LInv' /\ \A i \in Ids : Lives(i)
<1>1. Busy(p) /\ Job(p, th[p])
  BY DEF Busy, Working
<1>2. \A q \in Threads \ {p} : ~Busy(q)
  BY <1>1, OnlyBusy
<1>3. mcs[t] \in Ids => col[mcs[t]].armed
  <2>1. CASE p = Watcher
    <3>1. round > 0 /\ t \notin config
      BY <1>1, <2>1 DEF Job, IInv, RoundOpen
    <3> QED BY <3>1 DEF LInv, Armed
  <2>2. CASE p \in Setters
    BY <1>1, <2>2 DEF LInv, Armed
  <2> QED BY <2>1, <2>2 DEF Threads
<1>4. CASE mcs[t] = Nil \/ ~col[mcs[t]].armed
  BY <1>3, <1>4 DEF CallStop, IInv, TypeOK
<1>5. CASE mcs[t] # Nil /\ col[mcs[t]].armed
  <2>1. PICK i \in Ids : i = mcs[t]
    BY <1>5 DEF IInv, TypeOK
  <2>2. PICK r : r = [th[p] EXCEPT !.pc = "stop", !.tgt = t, !.id = i]
    OBVIOUS
  <2>3. th' = [th EXCEPT ![p] = r] /\ crashed' = crashed
    BY <1>5, <2>1, <2>2 DEF CallStop
  <2>4. /\ r \in ThreadStates /\ r.pc = "stop" /\ r.tgt = t /\ r.id = i
        /\ r.job = th[p].job /\ r.todo = th[p].todo
    BY ZenonT(30), <2>1, <2>2 DEF IInv, TypeOK, ThreadStates
  <2>5. \A q \in Threads : th'[q] = IF q = p THEN r ELSE th[q]
    BY <2>3 DEF IInv, TypeOK
  <2>6. Armed'
    <3>1. \A q \in Threads \ {p} : th'[q] = th[q]
      BY <2>5
    <3>2. th'[p].todo = th[p].todo
      BY <2>4, <2>5
    <3> QED BY <1>1, <3>1, <3>2, ArmedKept DEF LInv
  <2>7. \A q \in Threads : Held(th[q])'
    BY <1>5, <2>1, <2>4, <2>5 DEF LInv, Held
  <2>8. \A u \in Targets : AtStart(u) => AtStart(u)'
    BY <2>5 DEF AtStart
  <2>9. LInv'
    BY <2>6, <2>7, <2>8 DEF LInv
  <2>10. \A j \in Ids : Lives(j)
    <3> SUFFICES ASSUME NEW j \in Ids PROVE Lives(j)
      OBVIOUS
    <3>1. InUse(j)' <=> InUse(j)
      BY DEF InUse
    <3>2. \A q \in Threads : ~(th'[q].pc = "erase" /\ th'[q].id = j)
                             /\ ~(th[q].pc = "erase" /\ th[q].id = j)
      BY <1>2, <2>4, <2>5 DEF Busy
    <3>3. \A q \in Threads : th[q].pc # "stop"
      BY <1>2 DEF Busy
    <3>4. Phase(j)' = Phase(j)
      BY <3>2 DEF Phase
    <3>5. CASE j = i
      <4>1. Holder(j) = "holding" /\ Holder(j)' = "stopping"
        BY <2>4, <2>5, <3>2, <3>3, <3>5 DEF Holder
      <4>2. Phase(j) \notin {"created", "starting"}
        BY <1>5, <2>1, <3>5 DEF Phase
      <4>3. Life(j)!StopIsCalled
        BY <3>4, <4>1, <4>2 DEF Life!StopIsCalled
      <4> QED BY <3>1, <4>3 DEF Lives, Life!LifeNext
    <3>6. CASE j # i
      <4>1. \A q \in Threads : ~(th'[q].pc = "stop" /\ th'[q].id = j)
        BY <2>4, <2>5, <3>3, <3>6
      <4>2. Holder(j)' = Holder(j)
        BY <3>2, <3>3, <4>1 DEF Holder
      <4>3. Life(j)!lifeVars' = Life(j)!lifeVars
        BY <3>4, <4>2 DEF Life!lifeVars
      <4> QED BY <3>1, <4>3 DEF Lives
    <3> QED BY <3>5, <3>6
  <2> QED BY <2>3, <2>9, <2>10
<1> QED BY <1>4, <1>5

(* The loop of the collector in hand ends.                                 *)
LEMMA StopReturnLife ==
    ASSUME IInv, Alone, Working, LInv, NEW p \in Threads, StopReturn(p)
    PROVE  LInv' /\ \A i \in Ids : Lives(i)
<1>1. PICK i : i = th[p].id
  OBVIOUS
<1>2. PICK r : r = [th[p] EXCEPT !.pc = "erase"]
  OBVIOUS
<1>3. /\ th[p].pc = "stop" /\ col[i].loops > 0
      /\ col' = [col EXCEPT ![i].loops = @ - 1] /\ th' = [th EXCEPT ![p] = r]
      /\ UNCHANGED <<config, round, mcs>>
  BY <1>1, <1>2 DEF StopReturn, resourceVars
<1>4. /\ r \in ThreadStates /\ r.pc = "erase" /\ r.tgt = th[p].tgt /\ r.id = i
      /\ r.job = th[p].job /\ r.todo = th[p].todo
  BY <1>1, <1>2 DEF IInv, TypeOK, ThreadStates
<1>5. Busy(p) /\ Job(p, th[p])
  BY <1>3 DEF Busy, Working
<1>6. \A q \in Threads \ {p} : ~Busy(q)
  BY <1>5, OnlyBusy
<1>7. /\ i \in Ids /\ mcs[r.tgt] = i /\ col[i].armed /\ r.tgt \in Targets
  BY <1>1, <1>3, <1>4, <1>5 DEF LInv, Held, Job, IInv, TypeOK, ThreadStates
<1>8. \A q \in Threads : th'[q] = IF q = p THEN r ELSE th[q]
  BY <1>3 DEF IInv, TypeOK
<1>9. /\ col[i].loops = 1 /\ col'[i].loops = 0 /\ col'[i].armed
      /\ \A j \in Ids : j # i => col'[j] = col[j]
  <2>1. col[i].loops \in Nat /\ col[i].loops <= 1
    BY <1>7 DEF LInv, IInv, TypeOK
  <2>2. col[i].loops = 1
    BY <1>3, <2>1
  <2> QED BY <1>3, <1>7, <2>2 DEF IInv, TypeOK
<1>10. \A t \in Targets : AtStart(t) => AtStart(t)'
  BY <1>3, <1>8 DEF AtStart
<1>11. ASSUME NEW q \in Threads PROVE Held(th[q])'
  <2>1. CASE q = p
    BY <1>3, <1>4, <1>7, <1>8, <1>9, <2>1 DEF Held
  <2>2. CASE q # p
    <3>1. th'[q].pc \notin {"stop", "erase", "start"}
      BY <1>6, <1>8, <2>2 DEF Busy
    <3> QED BY <3>1 DEF Held
  <2> QED BY <2>1, <2>2
<1>12. Armed'
  <2>1. \A j \in Ids : col[j].armed => col'[j].armed
    BY <1>7, <1>9
  <2>2. \A q \in Setters : Busy(q)' => Busy(q) /\ th'[q].todo = th[q].todo
                                       /\ th[q].pc # "start"
    BY <1>3, <1>4, <1>5, <1>6, <1>8, WatcherIsThread DEF Busy
  <2> QED BY <1>3, <2>1, <2>2 DEF LInv, Armed
<1>13. LInv'
  BY <1>3, <1>7, <1>9, <1>10, <1>11, <1>12 DEF LInv
<1>14. ASSUME NEW j \in Ids PROVE Lives(j)
  <2>1. \A q \in Threads : /\ ~(th'[q].pc = "stop" /\ th'[q].id = j)
                           /\ ~(th[q].pc = "erase" /\ th[q].id = j)
    BY <1>3, <1>4, <1>6, <1>8 DEF Busy
  <2>2. CASE j = i
    <3>1. \E q \in Threads : th'[q].pc = "erase" /\ th'[q].id = j
      BY <1>4, <1>8, <2>2
    <3>2. \E q \in Threads : th[q].pc = "stop" /\ th[q].id = j
      BY <1>1, <1>3, <2>2
    <3>3. Phase(j) = "running" /\ Phase(j)' = "stopped"
      BY <1>7, <1>9, <2>2, <3>1 DEF Phase
    <3>4. Holder(j) = "stopping" /\ Holder(j)' = "released"
      BY <2>1, <3>1, <3>2 DEF Holder
    <3>5. Life(j)!StopReturns
      BY <3>3, <3>4 DEF Life!StopReturns
    <3>6. InUse(j)
      BY <1>7, <2>2 DEF InUse
    <3> QED BY <3>5, <3>6 DEF Lives, Life!LifeNext
  <2>3. CASE j # i
    <3>1. col'[j] = col[j]
      BY <1>9, <2>3
    <3>2. \A q \in Threads :
             /\ ~(th'[q].pc = "erase" /\ th'[q].id = j)
             /\ ~(th[q].pc = "stop" /\ th[q].id = j)
      BY <1>1, <1>4, <1>6, <1>8, <2>3 DEF Busy
    <3>3. Phase(j)' = Phase(j) /\ Holder(j)' = Holder(j)
      BY <2>1, <3>1, <3>2 DEF Phase, Holder
    <3>4. Life(j)!lifeVars' = Life(j)!lifeVars
      BY <3>3 DEF Life!lifeVars
    <3>5. InUse(j)' <=> InUse(j)
      BY <1>3, <3>1 DEF InUse
    <3> QED BY <3>4, <3>5 DEF Lives
  <2> QED BY <2>2, <2>3
<1> QED BY <1>13, <1>14

(* What is erased is out of use, for its loop is over.                     *)
LEMMA EraseLife ==
    ASSUME IInv, HandleMatchesTarget, Alone, Working, LInv,
           NEW p \in Threads, Erase(p)
    PROVE  LInv' /\ \A i \in Ids : Lives(i)
<1> DEFINE t == th[p].tgt
<1>1. PICK r : r = IF th[p].job = "update"
                   THEN [Dialling(p, t) EXCEPT !.id = Absent] ELSE Done(p, t)
  OBVIOUS
<1>2. /\ th' = [th EXCEPT ![p] = r] /\ th[p].pc = "erase"
      /\ mcs' = [mcs EXCEPT ![t] = Absent] /\ UNCHANGED <<config, round, col>>
  BY <1>1 DEF Erase
<1>3. Busy(p) /\ Job(p, th[p])
  BY <1>2 DEF Working, Busy
<1>4. t \in Targets /\ th[p].job \in {"gone", "update", "delete"}
  BY <1>2, <1>3 DEF Job, IInv, TypeOK, ThreadStates
<1>5. r.pc \in {"dial", "loop"} /\ r.todo \subseteq th[p].todo
  <2>1. CASE th[p].job = "update"
    BY <1>1, <1>4, <2>1, DialRecord DEF IInv
  <2>2. CASE th[p].job # "update"
    BY <1>1, <1>4, <2>2, DoneRecord DEF IInv
  <2> QED BY <2>1, <2>2
<1>6. /\ \A q \in Threads : th'[q] = IF q = p THEN r ELSE th[q]
      /\ \A u \in Targets : mcs'[u] = IF u = t THEN Absent ELSE mcs[u]
      /\ Absent \notin Ids
  BY <1>2, <1>4, ConstantsAssumption DEF IInv, TypeOK
<1>7. \A q \in Threads \ {p} : ~Busy(q)
  BY <1>3, OnlyBusy
<1>8. \A q \in Threads : /\ th'[q].pc \notin {"stop", "erase", "start"}
                         /\ th[q].pc \notin {"stop", "start"}
                         /\ th[q].pc = "erase" => q = p
  BY <1>2, <1>5, <1>6, <1>7 DEF Busy
<1>9. Armed'
  <2>1. \A u \in Targets : mcs'[u] \in Ids => mcs[u] = mcs'[u]
    BY <1>6
  <2>2. ASSUME NEW q \in Setters, Busy(q)', NEW u \in th'[q].todo,
               mcs'[u] \in Ids
        PROVE  col[mcs'[u]].armed
    <3>1. q = p
      BY <1>6, <1>7, <2>2, WatcherIsThread DEF Busy
    <3>2. u \in th[p].todo /\ u \in Targets
      BY <1>5, <1>6, <2>2, <3>1, WatcherIsThread
      DEF IInv, TypeOK, ThreadStates
    <3> QED BY <1>3, <1>8, <2>1, <2>2, <3>1, <3>2, WatcherIsThread
            DEF LInv, Armed
  <2>3. round' > 0 => \A u \in Targets \ config' : mcs'[u] \in Ids =>
                         col'[mcs'[u]].armed
    BY <1>2, <2>1 DEF LInv, Armed
  <2> QED BY <1>2, <2>2, <2>3 DEF Armed
<1>10. LInv'
  <2>1. \A q \in Threads : Held(th[q])'
    BY <1>8 DEF Held
  <2>2. \A u \in Targets : ~AtStart(u)
    BY <1>8 DEF AtStart
  <2> QED BY <1>2, <1>6, <1>9, <2>1, <2>2 DEF LInv
<1>11. ASSUME NEW j \in Ids PROVE Lives(j)
  <2>1. CASE j = th[p].id
    <3>1. mcs[t] = j /\ col[j].loops = 0
      BY <1>2, <2>1 DEF LInv, Held
    <3>2. \A u \in Targets : mcs[u] = j => u = t
      BY <1>4, <3>1 DEF HandleMatchesTarget
    <3>3. InUse(j) /\ ~InUse(j)'
      BY <1>2, <1>4, <1>6, <3>1, <3>2 DEF InUse
    <3> QED BY <3>3 DEF Lives
  <2>2. CASE j # th[p].id
    <3>1. mcs[t] # j
      BY <1>2, <2>2 DEF LInv, Held
    <3>2. InUse(j)' <=> InUse(j)
      BY <1>2, <1>6, <3>1 DEF InUse
    <3>3. \A q \in Threads :
             /\ ~(th[q].pc = "erase" /\ th[q].id = j)
             /\ ~(th'[q].pc = "erase" /\ th'[q].id = j)
             /\ ~(th[q].pc = "stop" /\ th[q].id = j)
             /\ ~(th'[q].pc = "stop" /\ th'[q].id = j)
      BY <1>8, <2>2
    <3>4. Phase(j)' = Phase(j) /\ Holder(j)' = Holder(j)
      BY <1>2, <3>3 DEF Phase, Holder
    <3>5. Life(j)!lifeVars' = Life(j)!lifeVars
      BY <3>4 DEF Life!lifeVars
    <3> QED BY <3>2, <3>5 DEF Lives
  <2> QED BY <2>1, <2>2
<1> QED BY <1>10, <1>11

(* New makes a collector of a handle that is out of use.                   *)
LEMMA DialOkLife ==
    ASSUME IInv, Alone, Working, LInv, NEW p \in Threads, DialOk(p)
    PROVE  LInv' /\ \A i \in Ids : Lives(i)
<1> DEFINE t == th[p].tgt
<1>1. PICK r : r = [th[p] EXCEPT !.pc = "start"]
  OBVIOUS
<1>2. PICK i \in Ids :
         /\ Free(i)
         /\ col' = [col EXCEPT ![i] = [tgt |-> t, cfg |-> th[p].cfg,
                                       loops |-> 0, armed |-> FALSE]]
         /\ mcs' = [mcs EXCEPT ![t] = i]
  BY DEF DialOk, Register
<1>3. /\ th' = [th EXCEPT ![p] = r] /\ th[p].pc = "dial"
      /\ UNCHANGED <<config, round>>
  BY <1>1 DEF DialOk
<1>4. r.pc = "start" /\ r.tgt = t /\ r.todo = th[p].todo
  BY <1>1 DEF IInv, TypeOK, ThreadStates
<1>5. Busy(p) /\ Job(p, th[p])
  BY <1>3 DEF Working, Busy
<1>6. /\ t \in Targets /\ th[p].job \in {"fresh", "update"}
      /\ th[p].todo \subseteq Targets /\ t \in th[p].todo
  BY <1>3, <1>5 DEF Job, IInv, TypeOK, ThreadStates
<1>7. /\ \A u \in Targets : mcs'[u] = IF u = t THEN i ELSE mcs[u]
      /\ \A j \in Ids : j # i => col'[j] = col[j]
      /\ col'[i].loops = 0 /\ ~col'[i].armed
      /\ \A u \in Targets : mcs[u] # i
      /\ col[i].loops = 0
  BY <1>2, <1>6 DEF IInv, TypeOK, Free
<1>8. \A q \in Threads : th'[q] = IF q = p THEN r ELSE th[q]
  BY <1>3 DEF IInv, TypeOK
<1>9. \A q \in Threads \ {p} : ~Busy(q)
  BY <1>5, OnlyBusy
<1>10. \A q \in Threads : /\ th'[q].pc \notin {"stop", "erase"}
                          /\ th[q].pc \notin {"stop", "erase", "start"}
                          /\ th'[q].pc = "start" => q = p
  BY <1>3, <1>4, <1>8, <1>9 DEF Busy
<1>11. \A u \in Targets : u # t /\ mcs'[u] \in Ids =>
          mcs'[u] = mcs[u] /\ col'[mcs'[u]] = col[mcs[u]]
  BY <1>7
<1>12. Armed'
  <2>1. ASSUME NEW q \in Setters, Busy(q)', NEW u \in th'[q].todo,
               mcs'[u] \in Ids
        PROVE  \/ col'[mcs'[u]].armed
               \/ th'[q].tgt = u /\ th'[q].pc = "start"
    <3>1. q = p /\ u \in th[p].todo /\ u \in Targets
      BY <1>4, <1>6, <1>8, <1>9, <2>1, WatcherIsThread DEF Busy
    <3>2. CASE u = t
      BY <1>4, <1>8, <3>1, <3>2
    <3>3. CASE u # t
      <4>1. mcs[u] \in Ids /\ th[p].pc # "start"
        BY <1>3, <1>11, <2>1, <3>1, <3>3
      <4>2. col[mcs[u]].armed
        BY <1>5, <3>1, <4>1, <2>1 DEF LInv, Armed
      <4> QED BY <1>11, <2>1, <3>1, <3>3, <4>2
    <3> QED BY <3>2, <3>3
  <2>2. ASSUME round' > 0, NEW u \in Targets \ config', mcs'[u] \in Ids
        PROVE  col'[mcs'[u]].armed
    <3>1. p = Watcher
      BY <1>3, <1>5, <2>2, OnlyBusy DEF Threads, IInv, TypeOK
    <3>2. t \in config
      BY <1>5, <1>6, <3>1 DEF Job
    <3> QED BY <1>3, <1>11, <2>2, <3>2 DEF LInv, Armed
  <2> QED BY <2>1, <2>2 DEF Armed
<1>13. LInv'
  <2>1. \A j \in Ids : col'[j].loops <= 1
    <3>1. 0 <= 1
      OBVIOUS
    <3> QED BY <1>7, <3>1 DEF LInv
  <2>2. Held(r)'
    BY <1>4, <1>6, <1>7 DEF Held
  <2>3. \A q \in Threads : Held(th[q])'
    BY <1>8, <1>10, <2>2 DEF Held
  <2>4. ASSUME NEW u \in Targets, mcs'[u] \in Ids
        PROVE  \/ AtStart(u)' \/ col'[mcs'[u]].armed
               \/ col'[mcs'[u]].loops > 0
    <3>1. CASE u = t
      BY <1>4, <1>8, <3>1 DEF AtStart
    <3>2. CASE u # t
      <4>1. ~AtStart(u)
        BY <1>10 DEF AtStart
      <4> QED BY <1>11, <2>4, <3>2, <4>1 DEF LInv
    <3> QED BY <3>1, <3>2
  <2> QED BY <1>12, <2>1, <2>3, <2>4 DEF LInv
<1>14. ASSUME NEW j \in Ids PROVE Lives(j)
  <2>1. \A q \in Threads : /\ ~(th'[q].pc = "stop" /\ th'[q].id = j)
                           /\ ~(th'[q].pc = "erase" /\ th'[q].id = j)
                           /\ ~(th[q].pc = "stop" /\ th[q].id = j)
                           /\ ~(th[q].pc = "erase" /\ th[q].id = j)
    BY <1>10
  <2>2. CASE j = i
    <3>1. ~InUse(j)
      BY <1>7, <2>2 DEF InUse
    <3>2. Phase(j)' = "created" /\ Holder(j)' = "holding"
      BY <1>7, <2>1, <2>2 DEF Phase, Holder
    <3>3. Life(j)!LifeInit'
      BY <3>2 DEF Life!LifeInit
    <3> QED BY <3>1, <3>3 DEF Lives
  <2>3. CASE j # i
    <3>1. col'[j] = col[j]
      BY <1>7, <2>3
    <3>2. Phase(j)' = Phase(j) /\ Holder(j)' = Holder(j)
      BY <2>1, <3>1 DEF Phase, Holder
    <3>3. Life(j)!lifeVars' = Life(j)!lifeVars
      BY <3>2 DEF Life!lifeVars
    <3>4. InUse(j)' => InUse(j)
      BY <1>7, <2>3, <3>1 DEF InUse
    <3> QED BY <3>3, <3>4 DEF Lives
  <2> QED BY <2>2, <2>3
<1> QED BY <1>13, <1>14

LEMMA DialFailLife ==
    ASSUME IInv, Alone, Working, LInv, NEW p \in Threads, DialFail(p)
    PROVE  LInv' /\ \A i \in Ids : Lives(i)
<1> USE WatcherIsThread
<1> DEFINE t == th[p].tgt
<1>1. PICK r : /\ th' = [th EXCEPT ![p] = r]
               /\ \/ p = Watcher /\ round' = round - 1 /\ r = Resting
                  \/ /\ p # Watcher /\ round' = round
                     /\ r = [Resting EXCEPT !.pc = "publish",
                                            !.job = "update", !.cfg = data]
  BY DEF DialFail, AbandonTick
<1>2. /\ th[p].pc = "dial" /\ mcs' = [mcs EXCEPT ![t] = Nil]
      /\ UNCHANGED <<config, col>>
  BY DEF DialFail, Register
<1>3. r.pc \in {"rest", "publish"} /\ r.todo = {}
  <2>1. /\ Resting.pc = "rest" /\ Resting.todo = {}
    BY DEF Resting
  <2>2. Resting \in ThreadStates
    BY ThreadTypes DEF IInv
  <2> QED BY <1>1, <2>1, <2>2 DEF ThreadStates
<1>4. Busy(p) /\ Job(p, th[p])
  BY <1>2 DEF Working, Busy
<1>5. t \in Targets
  BY <1>2, <1>4 DEF Job, IInv, TypeOK, ThreadStates
<1>6. /\ \A q \in Threads : th'[q] = IF q = p THEN r ELSE th[q]
      /\ \A u \in Targets : mcs'[u] = IF u = t THEN Nil ELSE mcs[u]
      /\ Nil \notin Ids
  BY <1>1, <1>2, <1>5, ConstantsAssumption DEF IInv, TypeOK
<1>7. \A q \in Threads \ {p} : ~Busy(q)
  BY <1>4, OnlyBusy
<1>8. \A q \in Threads : /\ th'[q].pc \notin {"stop", "erase", "start"}
                         /\ th[q].pc \notin {"stop", "erase", "start"}
  BY <1>2, <1>3, <1>6, <1>7 DEF Busy
<1>9. \A u \in Targets : mcs'[u] \in Ids => mcs[u] = mcs'[u]
  BY <1>6
<1>10. Armed'
  <2>1. \A q \in Setters : Busy(q)' => th'[q].todo = {}
    BY <1>3, <1>6, <1>7 DEF Busy
  <2>2. round' > 0 => round > 0
    BY <1>1 DEF IInv, TypeOK
  <2> QED BY <1>2, <1>9, <2>1, <2>2 DEF LInv, Armed
<1>11. LInv'
  <2>1. \A q \in Threads : Held(th[q])'
    BY <1>8 DEF Held
  <2>2. \A u \in Targets : ~AtStart(u)
    BY <1>8 DEF AtStart
  <2> QED BY <1>2, <1>9, <1>10, <2>1, <2>2 DEF LInv
<1>12. ASSUME NEW j \in Ids PROVE Lives(j)
  <2>1. Phase(j)' = Phase(j) /\ Holder(j)' = Holder(j)
    BY <1>2, <1>8 DEF Phase, Holder
  <2>2. Life(j)!lifeVars' = Life(j)!lifeVars
    BY <2>1 DEF Life!lifeVars
  <2>3. InUse(j)' => InUse(j)
    BY <1>2, <1>6 DEF InUse
  <2> QED BY <2>2, <2>3 DEF Lives
<1> QED BY <1>11, <1>12

(* Start is called once, on what New made.                                 *)
LEMMA StartCollectorLife ==
    ASSUME IInv, Alone, Working, LInv, NEW p \in Threads, StartCollector(p)
    PROVE  crashed' = crashed /\ LInv' /\ \A i \in Ids : Lives(i)
<1> DEFINE t == th[p].tgt
           i == mcs[t]
<1>1. Busy(p) /\ Job(p, th[p]) /\ Hand(th[p]) /\ th[p].pc = "start"
  BY DEF StartCollector, Working, Busy
<1>2. /\ i \in Ids /\ t \in Targets /\ th[p].todo \subseteq Targets
      /\ col[i].loops = 0 /\ ~col[i].armed
  BY <1>1 DEF Hand, Job, LInv, Held, IInv, TypeOK, ThreadStates
<1>3. PICK r : r = Done(p, t)
  OBVIOUS
<1>4. /\ th' = [th EXCEPT ![p] = r] /\ crashed' = crashed
      /\ col' = [col EXCEPT ![i].loops = @ + 1]
      /\ UNCHANGED <<config, round, mcs>>
  BY <1>2, <1>3 DEF StartCollector, resourceVars
<1>5. r.pc = "loop" /\ r.todo = th[p].todo \ {t}
  BY <1>2, <1>3, DoneRecord DEF IInv
<1>6. \A q \in Threads : th'[q] = IF q = p THEN r ELSE th[q]
  BY <1>4 DEF IInv, TypeOK
<1>7. /\ col'[i].loops = 1 /\ ~col'[i].armed
      /\ \A j \in Ids : j # i => col'[j] = col[j]
      /\ \A j \in Ids : col'[j].armed = col[j].armed
  BY <1>2, <1>4 DEF IInv, TypeOK
<1>8. \A q \in Threads \ {p} : ~Busy(q)
  BY <1>1, OnlyBusy
<1>9. \A q \in Threads : /\ th'[q].pc \notin {"stop", "erase", "start"}
                         /\ th[q].pc \notin {"stop", "erase"}
                         /\ th[q].pc = "start" => q = p
  BY <1>1, <1>5, <1>6, <1>8 DEF Busy
<1>10. Armed'
  <2>1. ASSUME NEW q \in Setters, Busy(q)', NEW u \in th'[q].todo,
               mcs[u] \in Ids
        PROVE  col[mcs[u]].armed
    <3>1. q = p /\ u \in th[p].todo /\ u # t
      BY <1>5, <1>6, <1>8, <2>1, WatcherIsThread DEF Busy
    <3> QED BY <1>1, <2>1, <3>1 DEF LInv, Armed
  <2>2. \A u \in Targets : mcs[u] \in Ids =>
           col'[mcs[u]].armed = col[mcs[u]].armed
    BY <1>7
  <2>3. \A q \in Setters : Busy(q)' => th'[q].todo \subseteq Targets
    BY <1>2, <1>5, <1>6, <1>8, WatcherIsThread DEF Busy
  <2> QED BY <1>4, <2>1, <2>2, <2>3 DEF LInv, Armed
<1>11. LInv'
  <2>1. \A q \in Threads : Held(th[q])'
    BY <1>9 DEF Held
  <2>2. \A j \in Ids : col'[j].loops <= 1
    <3>1. 1 <= 1
      OBVIOUS
    <3> QED BY <1>7, <3>1 DEF LInv
  <2>3. ASSUME NEW u \in Targets, mcs[u] \in Ids
        PROVE  col'[mcs[u]].armed \/ col'[mcs[u]].loops > 0
    <3>1. CASE mcs[u] = i
      BY <1>7, <3>1
    <3>2. CASE mcs[u] # i
      <4>1. ~AtStart(u)
        BY <1>9, <3>2 DEF AtStart
      <4> QED BY <1>7, <2>3, <3>2, <4>1 DEF LInv
    <3> QED BY <3>1, <3>2
  <2> QED BY <1>4, <1>10, <2>1, <2>2, <2>3 DEF LInv
<1>12. ASSUME NEW j \in Ids PROVE Lives(j)
  <2>1. \A q \in Threads : /\ ~(th'[q].pc = "stop" /\ th'[q].id = j)
                           /\ ~(th'[q].pc = "erase" /\ th'[q].id = j)
                           /\ ~(th[q].pc = "stop" /\ th[q].id = j)
                           /\ ~(th[q].pc = "erase" /\ th[q].id = j)
    BY <1>9
  <2>2. Holder(j) = "holding" /\ Holder(j)' = "holding"
    BY <2>1 DEF Holder
  <2>3. CASE j = i
    <3>1. Phase(j) = "created" /\ Phase(j)' = "starting"
      BY <1>2, <1>7, <2>1, <2>3 DEF Phase
    <3>2. Life(j)!StartReturns
      BY <2>2, <3>1 DEF Life!StartReturns
    <3>3. InUse(j)
      BY <1>2, <2>3 DEF InUse
    <3> QED BY <3>2, <3>3 DEF Lives, Life!LifeNext
  <2>4. CASE j # i
    <3>1. col'[j] = col[j]
      BY <1>7, <2>4
    <3>2. Phase(j)' = Phase(j)
      BY <2>1, <3>1 DEF Phase
    <3>3. Life(j)!lifeVars' = Life(j)!lifeVars
      BY <2>2, <3>2 DEF Life!lifeVars
    <3>4. InUse(j)' <=> InUse(j)
      BY <1>4, <3>1 DEF InUse
    <3> QED BY <3>3, <3>4 DEF Lives
  <2> QED BY <2>3, <2>4
<1> QED BY <1>4, <1>11, <1>12

(* A run loop sets the cancel function, or is gone.                        *)
LEMMA LoopLife ==
    ASSUME IInv, Working, LInv, NEW i \in Ids, RunArms(i) \/ LoopDies(i),
           ~crashed'
    PROVE  LInv' /\ \A j \in Ids : Lives(j)
<1>1. /\ UNCHANGED <<config, round, mcs, th>> /\ col[i].loops > 0
      /\ \/ ~col[i].armed /\ col' = [col EXCEPT ![i].armed = TRUE]
         \/ col[i].armed /\ col' = [col EXCEPT ![i].loops = @ - 1]
  BY DEF RunArms, LoopDies, resourceVars
<1>2. col[i].loops = 1
  <2>1. col[i].loops \in Nat /\ col[i].loops <= 1
    BY DEF LInv, IInv, TypeOK
  <2> QED BY <1>1, <2>1
<1>3. /\ \A j \in Ids : j # i => col'[j] = col[j]
      /\ col'[i].armed
      /\ \/ ~col[i].armed /\ col'[i].loops = 1
         \/ col[i].armed /\ col'[i].loops = 0
  <2>1. 1 - 1 = 0
    OBVIOUS
  <2> QED BY <1>1, <1>2, <2>1 DEF IInv, TypeOK
<1>4. LInv'
  <2>1. \A j \in Ids : col[j].armed => col'[j].armed
    BY <1>3
  <2>2. \A j \in Ids : col'[j].loops <= 1
    <3>1. 0 <= 1 /\ 1 <= 1
      OBVIOUS
    <3> QED BY <1>3, <3>1 DEF LInv
  <2>3. \A u \in Targets : mcs[u] \in Ids =>
           AtStart(u) \/ col'[mcs[u]].armed \/ col'[mcs[u]].loops > 0
    BY <1>3 DEF LInv
  <2>4. ASSUME NEW q \in Threads PROVE Held(th[q])'
    <3>1. CASE th[q].pc = "start"
      <4>1. col[mcs[th[q].tgt]].loops = 0
        BY <3>1 DEF LInv, Held
      <4>2. col'[mcs[th[q].tgt]] = col[mcs[th[q].tgt]]
        <5>1. mcs[th[q].tgt] # i
          BY <1>2, <4>1
        <5>2. mcs[th[q].tgt] \in Ids
          BY <3>1 DEF Working, Busy, Hand
        <5> QED BY <1>3, <5>1, <5>2
      <4> QED BY <1>1, <3>1, <4>2 DEF LInv, Held
    <3>2. CASE th[q].pc \in {"stop", "erase"}
      <4>1. th[q].pc = "erase" => th[q].id # i
        BY <1>2 DEF LInv, Held
      <4> QED BY <1>1, <1>3, <2>1, <3>2, <4>1 DEF LInv, Held
    <3>3. CASE th[q].pc \notin {"stop", "erase", "start"}
      BY <1>1, <3>3 DEF Held
    <3> QED BY <3>1, <3>2, <3>3
  <2>5. Armed'
    BY <1>1, <2>1, WatcherIsThread DEF LInv, Armed, Busy
  <2> QED BY <1>1, <2>2, <2>3, <2>4, <2>5 DEF LInv, AtStart
<1>5. ASSUME NEW j \in Ids PROVE Lives(j)
  <2>1. Holder(j)' = Holder(j) /\ Holder(j) # "panicked"
    BY <1>1 DEF Holder
  <2>2. CASE j = i
    <3>1. ~\E q \in Threads : th'[q].pc = "erase" /\ th'[q].id = j
      BY <1>1, <1>2, <2>2 DEF LInv, Held
    <3>2. \/ Phase(j) = "starting" /\ Phase(j)' = "running"
          \/ Phase(j) = "running" /\ Phase(j)' = "failed"
      <4>1. 1 > 0 /\ ~(0 > 0)
        OBVIOUS
      <4> QED BY <1>2, <1>3, <2>2, <3>1, <4>1 DEF Phase
    <3>3. Life(j)!BecomesStoppable \/ Life(j)!Fails
      BY <2>1, <3>2 DEF Life!BecomesStoppable, Life!Fails
    <3>4. InUse(j)
      BY <1>1, <2>2 DEF InUse
    <3> QED BY <3>3, <3>4 DEF Lives, Life!LifeNext
  <2>3. CASE j # i
    <3>1. col'[j] = col[j]
      BY <1>3, <2>3
    <3>2. Phase(j)' = Phase(j)
      BY <1>1, <3>1 DEF Phase
    <3>3. Life(j)!lifeVars' = Life(j)!lifeVars
      BY <2>1, <3>2 DEF Life!lifeVars
    <3>4. InUse(j)' <=> InUse(j)
      BY <1>1, <3>1 DEF InUse
    <3> QED BY <3>3, <3>4 DEF Lives
  <2> QED BY <2>2, <2>3
<1> QED BY <1>4, <1>5

(* The goroutines between one collector and the next.                      *)
LEMMA BetweenLife ==
    ASSUME IInv, IInv', LInv, NEW p \in Threads,
           \/ p = Watcher /\ (Notify \/ GoneDone \/ FreshDone \/ ListFail)
           \/ p \in Setters /\ (UpdateDone(p) \/ Publish(p) \/ DeleteDone(p))
           \/ /\ UNCHANGED <<config, round, mcs, col>>
              /\ th[p].pc = "loop"
              /\ \E t \in Targets : \/ th' = [th EXCEPT ![p] = Done(p, t)]
                                    \/ th' = [th EXCEPT ![p] = Dialling(p, t)]
    PROVE  LInv' /\ \A i \in Ids : Lives(i)
<1> USE WatcherIsThread
<1>1. /\ \A q \in Threads \ {p} : th'[q] = th[q]
      /\ UNCHANGED <<config, mcs, col>>
      /\ round' = round \/ round' = round - 1
  BY DEF Notify, GoneDone, FreshDone, ListFail, UpdateDone, Publish, DeleteDone,
         IInv, TypeOK, resourceVars
<1>2. /\ th[p].pc \in {"rest", "loop", "publish"}
      /\ th'[p].pc \in {"rest", "dead", "loop", "publish", "dial"}
      /\ p \in Setters /\ th'[p].pc # "rest" =>
            th[p].pc = "loop" /\ th'[p].todo \subseteq th[p].todo
  <2>1. CASE p = Watcher /\ (Notify \/ GoneDone \/ FreshDone \/ ListFail)
    <3>1. p \notin Setters
      BY <2>1, ConstantsAssumption
    <3>2. th[p].pc \in {"rest", "loop"}
      BY <2>1 DEF Notify, GoneDone, FreshDone, ListFail, Finished
    <3>3. th'[p].pc \in {"rest", "dead", "loop"}
      <4>1. CASE Notify \/ FreshDone
        <5>1. Resting.pc = "rest"
          BY DEF Resting
        <5>2. PICK todo : th'[p] = Resting
                          \/ th'[p] = [Resting EXCEPT !.pc = "loop",
                                           !.job = "gone", !.todo = todo]
          BY <2>1, <4>1 DEF Notify, FreshDone, IInv, TypeOK
        <5> QED BY <5>1, <5>2 DEF Resting
      <4>2. CASE GoneDone
        <5>1. th[p].pc = "loop" /\ th[p] \in ThreadStates
          BY <2>1, <4>2 DEF GoneDone, Finished, IInv, TypeOK
        <5>2. th'[p] = [th[p] EXCEPT !.job = "fresh",
                                     !.todo = config \ active]
          BY <2>1, <4>2 DEF GoneDone, IInv, TypeOK
        <5> QED BY <5>1, <5>2 DEF ThreadStates
      <4>3. CASE ListFail
        <5>1. th'[p] = [th[p] EXCEPT !.pc = "dead"] /\ th[p] \in ThreadStates
          BY <2>1, <4>3 DEF ListFail, IInv, TypeOK
        <5> QED BY <5>1 DEF ThreadStates
      <4> QED BY <2>1, <4>1, <4>2, <4>3
    <3> QED BY <3>1, <3>2, <3>3
  <2>2. CASE p \in Setters /\ (UpdateDone(p) \/ Publish(p) \/ DeleteDone(p))
    <3>1. CASE UpdateDone(p)
      <4>1. th'[p] = [th[p] EXCEPT !.pc = "publish", !.cfg = data]
        BY <3>1 DEF UpdateDone, IInv, TypeOK
      <4>2. th'[p].pc = "publish" /\ th'[p].todo = th[p].todo
        BY <4>1 DEF IInv, TypeOK, ThreadStates
      <4> QED BY <3>1, <4>2 DEF UpdateDone, Finished
    <3>2. CASE Publish(p) \/ DeleteDone(p)
      <4>1. th'[p] = Resting /\ th[p].pc \in {"publish", "loop"}
        BY <3>2 DEF Publish, DeleteDone, Finished, IInv, TypeOK
      <4> QED BY <4>1 DEF Resting
    <3> QED BY <2>2, <3>1, <3>2
  <2>3. ASSUME NEW t \in Targets, th[p].pc = "loop",
               \/ th' = [th EXCEPT ![p] = Done(p, t)]
               \/ th' = [th EXCEPT ![p] = Dialling(p, t)]
        PROVE  /\ th[p].pc = "loop" /\ th'[p].pc \in {"loop", "dial"}
               /\ th'[p].todo \subseteq th[p].todo
    <3>1. th'[p] = Done(p, t) \/ th'[p] = Dialling(p, t)
      BY <2>3 DEF IInv, TypeOK
    <3> QED BY <2>3, <3>1, DoneRecord, DialRecord DEF IInv
  <2> QED BY <2>1, <2>2, <2>3
<1>3. Armed'
  <2>1. round' > 0 => round > 0
    BY <1>1 DEF IInv, TypeOK
  <2>2. p \in Setters /\ Busy(p)' =>
           Busy(p) /\ th'[p].todo \subseteq th[p].todo /\ th[p].pc # "start"
    BY <1>2 DEF Busy
  <2> QED BY <1>1, <2>1, <2>2, ArmedKept DEF LInv
<1> QED BY <1>1, <1>2, <1>3, TurnLife

(* The targets of the loops.                                               *)
LEMMA TargetLife ==
    ASSUME IInv, IInv', Alone, Working, LInv, ~crashed,
           NEW p \in Threads, NEW t \in Targets,
           \/ p = Watcher /\ (GoneTarget(t) \/ FreshTarget(t))
           \/ p \in Setters /\ (UpdateTarget(p, t) \/ DeleteTarget(p, t))
    PROVE  /\ crashed' => mcs[t] = Nil
           /\ ~crashed' => LInv' /\ \A i \in Ids : Lives(i)
<1>1. /\ th[p].pc = "loop" /\ t \in th[p].todo
      /\ UNCHANGED <<config, round, mcs, col>>
  BY DEF GoneTarget, FreshTarget, UpdateTarget, DeleteTarget, InLoop,
         resourceVars
<1>2. CASE CallStop(p, t) /\ mcs[t] # Absent /\ th[p].job # "fresh"
  BY <1>1, <1>2, CallStopLife
<1>3. CASE ~(CallStop(p, t) /\ mcs[t] # Absent /\ th[p].job # "fresh")
  <2>1. /\ crashed' = crashed
        /\ \/ th' = [th EXCEPT ![p] = Done(p, t)]
           \/ th' = [th EXCEPT ![p] = Dialling(p, t)]
    BY <1>3
    DEF GoneTarget, FreshTarget, UpdateTarget, DeleteTarget, InLoop
  <2> QED BY <1>1, <2>1, BetweenLife
<1> QED BY <1>2, <1>3

(* An operation begins in a quiet moment, with all that is mapped armed.   *)
LEMMA BeginLife ==
    ASSUME ~Overlap, IInv, IInv', LInv,
           Tick \/ \E p \in Setters : SetUpdate(p) \/ SetDelete(p)
    PROVE  LInv' /\ \A i \in Ids : Lives(i)
<1> USE WatcherIsThread
<1>1. MayBegin /\ UNCHANGED <<mcs, col>>
  BY DEF Tick, SetUpdate, SetDelete, resourceVars
<1>2. \A q \in Threads : th[q].pc \in {"rest", "dead"}
  BY <1>1 DEF MayBegin, AtRest
<1>3. \A t \in Targets : mcs[t] \in Ids => col[mcs[t]].armed
  <2>1. \A t \in Targets : ~AtStart(t)
    BY <1>2 DEF AtStart
  <2> QED BY <1>1, <2>1 DEF LInv, MayBegin
<1>4. Armed'
  <2>1. \A q \in Threads : th'[q].todo \subseteq Targets
    BY DEF IInv, TypeOK, ThreadStates
  <2> QED BY <1>1, <1>3, <2>1 DEF Armed
<1>5. PICK p \in Threads : /\ \A q \in Threads \ {p} : th'[q] = th[q]
                           /\ th'[p].pc \in {"rest", "dead", "loop"}
  <2>1. CASE Tick
    BY <1>2, <2>1 DEF Tick
  <2>2. ASSUME NEW p \in Setters, SetUpdate(p) \/ SetDelete(p)
        PROVE  /\ \A q \in Threads \ {p} : th'[q] = th[q]
               /\ th'[p].pc = "loop"
    <3>1. PICK job :
             th' = [th EXCEPT ![p] = [Resting EXCEPT !.pc = "loop",
                                         !.job = job, !.todo = config]]
      BY <2>2 DEF SetUpdate, SetDelete
    <3>2. th'[p] = [Resting EXCEPT !.pc = "loop", !.job = job, !.todo = config]
      BY <3>1 DEF IInv, TypeOK
    <3> QED BY <3>1, <3>2 DEF IInv, TypeOK, Resting
  <2> QED BY <2>1, <2>2
<1>6. th[p].pc \notin {"stop", "erase", "start"}
      /\ th'[p].pc \notin {"stop", "erase", "start"}
  BY <1>2, <1>5
<1> QED BY <1>1, <1>4, <1>5, <1>6, TurnLife

(* Only a Stop of a nil interface and a run loop without a configuration   *)
(* end the process.                                                        *)
LEMMA DeathLife ==
    ASSUME IInv, Alone, Working, LInv, ~crashed, crashed', [Next]_vars
    PROVE  NilFound' /\ UNCHANGED <<mcs, col, th>>
<1> USE WatcherIsThread
<1>1. ASSUME NEW p \in Threads, NEW t \in Targets,
             \/ p = Watcher /\ GoneTarget(t)
             \/ p \in Setters /\ (UpdateTarget(p, t) \/ DeleteTarget(p, t))
      PROVE  NilFound' /\ UNCHANGED <<mcs, col, th>>
  <2>1. /\ th[p].pc = "loop" /\ t \in th[p].todo /\ th[p].job # "fresh"
        /\ UNCHANGED <<config, round, mcs, col>>
    BY <1>1 DEF GoneTarget, UpdateTarget, DeleteTarget, InLoop, resourceVars
  <2>2. CallStop(p, t) /\ mcs[t] # Absent
    BY <1>1 DEF GoneTarget, UpdateTarget, DeleteTarget
  <2>3. mcs[t] = Nil
    BY <2>1, <2>2, CallStopLife
  <2>4. th' = th
    BY <2>2 DEF CallStop
  <2> QED BY <2>1, <2>3, <2>4 DEF NilFound
<1>2. ASSUME NEW i \in Ids, RunArms(i)
      PROVE  NilFound' /\ UNCHANGED <<mcs, col, th>>
  <2>1. /\ col[i].loops > 0 /\ ~col[i].armed /\ col[i].cfg = 0
        /\ UNCHANGED <<mcs, col, th>>
    BY <1>2 DEF RunArms, resourceVars
  <2> QED BY <2>1 DEF NilFound
<1>3. \A p \in Threads : ~StartCollector(p)
  BY StartCollectorLife
<1>4. \A p \in Threads : ~CallStep(p)
  BY <1>3 DEF CallStep, StopReturn, Erase, DialOk, DialFail
<1>5. CASE WatcherStep
  <2>1. PICK t \in Targets : GoneTarget(t)
    BY <1>4, <1>5 DEF WatcherStep, Notify, GoneDone, FreshDone, FreshTarget
  <2> QED BY <1>1, <2>1
<1>6. ASSUME NEW p \in Setters, SetterStep(p)
      PROVE  NilFound' /\ UNCHANGED <<mcs, col, th>>
  <2>1. PICK t \in Targets : UpdateTarget(p, t) \/ DeleteTarget(p, t)
    BY <1>4, <1>6 DEF SetterStep, UpdateDone, Publish, DeleteDone
  <2> QED BY <1>1, <2>1
<1>7. \/ WatcherStep \/ \E p \in Setters : SetterStep(p)
      \/ \E i \in Ids : RunArms(i)
  BY NoRace DEF Next, Tick, ListFail, SetUpdate, SetDelete, LoopDies, vars
<1> QED BY <1>2, <1>5, <1>6, <1>7

LEMMA CallStepLife ==
    ASSUME IInv, HandleMatchesTarget, Alone, Working, LInv,
           NEW p \in Threads, CallStep(p)
    PROVE  LInv' /\ \A i \in Ids : Lives(i)
BY StopReturnLife, EraseLife, DialOkLife, DialFailLife, StartCollectorLife
   DEF CallStep

LEMMA LifeNext ==
    ASSUME ~Overlap, IInv, IInv', HandleMatchesTarget, Alone, Working, LInv,
           ~crashed, ~crashed', [Next]_vars
    PROVE  LInv' /\ \A i \in Ids : Lives(i)
<1> USE WatcherIsThread
<1>1. CASE Tick \/ \E p \in Setters : SetUpdate(p) \/ SetDelete(p)
  BY <1>1, BeginLife
<1>2. CASE ListFail
  BY <1>2, BetweenLife
<1>3. CASE WatcherStep
  BY <1>3, CallStepLife, BetweenLife, TargetLife DEF WatcherStep
<1>4. ASSUME NEW p \in Setters, SetterStep(p)
      PROVE  LInv' /\ \A i \in Ids : Lives(i)
  BY <1>4, CallStepLife, BetweenLife, TargetLife DEF SetterStep
<1>5. ASSUME NEW i \in Ids, RunArms(i) \/ LoopDies(i)
      PROVE  LInv' /\ \A j \in Ids : Lives(j)
  BY <1>5, LoopLife
<1>6. CASE UNCHANGED vars
  <2>1. UNCHANGED <<config, round, mcs, col, th>>
    BY <1>6 DEF vars
  <2>2. \A i \in Ids : Lives(i)
    BY <2>1, SameLife
  <2>3. Armed'
    BY <2>1 DEF LInv, Armed, Busy
  <2> QED BY <2>1, <2>2, <2>3 DEF LInv, AtStart, Held
<1> QED BY <1>1, <1>2, <1>3, <1>4, <1>5, <1>6, NoRace DEF Next

LEMMA OInvNext ==
    ASSUME ~Overlap, IInv, IInv', SInv, HandleMatchesTarget, OInv, [Next]_vars
    PROVE  OInv' /\ \A i \in Ids : Lives(i)
<1>1. CASE crashed
  <2>1. UNCHANGED <<mcs, col, th, crashed>>
    BY <1>1, DeadStops DEF vars
  <2>2. \A i \in Ids : Lives(i)
    BY <2>1, SameLife
  <2> QED BY <1>1, <2>1, <2>2 DEF OInv, NilFound
<1>2. CASE ~crashed
  <2>1. Alone /\ Working /\ LInv
    BY <1>2 DEF SInv, OInv
  <2>2. CASE crashed'
    <3>1. NilFound' /\ UNCHANGED <<mcs, col, th>>
      BY <1>2, <2>1, <2>2, DeathLife
    <3> QED BY <2>2, <3>1, SameLife DEF OInv
  <2>3. CASE ~crashed'
    <3>1. LInv' /\ \A i \in Ids : Lives(i)
      BY <1>2, <2>1, <2>3, LifeNext
    <3> QED BY <2>3, <3>1 DEF OInv, NilFound
  <2> QED BY <2>2, <2>3
<1> QED BY <1>1, <1>2

LEMMA OInvInit == Init => OInv
<1> SUFFICES ASSUME Init PROVE OInv
  OBVIOUS
<1>1. /\ \A p \in Threads : th[p] = Resting
      /\ \A i \in Ids : col[i].loops = 0
      /\ \A t \in Targets : mcs[t] = Absent
      /\ round = 0 /\ ~crashed /\ Absent \notin Ids
  BY ConstantsAssumption DEF Init, NoCollector
<1>2. \A p \in Threads : th[p].pc = "rest"
  BY <1>1 DEF Resting
<1>3. \A p \in Threads : Held(th[p]) /\ ~Busy(p)
  BY <1>2 DEF Held, Busy
<1>4. Armed
  BY <1>1, <1>3, WatcherIsThread DEF Armed
<1>5. \A i \in Ids : col[i].loops <= 1
  <2>1. 0 <= 1
    OBVIOUS
  <2> QED BY <1>1, <2>1
<1> QED BY <1>1, <1>3, <1>4, <1>5 DEF OInv, NilFound, LInv

LEMMA SpecLife ==
    ASSUME ~Overlap
    PROVE  Spec => [](IInv /\ SInv /\ HandleMatchesTarget /\ OInv)
<1>1. IInv /\ IInv' /\ SInv /\ HandleMatchesTarget /\ OInv /\ [Next]_vars
         => OInv'
  BY OInvNext
<1>2. Spec => []HandleMatchesTarget
  BY SpecMatches
<1>3. Spec => [](IInv /\ SInv)
  BY SpecSerial
<1> QED BY <1>1, <1>2, <1>3, OInvInit, PTL DEF Spec

(* When Sets and ticks come one at a time, the application logic uses its  *)
(* metric collectors as module CollectorLife allows, which MetricCollector *)
(* is shown to implement: no Start is doubled, no Stop comes before the    *)
(* cancel function and none twice, whatever dials, streams, lists and      *)
(* configurations fail (collector.go, l. 229-330).                         *)
THEOREM UsesCollectorsHolds == ASSUME ~Overlap PROVE Spec => UsesCollectors
<1>1. IInv /\ IInv' /\ SInv /\ HandleMatchesTarget /\ OInv /\ [Next]_vars
         => [\A i \in Ids : Lives(i)]_vars
  BY OInvNext
<1> QED BY <1>1, SpecLife, PTL DEF Spec, UsesCollectors

----------------------------------------------------------------------------
(* Before any fault *)

(* A goroutine that goes on, or the watcher that begins, writes of itself. *)
LEMMA ThreadOnly ==
    ASSUME TypeOK, Healthy, observers > 0,
           NEW p \in Threads, NEW r \in ThreadStates,
           th' = [th EXCEPT ![p] = r],
           \A q \in Threads \ {p} : ~Busy(q),
           UNCHANGED <<config, observers, round, active, data, mcs,
                       stateCache, col>>,
           th[p].pc \in {"rest", "loop"}, r.pc \notin {"rest", "dead"},
           p \in Setters => Busy(p) /\ r.todo \subseteq th[p].todo,
           r.job = "update" => \A t \in config \ r.todo : Serves(t),
           r.job = "fresh" => \A t \in (config \ active) \ r.todo : Serves(t)
    PROVE  Healthy'
<1>1. \A q \in Threads : th'[q] = IF q = p THEN r ELSE th[q]
  BY DEF TypeOK
<1>2. \A q \in Threads : Busy(q)' => q = p
  BY <1>1 DEF Busy
<1>3. \A t \in Targets : Serves(t)' = Serves(t)
  BY DEF Serves
<1>4. config \subseteq Targets
  BY DEF TypeOK
<1>5. Configured'
  BY DEF Healthy, Configured
<1>6. Started'
  <2>1. \A q \in Threads : th[q].pc \notin {"stop", "erase", "start"}
    BY DEF Busy
  <2> QED BY <2>1 DEF Healthy, Started
<1>7. Armed'
  BY <1>1, <1>2 DEF Healthy, Armed, Threads
<1>8. Serving'
  <2>1. ASSUME NEW q \in Threads, Busy(q)', th'[q].job = "update"
        PROVE  \A t \in config' \ th'[q].todo : Serves(t)'
    BY <1>1, <1>2, <1>3, <1>4, <2>1
  <2>2. ASSUME NEW q \in Threads, Busy(q)', th'[q].job = "fresh"
        PROVE  \A t \in (config' \ active') \ th'[q].todo : Serves(t)'
    BY <1>1, <1>2, <1>3, <1>4, <2>2
  <2>3. ASSUME stateCache # 0, \A q \in Setters : ~Busy(q)'
        PROVE  /\ stateCache' = data'
               /\ \A t \in config' : t \in active' \/ round' = 0 => Serves(t)'
    <3>1. p \notin Setters
      BY <1>1, <2>3 DEF Busy
    <3>2. \A q \in Setters : ~Busy(q)
      BY <3>1, WatcherIsThread
    <3> QED BY <1>3, <1>4, <2>3, <3>2 DEF Healthy, Serving
  <2> QED BY <2>1, <2>2, <2>3 DEF Healthy, Serving
<1> QED BY <1>5, <1>6, <1>7, <1>8 DEF Healthy

(* A run loop that ends is the one of the collector in hand.               *)
LEMMA LoopEnds ==
    ASSUME IInv, HandleMatchesTarget, Alone, Working, Healthy,
           NEW p \in Threads, th[p].pc = "stop", col[th[p].id].loops > 0,
           col' = [col EXCEPT ![th[p].id].loops = @ - 1],
           NEW r \in ThreadStates, th' = [th EXCEPT ![p] = r],
           r.pc \in {"stop", "erase"}, r.tgt = th[p].tgt,
           r.job = th[p].job, r.todo = th[p].todo,
           UNCHANGED <<config, observers, round, active, data, mcs,
                       stateCache>>
    PROVE  Healthy'
<1> DEFINE t == th[p].tgt
           i == th[p].id
<1>1. Busy(p) /\ Job(p, th[p]) /\ Hand(th[p])
  BY DEF Busy, Working
<1>2. /\ \A q \in Threads \ {p} : ~Busy(q)
      /\ p \in Setters => round = 0 /\ p # Watcher
  BY <1>1, OnlyBusy
<1>3. /\ t \in th[p].todo /\ th[p].todo \subseteq Targets /\ t \in Targets
      /\ config \subseteq Targets /\ active \subseteq Targets
      /\ i \in Ids /\ mcs[t] = i
  BY <1>1 DEF Job, Hand, IInv, TypeOK, ThreadStates
<1>4. \A u \in Targets : mcs[u] = i => u = t
  BY <1>3 DEF HandleMatchesTarget
<1>5. \A q \in Threads : th'[q] = IF q = p THEN r ELSE th[q]
  BY DEF IInv, TypeOK
<1>6. \A q \in Threads : Busy(q)' => q = p
  BY <1>2, <1>5 DEF Busy
<1>7. \A j \in Ids : /\ col'[j].cfg = col[j].cfg
                     /\ col'[j].armed = col[j].armed
                     /\ j # i => col'[j].loops = col[j].loops
                     /\ col'[j].loops > 0 => col[j].loops > 0
  BY <1>3 DEF IInv, TypeOK
<1>8. \A u \in Targets : u # t /\ Serves(u) => Serves(u)'
  BY <1>4, <1>7 DEF Serves
<1>9. Configured'
  BY <1>1, <1>7 DEF Healthy, Configured
<1>10. Started'
  <2>1. ASSUME NEW u \in Targets, u # t, mcs[u] \in Ids
        PROVE  col'[mcs[u]].loops > 0
    <3>1. \A q \in Threads :
             ~(th[q].tgt = u /\ th[q].pc \in {"stop", "erase", "start"})
      BY <1>2, <2>1 DEF Busy
    <3>2. col[mcs[u]].loops > 0
      BY <2>1, <3>1 DEF Healthy, Started
    <3> QED BY <1>4, <1>7, <2>1, <3>2
  <2>2. th'[p].tgt = t /\ th'[p].pc \in {"stop", "erase"}
    BY <1>5
  <2> QED BY <2>1, <2>2 DEF Healthy, Started
<1>11. Armed'
  BY <1>5, <1>6, <1>7, <1>1 DEF Healthy, Armed, Threads
<1>12. Serving'
  <2>1. ASSUME NEW q \in Threads, Busy(q)', th'[q].job = "update"
        PROVE  \A u \in config' \ th'[q].todo : Serves(u)'
    BY <1>1, <1>3, <1>5, <1>6, <1>8, <2>1 DEF Healthy, Serving
  <2>2. \A q \in Threads : Busy(q)' => th'[q].job # "fresh"
    BY <1>1, <1>5, <1>6 DEF Job
  <2>3. ASSUME stateCache # 0, \A q \in Setters : ~Busy(q)'
        PROVE  /\ stateCache' = data'
               /\ \A u \in config' :
                     u \in active' \/ round' = 0 => Serves(u)'
    <3>1. p = Watcher
      BY <1>5, <2>3 DEF Busy, Threads
    <3>2. t \notin config
      BY <1>1, <1>3, <3>1 DEF Job
    <3>3. \A q \in Setters : ~Busy(q)
      BY <1>2, <3>1 DEF Threads
    <3> QED BY <1>3, <1>8, <2>3, <3>2, <3>3 DEF Healthy, Serving
  <2> QED BY <2>1, <2>2, <2>3 DEF Healthy, Serving
<1> QED BY <1>9, <1>10, <1>11, <1>12 DEF Healthy

(* Stop is only called on a collector that can be stopped.                 *)
LEMMA CallStopHealthy ==
    ASSUME IInv, Alone, Working, Healthy, NEW p \in Threads, NEW t \in Targets,
           th[p].pc = "loop", t \in th[p].todo, th[p].job # "fresh",
           mcs[t] # Absent, CallStop(p, t),
           UNCHANGED <<config, observers, round, active, data, mcs,
                       stateCache, col>>
    PROVE  crashed' = crashed /\ Healthy'
<1>1. Busy(p) /\ Job(p, th[p])
  BY DEF Busy, Working
<1>2. \A q \in Threads \ {p} : ~Busy(q)
  BY <1>1, OnlyBusy
<1>3. mcs[t] \in Ids
  BY DEF Healthy, Started, IInv, TypeOK
<1>4. col[mcs[t]].armed
  <2>1. CASE p = Watcher
    <3>1. round > 0 /\ t \notin config
      BY <1>1, <2>1 DEF Job, IInv, RoundOpen
    <3> QED BY <1>3, <3>1 DEF Healthy, Armed
  <2>2. CASE p \in Setters
    BY <1>1, <1>3, <2>2 DEF Healthy, Armed
  <2> QED BY <2>1, <2>2 DEF Threads
<1>5. PICK r : r = [th[p] EXCEPT !.pc = "stop", !.tgt = t, !.id = mcs[t]]
  OBVIOUS
<1>6. th' = [th EXCEPT ![p] = r] /\ crashed' = crashed
  BY <1>3, <1>4, <1>5 DEF CallStop, IInv, TypeOK
<1>7. /\ r \in ThreadStates /\ r.pc = "stop"
      /\ r.job = th[p].job /\ r.todo = th[p].todo
  BY ZenonT(30), <1>3, <1>5 DEF IInv, TypeOK, ThreadStates
<1>8. r.job = "update" => \A u \in config \ r.todo : Serves(u)
  BY <1>1, <1>7 DEF Healthy, Serving
<1>9. TypeOK /\ observers > 0
  BY <1>1 DEF IInv, Healthy, Configured
<1> QED BY <1>1, <1>2, <1>6, <1>7, <1>8, <1>9, ThreadOnly

LEMMA WatcherHealthy ==
    ASSUME IInv, Alone, Working, Healthy, Notify \/ GoneDone
    PROVE  Healthy'
<1> USE WatcherIsThread
<1> DEFINE w == th[Watcher]
<1>1. CASE Notify
  <2>1. PICK r : r = [Resting EXCEPT !.pc = "loop", !.job = "gone",
                                     !.todo = active \ config]
    OBVIOUS
  <2>2. /\ th' = [th EXCEPT ![Watcher] = r] /\ round > 0 /\ w.pc = "rest"
        /\ UNCHANGED <<config, observers, round, active, data, mcs,
                       stateCache, col>>
    BY <1>1, <2>1 DEF Notify, resourceVars
  <2>3. r \in ThreadStates /\ r.pc = "loop" /\ r.job = "gone"
    BY <2>1, ThreadTypes DEF IInv, TypeOK, ThreadStates, Resting
  <2>4. \A q \in Threads \ {Watcher} : ~Busy(q)
    BY <2>2 DEF Alone, Threads, IInv, TypeOK
  <2>5. TypeOK /\ observers > 0 /\ Watcher \notin Setters
    BY <2>2 DEF IInv, Healthy, Configured
  <2> QED BY <2>2, <2>3, <2>4, <2>5, ThreadOnly
<1>2. CASE GoneDone
  <2>1. PICK r : r = [w EXCEPT !.job = "fresh", !.todo = config \ active]
    OBVIOUS
  <2>2. /\ th' = [th EXCEPT ![Watcher] = r] /\ w.pc = "loop"
        /\ UNCHANGED <<config, observers, round, active, data, mcs,
                       stateCache, col>>
    BY <1>2, <2>1 DEF GoneDone, Finished, resourceVars, IInv, TypeOK,
                      ThreadStates
  <2>3. /\ r \in ThreadStates /\ r.pc = "loop" /\ r.job = "fresh"
        /\ r.todo = config \ active
    BY ZenonT(30), <2>1, <2>2 DEF IInv, TypeOK, ThreadStates
  <2>4. Busy(Watcher)
    BY <2>2 DEF Busy
  <2>5. /\ \A q \in Threads \ {Watcher} : ~Busy(q)
        /\ TypeOK /\ observers > 0 /\ Watcher \notin Setters
    BY <2>4, OnlyBusy DEF IInv, Healthy, Configured
  <2> QED BY <2>2, <2>3, <2>5, ThreadOnly
<1> QED BY <1>1, <1>2

(* The turns of the loops.                                                 *)
LEMMA TurnHealthy ==
    ASSUME IInv, Alone, Working, Healthy, NEW p \in Threads, NEW t \in Targets,
           \/ p = Watcher /\ (GoneTarget(t) \/ FreshTarget(t))
           \/ p \in Setters /\ (UpdateTarget(p, t) \/ DeleteTarget(p, t))
    PROVE  crashed' = crashed /\ Healthy'
<1>1. /\ th[p].pc = "loop" /\ t \in th[p].todo /\ ~crashed
      /\ th[p].job \in {"gone", "fresh", "update", "delete"}
      /\ UNCHANGED <<config, observers, round, active, data, mcs,
                     stateCache, col>>
  BY DEF GoneTarget, FreshTarget, UpdateTarget, DeleteTarget, InLoop,
         resourceVars
<1>2. CASE CallStop(p, t) /\ mcs[t] # Absent /\ th[p].job # "fresh"
  BY <1>1, <1>2, CallStopHealthy
<1>3. CASE ~(CallStop(p, t) /\ mcs[t] # Absent /\ th[p].job # "fresh")
  <2>1. PICK r : /\ th' = [th EXCEPT ![p] = r]
                 /\ \/ /\ r = Dialling(p, t)
                       /\ th[p].job \in {"fresh", "update"}
                    \/ /\ r = Done(p, t)
                       /\ th[p].job \in {"gone", "delete"}
    BY <1>3
    DEF GoneTarget, FreshTarget, UpdateTarget, DeleteTarget, InLoop
  <2>2. crashed' = crashed
    BY <1>3
    DEF GoneTarget, FreshTarget, UpdateTarget, DeleteTarget, InLoop
  <2>3. CASE r = Dialling(p, t) /\ th[p].job \in {"fresh", "update"}
    <3>1. /\ r \in ThreadStates /\ r.pc = "dial" /\ r.todo = th[p].todo
          /\ r.job = th[p].job
      BY <2>3, DialRecord DEF IInv
    <3>2. Busy(p)
      BY <1>1 DEF Busy
    <3>3. /\ r.job = "update" => \A u \in config \ r.todo : Serves(u)
          /\ r.job = "fresh" =>
                \A u \in (config \ active) \ r.todo : Serves(u)
      BY <3>1, <3>2 DEF Healthy, Serving
    <3>4. /\ \A q \in Threads \ {p} : ~Busy(q)
          /\ TypeOK /\ observers > 0
      BY <3>2, OnlyBusy DEF IInv, Healthy, Configured
    <3> QED BY <1>1, <2>1, <2>2, <3>1, <3>2, <3>3, <3>4, ThreadOnly
  <2>4. CASE r = Done(p, t) /\ th[p].job \in {"gone", "delete"}
    <3>1. /\ r \in ThreadStates /\ r.pc = "loop" /\ r.todo = th[p].todo \ {t}
          /\ r.job = th[p].job
      BY <2>4, DoneRecord DEF IInv
    <3>2. Busy(p)
      BY <1>1 DEF Busy
    <3>3. /\ \A q \in Threads \ {p} : ~Busy(q)
          /\ TypeOK /\ observers > 0
      BY <3>2, OnlyBusy DEF IInv, Healthy, Configured
    <3>4. r.job # "update" /\ r.job # "fresh" /\ r.todo \subseteq th[p].todo
      BY <2>4, <3>1
    <3> QED BY <1>1, <2>1, <2>2, <3>1, <3>2, <3>3, <3>4, ThreadOnly
  <2> QED BY <2>1, <2>3, <2>4
<1> QED BY <1>2, <1>3

LEMMA UpdateDoneHealthy ==
    ASSUME IInv, Alone, Working, Healthy, NEW p \in Setters, UpdateDone(p)
    PROVE  Healthy'
<1> USE WatcherIsThread
<1>1. PICK r : r = [th[p] EXCEPT !.pc = "publish", !.cfg = data]
  OBVIOUS
<1>2. /\ th' = [th EXCEPT ![p] = r]
      /\ th[p].pc = "loop" /\ th[p].job = "update" /\ th[p].todo = {}
      /\ UNCHANGED <<config, observers, round, active, data, mcs,
                     stateCache, col>>
  BY <1>1 DEF UpdateDone, Finished, resourceVars, IInv, TypeOK, ThreadStates
<1>3. /\ r \in ThreadStates /\ r.pc = "publish" /\ r.job = "update"
      /\ r.todo = {}
  BY ZenonT(30), <1>1, <1>2 DEF IInv, TypeOK, ThreadStates
<1>4. Busy(p)
  BY <1>2 DEF Busy
<1>5. \A t \in config \ r.todo : Serves(t)
  BY <1>2, <1>3, <1>4 DEF Healthy, Serving
<1>6. /\ \A q \in Threads \ {p} : ~Busy(q)
      /\ TypeOK /\ observers > 0
  BY <1>4, OnlyBusy DEF IInv, Healthy, Configured
<1> QED BY <1>2, <1>3, <1>4, <1>5, <1>6, ThreadOnly

LEMMA EraseHealthy ==
    ASSUME IInv, Alone, Working, Healthy, NEW p \in Threads, Erase(p)
    PROVE  Healthy'
<1> DEFINE t == th[p].tgt
<1>1. PICK r : r = IF th[p].job = "update"
                   THEN [Dialling(p, t) EXCEPT !.id = Absent] ELSE Done(p, t)
  OBVIOUS
<1>2. /\ th' = [th EXCEPT ![p] = r] /\ th[p].pc = "erase"
      /\ mcs' = [mcs EXCEPT ![t] = Absent]
      /\ UNCHANGED <<config, observers, active, data, round, col, stateCache>>
  BY <1>1 DEF Erase
<1>3. Busy(p) /\ Job(p, th[p])
  BY <1>2 DEF Working, Busy
<1>4. /\ t \in th[p].todo /\ t \in Targets /\ th[p].todo \subseteq Targets
      /\ th[p].job \in {"gone", "update", "delete"}
      /\ config \subseteq Targets /\ active \subseteq Targets
  BY <1>2, <1>3 DEF Job, IInv, TypeOK, ThreadStates
<1>5. \A u \in Targets : mcs'[u] = IF u = t THEN Absent ELSE mcs[u]
  BY <1>2, <1>4 DEF IInv, TypeOK
<1>6. /\ r.pc \in {"dial", "loop"} /\ r.job = th[p].job
      /\ r.todo \subseteq th[p].todo
      /\ r.job = "update" => r.todo = th[p].todo
  <2>1. CASE th[p].job = "update"
    BY <1>1, <1>4, <2>1, DialRecord DEF IInv
  <2>2. CASE th[p].job # "update"
    BY <1>1, <1>4, <2>2, DoneRecord DEF IInv
  <2> QED BY <2>1, <2>2
<1>7. \A q \in Threads : th'[q] = IF q = p THEN r ELSE th[q]
  BY <1>2 DEF IInv, TypeOK
<1>8. \A q \in Threads \ {p} : ~Busy(q)
  BY <1>3, OnlyBusy
<1>9. \A q \in Threads : Busy(q)' => q = p
  BY <1>7, <1>8 DEF Busy
<1>10. \A u \in Targets : u # t /\ Serves(u) => Serves(u)'
  BY <1>2, <1>5 DEF Serves
<1>11. Configured'
  BY <1>2, <1>3 DEF Healthy, Configured
<1>12. Started'
  <2>1. ASSUME NEW u \in Targets, u # t, mcs[u] \in Ids
        PROVE  col'[mcs[u]].loops > 0
    <3>1. \A q \in Threads :
             ~(th[q].tgt = u /\ th[q].pc \in {"stop", "erase", "start"})
      BY <1>8, <2>1 DEF Busy
    <3> QED BY <1>2, <2>1, <3>1 DEF Healthy, Started
  <2> QED BY <1>5, <2>1 DEF Healthy, Started
<1>13. Armed'
  <2>1. \A u \in Targets : mcs'[u] \in Ids => mcs[u] = mcs'[u]
    BY <1>5
  <2>2. th[p].pc # "start"
    BY <1>2
  <2> QED BY <1>2, <1>3, <1>4, <1>6, <1>7, <1>9, <2>1, <2>2
          DEF Healthy, Armed, Threads
<1>14. Serving'
  <2>1. ASSUME NEW q \in Threads, Busy(q)', th'[q].job = "update"
        PROVE  \A u \in config' \ th'[q].todo : Serves(u)'
    BY <1>2, <1>3, <1>4, <1>6, <1>7, <1>9, <1>10, <2>1 DEF Healthy, Serving
  <2>2. \A q \in Threads : Busy(q)' => th'[q].job # "fresh"
    BY <1>4, <1>6, <1>7, <1>9
  <2>3. ASSUME stateCache # 0, \A q \in Setters : ~Busy(q)'
        PROVE  /\ stateCache' = data'
               /\ \A u \in config' :
                     u \in active' \/ round' = 0 => Serves(u)'
    <3>1. p = Watcher
      BY <1>6, <1>7, <2>3 DEF Busy, Threads
    <3>2. t \notin config
      BY <1>3, <1>4, <3>1 DEF Job
    <3>3. \A q \in Setters : ~Busy(q)
      BY <1>8, <3>1 DEF Threads
    <3> QED BY <1>2, <1>4, <1>10, <2>3, <3>2, <3>3 DEF Healthy, Serving
  <2> QED BY <1>2, <2>1, <2>2, <2>3 DEF Healthy, Serving
<1> QED BY <1>11, <1>12, <1>13, <1>14 DEF Healthy

LEMMA DialOkHealthy ==
    ASSUME IInv, Alone, Working, Healthy, NEW p \in Threads, DialOk(p)
    PROVE  Healthy'
<1> DEFINE t == th[p].tgt
<1>1. PICK r : r = [th[p] EXCEPT !.pc = "start"]
  OBVIOUS
<1>2. PICK i \in Ids :
         /\ Free(i)
         /\ col' = [col EXCEPT ![i] = [tgt |-> t, cfg |-> th[p].cfg,
                                       loops |-> 0, armed |-> FALSE]]
         /\ mcs' = [mcs EXCEPT ![t] = i]
  BY DEF DialOk, Register
<1>3. /\ th' = [th EXCEPT ![p] = r] /\ th[p].pc = "dial"
      /\ UNCHANGED <<config, observers, active, data, round, stateCache>>
  BY <1>1 DEF DialOk
<1>4. /\ r.pc = "start" /\ r.tgt = t
      /\ r.job = th[p].job /\ r.todo = th[p].todo
  BY <1>1 DEF IInv, TypeOK, ThreadStates
<1>5. Busy(p) /\ Job(p, th[p])
  BY <1>3 DEF Working, Busy
<1>6. /\ t \in th[p].todo /\ t \in Targets /\ th[p].todo \subseteq Targets
      /\ th[p].job \in {"fresh", "update"}
      /\ config \subseteq Targets /\ active \subseteq Targets
  BY <1>3, <1>5 DEF Job, IInv, TypeOK, ThreadStates
<1>7. \A u \in Targets : mcs'[u] = IF u = t THEN i ELSE mcs[u]
  BY <1>2, <1>6 DEF IInv, TypeOK
<1>8. \A j \in Ids : j # i => col'[j] = col[j]
  BY <1>2 DEF IInv, TypeOK
<1>9. col'[i].loops = 0
  BY <1>2 DEF IInv, TypeOK
<1>10. \A u \in Targets : mcs[u] # i
  BY <1>2 DEF Free
<1>11. \A q \in Threads : th'[q] = IF q = p THEN r ELSE th[q]
  BY <1>3 DEF IInv, TypeOK
<1>12. \A q \in Threads \ {p} : ~Busy(q)
  BY <1>5, OnlyBusy
<1>13. \A q \in Threads : Busy(q)' => q = p
  BY <1>11, <1>12 DEF Busy
<1>14. \A u \in Targets : u # t /\ Serves(u) => Serves(u)'
  BY <1>3, <1>7, <1>8, <1>10 DEF Serves
<1>15. Configured'
  <2>1. \A j \in Ids : col'[j].loops > 0 => col'[j].cfg # 0
    BY <1>8, <1>9 DEF Healthy, Configured
  <2> QED BY <1>3, <1>5, <2>1 DEF Healthy, Configured
<1>16. Started'
  <2>1. ASSUME NEW u \in Targets, u # t, mcs[u] \in Ids
        PROVE  col'[mcs[u]].loops > 0
    <3>1. \A q \in Threads :
             ~(th[q].tgt = u /\ th[q].pc \in {"stop", "erase", "start"})
      BY <1>12, <2>1 DEF Busy
    <3>2. col[mcs[u]].loops > 0
      BY <2>1, <3>1 DEF Healthy, Started
    <3> QED BY <1>8, <1>10, <2>1, <3>2
  <2>2. th'[p].tgt = t /\ th'[p].pc = "start"
    BY <1>4, <1>11
  <2>3. \A u \in Targets : mcs'[u] # Nil
    BY <1>7 DEF Healthy, Started
  <2> QED BY <1>7, <2>1, <2>2, <2>3 DEF Started
<1>17. Armed'
  <2>1. \A u \in Targets : u # t /\ mcs'[u] \in Ids =>
           mcs'[u] = mcs[u] /\ col'[mcs'[u]].armed = col[mcs[u]].armed
    BY <1>7, <1>8, <1>10
  <2>2. ASSUME NEW q \in Setters, Busy(q)', NEW u \in th'[q].todo,
               mcs'[u] \in Ids
        PROVE  \/ col'[mcs'[u]].armed
               \/ th'[q].tgt = u /\ th'[q].pc = "start"
    <3>1. q = p /\ u \in th[p].todo /\ u \in Targets
      BY <1>4, <1>6, <1>11, <1>13, <2>2, WatcherIsThread
    <3>2. CASE u = t
      BY <1>4, <1>11, <3>1, <3>2
    <3>3. CASE u # t
      <4>1. mcs[u] \in Ids /\ th[p].pc # "start"
        BY <1>3, <2>1, <2>2, <3>1, <3>3
      <4>2. col[mcs[u]].armed
        BY <1>5, <3>1, <4>1 DEF Healthy, Armed
      <4> QED BY <2>1, <2>2, <3>1, <3>3, <4>2
    <3> QED BY <3>2, <3>3
  <2>3. ASSUME round' > 0, NEW u \in Targets \ config', mcs'[u] \in Ids
        PROVE  col'[mcs'[u]].armed
    <3>1. p = Watcher
      BY <1>3, <1>5, <2>3, OnlyBusy DEF Threads, IInv, TypeOK
    <3>2. t \in config
      BY <1>5, <1>6, <3>1 DEF Job
    <3> QED BY <1>3, <2>1, <2>3, <3>2 DEF Healthy, Armed
  <2> QED BY <2>2, <2>3 DEF Armed
<1>18. Serving'
  <2>1. ASSUME NEW q \in Threads, Busy(q)', th'[q].job = "update"
        PROVE  \A u \in config' \ th'[q].todo : Serves(u)'
    BY <1>3, <1>4, <1>5, <1>6, <1>11, <1>13, <1>14, <2>1 DEF Healthy, Serving
  <2>2. ASSUME NEW q \in Threads, Busy(q)', th'[q].job = "fresh"
        PROVE  \A u \in (config' \ active') \ th'[q].todo : Serves(u)'
    BY <1>3, <1>4, <1>5, <1>6, <1>11, <1>13, <1>14, <2>2 DEF Healthy, Serving
  <2>3. ASSUME stateCache # 0, \A q \in Setters : ~Busy(q)'
        PROVE  /\ stateCache' = data'
               /\ \A u \in config' :
                     u \in active' \/ round' = 0 => Serves(u)'
    <3>1. p = Watcher
      BY <1>4, <1>11, <2>3 DEF Busy, Threads
    <3>2. t \notin active /\ round # 0
      BY <1>5, <1>6, <3>1 DEF Job, IInv, RoundOpen, Busy, TypeOK
    <3>3. \A q \in Setters : ~Busy(q)
      BY <1>12, <3>1 DEF Threads
    <3> QED BY <1>3, <1>6, <1>14, <2>3, <3>2, <3>3 DEF Healthy, Serving
  <2> QED BY <1>3, <2>1, <2>2, <2>3 DEF Healthy, Serving
<1> QED BY <1>15, <1>16, <1>17, <1>18 DEF Healthy

LEMMA StartCollectorHealthy ==
    ASSUME IInv, Alone, Working, Healthy, NEW p \in Threads,
           StartCollector(p)
    PROVE  crashed' = crashed /\ Healthy'
<1>0. PICK t : t = th[p].tgt
  OBVIOUS
<1>1. PICK r : r = Done(p, t)
  OBVIOUS
<1>2. PICK i : i = mcs[t]
  OBVIOUS
<1>3. th[p].pc = "start"
  BY DEF StartCollector
<1>4. Busy(p) /\ Job(p, th[p]) /\ Hand(th[p])
  BY <1>3 DEF Working, Busy
<1>5. /\ t \in th[p].todo /\ t \in Targets /\ th[p].todo \subseteq Targets
      /\ config \subseteq Targets /\ active \subseteq Targets
      /\ i \in Ids /\ col[i].cfg = data
  BY <1>0, <1>2, <1>3, <1>4 DEF Job, Hand, IInv, TypeOK, ThreadStates
<1>6. /\ th' = [th EXCEPT ![p] = r] /\ crashed' = crashed
      /\ col' = [col EXCEPT ![i].loops = @ + 1]
      /\ UNCHANGED <<config, observers, active, data, mcs, round, stateCache>>
  BY <1>0, <1>1, <1>2, <1>5 DEF StartCollector, resourceVars
<1>7. /\ r.pc = "loop" /\ r.job = th[p].job /\ r.todo = th[p].todo \ {t}
  BY <1>1, <1>5, DoneRecord DEF IInv
<1>8. \A j \in Ids : /\ col'[j].cfg = col[j].cfg
                     /\ col'[j].armed = col[j].armed
                     /\ col[j].loops > 0 => col'[j].loops > 0
                     /\ j # i => col'[j] = col[j]
  BY <1>5, <1>6 DEF IInv, TypeOK
<1>9. col'[i].loops > 0
  BY <1>5, <1>6 DEF IInv, TypeOK
<1>10. \A q \in Threads : th'[q] = IF q = p THEN r ELSE th[q]
  BY <1>6 DEF IInv, TypeOK
<1>11. \A q \in Threads \ {p} : ~Busy(q)
  BY <1>4, OnlyBusy
<1>12. \A q \in Threads : Busy(q)' => q = p
  BY <1>10, <1>11 DEF Busy
<1>13. \A u \in Targets : Serves(u) => Serves(u)'
  BY <1>6, <1>8 DEF Serves
<1>14. Serves(t)'
  BY <1>2, <1>5, <1>6, <1>8, <1>9 DEF Serves
<1>15. Configured'
  <2>1. data # 0
    BY <1>4 DEF Healthy, Configured, IInv, TypeOK
  <2>2. \A j \in Ids : col'[j].loops > 0 => col'[j].cfg # 0
    BY <1>5, <1>8, <2>1 DEF Healthy, Configured
  <2> QED BY <1>4, <1>6, <2>2 DEF Healthy, Configured
<1>16. Started'
  <2>1. ASSUME NEW u \in Targets, mcs[u] \in Ids
        PROVE  col'[mcs[u]].loops > 0
    <3>1. CASE u = t
      BY <1>2, <1>9, <3>1
    <3>2. CASE u # t
      <4>1. \A q \in Threads :
               ~(th[q].tgt = u /\ th[q].pc \in {"stop", "erase", "start"})
        BY <1>0, <1>11, <3>2 DEF Busy
      <4> QED BY <1>8, <2>1, <4>1 DEF Healthy, Started
    <3> QED BY <3>1, <3>2
  <2> QED BY <1>6, <2>1 DEF Healthy, Started
<1>17. Armed'
  BY <1>0, <1>4, <1>6, <1>7, <1>8, <1>10, <1>12 DEF Healthy, Armed, Threads
<1>18. Serving'
  <2>1. ASSUME NEW q \in Threads, Busy(q)', th'[q].job = "update"
        PROVE  \A u \in config' \ th'[q].todo : Serves(u)'
    BY <1>4, <1>5, <1>6, <1>7, <1>10, <1>12, <1>13, <1>14, <2>1
    DEF Healthy, Serving
  <2>2. ASSUME NEW q \in Threads, Busy(q)', th'[q].job = "fresh"
        PROVE  \A u \in (config' \ active') \ th'[q].todo : Serves(u)'
    BY <1>4, <1>5, <1>6, <1>7, <1>10, <1>12, <1>13, <1>14, <2>2
    DEF Healthy, Serving
  <2>3. ASSUME stateCache # 0, \A q \in Setters : ~Busy(q)'
        PROVE  /\ stateCache' = data'
               /\ \A u \in config' :
                     u \in active' \/ round' = 0 => Serves(u)'
    <3>1. p \notin Setters
      BY <1>7, <1>10, <2>3, WatcherIsThread DEF Busy
    <3>2. \A q \in Setters : ~Busy(q)
      BY <1>11, <3>1, WatcherIsThread
    <3> QED BY <1>5, <1>6, <1>13, <2>3, <3>2 DEF Healthy, Serving
  <2> QED BY <1>6, <2>1, <2>2, <2>3 DEF Healthy, Serving
<1> QED BY <1>6, <1>15, <1>16, <1>17, <1>18 DEF Healthy

(* An operation ends: nobody is at work.                                   *)
LEMMA FreshDoneHealthy ==
    ASSUME IInv, Alone, Working, Healthy, FreshDone PROVE Healthy'
<1> USE WatcherIsThread
<1> DEFINE w == th[Watcher]
<1>1. /\ w.pc = "loop" /\ w.job = "fresh" /\ w.todo = {}
      /\ th' = [th EXCEPT ![Watcher] = Resting]
      /\ active' = config /\ round' = round - 1
      /\ UNCHANGED <<config, observers, data, mcs, col, stateCache>>
  BY DEF FreshDone, Finished
<1>2. Busy(Watcher)
  BY <1>1 DEF Busy
<1>3. /\ \A q \in Threads \ {Watcher} : ~Busy(q)
      /\ round > 0 /\ round' \in Nat /\ config \subseteq Targets
  BY <1>1, <1>2, OnlyBusy DEF IInv, RoundOpen, TypeOK
<1>4. \A q \in Threads : ~Busy(q)'
  BY <1>1, <1>3 DEF Busy, IInv, TypeOK, Resting
<1>5. \A t \in Targets : Serves(t)' = Serves(t)
  BY <1>1 DEF Serves
<1>6. Configured'
  BY <1>1, <1>2, <1>4 DEF Healthy, Configured
<1>7. Started'
  <2>1. \A q \in Threads : th[q].pc \notin {"stop", "erase", "start"}
    BY <1>1, <1>3 DEF Busy
  <2> QED BY <1>1, <2>1 DEF Healthy, Started
<1>8. Armed'
  BY <1>1, <1>3, <1>4 DEF Healthy, Armed
<1>9. Serving'
  <2>1. \A t \in config \ active : Serves(t)
    BY <1>1, <1>2 DEF Healthy, Serving
  <2>2. \A q \in Setters : ~Busy(q)
    BY <1>3
  <2>3. stateCache # 0 => /\ stateCache = data
                          /\ \A t \in config : Serves(t)
    BY <2>1, <2>2 DEF Healthy, Serving
  <2> QED BY <1>1, <1>3, <1>4, <1>5, <2>3 DEF Serving
<1> QED BY <1>6, <1>7, <1>8, <1>9 DEF Healthy

LEMMA SetEndsHealthy ==
    ASSUME IInv, Alone, Working, Healthy, NEW p \in Setters,
           Publish(p) \/ DeleteDone(p)
    PROVE  Healthy'
<1> USE WatcherIsThread
<1>1. /\ th' = [th EXCEPT ![p] = Resting] /\ Busy(p)
      /\ th[p].pc \in {"publish", "loop"}
      /\ UNCHANGED <<config, observers, round, active, data, mcs, col>>
  BY DEF Publish, DeleteDone, Finished, Busy, resourceVars
<1>2. /\ \A q \in Threads \ {p} : ~Busy(q)
      /\ round = 0 /\ config \subseteq Targets /\ observers > 0
  BY <1>1, OnlyBusy DEF IInv, TypeOK, Healthy, Configured
<1>3. \A q \in Threads : ~Busy(q)'
  BY <1>1, <1>2 DEF Busy, IInv, TypeOK, Resting
<1>4. \A t \in Targets : Serves(t)' = Serves(t)
  BY <1>1 DEF Serves
<1>5. Configured'
  BY <1>1, <1>2, <1>3 DEF Healthy, Configured
<1>6. Started'
  <2>1. \A q \in Threads : th[q].pc \notin {"stop", "erase", "start"}
    BY <1>1, <1>2 DEF Busy
  <2> QED BY <1>1, <2>1 DEF Healthy, Started
<1>7. Armed'
  BY <1>1, <1>2, <1>3 DEF Healthy, Armed
<1>8. Serving'
  <2>1. CASE Publish(p)
    <3>1. /\ th[p].job = "update" /\ th[p].todo = {} /\ th[p].cfg = data
          /\ stateCache' = data
      BY <1>1, <2>1 DEF Publish, Working, Job, Hand
    <3>2. \A t \in config : Serves(t)
      BY <1>1, <3>1 DEF Healthy, Serving
    <3> QED BY <1>1, <1>2, <1>3, <1>4, <3>1, <3>2 DEF Healthy, Serving
  <2>2. CASE DeleteDone(p)
    BY <1>1, <1>3, <2>2 DEF DeleteDone, Healthy, Serving
  <2> QED BY <2>1, <2>2
<1> QED BY <1>5, <1>6, <1>7, <1>8 DEF Healthy

----------------------------------------------------------------------------
(* An operation begins in a quiet moment.                                  *)

LEMMA Quiet ==
    ASSUME ~Overlap, IInv, Healthy, MayBegin
    PROVE  /\ round = 0
           /\ \A q \in Threads : ~Busy(q)
           /\ \A t \in Targets : mcs[t] \in Ids =>
                 col[mcs[t]].loops > 0 /\ col[mcs[t]].armed
<1>1. round = 0 /\ \A q \in Threads : ~Busy(q)
  BY DEF MayBegin, AtRest, Busy
<1>2. \A q \in Threads : th[q].pc \notin {"stop", "erase", "start"}
  BY <1>1 DEF Busy
<1>3. \A t \in Targets : mcs[t] \in Ids => col[mcs[t]].loops > 0
  BY <1>2 DEF Healthy, Started
<1> QED BY <1>1, <1>3 DEF MayBegin

LEMMA SetBeginsHealthy ==
    ASSUME ~Overlap, IInv, Healthy, NEW p \in Setters,
           SetUpdate(p) \/ SetDelete(p), ~faulted'
    PROVE  Healthy'
<1> USE WatcherIsThread
<1>1. PICK job \in {"update", "delete"} :
         th' = [th EXCEPT ![p] = [Resting EXCEPT !.pc = "loop", !.job = job,
                                                 !.todo = config]]
  BY DEF SetUpdate, SetDelete
<1>2. PICK r : r = [Resting EXCEPT !.pc = "loop", !.job = job,
                                   !.todo = config]
  OBVIOUS
<1>3. /\ MayBegin
      /\ UNCHANGED <<config, round, active, mcs, stateCache, col>>
  BY DEF SetUpdate, SetDelete, resourceVars
<1>4. /\ round = 0 /\ \A q \in Threads : ~Busy(q)
      /\ \A t \in Targets : mcs[t] \in Ids =>
            col[mcs[t]].loops > 0 /\ col[mcs[t]].armed
  BY <1>3, Quiet
<1>5. r.pc = "loop" /\ r.job = job /\ r.todo = config
  BY <1>2, ThreadTypes DEF IInv, TypeOK, ThreadStates, Resting
<1>6. \A q \in Threads : th'[q] = IF q = p THEN r ELSE th[q]
  BY <1>1, <1>2 DEF IInv, TypeOK
<1>7. \A q \in Threads : Busy(q)' => q = p
  BY <1>4, <1>6 DEF Busy
<1>8. config \subseteq Targets /\ p # Watcher
  BY DEF IInv, TypeOK
<1>9. observers' > 0 /\ (data' = 0 => data = 0 /\ observers > 0)
  <2>1. CASE SetUpdate(p)
    <3>1. data' = sets + 1 /\ observers' = observers + 1
      BY <2>1 DEF SetUpdate, CopyConfig, RegisterTargetObserver
    <3> QED BY <3>1 DEF IInv, TypeOK, Versions
  <2>2. CASE SetDelete(p)
    BY <2>2 DEF SetDelete, resourceVars
  <2> QED BY <2>1, <2>2
<1>10. Configured'
  BY <1>3, <1>9 DEF Healthy, Configured
<1>11. Started'
  BY <1>3, <1>4 DEF Healthy, Started
<1>12. Armed'
  BY <1>3, <1>4, <1>5, <1>6, <1>7, <1>8 DEF Armed
<1>13. Serving'
  <2>1. \A q \in Threads : Busy(q)' => q = p /\ th'[q] = r
    BY <1>6, <1>7
  <2>2. Busy(p)'
    BY <1>5, <1>6 DEF Busy
  <2> QED BY <1>3, <1>4, <1>5, <2>1, <2>2 DEF Healthy, Serving
<1> QED BY <1>10, <1>11, <1>12, <1>13 DEF Healthy

LEMMA TickHealthy ==
    ASSUME ~Overlap, IInv, Healthy, Tick PROVE Healthy'
<1>1. /\ MayBegin /\ config' \subseteq Targets /\ round' = observers
      /\ UNCHANGED <<observers, active, data, mcs, stateCache, col, th>>
  BY DEF Tick, resourceVars
<1>2. /\ round = 0 /\ \A q \in Threads : ~Busy(q)
      /\ \A t \in Targets : mcs[t] \in Ids =>
            col[mcs[t]].loops > 0 /\ col[mcs[t]].armed
  BY <1>1, Quiet
<1>3. \A q \in Threads : ~Busy(q)'
  BY <1>1, <1>2 DEF Busy
<1>4. Configured'
  BY <1>1, <1>3 DEF Healthy, Configured
<1>5. Started'
  <2>1. \A t \in Targets : mcs'[t] # Nil
    BY <1>1 DEF Healthy, Started
  <2>2. \A t \in Targets : mcs'[t] \in Ids => col'[mcs'[t]].loops > 0
    BY <1>1, <1>2
  <2> QED BY <2>1, <2>2 DEF Started
<1>6. Armed'
  <2>1. \A q \in Setters : ~Busy(q)'
    BY <1>3, WatcherIsThread
  <2>2. \A t \in Targets : mcs'[t] \in Ids => col'[mcs'[t]].armed
    BY <1>1, <1>2
  <2> QED BY <2>1, <2>2 DEF Armed
<1>7. Serving'
  <2>1. ASSUME round' = 0 PROVE active' \subseteq config'
    <3>1. ~(observers > 0)
      BY <1>1, <2>1 DEF IInv, TypeOK
    <3> QED BY <1>1, <3>1 DEF Healthy, Configured
  <2>2. ASSUME stateCache # 0
        PROVE  /\ stateCache' = data'
               /\ \A t \in config' :
                     t \in active' \/ round' = 0 => Serves(t)'
    <3>1. round' # 0
      BY <1>1, <2>2 DEF Healthy, Configured
    <3>2. \A q \in Setters : ~Busy(q)
      BY <1>2, WatcherIsThread
    <3>3. active \subseteq config /\ stateCache = data
          /\ \A t \in config : Serves(t)
      BY <1>2, <2>2, <3>2 DEF Healthy, Serving
    <3> QED BY <1>1, <3>1, <3>3 DEF Serves
  <2> QED BY <1>1, <1>3, <2>1, <2>2 DEF Serving
<1> QED BY <1>4, <1>5, <1>6, <1>7 DEF Healthy

LEMMA ArmHealthy ==
    ASSUME IInv, Healthy, NEW i \in Ids, RunArms(i)
    PROVE  crashed' = crashed /\ Healthy'
<1>1. col[i].cfg # 0
  BY DEF RunArms, Healthy, Configured
<1>2. /\ col' = [col EXCEPT ![i].armed = TRUE] /\ crashed' = crashed
      /\ UNCHANGED <<config, observers, round, active, data, mcs, stateCache,
                     th>>
  BY <1>1 DEF RunArms, resourceVars
<1>3. \A j \in Ids : /\ col'[j].cfg = col[j].cfg
                     /\ col'[j].loops = col[j].loops
                     /\ col[j].armed => col'[j].armed
  BY <1>2 DEF IInv, TypeOK
<1>4. \A p \in Threads : Busy(p)' = Busy(p)
  BY <1>2 DEF Busy
<1>5. \A t \in Targets : Serves(t)' = Serves(t)
  BY <1>2, <1>3 DEF Serves
<1>6. config \subseteq Targets
  BY DEF IInv, TypeOK
<1>7. Configured'
  BY <1>2, <1>3, <1>4 DEF Healthy, Configured
<1>8. Started'
  BY <1>2, <1>3 DEF Healthy, Started
<1>9. Armed'
  BY <1>2, <1>3, <1>4, WatcherIsThread DEF Healthy, Armed
<1>10. Serving'
  BY <1>2, <1>4, <1>5, <1>6, WatcherIsThread DEF Healthy, Serving
<1> QED BY <1>2, <1>7, <1>8, <1>9, <1>10 DEF Healthy

(* The loop that Stop meets dies in Stop's hands.                          *)
LEMMA DieHealthy ==
    ASSUME IInv, HandleMatchesTarget, Alone, Working, Healthy,
           NEW i \in Ids, LoopDies(i), ~faulted, ~faulted'
    PROVE  Healthy'
<1>1. PICK p \in Threads : th[p].pc = "stop" /\ th[p].id = i
  BY DEF LoopDies
<1>2. PICK r : r = th[p]
  OBVIOUS
<1>3. /\ r \in ThreadStates /\ r.pc \in {"stop", "erase"}
      /\ r.tgt = th[p].tgt /\ r.job = th[p].job /\ r.todo = th[p].todo
      /\ th' = [th EXCEPT ![p] = r]
  BY <1>1, <1>2 DEF LoopDies, IInv, TypeOK
<1>4. /\ col[th[p].id].loops > 0
      /\ col' = [col EXCEPT ![th[p].id].loops = @ - 1]
      /\ UNCHANGED <<config, observers, round, active, data, mcs, stateCache>>
  BY <1>1 DEF LoopDies, resourceVars
<1> QED BY <1>1, <1>3, <1>4, LoopEnds

LEMMA ReturnHealthy ==
    ASSUME IInv, HandleMatchesTarget, Alone, Working, Healthy,
           NEW p \in Threads, StopReturn(p)
    PROVE  Healthy'
<1>1. PICK r : r = [th[p] EXCEPT !.pc = "erase"]
  OBVIOUS
<1>2. /\ r \in ThreadStates /\ r.pc \in {"stop", "erase"}
      /\ r.tgt = th[p].tgt /\ r.job = th[p].job /\ r.todo = th[p].todo
      /\ th' = [th EXCEPT ![p] = r] /\ th[p].pc = "stop"
  BY <1>1 DEF StopReturn, IInv, TypeOK, ThreadStates
<1>3. /\ col[th[p].id].loops > 0
      /\ col' = [col EXCEPT ![th[p].id].loops = @ - 1]
      /\ UNCHANGED <<config, observers, round, active, data, mcs, stateCache>>
  BY DEF StopReturn, resourceVars
<1> QED BY <1>2, <1>3, LoopEnds

LEMMA HealthyNext ==
    ASSUME ~Overlap, IInv, SInv, HandleMatchesTarget, FInv, [Next]_vars
    PROVE  FInv'
<1> USE WatcherIsThread
<1> SUFFICES ASSUME ~faulted' PROVE ~crashed' /\ Healthy'
  BY DEF FInv
<1>1. ~faulted
  BY DEF Next, Tick, ListFail, WatcherStep, SetterStep, CallStep, StopReturn,
         Erase, DialOk, DialFail, StartCollector, Notify, GoneTarget,
         GoneDone, FreshTarget, FreshDone, SetUpdate, SetDelete, CopyConfig,
         UpdateTarget, UpdateDone, Publish, DeleteTarget, DeleteDone,
         MapRace, RunArms, LoopDies, vars, IInv, TypeOK
<1>2. ~crashed /\ Healthy /\ Alone /\ Working
  BY <1>1 DEF FInv, SInv
<1>3. CASE Tick
  BY <1>2, <1>3, TickHealthy DEF Tick
<1>4. ASSUME NEW p \in Threads, CallStep(p) PROVE ~crashed' /\ Healthy'
  <2>1. CASE StopReturn(p)
    BY <1>2, <2>1, ReturnHealthy DEF StopReturn
  <2>2. CASE Erase(p)
    BY <1>2, <2>2, EraseHealthy DEF Erase
  <2>3. CASE DialOk(p)
    BY <1>2, <2>3, DialOkHealthy DEF DialOk
  <2>4. ~DialFail(p)
    BY DEF DialFail
  <2>5. CASE StartCollector(p)
    BY <1>2, <2>5, StartCollectorHealthy
  <2> QED BY <1>4, <2>1, <2>2, <2>3, <2>4, <2>5 DEF CallStep
<1>5. CASE Notify \/ GoneDone
  BY <1>2, <1>5, WatcherHealthy DEF Notify, GoneDone
<1>6. CASE FreshDone
  BY <1>2, <1>6, FreshDoneHealthy DEF FreshDone
<1>7. ASSUME NEW t \in Targets, GoneTarget(t) \/ FreshTarget(t)
      PROVE  ~crashed' /\ Healthy'
  BY <1>2, <1>7, TurnHealthy
<1>8. CASE WatcherStep
  BY <1>4, <1>5, <1>6, <1>7, <1>8 DEF WatcherStep
<1>9. ASSUME NEW p \in Setters, SetterStep(p) PROVE ~crashed' /\ Healthy'
  <2>1. ASSUME NEW t \in Targets, UpdateTarget(p, t) \/ DeleteTarget(p, t)
        PROVE  ~crashed' /\ Healthy'
    BY <1>2, <2>1, TurnHealthy
  <2>2. CASE UpdateDone(p)
    BY <1>2, <2>2, UpdateDoneHealthy DEF UpdateDone
  <2>3. CASE Publish(p) \/ DeleteDone(p)
    BY <1>2, <2>3, SetEndsHealthy DEF Publish, DeleteDone
  <2> QED BY <1>4, <1>9, <2>1, <2>2, <2>3 DEF SetterStep
<1>10. ASSUME NEW p \in Setters, SetUpdate(p) \/ SetDelete(p)
       PROVE  ~crashed' /\ Healthy'
  BY <1>2, <1>10, SetBeginsHealthy DEF SetUpdate, SetDelete
<1>11. ASSUME NEW i \in Ids, RunArms(i) PROVE ~crashed' /\ Healthy'
  BY <1>2, <1>11, ArmHealthy
<1>12. ASSUME NEW i \in Ids, LoopDies(i) PROVE ~crashed' /\ Healthy'
  BY <1>1, <1>2, <1>12, DieHealthy DEF LoopDies
<1>13. ~MapRace /\ ~ListFail
  BY <1>2, NoRace DEF ListFail
<1>14. CASE UNCHANGED vars
  BY <1>2, <1>14
  DEF vars, Healthy, Configured, Started, Armed, Serving, Serves, Busy
<1> QED BY <1>3, <1>8, <1>9, <1>10, <1>11, <1>12, <1>13, <1>14 DEF Next

LEMMA HealthyInit == Init => FInv
<1> SUFFICES ASSUME Init PROVE ~crashed /\ Healthy
  BY DEF FInv
<1>1. \A p \in Threads : ~Busy(p)
  BY DEF Init, Busy, Resting
<1>2. \A t \in Targets : mcs[t] = Absent
  BY DEF Init
<1>3. \A i \in Ids : col[i].loops = 0
  BY DEF Init, NoCollector
<1>4. Configured
  BY <1>1, <1>3 DEF Init, Configured
<1>5. Started /\ Armed
  BY <1>1, <1>2, WatcherIsThread DEF Init, Started, Armed
<1>6. Serving
  BY <1>1 DEF Init, Serving
<1> QED BY <1>4, <1>5, <1>6 DEF Init, Healthy

LEMMA SpecHealthy == ASSUME ~Overlap PROVE Spec => [](IInv /\ FInv)
<1>1. FInv /\ IInv /\ SInv /\ HandleMatchesTarget /\ [Next]_vars => FInv'
  BY HealthyNext
<1> QED
  BY <1>1, HealthyInit, SpecSerial, SpecMatches, PTL DEF Spec

(* When Sets and ticks come one at a time, the process dies of nothing but *)
(* a nil interface that a failed dial left in the map (collector.go, l.    *)
(* 260 and 317) or a run loop that was given no configuration (l. 134),    *)
(* both after a fault: never of a Stop before the cancel function is       *)
(* there, of a Start of what is not in the map, nor of two goroutines in   *)
(* the map at once.                                                        *)
THEOREM DiesOfNilHolds == ASSUME ~Overlap PROVE Spec => []DiesOfNil
<1>1. FInv /\ OInv => DiesOfNil
  BY DEF FInv, OInv, NilFound, DiesOfNil
<1> QED BY <1>1, SpecHealthy, SpecLife, PTL

(* When Sets and ticks come one at a time, once a Set has been answered    *)
(* and nothing moves, every target on the list runs a collector with the   *)
(* configuration that the state cache reports (collector.go, UpdateConfig  *)
(* and UpdateStateCache), however the list changed in between.             *)
THEOREM ServedHolds == ASSUME ~Overlap PROVE Spec => []Served
<1>1. ASSUME IInv, FInv, ~faulted, AtRest, round = 0, stateCache # 0
      PROVE  stateCache = data /\ \A t \in config : Serves(t)
  <2>1. \A p \in Setters : ~Busy(p)
    BY <1>1, WatcherIsThread DEF AtRest, Busy
  <2> QED BY <1>1, <2>1 DEF FInv, Healthy, Serving
<1>2. IInv /\ FInv => Served
  BY <1>1 DEF Served, Serves
<1> QED BY <1>2, SpecHealthy, PTL
============================================================================
