-------------------------- MODULE ConfigSet_proofs --------------------------
(***************************************************************************)
(* Proofs about ConfigSet: first when the reconciler is the only one to    *)
(* Set, then, whoever Sets, the types and the account of the permits.      *)
(***************************************************************************)
EXTENDS ConfigSet, FiniteSetTheorems, TLAPS

USE ConstantsAssumption

ThreadStates ==
    [pc : HoldsPermit \cup {"rest", "fetched", "valid", "uptodate", "call"},
     goal : Contents \cup {None, Gone},
     puts : SUBSET Metrics, dels : SUBSET Metrics, root : BOOLEAN,
     d : Contents \cup {None}, res : Resources \cup {None}]

(* As much typing as the refinement needs.                                 *)
Typed ==
    /\ spec \in Contents \cup {None, Gone}
    /\ past \in SUBSET Contents
    /\ config \in Contents
    /\ child \in Resources \cup {None}
    /\ data \in [Resources -> Contents \cup {None}]
    /\ th \in [Threads -> ThreadStates]

(* Other clients only read, and whatever was asked for is remembered.      *)
OnlyReconcilerSets == \A p \in Clients : th[p].pc \in {"rest", "get"}
AskedFor == spec \in Contents => spec \in past
DataWereAskedFor == \A r \in Resources : data[r] # None => data[r] \in past

(* The content that a Set of the reconciler carries: what is not yet       *)
(* written differs from the goal at most where it is still to be written.  *)
Carried(t, c) ==
    /\ t.pc # "rest" /\ t.goal \in Contents => t.goal \in past
    /\ t.pc \in {"call", "write"} /\ t.root => t.puts = {} /\ t.dels = {}
    /\ t.pc \in {"call", "write"} /\ ~t.root =>
          /\ t.goal \in Contents
          /\ \A m \in t.dels : t.goal[m] = 0
          /\ \A m \in Metrics : m \notin t.puts \cup t.dels =>
                                    c[m] = t.goal[m]
    /\ t.pc = "read" => c = t.goal /\ t.goal \in Contents
    /\ t.pc \in {"lookup", "attach", "apply"} => t.d \in past
    /\ t.pc \in {"attach", "apply", "marshal"} => t.res \in Resources

IInv == /\ Typed /\ OnlyReconcilerSets /\ AskedFor /\ DataWereAskedFor
        /\ Carried(th[Reconciler], config)

(* The empty content is a content, and resting is a state of a goroutine.  *)
LEMMA RestingTyped ==
    /\ Empty \in Contents
    /\ Resting \in ThreadStates
BY DEF Empty, Contents, Resting, ThreadStates, HoldsPermit, InSet

LEMMA InitIInv == Init => IInv
<1> SUFFICES ASSUME Init PROVE IInv
  OBVIOUS
<1>1. \A p \in Threads : th[p] = Resting
  BY DEF Init, Volatile
<1>2. Typed
  BY RestingTyped DEF Init, Volatile, Typed
<1>3. OnlyReconcilerSets /\ AskedFor /\ DataWereAskedFor
  BY <1>1 DEF Init, Volatile, OnlyReconcilerSets, AskedFor,
              DataWereAskedFor, Threads, Resting
<1>4. Carried(th[Reconciler], config)
  BY <1>1 DEF Carried, Threads, Resting
<1> QED
  BY <1>2, <1>3, <1>4 DEF IInv

(* A step of the reconciler that may also write the caches.                *)
LEMMA ReconcilerWrites ==
  ASSUME IInv, NEW x \in ThreadStates,
         th' = [th EXCEPT ![Reconciler] = x],
         spec' \in {spec, None}, past' = past,
         config' \in Contents, Carried(x, config'),
         child' \in Resources \cup {None},
         \/ data' = data
         \/ \E r \in Resources, d \in past : data' = [data EXCEPT ![r] = d]
  PROVE  IInv'
<1>1. th' \in [Threads -> ThreadStates] /\ th'[Reconciler] = x
  BY DEF IInv, Typed, Threads
<1>2. \A p \in Clients : th'[p] = th[p]
  BY DEF IInv, Typed, Threads
<1>3. data' \in [Resources -> Contents \cup {None}] /\ DataWereAskedFor'
  BY DEF IInv, Typed, DataWereAskedFor
<1>4. Typed' /\ OnlyReconcilerSets' /\ AskedFor'
  BY <1>1, <1>2, <1>3 DEF IInv, Typed, OnlyReconcilerSets, AskedFor
<1>5. Carried(th[Reconciler], config)'
  BY <1>1 DEF Carried
<1> QED
  BY <1>3, <1>4, <1>5 DEF IInv

(* A step that gives the reconciler a new state and touches nothing else   *)
(* that the invariant speaks of.                                           *)
LEMMA ReconcilerMoves ==
  ASSUME IInv, NEW x \in ThreadStates, Carried(x, config),
         th' = [th EXCEPT ![Reconciler] = x], spec' \in {spec, None},
         UNCHANGED <<past, config, child, data>>
  PROVE  IInv'
BY ReconcilerWrites DEF IInv, Typed

(* A step of another client.                                               *)
LEMMA ClientMoves ==
  ASSUME IInv, NEW p \in Clients, NEW x \in ThreadStates,
         x.pc \in {"rest", "get"},
         th' = [th EXCEPT ![p] = x],
         UNCHANGED <<spec, past, config, child, data>>
  PROVE  IInv'
<1>1. th' \in [Threads -> ThreadStates] /\ th'[Reconciler] = th[Reconciler]
  BY DEF IInv, Typed, Threads
<1>2. \A q \in Clients : th'[q] = IF q = p THEN x ELSE th[q]
  BY DEF IInv, Typed, Threads
<1>3. Typed' /\ OnlyReconcilerSets' /\ AskedFor' /\ DataWereAskedFor'
  BY <1>1, <1>2 DEF IInv, Typed, OnlyReconcilerSets, AskedFor,
                    DataWereAskedFor
<1>4. Carried(th[Reconciler], config)'
  BY <1>1 DEF IInv, Carried
<1> QED
  BY <1>3, <1>4 DEF IInv

(* A resting goroutine carries nothing.                                    *)
LEMMA RestingCarries == \A c : Carried(Resting, c)
BY DEF Carried, Resting

LEMMA ReconcilerRests ==
  ASSUME IInv, th' = [th EXCEPT ![Reconciler] = Resting],
         spec' \in {spec, None}, UNCHANGED <<past, config, child, data>>
  PROVE  IInv'
BY ReconcilerMoves, RestingTyped, RestingCarries

----------------------------------------------------------------------------

LEMMA EditIInv == ASSUME IInv, Edit PROVE IInv'
<1>1. Typed' /\ OnlyReconcilerSets' /\ AskedFor' /\ DataWereAskedFor'
  <2>1. UNCHANGED <<config, child, data, th>>
    BY DEF Edit, serverVars, cacheVars
  <2>2. spec' \in Contents \cup {None, Gone}
    BY DEF Edit
  <2>3. past' = past \cup ({spec'} \cap Contents)
    BY DEF Edit
  <2> QED
    BY <2>1, <2>2, <2>3 DEF IInv, Typed, OnlyReconcilerSets, AskedFor,
                            DataWereAskedFor
<1>2. Carried(th[Reconciler], config)'
  BY DEF Edit, IInv, Carried, serverVars, cacheVars
<1> QED
  BY <1>1, <1>2 DEF IInv

LEMMA RestartIInv == ASSUME IInv, Restart PROVE IInv'
<1>1. \A p \in Threads : th'[p] = Resting
  BY DEF Restart, Volatile
<1>2. Typed'
  <2>1. th' \in [Threads -> ThreadStates]
    BY RestingTyped DEF Restart, Volatile
  <2>2. config' \in Contents /\ child' = None /\ UNCHANGED <<spec, past>>
    BY RestingTyped DEF Restart, Volatile, userVars
  <2>3. data' \in [Resources -> Contents \cup {None}]
    BY DEF Restart, Volatile
  <2> QED
    BY <2>1, <2>2, <2>3 DEF IInv, Typed
<1>3. OnlyReconcilerSets' /\ AskedFor' /\ DataWereAskedFor'
  BY <1>1 DEF Restart, Volatile, IInv, OnlyReconcilerSets, AskedFor,
              DataWereAskedFor, Threads, Resting, userVars
<1>4. Carried(th[Reconciler], config)'
  BY <1>1 DEF Carried, Threads, Resting
<1> QED
  BY <1>2, <1>3, <1>4 DEF IInv

(* Fetch, Validate, Observe and the end of a reconcile.                    *)
LEMMA ReconcileIInv ==
  ASSUME IInv, \/ Fetch \/ Validate \/ Observe \/ ReconcileDone
               \/ ValidateFails \/ ObserveFails
  PROVE  IInv'
<1> DEFINE t == th[Reconciler]
<1> USE DEF userVars, cacheVars
<1>0. t \in ThreadStates /\ th \in [Threads -> ThreadStates]
  BY DEF IInv, Typed, Threads
<1>1. CASE Fetch
  <2> DEFINE x == [t EXCEPT !.pc = "fetched", !.goal = spec]
  <2>1. x \in ThreadStates
    BY <1>0 DEF ThreadStates, IInv, Typed
  <2>2. Carried(x, config)
    BY <1>0 DEF ThreadStates, IInv, AskedFor, Carried
  <2>3. th' = [th EXCEPT ![Reconciler] = x]
    BY <1>1, <1>0 DEF Fetch, ThreadStates, Threads
  <2> QED
    BY <1>1, <2>1, <2>2, <2>3, ReconcilerMoves DEF Fetch
<1>2. CASE Observe
  <2> DEFINE g == t.goal
             set(ps, ds, rt) == [t EXCEPT !.pc = "call", !.puts = ps,
                                          !.dels = ds, !.root = rt]
             ok == [t EXCEPT !.pc = "uptodate"]
  <2>1. CASE g = Gone /\ config # Empty
    <3>1. set({}, {}, TRUE) \in ThreadStates /\ Carried(set({}, {}, TRUE), config)
      BY <1>0, <2>1 DEF ThreadStates, Carried
    <3>2. th' = [th EXCEPT ![Reconciler] = set({}, {}, TRUE)]
      BY <1>0, <1>2, <2>1 DEF Observe, ThreadStates, Threads
    <3> QED
      BY <1>2, <2>1, <3>1, <3>2, ReconcilerMoves DEF Observe
  <2>2. CASE g = Gone /\ config = Empty
    BY <1>2, <2>2, ReconcilerRests DEF Observe
  <2>3. CASE g \in Contents /\ Delta(g) # [puts |-> {}, dels |-> {}]
    <3> DEFINE x == set(Delta(g).puts, Delta(g).dels, FALSE)
    <3>1. x \in ThreadStates
      BY <1>0 DEF ThreadStates, Delta
    <3>2. Carried(x, config)
      <4>1. g \in past
        BY <1>2, <2>3 DEF IInv, Carried, Observe
      <4>2. \A m \in Metrics : m \notin Delta(g).puts \cup Delta(g).dels =>
                                  config[m] = g[m]
        BY DEF Delta
      <4>3. \A m \in Delta(g).dels : g[m] = 0
        BY DEF Delta
      <4>4. /\ x.pc = "call" /\ x.goal = g /\ x.puts = Delta(g).puts
            /\ x.dels = Delta(g).dels
        BY <1>0 DEF ThreadStates
      <4> QED
        BY <2>3, <4>1, <4>2, <4>3, <4>4 DEF Carried
    <3>3. th' = [th EXCEPT ![Reconciler] = x]
      BY <1>0, <1>2, <2>3 DEF Observe, ThreadStates, Threads
    <3> QED
      BY <1>2, <2>3, <3>1, <3>2, <3>3, ReconcilerMoves DEF Observe
  <2>4. CASE g \in Contents /\ Delta(g) = [puts |-> {}, dels |-> {}]
    <3>1. ok \in ThreadStates
      BY <1>0 DEF ThreadStates
    <3>2. Carried(ok, config)
      BY <1>0, <1>2 DEF IInv, ThreadStates, Carried, Observe
    <3>3. th' \in {[th EXCEPT ![Reconciler] = ok],
                   [th EXCEPT ![Reconciler] = Resting]}
      BY <1>0, <1>2, <2>4 DEF Observe, ThreadStates, Threads
    <3> QED
      BY <1>2, <2>4, <3>1, <3>2, <3>3, ReconcilerMoves, ReconcilerRests
      DEF Observe
  <2> QED
    BY <1>2, <2>1, <2>2, <2>3, <2>4 DEF Observe
<1>3. CASE Validate
  <2> DEFINE x == [t EXCEPT !.pc = "valid"]
  <2>1. x \in ThreadStates
    BY <1>0 DEF ThreadStates
  <2>2. Carried(x, config)
    BY <1>0, <1>3 DEF IInv, ThreadStates, Carried, Validate
  <2>3. th' = [th EXCEPT ![Reconciler] = x]
    BY <1>3, <1>0 DEF Validate, ThreadStates, Threads
  <2> QED
    BY <1>3, <2>1, <2>2, <2>3, ReconcilerMoves DEF Validate
<1>4. CASE ValidateFails \/ ObserveFails
  BY <1>4, ReconcilerRests DEF ValidateFails, ObserveFails
<1>5. CASE ReconcileDone
  BY <1>5, ReconcilerRests DEF ReconcileDone
<1> QED
  BY <1>1, <1>2, <1>3, <1>4, <1>5

(* Every step of a Set of the reconciler.                                  *)
LEMMA SetStepIInv ==
  ASSUME IInv, SetStep(Reconciler) \/ SetFails(Reconciler)
  PROVE  IInv'
<1> DEFINE t == th[Reconciler]
<1> USE DEF userVars, cacheVars
<1>0. t \in ThreadStates /\ th \in [Threads -> ThreadStates]
  BY DEF IInv, Typed, Threads
<1>1. CASE SetBegins(Reconciler)
  <2> DEFINE x == [t EXCEPT !.pc = "write"]
  <2>1. x \in ThreadStates
    BY <1>0 DEF ThreadStates, HoldsPermit, InSet
  <2>2. t.pc = "call"
    BY <1>1 DEF SetBegins
  <2>3. Carried(x, config)
    BY <1>0, <2>2 DEF IInv, ThreadStates, Carried
  <2>4. th' \in {[th EXCEPT ![Reconciler] = x],
                 [th EXCEPT ![Reconciler] = Resting]}
    BY <1>0, <1>1 DEF SetBegins, ThreadStates, Threads
  <2> QED
    BY <1>1, <2>1, <2>3, <2>4, ReconcilerMoves, ReconcilerRests
    DEF SetBegins
<1>2. CASE WritePut(Reconciler)
  <2>1. PICK m \in t.puts :
            /\ config' = [config EXCEPT ![m] = t.goal[m]]
            /\ th' = [th EXCEPT ![Reconciler].puts = @ \ {m}]
    BY <1>2 DEF WritePut
  <2> DEFINE x == [t EXCEPT !.puts = @ \ {m}]
  <2>2. x \in ThreadStates
    BY <1>0 DEF ThreadStates
  <2>3. t.pc = "write" /\ x.pc = "write" /\ x.goal = t.goal
        /\ x.puts = t.puts \ {m} /\ x.dels = t.dels /\ x.root = t.root
    BY <1>0, <1>2 DEF WritePut, ThreadStates
  <2>4. t.goal \in Contents /\ m \in Metrics
    <3>1. t.puts # {} /\ t.puts \subseteq Metrics /\ t.root \in BOOLEAN
      BY <1>0, <2>1 DEF ThreadStates
    <3> QED
      BY <2>1, <2>3, <3>1 DEF IInv, Carried
  <2>5. config' \in Contents
    BY <2>1, <2>4 DEF IInv, Typed, Contents
  <2>6. Carried(x, config')
    BY <2>1, <2>3, <2>4, <2>5 DEF IInv, Typed, Carried, Contents
  <2>7. th' = [th EXCEPT ![Reconciler] = x]
    BY <1>0, <2>1 DEF ThreadStates, Threads
  <2> QED
    BY <1>2, <2>2, <2>5, <2>6, <2>7, ReconcilerWrites
    DEF WritePut, IInv, Typed
<1>3. CASE WriteDelete(Reconciler)
  <2>1. PICK m \in t.dels :
            /\ config' = [config EXCEPT ![m] = 0]
            /\ th' = [th EXCEPT ![Reconciler].dels = @ \ {m}]
    BY <1>3 DEF WriteDelete
  <2> DEFINE x == [t EXCEPT !.dels = @ \ {m}]
  <2>2. x \in ThreadStates
    BY <1>0 DEF ThreadStates
  <2>3. t.pc = "write" /\ x.pc = "write" /\ x.goal = t.goal
        /\ x.puts = t.puts /\ x.dels = t.dels \ {m} /\ x.root = t.root
    BY <1>0, <1>3 DEF WriteDelete, ThreadStates
  <2>4. config' \in Contents /\ m \in Metrics
    BY <1>0, <2>1 DEF IInv, Typed, Contents, ThreadStates
  <2>5. Carried(x, config')
    BY <2>1, <2>3, <2>4 DEF IInv, Typed, Carried, Contents
  <2>6. th' = [th EXCEPT ![Reconciler] = x]
    BY <1>0, <2>1 DEF ThreadStates, Threads
  <2> QED
    BY <1>3, <2>2, <2>4, <2>5, <2>6, ReconcilerWrites
    DEF WriteDelete, IInv, Typed
<1>4. CASE WriteRoot(Reconciler)
  <2> DEFINE x == [t EXCEPT !.pc = "delete"]
  <2>1. x \in ThreadStates
    BY <1>0 DEF ThreadStates, HoldsPermit, InSet
  <2>2. t.pc = "write"
    BY <1>4 DEF WriteRoot
  <2>3. Carried(x, config')
    BY <1>0, <2>2 DEF IInv, ThreadStates, Carried
  <2>4. th' = [th EXCEPT ![Reconciler] = x]
    BY <1>0, <1>4 DEF WriteRoot, ThreadStates, Threads
  <2> QED
    BY <1>4, <2>1, <2>3, <2>4, RestingTyped, ReconcilerWrites
    DEF WriteRoot, IInv, Typed
<1>5. CASE WriteDone(Reconciler)
  <2> DEFINE x == [t EXCEPT !.pc = "read"]
  <2>1. x \in ThreadStates
    BY <1>0 DEF ThreadStates, HoldsPermit, InSet
  <2>2. t.pc = "write" /\ ~t.root /\ t.puts = {} /\ t.dels = {}
    BY <1>5 DEF WriteDone
  <2>3. config = t.goal /\ t.goal \in Contents /\ t.goal \in past
    BY <2>2 DEF IInv, Typed, Carried, Contents
  <2>4. Carried(x, config)
    BY <1>0, <2>3 DEF ThreadStates, Carried
  <2>5. th' = [th EXCEPT ![Reconciler] = x]
    BY <1>0, <1>5 DEF WriteDone, ThreadStates, Threads
  <2> QED
    BY <1>5, <2>1, <2>4, <2>5, ReconcilerMoves DEF WriteDone
<1>6. CASE DeleteChild(Reconciler)
  BY <1>6, ReconcilerRests DEF DeleteChild, Leave
<1>7. CASE ReadConfig(Reconciler)
  <2> DEFINE x == [t EXCEPT !.pc = "lookup", !.d = config]
  <2>1. x \in ThreadStates
    BY <1>0 DEF IInv, Typed, ThreadStates, HoldsPermit, InSet
  <2>2. t.pc = "read"
    BY <1>7 DEF ReadConfig
  <2>3. config \in past
    BY <2>2 DEF IInv, Carried
  <2>4. Carried(x, config)
    BY <1>0, <2>2, <2>3 DEF IInv, ThreadStates, Carried
  <2>5. th' = [th EXCEPT ![Reconciler] = x]
    BY <1>0, <1>7 DEF ReadConfig, ThreadStates, Threads
  <2> QED
    BY <1>7, <2>1, <2>4, <2>5, ReconcilerMoves DEF ReadConfig
<1>8. CASE Lookup(Reconciler)
  <2>1. PICK r \in Resources \cup {None}, pc \in {"attach", "apply"} :
            th' = [th EXCEPT ![Reconciler].pc = pc, ![Reconciler].res = r]
            /\ r # None
    BY <1>8 DEF Lookup, IInv, Typed
  <2> DEFINE x == [t EXCEPT !.pc = pc, !.res = r]
  <2>2. x \in ThreadStates
    BY <1>0 DEF ThreadStates, HoldsPermit, InSet
  <2>3. t.pc = "lookup"
    BY <1>8 DEF Lookup
  <2>4. Carried(x, config)
    BY <1>0, <2>1, <2>3 DEF IInv, ThreadStates, Carried
  <2>5. th' = [th EXCEPT ![Reconciler] = x]
    BY <1>0, <2>1 DEF ThreadStates, Threads
  <2> QED
    BY <1>8, <2>2, <2>4, <2>5, ReconcilerMoves DEF Lookup
<1>9. CASE Attach(Reconciler)
  <2> DEFINE x == [t EXCEPT !.pc = "apply"]
  <2>1. x \in ThreadStates
    BY <1>0 DEF ThreadStates, HoldsPermit, InSet
  <2>2. t.pc = "attach"
    BY <1>9 DEF Attach
  <2>3. Carried(x, config')
    BY <1>0, <1>9, <2>2 DEF IInv, ThreadStates, Carried, Attach
  <2>4. th' = [th EXCEPT ![Reconciler] = x]
    BY <1>0, <1>9 DEF Attach, ThreadStates, Threads
  <2>5. child' \in Resources
    BY <1>9, <2>2 DEF Attach, IInv, Carried
  <2> QED
    BY <1>9, <2>1, <2>3, <2>4, <2>5, ReconcilerWrites
    DEF Attach, IInv, Typed
<1>10. CASE Apply(Reconciler)
  <2>1. CASE t.d = Empty
    BY <1>10, <2>1, ReconcilerRests DEF Apply, Leave
  <2>2. CASE t.d # Empty
    <3> DEFINE x == [t EXCEPT !.pc = "marshal"]
    <3>1. x \in ThreadStates
      BY <1>0 DEF ThreadStates, HoldsPermit, InSet
    <3>2. t.pc = "apply"
      BY <1>10 DEF Apply
    <3>3. t.d \in past /\ t.res \in Resources
      BY <3>2 DEF IInv, Carried
    <3>4. Carried(x, config')
      BY <1>0, <3>2, <3>3 DEF IInv, ThreadStates, Carried
    <3>5. th' = [th EXCEPT ![Reconciler] = x]
      BY <1>0, <1>10, <2>2 DEF Apply, ThreadStates, Threads
    <3> QED
      BY <1>10, <2>2, <3>1, <3>3, <3>4, <3>5, ReconcilerWrites
      DEF Apply, IInv, Typed
  <2> QED
    BY <2>1, <2>2
<1>11. CASE Marshal(Reconciler)
  <2> DEFINE x == [t EXCEPT !.pc = "publish", !.d = data[t.res]]
  <2>1. t.pc = "marshal"
    BY <1>11 DEF Marshal
  <2>2. data[t.res] \in Contents \cup {None}
    BY <2>1 DEF IInv, Typed, Carried
  <2>3. x \in ThreadStates
    BY <1>0, <2>2 DEF ThreadStates, HoldsPermit, InSet
  <2>4. Carried(x, config)
    BY <1>0, <2>1 DEF IInv, ThreadStates, Carried
  <2>5. th' = [th EXCEPT ![Reconciler] = x]
    BY <1>0, <1>11 DEF Marshal, ThreadStates, Threads
  <2> QED
    BY <1>11, <2>3, <2>4, <2>5, ReconcilerMoves DEF Marshal
<1>12. CASE Publish(Reconciler)
  BY <1>12, ReconcilerRests DEF Publish, Leave
<1>13. CASE SetFails(Reconciler)
  BY <1>13, ReconcilerRests
  DEF SetFails, WriteFails, ReadFails, PublishFails, Leave
<1> QED
  BY <1>1, <1>2, <1>3, <1>4, <1>5, <1>6, <1>7, <1>8, <1>9, <1>10, <1>11,
     <1>12, <1>13 DEF SetStep

(* The other clients begin and end their Gets.                             *)
LEMMA ClientIInv ==
  ASSUME IInv, ~ClientsSet, NEW p \in Clients,
         ClientRequest(p) \/ GetBegins(p) \/ GetEnds(p) \/ SetStep(p)
         \/ SetFails(p)
  PROVE  IInv'
<1>0. th[p] \in ThreadStates /\ th \in [Threads -> ThreadStates]
      /\ th[p].pc \in {"rest", "get"}
  BY DEF IInv, Typed, Threads, OnlyReconcilerSets
<1>1. GetBegins(p) \/ GetEnds(p)
  BY <1>0 DEF ClientRequest, SetStep, SetFails, SetBegins, WritePut,
     WriteDelete, WriteRoot, WriteDone, DeleteChild, ReadConfig, Lookup,
     Attach, Apply, Marshal, Publish, WriteFails, ReadFails, PublishFails
<1> DEFINE x == [th[p] EXCEPT !.pc = "get"]
<1>2. x \in ThreadStates /\ x.pc = "get"
  BY <1>0 DEF ThreadStates, HoldsPermit
<1>3. th' \in {[th EXCEPT ![p] = x], [th EXCEPT ![p] = Resting]}
  BY <1>0, <1>1 DEF GetBegins, GetEnds, ThreadStates, Threads
<1>4. Resting.pc = "rest"
  BY DEF Resting
<1> QED
  BY <1>1, <1>2, <1>3, <1>4, RestingTyped, ClientMoves
  DEF GetBegins, GetEnds, userVars, cacheVars

LEMMA NextIInv ==
  ASSUME IInv, ~ClientsSet, [Next]_vars
  PROVE  IInv'
<1>1. CASE UNCHANGED vars
  BY <1>1 DEF vars, IInv, Typed, OnlyReconcilerSets, AskedFor,
              DataWereAskedFor, Carried
<1>2. CASE Edit
  BY <1>2, EditIInv
<1>3. CASE Restart
  BY <1>3, RestartIInv
<1>4. CASE \/ Reconcile \/ ValidateFails \/ ObserveFails
           \/ SetFails(Reconciler)
  BY <1>4, ReconcileIInv, SetStepIInv DEF Reconcile
<1>5. CASE \E p \in Clients : ClientRequest(p) \/ GetBegins(p)
              \/ GetEnds(p) \/ SetStep(p) \/ SetFails(p)
  BY <1>5, ClientIInv
<1> QED
  BY <1>1, <1>2, <1>3, <1>4, <1>5 DEF Next, Threads

(* The inductive invariant holds when only the reconciler Sets.            *)
THEOREM Invariance ==
  ASSUME ~ClientsSet
  PROVE  Spec => []IInv
<1>1. Init => IInv
  BY InitIInv
<1>2. IInv /\ [Next]_vars => IInv'
  BY NextIInv
<1> QED
  BY <1>1, <1>2, PTL DEF Spec

----------------------------------------------------------------------------
(* The refinement *)

LEMMA InitDesired == Init => Desired!DesiredInit
BY DEF Init, Volatile, Desired!DesiredInit, servedNow

(* What is served after a step was asked for, is nothing, or is as before. *)
LEMMA ServedStep ==
  ASSUME IInv, IInv'
  PROVE  servedNow' \in past' \cup {None}
BY DEF IInv, Typed, DataWereAskedFor, servedNow

(* Only the user's edits and the end of a deletion touch the resource.     *)
LEMMA SpecSteps ==
  ASSUME [Next]_vars
  PROVE  \/ UNCHANGED <<spec, past>>
         \/ spec' = None /\ UNCHANGED <<past, child, data>>
         \/ Edit
<1>1. CASE SetStep(Reconciler) \/ \E p \in Clients : SetStep(p)
  BY <1>1 DEF SetStep, SetBegins, WritePut, WriteDelete, WriteRoot,
     WriteDone, DeleteChild, ReadConfig, Lookup, Attach, Apply, Marshal,
     Publish, userVars
<1>2. CASE \E p \in Threads : SetFails(p)
  BY <1>2 DEF SetFails, WriteFails, ReadFails, PublishFails, userVars
<1>3. CASE \/ Fetch \/ Validate \/ Observe \/ ReconcileDone
           \/ ValidateFails \/ ObserveFails
  BY <1>3 DEF Fetch, Validate, Observe, ReconcileDone, ValidateFails,
              ObserveFails, userVars, cacheVars
<1>4. CASE \E p \in Clients : ClientRequest(p) \/ GetBegins(p) \/ GetEnds(p)
  BY <1>4 DEF ClientRequest, GetBegins, GetEnds, userVars
<1>5. CASE Restart \/ UNCHANGED vars
  BY <1>5 DEF Restart, vars, userVars
<1> QED
  BY <1>1, <1>2, <1>3, <1>4, <1>5 DEF Next, Reconcile

LEMMA StepDesired ==
  ASSUME IInv, IInv', [Next]_vars
  PROVE  [Desired!DesiredNext]_(Desired!desiredVars)
<1> USE DEF Desired!DesiredNext, Desired!desiredVars, Desired!Ask,
            Desired!Serve, Desired!Forget
<1>1. CASE Edit
  BY <1>1 DEF Edit, serverVars, cacheVars, servedNow
<1>2. CASE UNCHANGED <<spec, past>>
  BY <1>2, ServedStep
<1>3. CASE spec' = None /\ UNCHANGED <<past, child, data>>
  BY <1>3 DEF servedNow
<1> QED
  BY <1>1, <1>2, <1>3, SpecSteps

(* When only the reconciler Sets, the collector resource implements        *)
(* DesiredState, whatever fails and however often the process restarts.    *)
THEOREM ImplementsDesired ==
  ASSUME ~ClientsSet
  PROVE  Spec => DesiredSpec
<1>1. Spec => []IInv
  BY Invariance
<1>2. Init => Desired!DesiredInit
  BY InitDesired
<1>3. IInv /\ IInv' /\ [Next]_vars
      => [Desired!DesiredNext]_(Desired!desiredVars)
  BY StepDesired
<1> QED
  BY <1>1, <1>2, <1>3, PTL DEF Spec, DesiredSpec, Desired!DesiredSpec

----------------------------------------------------------------------------
(* What is configured is served and shown *)

Applied == child # None /\ data[child] = config

(* How far the collector resource is behind the config cache at each step  *)
(* of the reconciler, if no Set has failed before it had told it.          *)
Follows(t) ==
    /\ t.pc \notin InSet => config = Empty \/ Applied
    /\ t.pc = "uptodate" => config = t.goal /\ config # Empty
    /\ t.pc \in {"lookup", "attach", "apply"} => t.d = config
    /\ t.pc \in {"apply", "marshal"} => t.res = child
    /\ t.pc \in {"marshal", "publish"} => Applied
    /\ t.pc = "delete" => config = Empty

(* And how far the state cache is, if no Set has failed at all.            *)
Shown == \A m \in Metrics : config[m] # 0 => published[m] = config[m]

Shows(t) == /\ t.pc \notin InSet => Shown
            /\ t.pc = "publish" => t.d = config

FInv == /\ Told => Follows(th[Reconciler])
        /\ troubles.failed = {} => Shows(th[Reconciler])

LEMMA NothingToShow == config = Empty => Shown
BY DEF Empty, Shown

LEMMA RestingFollows ==
    /\ Resting.pc \notin InSet \cup {"uptodate"}
    /\ config = Empty \/ Applied => Follows(Resting)
    /\ Shown => Shows(Resting)
BY DEF Resting, InSet, Follows, Shows

LEMMA InitFInv == Init => FInv
<1> SUFFICES ASSUME Init PROVE FInv
  OBVIOUS
<1>1. th[Reconciler] = Resting /\ config = Empty
  BY DEF Init, Volatile, Threads
<1> QED
  BY <1>1, RestingFollows, NothingToShow DEF FInv

(* A step that leaves the caches alone and lets the reconciler rest, or    *)
(* keeps it out of Set.                                                    *)
LEMMA StaysOut ==
  ASSUME FInv, UNCHANGED <<config, child, data, published, troubles>>,
         th[Reconciler].pc \notin InSet, th'[Reconciler].pc \notin InSet,
         th'[Reconciler].pc = "uptodate" =>
             config = th'[Reconciler].goal /\ config # Empty
  PROVE  FInv'
<1> DEFINE t == th[Reconciler]
           u == th'[Reconciler]
<1>1. u.pc \notin {"lookup", "attach", "apply", "marshal", "publish",
                   "delete"}
  BY DEF InSet
<1>2. Told' = Told
  BY DEF Told
<1>3. Told' => Follows(t)' 
  BY <1>1, <1>2 DEF FInv, Follows, Applied
<1>4. troubles'.failed = {} => Shows(t)'
  BY <1>1 DEF FInv, Shows, Shown
<1> QED
  BY <1>3, <1>4 DEF FInv

LEMMA OutsideSteps ==
  ASSUME IInv, FInv, \/ Fetch \/ Validate \/ Observe \/ ReconcileDone
                     \/ ValidateFails \/ ObserveFails
  PROVE  FInv'
<1> DEFINE t == th[Reconciler]
<1> USE DEF userVars, cacheVars
<1>0. t \in ThreadStates /\ th \in [Threads -> ThreadStates]
      /\ config \in Contents
  BY DEF IInv, Typed, Threads
<1>1. t.pc \in {"rest", "fetched", "valid", "uptodate"}
  BY DEF Fetch, Validate, Observe, ReconcileDone, ValidateFails,
         ObserveFails
<1>2. CASE Fetch
  <2>1. th'[Reconciler].pc = "fetched"
    BY <1>0, <1>2 DEF Fetch, ThreadStates, Threads
  <2> QED BY <1>1, <1>2, <2>1, StaysOut DEF Fetch, InSet
<1>3. CASE Validate
  <2>1. th'[Reconciler].pc = "valid"
    BY <1>0, <1>3 DEF Validate, ThreadStates, Threads
  <2> QED BY <1>1, <1>3, <2>1, StaysOut DEF Validate, InSet
<1>4. CASE ReconcileDone \/ ValidateFails
  <2>1. th'[Reconciler].pc = "rest"
    BY <1>0, <1>4 DEF ReconcileDone, ValidateFails, Resting, Threads
  <2> QED
    BY <1>1, <1>4, <2>1, StaysOut DEF ReconcileDone, ValidateFails, InSet
<1>5. CASE ObserveFails
  <2>1. th'[Reconciler] = Resting /\ troubles'.failed = troubles.failed
    BY <1>0, <1>5 DEF ObserveFails, Refuses, Threads
  <2>2. UNCHANGED <<config, child, data, published>>
    BY <1>5 DEF ObserveFails
  <2>3. Told => config = Empty \/ Applied
    BY <1>1 DEF FInv, Follows, InSet
  <2>4. troubles.failed = {} => Shown
    BY <1>1 DEF FInv, Shows, InSet
  <2> QED
    BY <2>1, <2>2, <2>3, <2>4 DEF FInv, Told, Follows, Shows, Applied,
       Shown, Resting, InSet
<1>6. CASE Observe
  <2> DEFINE g == t.goal
  <2>1. UNCHANGED <<config, child, data, published, troubles>>
    BY <1>6 DEF Observe
  <2>2. \/ th'[Reconciler].pc \in {"call", "rest"}
        \/ /\ th'[Reconciler].pc = "uptodate" /\ th'[Reconciler].goal = g
           /\ g \in Contents /\ Delta(g) = [puts |-> {}, dels |-> {}]
           /\ config # Empty
    BY <1>0, <1>6 DEF Observe, ThreadStates, Threads, Resting
  <2>3. ASSUME g \in Contents, Delta(g) = [puts |-> {}, dels |-> {}]
        PROVE  config = g
    <3>1. \A m \in Metrics : g[m] \in {0, config[m]}
      BY <2>3 DEF Delta
    <3>2. \A m \in Metrics : ~(g[m] = 0 /\ config[m] # 0)
      BY <2>3 DEF Delta
    <3>3. \A m \in Metrics : config[m] = g[m]
      BY <3>1, <3>2
    <3> QED BY <1>0, <2>3, <3>3 DEF Contents
  <2> QED BY <1>1, <2>1, <2>2, <2>3, StaysOut DEF InSet
<1> QED
  BY <1>2, <1>3, <1>4, <1>5, <1>6

(* The steps of a Set of the reconciler.                                   *)
LEMMA SetStepsFollow ==
  ASSUME IInv, FInv, SetStep(Reconciler) \/ SetFails(Reconciler)
  PROVE  FInv'
<1> DEFINE t == th[Reconciler]
           u == th'[Reconciler]
<1> USE DEF userVars, cacheVars
<1>0. t \in ThreadStates /\ th \in [Threads -> ThreadStates]
      /\ config \in Contents /\ Reconciler \in Threads
  BY DEF IInv, Typed, Threads
<1>1. CASE SetBegins(Reconciler)
  <2>1. t.pc = "call" /\ UNCHANGED <<config, child, data, published, troubles>>
    BY <1>1 DEF SetBegins
  <2>2. u = Resting \/ u.pc = "write"
    BY <1>0, <1>1 DEF SetBegins, ThreadStates
  <2>3. CASE u = Resting
    BY <2>1, <2>3, StaysOut, RestingFollows DEF InSet
  <2>4. CASE u.pc = "write"
    BY <2>1, <2>4 DEF FInv, Told, Follows, Shows, InSet
  <2> QED BY <2>2, <2>3, <2>4
<1>2. CASE WritePut(Reconciler) \/ WriteDelete(Reconciler)
  <2>1. u.pc = "write"
    BY <1>0, <1>2 DEF WritePut, WriteDelete, ThreadStates
  <2> QED BY <2>1 DEF FInv, Follows, Shows, InSet
<1>3. CASE WriteDone(Reconciler)
  <2>1. u.pc = "read"
    BY <1>0, <1>3 DEF WriteDone, ThreadStates
  <2> QED BY <2>1 DEF FInv, Follows, Shows, InSet
<1>4. CASE WriteRoot(Reconciler)
  <2>1. u.pc = "delete" /\ config' = Empty
    BY <1>0, <1>4 DEF WriteRoot, ThreadStates
  <2>2. Empty' = Empty
    BY DEF Empty
  <2> QED BY <2>1, <2>2 DEF FInv, Follows, Shows, InSet
<1>5. CASE DeleteChild(Reconciler)
  <2>1. t.pc = "delete" /\ u = Resting /\ config' = config
    BY <1>0, <1>5 DEF DeleteChild, Leave
  <2>2. Told' => Told
    BY <1>5 DEF DeleteChild, Told, Fails
  <2>3. \/ published' = Empty \/ (child = None /\ UNCHANGED troubles)
        \/ "publish" \in troubles'.failed
    BY <1>5 DEF DeleteChild, Fails
  <2>4. troubles'.failed = {} => troubles.failed = {}
    BY <1>5 DEF DeleteChild, Fails
  <2>5. Told' => config' = Empty
    BY <2>1, <2>2 DEF FInv, Follows
  <2>6. Told' => Follows(t)'
    BY <2>1, <2>5 DEF Follows, Resting, InSet, Empty
  <2>7. troubles'.failed = {} => Shows(t)'
    <3>1. ASSUME troubles'.failed = {} PROVE config' = Empty
      BY <2>5, <3>1 DEF Told
    <3> QED BY <2>1, <3>1 DEF Shows, Shown, Resting, InSet, Empty
  <2> QED BY <2>6, <2>7 DEF FInv
<1>6. CASE ReadConfig(Reconciler)
  <2>1. u.pc = "lookup" /\ u.d = config
    BY <1>0, <1>6 DEF ReadConfig, ThreadStates
  <2>2. config' = config
    BY <1>6 DEF ReadConfig
  <2> QED BY <2>1, <2>2 DEF FInv, Follows, Shows, InSet
<1>7. CASE Lookup(Reconciler)
  <2>1. t.pc = "lookup" /\ UNCHANGED <<config, child, data, published, troubles>>
    BY <1>7 DEF Lookup
  <2>2. /\ u.d = t.d
        /\ u.pc = "attach" \/ (u.pc = "apply" /\ u.res = child)
    BY <1>0, <1>7 DEF Lookup, ThreadStates
  <2> QED BY <2>1, <2>2 DEF FInv, Told, Follows, Shows, InSet
<1>8. CASE Attach(Reconciler)
  <2>1. t.pc = "attach" /\ UNCHANGED <<config, data, published, troubles>>
        /\ child' = t.res
    BY <1>8 DEF Attach
  <2>2. u.pc = "apply" /\ u.d = t.d /\ u.res = t.res
    BY <1>0, <1>8 DEF Attach, ThreadStates
  <2> QED BY <2>1, <2>2 DEF FInv, Told, Follows, Shows, InSet
<1>9. CASE Apply(Reconciler)
  <2>1. t.pc = "apply" /\ UNCHANGED <<config, child, published, troubles>>
    BY <1>9 DEF Apply
  <2>2. CASE t.d = Empty
    <3>1. u = Resting /\ UNCHANGED data
      BY <1>0, <1>9, <2>2 DEF Apply, Leave
    <3>2. Told => config = Empty
      BY <2>1, <2>2 DEF FInv, Follows
    <3>3. Told' => Follows(t)'
      BY <2>1, <3>1, <3>2 DEF Told, Follows, Resting, InSet, Empty
    <3>4. troubles.failed = {} => Shown
      BY <3>2, NothingToShow DEF Told
    <3>5. troubles'.failed = {} => Shows(t)'
      BY <2>1, <3>1, <3>4 DEF Shows, Shown, Resting, InSet
    <3> QED BY <3>3, <3>5 DEF FInv
  <2>3. CASE t.d # Empty
    <3>1. u.pc = "marshal" /\ u.res = t.res
          /\ data' = [data EXCEPT ![t.res] = t.d]
      BY <1>0, <1>9, <2>3 DEF Apply, ThreadStates
    <3>2. t.res \in Resources
      BY <2>1 DEF IInv, Carried
    <3>3. data'[t.res] = t.d /\ t.res # None
      BY <3>1, <3>2 DEF IInv, Typed
    <3>4. Told' => Applied' /\ u.res = child'
      BY <2>1, <3>1, <3>3 DEF FInv, Told, Follows, Applied
    <3> QED BY <3>1, <3>4 DEF FInv, Follows, Shows, InSet
  <2> QED BY <2>2, <2>3
<1>10. CASE Marshal(Reconciler)
  <2>1. t.pc = "marshal" /\ UNCHANGED <<config, child, data, published, troubles>>
    BY <1>10 DEF Marshal
  <2>2. u.pc = "publish" /\ u.d = data[t.res]
    BY <1>0, <1>10 DEF Marshal, ThreadStates
  <2>3. Told => Applied /\ u.d = config
    BY <2>1, <2>2 DEF FInv, Follows, Applied
  <2>4. Told' = Told /\ Applied' = Applied
    BY <2>1 DEF Told, Applied
  <2>5. troubles'.failed = {} => u.d = config'
    BY <2>1, <2>3 DEF Told
  <2> QED BY <2>2, <2>3, <2>4, <2>5 DEF FInv, Follows, Shows, InSet
<1>11. CASE Publish(Reconciler)
  <2>1. t.pc = "publish" /\ UNCHANGED <<config, child, data, troubles>>
        /\ u = Resting
        /\ published' = [m \in Metrics |-> IF t.d[m] # 0 THEN t.d[m]
                                                       ELSE published[m]]
    BY <1>0, <1>11 DEF Publish, Leave
  <2>2. Told' => Follows(t)'
    BY <2>1 DEF FInv, Told, Follows, Applied, Resting, InSet
  <2>3. troubles'.failed = {} => Shown'
    BY <2>1 DEF FInv, Shows, Shown
  <2> QED BY <2>1, <2>2, <2>3 DEF FInv, Shows, Resting, InSet
<1>12. CASE WriteFails(Reconciler) \/ ReadFails(Reconciler)
  <2>1. ~Told' /\ troubles'.failed # {}
    BY <1>12 DEF WriteFails, ReadFails, Fails, Told
  <2> QED BY <2>1 DEF FInv
<1>13. CASE PublishFails(Reconciler)
  <2>1. t.pc = "publish" /\ UNCHANGED <<config, child, data>> /\ u = Resting
    BY <1>0, <1>13 DEF PublishFails, Leave
  <2>2. (Told' => Told) /\ troubles'.failed # {}
    BY <1>13 DEF PublishFails, Fails, Told
  <2>3. Told' => Follows(t)'
    BY <2>1, <2>2 DEF FInv, Follows, Applied, Resting, InSet
  <2> QED BY <2>2, <2>3 DEF FInv
<1> QED
  BY <1>1, <1>2, <1>3, <1>4, <1>5, <1>6, <1>7, <1>8, <1>9, <1>10, <1>11,
     <1>12, <1>13 DEF SetStep, SetFails

(* The other clients only read.                                            *)
LEMMA ClientsLeaveAlone ==
  ASSUME IInv, FInv, ~ClientsSet, NEW p \in Clients,
         ClientRequest(p) \/ GetBegins(p) \/ GetEnds(p) \/ SetStep(p)
         \/ SetFails(p)
  PROVE  FInv'
<1>1. GetBegins(p) \/ GetEnds(p)
  BY DEF IInv, OnlyReconcilerSets, ClientRequest, SetStep, SetFails,
     SetBegins, WritePut, WriteDelete, WriteRoot, WriteDone, DeleteChild,
     ReadConfig, Lookup, Attach, Apply, Marshal, Publish, WriteFails,
     ReadFails, PublishFails
<1>2. UNCHANGED <<config, child, data, published, troubles>>
  BY <1>1 DEF GetBegins, GetEnds, cacheVars
<1>3. th'[Reconciler] = th[Reconciler]
  BY <1>1 DEF GetBegins, GetEnds, IInv, Typed, Threads
<1> QED
  BY <1>2, <1>3 DEF FInv, Told, Follows, Shows, Applied, Shown

LEMMA NextFInv ==
  ASSUME IInv, FInv, ~ClientsSet, [Next]_vars
  PROVE  FInv'
<1>1. CASE UNCHANGED <<cacheVars, th, troubles>>
  BY <1>1 DEF cacheVars, FInv, Told, Follows, Shows, Applied, Shown
<1>2. CASE Edit
  BY <1>1, <1>2 DEF Edit, serverVars
<1>3. CASE Restart
  <2>1. th'[Reconciler] = Resting /\ config' = Empty
    BY <1>3 DEF Restart, Volatile, Threads
  <2> QED
    BY <2>1 DEF FInv, Follows, Shows, Shown, Resting, InSet, Empty
<1>4. CASE \/ Reconcile \/ ValidateFails \/ ObserveFails
           \/ SetFails(Reconciler)
  BY <1>4, OutsideSteps, SetStepsFollow DEF Reconcile
<1>5. CASE \E p \in Clients : ClientRequest(p) \/ GetBegins(p)
              \/ GetEnds(p) \/ SetStep(p) \/ SetFails(p)
  BY <1>5, ClientsLeaveAlone
<1> QED
  BY <1>1, <1>2, <1>3, <1>4, <1>5 DEF Next, Threads, vars, cacheVars

LEMMA Following ==
  ASSUME ~ClientsSet
  PROVE  Spec => [](IInv /\ FInv)
<1>1. Spec => []IInv
  BY Invariance
<1>2. Init => FInv
  BY InitFInv
<1>3. IInv /\ FInv /\ [Next]_vars => FInv'
  BY NextFInv
<1> QED
  BY <1>1, <1>2, <1>3, PTL DEF Spec

(* When only the reconciler Sets and none of its Sets has failed before it *)
(* had told the collector resource, a resource found up to date is served  *)
(* (collectorcollector_controller.go:428).                                 *)
THEOREM UpToDateIsServedHolds ==
  ASSUME ~ClientsSet
  PROVE  Spec => []UpToDateIsServed
<1>1. IInv /\ FInv => UpToDateIsServed
  BY DEF FInv, Follows, Applied, UpToDateIsServed, RepairedIsServed, InSet
<1> QED
  BY <1>1, Following, PTL

(* When only the reconciler Sets and no Set has failed, the state shows    *)
(* what is configured (applogic/collector.go:166-200).                     *)
THEOREM StateFollowsHolds ==
  ASSUME ~ClientsSet
  PROVE  Spec => []StateFollows
<1>1. IInv /\ FInv => StateFollows
  BY DEF FInv, Shows, Shown, StateFollows, Quiet, Threads
<1> QED
  BY <1>1, Following, PTL

----------------------------------------------------------------------------
(* What the state shows was asked for, also when it shows too much *)

(* Entries that left the configuration stay in the state (StateShowsData), *)
(* but none that the Kubernetes resource has never had gets there.         *)
ShownWasAskedFor ==
    \A m \in Metrics : published[m] # 0 =>
        \E c \in past : c[m] = published[m]

(* On the way to the state there is always a whole content.                *)
ToBeShown(t, dt) ==
    /\ t.pc = "marshal" => dt[t.res] # None
    /\ t.pc = "publish" => t.d \in past

PInv == ShownWasAskedFor /\ ToBeShown(th[Reconciler], data)

LEMMA RestingShowsNothing == \A dt : ToBeShown(Resting, dt)
BY DEF Resting, ToBeShown

(* What was asked for is not forgotten.                                    *)
LEMMA PastGrows == [Next]_vars => past \subseteq past'
BY SpecSteps DEF Edit

LEMMA InitPInv == Init => PInv
<1> SUFFICES ASSUME Init PROVE PInv
  OBVIOUS
<1>1. th[Reconciler] = Resting /\ published = Empty
  BY DEF Init, Volatile, Threads
<1> QED
  BY <1>1, RestingShowsNothing DEF PInv, ShownWasAskedFor, Empty

(* Outside of the steps that show something, the state stays or is emptied *)
(* and the reconciler has nothing new to show.                             *)
LEMMA ShowsNoMore ==
  ASSUME PInv, past \subseteq past', published' \in {published, Empty},
         \/ th'[Reconciler].pc \notin {"marshal", "publish"}
         \/ th'[Reconciler] = th[Reconciler] /\ data' = data
  PROVE  PInv'
<1>1. ShownWasAskedFor'
  BY DEF PInv, ShownWasAskedFor, Empty
<1>2. ToBeShown(th[Reconciler], data)'
  BY DEF PInv, ToBeShown
<1> QED
  BY <1>1, <1>2 DEF PInv

LEMMA ReconcilePInv ==
  ASSUME IInv, PInv, [Next]_vars,
         \/ Fetch \/ Validate \/ Observe \/ ReconcileDone
         \/ ValidateFails \/ ObserveFails
         \/ SetStep(Reconciler) \/ SetFails(Reconciler)
  PROVE  PInv'
<1> DEFINE t == th[Reconciler]
           u == th'[Reconciler]
<1> USE DEF userVars, cacheVars
<1>0. /\ t \in ThreadStates /\ th \in [Threads -> ThreadStates]
      /\ Reconciler \in Threads
  BY DEF IInv, Typed, Threads
<1>1. past \subseteq past'
  BY PastGrows
<1>2. CASE \/ Fetch \/ Validate \/ Observe \/ ReconcileDone
           \/ ValidateFails \/ ObserveFails
  <2>1. u.pc \in {"fetched", "valid", "call", "rest", "uptodate"}
    BY <1>0, <1>2 DEF Fetch, Validate, Observe, ReconcileDone,
       ValidateFails, ObserveFails, Resting, ThreadStates
  <2>2. published' = published
    BY <1>2 DEF Fetch, Validate, Observe, ReconcileDone, ValidateFails,
       ObserveFails
  <2> QED
    BY <1>1, <2>1, <2>2, ShowsNoMore
<1>3. CASE \/ SetBegins(Reconciler) \/ WritePut(Reconciler)
           \/ WriteDelete(Reconciler) \/ WriteRoot(Reconciler)
           \/ WriteDone(Reconciler) \/ DeleteChild(Reconciler)
           \/ ReadConfig(Reconciler) \/ SetFails(Reconciler)
  <2>1. u.pc \notin {"marshal", "publish"}
    BY <1>0, <1>3 DEF SetBegins, WritePut, WriteDelete, WriteRoot,
       WriteDone, DeleteChild, ReadConfig, SetFails, WriteFails, ReadFails,
       PublishFails, Leave, Resting, ThreadStates
  <2>2. published' \in {published, Empty}
    BY <1>3 DEF SetBegins, WritePut, WriteDelete, WriteRoot, WriteDone,
       DeleteChild, ReadConfig, SetFails, WriteFails, ReadFails,
       PublishFails
  <2> QED
    BY <1>1, <2>1, <2>2, ShowsNoMore
<1>4. CASE Lookup(Reconciler) \/ Attach(Reconciler)
  <2>1. u.pc \notin {"marshal", "publish"} /\ published' = published
    BY <1>0, <1>4 DEF Lookup, Attach, ThreadStates
  <2> QED
    BY <1>1, <2>1, ShowsNoMore
<1>5. CASE Apply(Reconciler)
  <2>1. CASE t.d = Empty
    <3>1. u.pc = "rest" /\ published' = published
      BY <1>0, <1>5, <2>1 DEF Apply, Leave, Resting
    <3> QED
      BY <1>1, <3>1, ShowsNoMore
  <2>2. CASE t.d # Empty
    <3>1. t.d \in past /\ t.res \in Resources
      BY <1>5 DEF Apply, IInv, Carried
    <3>2. t.d # None
      BY <3>1 DEF IInv, Typed
    <3>3. u = [t EXCEPT !.pc = "marshal"] /\ published' = published
          /\ data' = [data EXCEPT ![t.res] = t.d]
      BY <1>0, <1>5, <2>2 DEF Apply
    <3>4. ToBeShown(u, data')
      BY <1>0, <3>1, <3>2, <3>3 DEF ToBeShown, ThreadStates, IInv, Typed
    <3> QED
      BY <1>1, <3>3, <3>4 DEF PInv, ShownWasAskedFor, ToBeShown
  <2> QED
    BY <2>1, <2>2
<1>6. CASE Marshal(Reconciler)
  <2>1. data[t.res] # None /\ t.res \in Resources
    BY <1>6 DEF Marshal, PInv, ToBeShown, IInv, Carried
  <2>2. data[t.res] \in past
    BY <2>1 DEF IInv, DataWereAskedFor
  <2>3. u.pc = "publish" /\ u.d = data[t.res] /\ published' = published
    BY <1>0, <1>6 DEF Marshal, ThreadStates
  <2>4. ToBeShown(th[Reconciler], data)'
    BY <1>1, <2>2, <2>3 DEF ToBeShown
  <2> QED
    BY <1>1, <2>3, <2>4 DEF PInv, ShownWasAskedFor
<1>7. CASE Publish(Reconciler)
  <2>1. t.d \in past
    BY <1>7 DEF Publish, PInv, ToBeShown
  <2>2. u.pc = "rest"
    BY <1>0, <1>7 DEF Publish, Leave, Resting
  <2>3. \A m \in Metrics : published'[m] \in {t.d[m], published[m]}
    BY <1>7 DEF Publish
  <2>4. ShownWasAskedFor'
    BY <1>1, <2>1, <2>3 DEF PInv, ShownWasAskedFor
  <2>5. ToBeShown(th[Reconciler], data)'
    BY <2>2 DEF ToBeShown
  <2> QED
    BY <2>4, <2>5 DEF PInv
<1> QED
  BY <1>2, <1>3, <1>4, <1>5, <1>6, <1>7 DEF SetStep

LEMMA NextPInv ==
  ASSUME IInv, PInv, ~ClientsSet, [Next]_vars
  PROVE  PInv'
<1>0. past \subseteq past'
  BY PastGrows
<1>1. CASE UNCHANGED vars
  BY <1>0, <1>1, ShowsNoMore DEF vars
<1>2. CASE Edit
  BY <1>0, <1>2, ShowsNoMore DEF Edit, serverVars, cacheVars
<1>3. CASE Restart
  <2>1. th'[Reconciler].pc = "rest" /\ published' = Empty
    BY <1>3 DEF Restart, Volatile, Resting, Threads
  <2> QED
    BY <1>0, <2>1, ShowsNoMore
<1>4. CASE \/ Reconcile \/ ValidateFails \/ ObserveFails
           \/ SetFails(Reconciler)
  BY <1>4, ReconcilePInv DEF Reconcile
<1>5. CASE \E p \in Clients : ClientRequest(p) \/ GetBegins(p)
              \/ GetEnds(p) \/ SetStep(p) \/ SetFails(p)
  <2>1. PICK p \in Clients : GetBegins(p) \/ GetEnds(p)
    BY <1>5 DEF IInv, OnlyReconcilerSets, ClientRequest, SetStep, SetFails,
       SetBegins, WritePut, WriteDelete, WriteRoot, WriteDone, DeleteChild,
       ReadConfig, Lookup, Attach, Apply, Marshal, Publish, WriteFails,
       ReadFails, PublishFails
  <2>2. th'[Reconciler] = th[Reconciler] /\ UNCHANGED <<data, published>>
    BY <2>1 DEF GetBegins, GetEnds, IInv, Typed, Threads, cacheVars
  <2> QED
    BY <1>0, <2>2, ShowsNoMore
<1> QED
  BY <1>1, <1>2, <1>3, <1>4, <1>5 DEF Next, Threads

(* When only the reconciler Sets, an entry that the state shows was asked  *)
(* for with that very value, whatever fails on the way and whatever the    *)
(* state shows too much (applogic/collector.go:166-200).                   *)
THEOREM ShownWasAskedForHolds ==
  ASSUME ~ClientsSet
  PROVE  Spec => []ShownWasAskedFor
<1>1. Spec => []IInv
  BY Invariance
<1>2. Init => PInv
  BY InitPInv
<1>3. IInv /\ PInv /\ [Next]_vars => PInv'
  BY NextPInv
<1>4. PInv => ShownWasAskedFor
  BY DEF PInv
<1> QED
  BY <1>1, <1>2, <1>3, <1>4, PTL DEF Spec

----------------------------------------------------------------------------
(* Whoever Sets: the types of the state, and the account of the unary      *)
(* permits.                                                                *)

Troubles == [count : 0 .. MaxTroubles, failed : SUBSET Faults]

(* The rest of the types; what bounds the permits is the account.          *)
AlsoTyped ==
    /\ published \in Contents /\ permits \in Nat
    /\ edits \in 0 .. MaxEdits /\ troubles \in Troubles

(* What a goroutine has in hand at each step of a Set, where dt are the    *)
(* data of the collector objects.                                          *)
InHand(t, dt) ==
    /\ t.pc \in {"call", "write"} /\ t.puts # {} => t.goal \in Contents
    /\ t.pc \in {"lookup", "attach", "apply", "publish"} =>
          t.d \in Contents
    /\ t.pc \in {"attach", "apply", "marshal"} => t.res \in Resources
    /\ t.pc = "marshal" => dt[t.res] # None

AInv == /\ Typed /\ AlsoTyped /\ PermitsAccounted
        /\ \A p \in Threads : InHand(th[p], data)

Held(t) == IF t.pc \in HoldsPermit THEN 1 ELSE 0

(* A resting goroutine holds neither a permit nor anything else.           *)
LEMMA RestingHolds == Held(Resting) = 0 /\ \A dt : InHand(Resting, dt)
BY DEF Held, Resting, HoldsPermit, InSet, InHand

(* One goroutine moves: the account closes if the permits change by what   *)
(* it takes or gives back.                                                 *)
LEMMA AccountStep ==
  ASSUME th \in [Threads -> ThreadStates], permits \in Nat,
         PermitsAccounted, NEW p \in Threads, NEW x \in ThreadStates,
         th' = [th EXCEPT ![p] = x],
         permits' = permits + Held(th[p]) - Held(x)
  PROVE  PermitsAccounted'
<1> DEFINE H == {q \in Threads : th[q].pc \in HoldsPermit}
           G == {q \in Threads : th'[q].pc \in HoldsPermit}
<1>1. IsFiniteSet(Threads)
  BY FS_AddElement DEF Threads
<1>2. IsFiniteSet(H) /\ IsFiniteSet(G)
  BY <1>1, FS_Subset
<1>3. Cardinality(H) \in Nat /\ Cardinality(G) \in Nat
  BY <1>2, FS_CardinalityType
<1>4. th'[p] = x /\ \A q \in Threads \ {p} : th'[q] = th[q]
  OBVIOUS
<1>5. /\ p \in H <=> th[p].pc \in HoldsPermit
      /\ p \in G <=> x.pc \in HoldsPermit
  BY <1>4
<1>6. Cardinality(G) = Cardinality(H) + Held(x) - Held(th[p])
  <2>1. CASE p \in H /\ p \notin G
    <3>1. G = H \ {p}
      BY <1>4, <2>1
    <3>2. Cardinality(H \ {p}) = Cardinality(H) - 1
      BY <1>2, <2>1, FS_RemoveElement
    <3>3. Held(th[p]) = 1 /\ Held(x) = 0
      BY <1>5, <2>1 DEF Held
    <3> HIDE DEF H, G
    <3> QED BY <1>3, <3>1, <3>2, <3>3
  <2>2. CASE p \notin H /\ p \in G
    <3>1. G = H \cup {p}
      BY <1>4, <2>2
    <3>2. Cardinality(H \cup {p}) = Cardinality(H) + 1
      BY <1>2, <2>2, FS_AddElement
    <3>3. Held(th[p]) = 0 /\ Held(x) = 1
      BY <1>5, <2>2 DEF Held
    <3> HIDE DEF H, G
    <3> QED BY <1>3, <3>1, <3>2, <3>3
  <2>3. CASE (p \in H) = (p \in G)
    <3>1. G = H
      BY <1>4, <2>3
    <3>2. Held(x) = Held(th[p]) /\ Held(x) \in Nat
      BY <1>5, <2>3 DEF Held
    <3> HIDE DEF H, G
    <3> QED BY <1>3, <3>1, <3>2
  <2> QED BY <2>1, <2>2, <2>3
<1>7. permits' + Cardinality(G) = permits + Cardinality(H)
  BY <1>3, <1>6 DEF Held
<1>8. permits + Cardinality(H) = MaxUnary
  BY DEF PermitsAccounted
<1>9. PermitsAccounted'
  BY <1>7, <1>8 DEF PermitsAccounted
<1> QED BY <1>9

(* One goroutine moves, and may write the caches while it does.            *)
LEMMA ThreadMoves ==
  ASSUME AInv, NEW p \in Threads, NEW x \in ThreadStates,
         th' = [th EXCEPT ![p] = x],
         InHand(x, data'),
         permits' = permits + Held(th[p]) - Held(x), permits' \in Nat,
         spec' \in {spec, None}, past' = past, edits' = edits,
         config' \in Contents, child' \in Resources \cup {None},
         published' \in Contents, troubles' \in Troubles,
         \/ data' = data
         \/ \E r \in Resources, d \in Contents :
               data' = [data EXCEPT ![r] = d]
  PROVE  AInv'
<1>1. th' \in [Threads -> ThreadStates]
  BY DEF AInv, Typed
<1>2. /\ data' \in [Resources -> Contents \cup {None}]
      /\ \A r \in Resources : data[r] # None => data'[r] # None
  BY DEF AInv, Typed
<1>3. Typed' /\ AlsoTyped'
  BY <1>1, <1>2 DEF AInv, Typed, AlsoTyped
<1>4. PermitsAccounted'
  BY AccountStep DEF AInv, Typed, AlsoTyped
<1>5. ASSUME NEW q \in Threads PROVE InHand(th[q], data)'
  <2>1. CASE q = p
    BY <2>1 DEF AInv, Typed, InHand
  <2>2. CASE q # p
    <3>1. th'[q] = th[q] /\ InHand(th[q], data)
      BY <2>2 DEF AInv, Typed
    <3> QED BY <1>2, <3>1 DEF InHand
  <2> QED BY <2>1, <2>2
<1> QED BY <1>3, <1>4, <1>5 DEF AInv

LEMMA FaultTyped ==
  ASSUME AlsoTyped, NEW fault, Fails(fault) \/ Refuses(fault)
  PROVE  troubles' \in Troubles
BY DEF AlsoTyped, Troubles, Fails, Refuses

(* A call gives its permit back and its goroutine rests.                   *)
LEMMA Leaves ==
  ASSUME AInv, NEW p \in Threads, Leave(p), th[p].pc \in HoldsPermit,
         spec' = spec, past' = past, edits' = edits, config' = config,
         child' = child, data' = data, published' \in Contents,
         troubles' \in Troubles
  PROVE  AInv'
<1>1. permits' = permits + Held(th[p]) - Held(Resting) /\ permits' \in Nat
  BY RestingHolds DEF Leave, AInv, AlsoTyped, Held
<1> QED
  BY <1>1, ThreadMoves, RestingTyped, RestingHolds
  DEF Leave, AInv, Typed, AlsoTyped

(* The reconciler gives up or is done, outside a Set.                      *)
LEMMA Rests ==
  ASSUME AInv, NEW p \in Threads, th' = [th EXCEPT ![p] = Resting],
         th[p].pc \notin HoldsPermit, permits' = permits,
         spec' \in {spec, None}, past' = past, edits' = edits,
         UNCHANGED cacheVars, troubles' \in Troubles
  PROVE  AInv'
<1>1. permits' = permits + Held(th[p]) - Held(Resting) /\ permits' \in Nat
  BY RestingHolds DEF AInv, AlsoTyped, Held
<1> QED
  BY <1>1, ThreadMoves, RestingTyped, RestingHolds
  DEF cacheVars, AInv, Typed, AlsoTyped

(* A goroutine goes on without touching a cache or a permit.               *)
LEMMA GoesOn ==
  ASSUME AInv, NEW p \in Threads, NEW x \in ThreadStates,
         th' = [th EXCEPT ![p] = x], InHand(x, data),
         Held(x) = Held(th[p]), permits' = permits,
         UNCHANGED <<userVars, cacheVars, troubles>>
  PROVE  AInv'
<1>1. permits' = permits + Held(th[p]) - Held(x) /\ permits' \in Nat
  BY DEF AInv, AlsoTyped, Held
<1>2. InHand(x, data')
  BY DEF cacheVars
<1> QED
  BY <1>1, <1>2, ThreadMoves DEF userVars, cacheVars, AInv, Typed, AlsoTyped

----------------------------------------------------------------------------

LEMMA InitAInv == Init => AInv
<1> SUFFICES ASSUME Init PROVE AInv
  OBVIOUS
<1>1. Typed
  BY InitIInv DEF IInv
<1>2. \A p \in Threads : th[p] = Resting
  BY DEF Init, Volatile
<1>3. AlsoTyped
  BY RestingTyped DEF Init, Volatile, AlsoTyped, Troubles
<1>4. {p \in Threads : th[p].pc \in HoldsPermit} = {}
  BY <1>2 DEF Resting, HoldsPermit, InSet
<1>5. PermitsAccounted
  <2>1. permits = MaxUnary
    BY DEF Init, Volatile
  <2>2. Cardinality({p \in Threads : th[p].pc \in HoldsPermit}) = 0
    BY <1>4, FS_EmptySet
  <2> QED BY <2>1, <2>2 DEF PermitsAccounted
<1> QED BY <1>1, <1>2, <1>3, <1>5, RestingHolds DEF AInv

LEMMA RestartAInv == ASSUME AInv, Restart PROVE AInv'
<1>1. \A p \in Threads : th'[p] = Resting
  BY DEF Restart, Volatile
<1>2. th' \in [Threads -> ThreadStates]
  BY RestingTyped DEF Restart, Volatile
<1>3. Typed'
  BY <1>2, RestingTyped DEF Restart, Volatile, userVars, AInv, Typed
<1>4. AlsoTyped'
  BY RestingTyped DEF Restart, Volatile, userVars, AInv, AlsoTyped,
                      Troubles
<1>5. {p \in Threads : th'[p].pc \in HoldsPermit} = {}
  BY <1>1 DEF Resting, HoldsPermit, InSet
<1>6. PermitsAccounted'
  <2>1. permits' = MaxUnary
    BY DEF Restart, Volatile
  <2> QED BY <1>5, <2>1, FS_EmptySet DEF PermitsAccounted
<1> QED BY <1>1, <1>3, <1>4, <1>6, RestingHolds DEF AInv

LEMMA EditAInv == ASSUME AInv, Edit PROVE AInv'
<1>1. UNCHANGED <<config, child, data, published, permits, th, troubles>>
  BY DEF Edit, serverVars, cacheVars
<1>2. Typed'
  BY <1>1 DEF Edit, AInv, Typed
<1>3. AlsoTyped'
  BY <1>1 DEF Edit, AInv, AlsoTyped
<1> QED BY <1>1, <1>2, <1>3 DEF AInv, PermitsAccounted

(* Fetch, Validate, Observe and the end of a reconcile: no permit is taken *)
(* beyond the call itself.                                                 *)
LEMMA ReconcileAInv ==
  ASSUME AInv, \/ Fetch \/ Validate \/ Observe \/ ReconcileDone
               \/ ValidateFails \/ ObserveFails
  PROVE  AInv'
<1> DEFINE t == th[Reconciler]
<1>0. /\ t \in ThreadStates /\ th \in [Threads -> ThreadStates]
      /\ Reconciler \in Threads
  BY DEF AInv, Typed, Threads
<1>1. t.pc \in {"rest", "fetched", "valid", "uptodate"}
      /\ t.pc \notin HoldsPermit
  BY DEF Fetch, Validate, Observe, ReconcileDone, ValidateFails,
         ObserveFails, HoldsPermit, InSet
<1>2. CASE Fetch
  <2> DEFINE x == [t EXCEPT !.pc = "fetched", !.goal = spec]
  <2>1. x \in ThreadStates /\ x.pc = "fetched"
    BY <1>0 DEF ThreadStates, AInv, Typed
  <2>2. InHand(x, data) /\ Held(x) = Held(t)
    BY <1>1, <2>1 DEF InHand, Held, HoldsPermit, InSet
  <2>3. th' = [th EXCEPT ![Reconciler] = x]
    BY <1>0, <1>2 DEF Fetch, ThreadStates
  <2> QED BY <1>0, <1>2, <2>1, <2>2, <2>3, GoesOn DEF Fetch
<1>3. CASE Validate
  <2> DEFINE x == [t EXCEPT !.pc = "valid"]
  <2>1. x \in ThreadStates /\ x.pc = "valid"
    BY <1>0 DEF ThreadStates
  <2>2. InHand(x, data) /\ Held(x) = Held(t)
    BY <1>1, <2>1 DEF InHand, Held, HoldsPermit, InSet
  <2>3. th' = [th EXCEPT ![Reconciler] = x]
    BY <1>0, <1>3 DEF Validate, ThreadStates
  <2> QED BY <1>0, <1>3, <2>1, <2>2, <2>3, GoesOn DEF Validate
<1>4. CASE ReconcileDone \/ ValidateFails
  BY <1>0, <1>1, <1>4, Rests
  DEF ReconcileDone, ValidateFails, userVars, AInv, AlsoTyped
<1>5. CASE ObserveFails
  <2>1. troubles' \in Troubles
    BY <1>5, FaultTyped DEF ObserveFails, AInv, AlsoTyped
  <2> QED BY <1>0, <1>1, <1>5, <2>1, Rests DEF ObserveFails, userVars
<1>6. CASE Observe
  <2> DEFINE call(ps, ds, rt) == [t EXCEPT !.pc = "call", !.puts = ps,
                                           !.dels = ds, !.root = rt]
             ok == [t EXCEPT !.pc = "uptodate"]
  <2>1. permits' = permits /\ troubles' = troubles /\ UNCHANGED cacheVars
    BY <1>6 DEF Observe
  <2>2. CASE th' = [th EXCEPT ![Reconciler] = Resting]
             /\ spec' \in {spec, None} /\ UNCHANGED <<past, edits>>
    BY <1>0, <1>1, <2>1, <2>2, Rests DEF AInv, AlsoTyped
  <2>3. ASSUME NEW ps \in SUBSET Metrics, NEW ds \in SUBSET Metrics,
               NEW rt \in BOOLEAN, ps # {} => t.goal \in Contents,
               th' = [th EXCEPT ![Reconciler] = call(ps, ds, rt)],
               UNCHANGED userVars
        PROVE  AInv'
    <3> DEFINE x == call(ps, ds, rt)
    <3>1. x \in ThreadStates /\ x.pc = "call" /\ x.puts = ps
          /\ x.goal = t.goal
      BY <1>0 DEF ThreadStates
    <3>2. InHand(x, data) /\ Held(x) = Held(t)
      BY <1>1, <2>3, <3>1 DEF InHand, Held, HoldsPermit, InSet
    <3> HIDE DEF x
    <3> QED BY <1>0, <2>1, <2>3, <3>1, <3>2, GoesOn DEF x
  <2>4. CASE th' = [th EXCEPT ![Reconciler] = ok] /\ UNCHANGED userVars
    <3>1. ok \in ThreadStates /\ ok.pc = "uptodate"
      BY <1>0 DEF ThreadStates
    <3>2. InHand(ok, data) /\ Held(ok) = Held(t)
      BY <1>1, <3>1 DEF InHand, Held, HoldsPermit, InSet
    <3> QED BY <1>0, <2>1, <2>4, <3>1, <3>2, GoesOn
  <2>5. CASE t.goal = Gone /\ config # Empty
    <3>1. th' = [th EXCEPT ![Reconciler] = call({}, {}, TRUE)]
          /\ UNCHANGED userVars
      BY <1>0, <1>6, <2>5 DEF Observe, ThreadStates
    <3> QED BY <2>3, <3>1
  <2>6. CASE t.goal = Gone /\ config = Empty
    BY <1>6, <2>2, <2>6 DEF Observe
  <2>7. CASE t.goal \in Contents
             /\ Delta(t.goal) # [puts |-> {}, dels |-> {}]
    <3> DEFINE ps == Delta(t.goal).puts
               ds == Delta(t.goal).dels
    <3>1. ps \in SUBSET Metrics /\ ds \in SUBSET Metrics
      BY DEF Delta
    <3>2. th' = [th EXCEPT ![Reconciler] = call(ps, ds, FALSE)]
          /\ UNCHANGED userVars
      BY <1>0, <1>6, <2>7 DEF Observe, ThreadStates
    <3> HIDE DEF ps, ds
    <3> QED BY <2>3, <2>7, <3>1, <3>2
  <2>8. CASE t.goal \in Contents
             /\ Delta(t.goal) = [puts |-> {}, dels |-> {}]
    <3>1. \/ th' = [th EXCEPT ![Reconciler] = Resting]
          \/ th' = [th EXCEPT ![Reconciler] = ok]
      BY <1>0, <1>6, <2>8 DEF Observe, ThreadStates
    <3>2. UNCHANGED userVars
      BY <1>6, <2>8 DEF Observe
    <3> QED BY <2>2, <2>4, <3>1, <3>2 DEF userVars
  <2> QED BY <1>6, <2>5, <2>6, <2>7, <2>8 DEF Observe
<1> QED BY <1>2, <1>3, <1>4, <1>5, <1>6

LEMMA ClientAInv ==
  ASSUME AInv, NEW p \in Clients,
         ClientRequest(p) \/ GetBegins(p) \/ GetEnds(p)
  PROVE  AInv'
<1> DEFINE t == th[p]
<1>0. p \in Threads /\ t \in ThreadStates
      /\ th \in [Threads -> ThreadStates]
  BY DEF AInv, Typed, Threads
<1>1. CASE ClientRequest(p)
  <2> PICK g \in Contents, root \in BOOLEAN :
        th' = [th EXCEPT ![p] = [Resting EXCEPT !.pc = "call", !.goal = g,
            !.puts = IF root THEN {} ELSE {m \in Metrics : g[m] # 0},
            !.dels = IF root THEN {} ELSE {m \in Metrics : g[m] = 0},
            !.root = root]]
    BY <1>1 DEF ClientRequest
  <2> DEFINE x == [Resting EXCEPT !.pc = "call", !.goal = g,
            !.puts = IF root THEN {} ELSE {m \in Metrics : g[m] # 0},
            !.dels = IF root THEN {} ELSE {m \in Metrics : g[m] = 0},
            !.root = root]
  <2>1. x \in ThreadStates /\ x.pc = "call" /\ x.goal = g
    BY RestingTyped DEF ThreadStates, Resting
  <2>2. InHand(x, data) /\ Held(x) = Held(t)
    BY <1>1, <2>1 DEF InHand, Held, HoldsPermit, InSet, ClientRequest
  <2> HIDE DEF x
  <2> QED BY <1>0, <1>1, <2>1, <2>2, GoesOn DEF ClientRequest, x
<1>2. CASE GetBegins(p)
  <2> DEFINE x == [t EXCEPT !.pc = "get"]
  <2>1. x \in ThreadStates /\ x.pc = "get"
    BY <1>0 DEF ThreadStates, HoldsPermit
  <2>2. InHand(x, data') /\ Held(x) = 1 /\ Held(t) = 0
    BY <1>2, <2>1 DEF InHand, Held, HoldsPermit, InSet, GetBegins
  <2>3. permits' = permits + Held(t) - Held(x) /\ permits' \in Nat
    BY <1>2, <2>2 DEF GetBegins, AInv, AlsoTyped
  <2>4. th' = [th EXCEPT ![p] = x]
    BY <1>0, <1>2 DEF GetBegins, ThreadStates
  <2> QED
    BY <1>0, <1>2, <2>1, <2>2, <2>3, <2>4, ThreadMoves
    DEF GetBegins, userVars, cacheVars, AInv, Typed, AlsoTyped
<1>3. CASE GetEnds(p)
  BY <1>0, <1>3, Leaves
  DEF GetEnds, Leave, HoldsPermit, userVars, cacheVars, AInv, AlsoTyped
<1> QED BY <1>1, <1>2, <1>3

(* The returns of Set: with an error, or at its end.                       *)
LEMMA ReturnsAInv ==
  ASSUME AInv, NEW p \in Threads,
         SetFails(p) \/ DeleteChild(p) \/ Publish(p)
  PROVE  AInv'
<1> USE DEF userVars, cacheVars
<1>0. th[p].pc \in HoldsPermit /\ Leave(p)
  BY DEF SetFails, WriteFails, ReadFails, PublishFails, DeleteChild,
         Publish, HoldsPermit, InSet
<1>1. troubles \in Troubles /\ published \in Contents
  BY DEF AInv, AlsoTyped
<1>2. CASE SetFails(p)
  <2>1. troubles' \in Troubles
    BY <1>2, FaultTyped DEF SetFails, WriteFails, ReadFails, PublishFails,
                            AInv
  <2> QED
    BY <1>0, <1>1, <1>2, <2>1, Leaves
    DEF SetFails, WriteFails, ReadFails, PublishFails
<1>3. CASE DeleteChild(p)
  <2>1. troubles' \in Troubles /\ published' \in Contents
    BY <1>1, <1>3, FaultTyped, RestingTyped DEF DeleteChild, AInv
  <2> QED BY <1>0, <1>3, <2>1, Leaves DEF DeleteChild
<1>4. CASE Publish(p)
  <2>1. th[p].d \in Contents
    BY <1>4 DEF Publish, AInv, InHand
  <2>2. published' \in Contents
    BY <1>1, <1>4, <2>1 DEF Publish, Contents
  <2> QED BY <1>0, <1>1, <1>4, <2>2, Leaves DEF Publish
<1> QED BY <1>2, <1>3, <1>4

(* The writes of a Set, to the config cache and to the collector resource. *)
LEMMA WritesAInv ==
  ASSUME AInv, NEW p \in Threads,
         \/ SetBegins(p) \/ WritePut(p) \/ WriteDelete(p) \/ WriteRoot(p)
         \/ Attach(p) \/ Apply(p)
  PROVE  AInv'
<1> DEFINE t == th[p]
<1> USE DEF userVars, cacheVars
<1>0. t \in ThreadStates /\ th \in [Threads -> ThreadStates]
      /\ InHand(t, data) /\ config \in Contents /\ permits \in Nat
  BY DEF AInv, Typed, AlsoTyped
<1>1. CASE SetBegins(p)
  <2>1. CASE permits = 0
    <3>1. th' = [th EXCEPT ![p] = Resting] /\ permits' = permits
          /\ t.pc \notin HoldsPermit
      BY <1>1, <2>1 DEF SetBegins, HoldsPermit, InSet
    <3> QED BY <1>1, <3>1, Rests DEF SetBegins, AInv, AlsoTyped
  <2>2. CASE permits > 0
    <3> DEFINE x == [t EXCEPT !.pc = "write"]
    <3>1. x \in ThreadStates /\ x.pc = "write" /\ x.puts = t.puts
          /\ x.goal = t.goal
      BY <1>0 DEF ThreadStates, HoldsPermit, InSet
    <3>2. t.pc = "call" /\ Held(x) = 1 /\ Held(t) = 0
      BY <1>1, <3>1 DEF Held, HoldsPermit, InSet, SetBegins
    <3>3. InHand(x, data')
      BY <1>0, <3>1, <3>2 DEF InHand
    <3>4. permits' = permits + Held(t) - Held(x) /\ permits' \in Nat
      BY <1>0, <1>1, <2>2, <3>2 DEF SetBegins
    <3>5. th' = [th EXCEPT ![p] = x]
      BY <1>0, <1>1, <2>2 DEF SetBegins, ThreadStates
    <3> QED
      BY <1>0, <1>1, <3>1, <3>3, <3>4, <3>5, ThreadMoves
      DEF SetBegins, AInv, Typed, AlsoTyped
  <2> QED BY <1>0, <2>1, <2>2
<1>2. ASSUME NEW x \in ThreadStates, th' = [th EXCEPT ![p] = x],
             x.pc \in HoldsPermit, t.pc \in HoldsPermit,
             InHand(x, data'), permits' = permits,
             config' \in Contents, child' \in Resources \cup {None},
             \/ data' = data
             \/ \E r \in Resources, d \in Contents :
                   data' = [data EXCEPT ![r] = d],
             UNCHANGED <<userVars, published, troubles>>
      PROVE  AInv'
  <2>1. permits' = permits + Held(t) - Held(x) /\ permits' \in Nat
    BY <1>0, <1>2 DEF Held
  <2> QED
    BY <1>2, <2>1, ThreadMoves DEF AInv, Typed, AlsoTyped
<1>3. CASE WritePut(p)
  <2> PICK m \in t.puts : /\ config' = [config EXCEPT ![m] = t.goal[m]]
                          /\ th' = [th EXCEPT ![p].puts = @ \ {m}]
    BY <1>3 DEF WritePut
  <2> DEFINE x == [t EXCEPT !.puts = @ \ {m}]
  <2>1. t.pc = "write" /\ t.goal \in Contents /\ m \in Metrics
    BY <1>0, <1>3 DEF WritePut, InHand, ThreadStates
  <2>2. x \in ThreadStates /\ x.pc = "write" /\ x.goal = t.goal
    BY <1>0, <2>1 DEF ThreadStates
  <2>3. InHand(x, data') /\ x.pc \in HoldsPermit
    BY <2>1, <2>2 DEF InHand, HoldsPermit, InSet
  <2>4. config' \in Contents
    BY <1>0, <2>1 DEF Contents
  <2>5. th' = [th EXCEPT ![p] = x]
    BY <1>0 DEF ThreadStates
  <2> QED
    BY <1>0, <1>2, <1>3, <2>1, <2>2, <2>3, <2>4, <2>5
    DEF WritePut, AInv, Typed
<1>4. CASE WriteDelete(p)
  <2> PICK m \in t.dels : /\ config' = [config EXCEPT ![m] = 0]
                          /\ th' = [th EXCEPT ![p].dels = @ \ {m}]
    BY <1>4 DEF WriteDelete
  <2> DEFINE x == [t EXCEPT !.dels = @ \ {m}]
  <2>1. t.pc = "write" /\ t.puts = {} /\ m \in Metrics
    BY <1>0, <1>4 DEF WriteDelete, ThreadStates
  <2>2. x \in ThreadStates /\ x.pc = "write" /\ x.puts = {}
    BY <1>0, <2>1 DEF ThreadStates
  <2>3. InHand(x, data') /\ x.pc \in HoldsPermit
    BY <2>2 DEF InHand, HoldsPermit, InSet
  <2>4. config' \in Contents
    BY <1>0, <2>1 DEF Contents
  <2>5. th' = [th EXCEPT ![p] = x]
    BY <1>0 DEF ThreadStates
  <2> QED
    BY <1>0, <1>2, <1>4, <2>1, <2>2, <2>3, <2>4, <2>5
    DEF WriteDelete, AInv, Typed
<1>5. CASE WriteRoot(p)
  <2> DEFINE x == [t EXCEPT !.pc = "delete"]
  <2>1. x \in ThreadStates /\ x.pc = "delete" /\ t.pc = "write"
    BY <1>0, <1>5 DEF WriteRoot, ThreadStates, HoldsPermit, InSet
  <2>2. InHand(x, data') /\ x.pc \in HoldsPermit /\ t.pc \in HoldsPermit
    BY <2>1 DEF InHand, HoldsPermit, InSet
  <2>3. th' = [th EXCEPT ![p] = x]
    BY <1>0, <1>5 DEF WriteRoot, ThreadStates
  <2> QED
    BY <1>2, <1>5, <2>1, <2>2, <2>3, RestingTyped DEF WriteRoot, AInv, Typed
<1>6. CASE Attach(p)
  <2> DEFINE x == [t EXCEPT !.pc = "apply"]
  <2>1. /\ x \in ThreadStates /\ x.pc = "apply" /\ t.pc = "attach"
        /\ x.d = t.d /\ x.res = t.res
    BY <1>0, <1>6 DEF Attach, ThreadStates, HoldsPermit, InSet
  <2>2. InHand(x, data') /\ x.pc \in HoldsPermit /\ t.pc \in HoldsPermit
        /\ t.res \in Resources
    BY <1>0, <2>1 DEF InHand, HoldsPermit, InSet
  <2>3. th' = [th EXCEPT ![p] = x]
    BY <1>0, <1>6 DEF Attach, ThreadStates
  <2> QED
    BY <1>0, <1>2, <1>6, <2>1, <2>2, <2>3 DEF Attach
<1>7. CASE Apply(p)
  <2>0. t.pc = "apply" /\ t.pc \in HoldsPermit
    BY <1>7 DEF Apply, HoldsPermit, InSet
  <2>1. CASE t.d = Empty
    <3>1. Leave(p) /\ UNCHANGED data
      BY <1>7, <2>1 DEF Apply
    <3> QED
      BY <1>7, <2>0, <3>1, Leaves DEF Apply, AInv, AlsoTyped
  <2>2. CASE t.d # Empty
    <3> DEFINE x == [t EXCEPT !.pc = "marshal"]
    <3>1. x \in ThreadStates /\ x.pc = "marshal" /\ x.res = t.res
      BY <1>0 DEF ThreadStates, HoldsPermit, InSet
    <3>2. t.d \in Contents /\ t.res \in Resources /\ t.d # None
      BY <1>0, <2>0 DEF InHand
    <3>3. data' = [data EXCEPT ![t.res] = t.d] /\ permits' = permits
      BY <1>7, <2>2 DEF Apply
    <3>4. data'[t.res] = t.d
      BY <3>2, <3>3 DEF AInv, Typed
    <3>5. InHand(x, data') /\ x.pc \in HoldsPermit
      BY <3>1, <3>2, <3>4 DEF InHand, HoldsPermit, InSet
    <3>6. th' = [th EXCEPT ![p] = x]
      BY <1>0, <1>7, <2>2 DEF Apply, ThreadStates
    <3> HIDE DEF x
    <3> QED
      BY <1>0, <1>2, <1>7, <2>0, <3>1, <3>2, <3>3, <3>5, <3>6
      DEF Apply, AInv, Typed
  <2> QED BY <2>1, <2>2
<1> QED BY <1>1, <1>3, <1>4, <1>5, <1>6, <1>7

(* The steps of a Set that only read.                                      *)
LEMMA ReadsAInv ==
  ASSUME AInv, NEW p \in Threads,
         WriteDone(p) \/ ReadConfig(p) \/ Lookup(p) \/ Marshal(p)
  PROVE  AInv'
<1> DEFINE t == th[p]
<1>0. t \in ThreadStates /\ th \in [Threads -> ThreadStates]
      /\ InHand(t, data) /\ config \in Contents
  BY DEF AInv, Typed
<1>1. ASSUME NEW x \in ThreadStates, th' = [th EXCEPT ![p] = x],
             x.pc \in InSet, InHand(x, data)
      PROVE  AInv'
  <2>1. Held(x) = Held(t) /\ permits' = permits
        /\ UNCHANGED <<userVars, cacheVars, troubles>>
    BY <1>1 DEF Held, HoldsPermit, InSet, WriteDone, ReadConfig, Lookup,
                Marshal
  <2> QED BY <1>1, <2>1, GoesOn
<1>2. CASE WriteDone(p)
  <2> DEFINE x == [t EXCEPT !.pc = "read"]
  <2>1. x \in ThreadStates /\ x.pc = "read"
    BY <1>0 DEF ThreadStates, HoldsPermit, InSet
  <2>2. th' = [th EXCEPT ![p] = x]
    BY <1>0, <1>2 DEF WriteDone, ThreadStates
  <2> QED BY <1>1, <2>1, <2>2 DEF InHand, InSet
<1>3. CASE ReadConfig(p)
  <2> DEFINE x == [t EXCEPT !.pc = "lookup", !.d = config]
  <2>1. x \in ThreadStates /\ x.pc = "lookup" /\ x.d = config
    BY <1>0 DEF ThreadStates, HoldsPermit, InSet
  <2>2. th' = [th EXCEPT ![p] = x]
    BY <1>0, <1>3 DEF ReadConfig, ThreadStates
  <2> QED BY <1>0, <1>1, <2>1, <2>2 DEF InHand, InSet
<1>4. CASE Lookup(p)
  <2>1. t.pc = "lookup" /\ t.d \in Contents
    BY <1>0, <1>4 DEF Lookup, InHand
  <2>2. ASSUME NEW pc \in {"apply", "attach"}, NEW r \in Resources,
               th' = [th EXCEPT ![p].pc = pc, ![p].res = r]
        PROVE  AInv'
    <3> DEFINE x == [t EXCEPT !.pc = pc, !.res = r]
    <3>1. x \in ThreadStates /\ x.pc = pc /\ x.d = t.d /\ x.res = r
      BY <1>0 DEF ThreadStates, HoldsPermit, InSet
    <3>2. th' = [th EXCEPT ![p] = x]
      BY <1>0, <2>2 DEF ThreadStates
    <3>3. InHand(x, data) /\ x.pc \in InSet
      BY <2>1, <3>1 DEF InHand, InSet
    <3> QED BY <1>1, <3>1, <3>2, <3>3
  <2>3. child \in Resources \cup {None}
    BY DEF AInv, Typed
  <2> QED BY <1>4, <2>2, <2>3 DEF Lookup
<1>5. CASE Marshal(p)
  <2> DEFINE x == [t EXCEPT !.pc = "publish", !.d = data[t.res]]
  <2>1. t.pc = "marshal" /\ t.res \in Resources /\ data[t.res] # None
    BY <1>0, <1>5 DEF Marshal, InHand
  <2>2. data[t.res] \in Contents
    BY <2>1 DEF AInv, Typed
  <2>3. x \in ThreadStates /\ x.pc = "publish" /\ x.d = data[t.res]
    BY <1>0, <2>2 DEF ThreadStates, HoldsPermit, InSet
  <2>4. th' = [th EXCEPT ![p] = x]
    BY <1>0, <1>5 DEF Marshal, ThreadStates
  <2> QED BY <1>1, <2>2, <2>3, <2>4 DEF InHand, InSet
<1> QED BY <1>2, <1>3, <1>4, <1>5

LEMMA NextAInv == ASSUME AInv, [Next]_vars PROVE AInv'
<1>1. CASE UNCHANGED vars
  BY <1>1 DEF vars, AInv, Typed, AlsoTyped, PermitsAccounted
<1>2. ASSUME NEW p \in Threads, SetStep(p) \/ SetFails(p)
      PROVE  AInv'
  BY <1>2, ReturnsAInv, WritesAInv, ReadsAInv DEF SetStep
<1>3. CASE Next
  BY <1>2, <1>3, EditAInv, RestartAInv, ReconcileAInv, ClientAInv
  DEF Next, Reconcile, Threads
<1> QED BY <1>1, <1>3

LEMMA Accounted == Spec => []AInv
<1>1. AInv /\ [Next]_vars => AInv'
  BY NextAInv
<1> QED BY <1>1, InitAInv, PTL DEF Spec

(* Whoever Sets, however many at a time, and whatever fails: a permit is   *)
(* held by exactly the calls in progress; each early return of Set and of  *)
(* Get gives it back, once (set.go:35-39, get.go:35-39).                   *)
THEOREM PermitsAccountedHolds == Spec => []PermitsAccounted
BY Accounted, PTL DEF AInv

(* Every variable keeps its type; in particular no Set hands the collector *)
(* resource, or writes to the state cache, data that it has not read       *)
(* (set.go:122-134, applogic/collector.go:140-200), and there are never    *)
(* more permits than there were at the start.                              *)
THEOREM TypeCorrect == Spec => []TypeOK
<1>1. ASSUME AInv PROVE permits \in 0 .. MaxUnary
  <2> DEFINE H == {p \in Threads : th[p].pc \in HoldsPermit}
  <2>1. IsFiniteSet(Threads)
    BY FS_AddElement DEF Threads
  <2>2. Cardinality(H) \in Nat
    BY <2>1, FS_Subset, FS_CardinalityType
  <2>3. permits \in Nat /\ permits + Cardinality(H) = MaxUnary
    BY <1>1 DEF AInv, AlsoTyped, PermitsAccounted
  <2> HIDE DEF H
  <2> QED BY <2>2, <2>3
<1>2. AInv => TypeOK
  BY <1>1 DEF AInv, Typed, AlsoTyped, TypeOK, ThreadStates, Troubles
<1> QED BY <1>2, Accounted, PTL
=============================================================================
