-------------------------- MODULE Subscribe_proofs --------------------------
(***************************************************************************)
(* Proofs about Subscribe, whoever Sets: the types of its state and the    *)
(* account of the spots.  What each action does to its call is stated      *)
(* once; SubscribeStream_proofs builds on it.                              *)
(***************************************************************************)
EXTENDS Subscribe, FiniteSetTheorems, TLAPS

USE ConstantsAssumption

CallStates ==
    [pc : {"new", "refused", "returned", "register", "wait"}, mode : Modes,
     reg : SUBSET Paths, todo : SUBSET Paths,
     handler : {"none", "close", "query", "done", "failed"},
     sender : {"none", "run", "ended"}, queue : Seq(Items),
     closed : BOOLEAN, gone : BOOLEAN, synced : BOOLEAN,
     snap : [Paths -> 0 .. MaxSets]]

Typed ==
    /\ tree \in [Caches -> [Paths -> 0 .. MaxSets]]
    /\ leaf \in [Sets -> [path : Paths, ver : 0 .. MaxSets, del : BOOLEAN]]
    /\ set \in [Setters ->
          [pc : {"rest", "state", "tellState"},
           n : 0 .. MaxSets, path : Paths, del : BOOLEAN]]
    /\ sets \in 0 .. MaxSets
    /\ spots \in Nat
    /\ call \in [Calls -> CallStates]
    /\ last \in [Calls -> [Paths -> [ver : 0 .. MaxSets, del : BOOLEAN]]]

(* A Set in progress has the number of a Set or the name of a leaf.        *)
SettersBusy == \A w \in Setters : set[w].pc # "rest" => set[w].n \in Sets

(* The sender starts when the call has registered, or need not.            *)
Staged(c) == c.sender # "none" => c.pc = "wait"

TInv == /\ Typed /\ SettersBusy /\ SpotsAccounted
        /\ \A s \in Calls : Staged(call[s])

----------------------------------------------------------------------------
(* Records and queues *)

(* A leaf of the state cache in a queue.                                   *)
IsState(x) == x[1] = "state"
PathOf(x) == leaf[x[2]].path
VerOf(x) == leaf[x[2]].ver

LEMMA ItemFacts ==
    /\ Sync \in Items
    /\ \A n \in Sets, c \in Caches : <<c, n>> \in Items /\ <<c, n>> # Sync
    /\ \A x \in Items : x # Sync =>
          x[1] \in Caches /\ x[2] \in Sets /\ x = <<x[1], x[2]>>
    /\ ~IsState(Sync)
BY DEF Items, Sync, Caches, Sets, IsState

LEMMA StartTyped ==
    /\ NoLeaf \in [path : Paths, ver : 0 .. MaxSets, del : BOOLEAN]
    /\ Resting \in [pc : {"rest", "state", "tellState"},
                     n : 0 .. MaxSets, path : Paths, del : BOOLEAN]
    /\ NotMade \in CallStates
    /\ NotSent \in [ver : 0 .. MaxSets, del : BOOLEAN]
<1>1. NoLeaf.path \in Paths
  BY DEF NoLeaf
<1>2. NoLeaf \in [path : Paths, ver : 0 .. MaxSets, del : BOOLEAN]
  BY DEF NoLeaf
<1>3. Resting \in [pc : {"rest", "state", "tellState"},
                   n : 0 .. MaxSets, path : Paths, del : BOOLEAN]
  BY <1>1 DEF Resting
<1>4. NotMade \in CallStates
  BY DEF NotMade, CallStates, Modes
<1>5. NotSent \in [ver : 0 .. MaxSets, del : BOOLEAN]
  BY DEF NotSent
<1> QED BY <1>2, <1>3, <1>4, <1>5

SameButQueue(c, d) ==
    /\ d.pc = c.pc /\ d.mode = c.mode /\ d.reg = c.reg /\ d.todo = c.todo
    /\ d.handler = c.handler /\ d.sender = c.sender
    /\ d.closed = c.closed /\ d.gone = c.gone /\ d.synced = c.synced
    /\ d.snap = c.snap

(* What Insert does to a call: to its queue, and to nothing else.          *)
LEMMA InsertFacts ==
  ASSUME NEW c \in CallStates, NEW x \in Items
  PROVE  /\ Insert(c, x) \in CallStates
         /\ SameButQueue(c, Insert(c, x))
         /\ \/ Insert(c, x) = c
            \/ /\ Insert(c, x).queue = Append(c.queue, x)
               /\ \A i \in DOMAIN c.queue : c.queue[i] # x
         /\ ~c.closed /\ c.sender # "ended" =>
               \E i \in DOMAIN Insert(c, x).queue :
                  Insert(c, x).queue[i] = x
<1> DEFINE out == \/ c.closed \/ c.sender = "ended"
                  \/ \E i \in DOMAIN c.queue : c.queue[i] = x
           d == [c EXCEPT !.queue = Append(@, x)]
<1>1. CASE out
  BY <1>1 DEF Insert, SameButQueue
<1>2. CASE ~out
  <2>1. Insert(c, x) = d /\ \A i \in DOMAIN c.queue : c.queue[i] # x
    BY <1>2 DEF Insert
  <2>2. d.queue = Append(c.queue, x) /\ SameButQueue(c, d)
        /\ d \in CallStates
    <3> DEFINE q == Append(c.queue, x)
    <3>1. c.queue \in Seq(Items)
      BY DEF CallStates
    <3>2. q \in Seq(Items) /\ d = [c EXCEPT !.queue = q]
      BY <3>1 DEF CallStates
    <3> HIDE DEF q, d
    <3>3. d.queue = q /\ SameButQueue(c, d)
      BY <3>2 DEF CallStates, SameButQueue
    <3>4. d \in CallStates
      BY <3>2 DEF CallStates
    <3> QED BY <3>3, <3>4 DEF q
  <2>3. Len(c.queue) + 1 \in DOMAIN d.queue
        /\ d.queue[Len(c.queue) + 1] = x
    <3>1. c.queue \in Seq(Items)
      BY DEF CallStates
    <3>2. /\ Len(c.queue) + 1 \in DOMAIN Append(c.queue, x)
          /\ Append(c.queue, x)[Len(c.queue) + 1] = x
      BY <3>1
    <3> HIDE DEF d
    <3> QED BY <2>2, <3>2
  <2> HIDE DEF d
  <2> QED BY <2>1, <2>2, <2>3
<1> QED BY <1>1, <1>2

LEMMA AppendFacts ==
  ASSUME NEW q \in Seq(Items), NEW x \in Items
  PROVE  /\ DOMAIN q = 1 .. Len(q)
         /\ DOMAIN Append(q, x) = 1 .. (Len(q) + 1)
         /\ \A i \in DOMAIN q : Append(q, x)[i] = q[i]
         /\ Append(q, x)[Len(q) + 1] = x
OBVIOUS

(* What Taken does to a call with a queue.                                 *)
LEMMA TakenFacts ==
  ASSUME NEW s \in Calls, call[s] \in CallStates, call[s].queue # <<>>
  PROVE  /\ Taken(s) \in CallStates
         /\ SameButQueue(call[s], Taken(s))
         /\ Taken(s).queue = Tail(call[s].queue)
         /\ Taking(call[s].queue).item = call[s].queue[1]
         /\ call[s].queue[1] \in Items
<1> DEFINE q == call[s].queue
<1>1. q \in Seq(Items) /\ Tail(q) \in Seq(Items)
  BY DEF CallStates
<1>2. Taken(s) = [call[s] EXCEPT !.queue = Tail(q)]
  BY DEF Taken, Taking, CallStates
<1>3. q[1] \in Items /\ Head(q) = q[1]
  BY <1>1
<1> QED BY <1>1, <1>2, <1>3 DEF CallStates, SameButQueue, Taking

LEMMA TailFacts ==
  ASSUME NEW q \in Seq(Items), q # <<>>
  PROVE  /\ DOMAIN q = 1 .. Len(q) /\ Len(q) \in Nat \ {0}
         /\ DOMAIN Tail(q) = 1 .. (Len(q) - 1)
         /\ \A i \in DOMAIN Tail(q) : Tail(q)[i] = q[i + 1]
OBVIOUS

----------------------------------------------------------------------------
(* What each action makes of its call *)

(* A call as the dispatch leaves it.                                       *)
Fresh(pc, mode, handler, sender, queue, snap) ==
    [pc |-> pc, mode |-> mode, reg |-> {}, todo |-> {}, handler |-> handler,
     sender |-> sender, queue |-> queue, closed |-> FALSE, gone |-> FALSE,
     synced |-> FALSE, snap |-> snap]

LEMMA DispatchedFacts ==
  ASSUME Typed, NEW mode \in Modes
  PROVE  /\ Dispatched(mode) \in CallStates
         /\ \E pc \in {"wait", "register", "returned"},
               handler \in {"none", "close"},
               queue \in {<<>>, <<Sync>>},
               snap \in {NotMade.snap, tree["state"]} :
               /\ Dispatched(mode) =
                    Fresh(pc, mode, handler,
                          IF pc = "wait" THEN "run" ELSE "none", queue, snap)
               /\ mode = "STREAM" =>
                     /\ pc = "register" /\ handler = "none"
                     /\ queue = <<>> /\ snap = tree["state"]
<1> DEFINE none == NotMade.snap
<1>1. none \in [Paths -> 0 .. MaxSets]
      /\ tree["state"] \in [Paths -> 0 .. MaxSets]
  BY DEF Typed, Caches, NotMade
<1>2. <<>> \in Seq(Items) /\ <<Sync>> \in Seq(Items)
  BY ItemFacts
<1>3. NotMade = Fresh("new", "POLL", "none", "none", <<>>, none)
  BY DEF NotMade, Fresh
<1> HIDE DEF none
<1>4. ASSUME NEW pc \in {"wait", "register", "returned"},
             NEW handler \in {"none", "close"},
             NEW sender \in {"none", "run"},
             NEW queue \in {<<>>, <<Sync>>},
             NEW snap \in {none, tree["state"]}
      PROVE  Fresh(pc, mode, handler, sender, queue, snap) \in CallStates
  <2>1. queue \in Seq(Items) /\ snap \in [Paths -> 0 .. MaxSets]
    BY <1>1, <1>2
  <2> QED BY <2>1 DEF Fresh, CallStates
<1>5. CASE mode = "ONCE"
  <2>1. Dispatched(mode) = Fresh("wait", mode, "close", "run", <<>>, none)
    BY <1>3, <1>5 DEF Dispatched, Fresh
  <2> QED BY <1>4, <1>5, <2>1 DEF none
<1>6. CASE mode = "POLL"
  <2>1. Dispatched(mode) = Fresh("wait", mode, "none", "run", <<>>, none)
    BY <1>3, <1>6 DEF Dispatched, Fresh
  <2> QED BY <1>4, <1>6, <2>1 DEF none
<1>7. CASE mode = "STREAM"
  <2>1. Dispatched(mode) = Fresh("register", mode, "none", "none", <<>>,
                                 tree["state"])
    BY <1>3, <1>7 DEF Dispatched, Fresh
  <2> QED BY <1>4, <1>7, <2>1 DEF none
<1>8. CASE mode = "UPDATES_ONLY"
  <2>1. Dispatched(mode) = Fresh("register", mode, "none", "none", <<Sync>>,
                                 none)
    BY <1>3, <1>8 DEF Dispatched, Fresh
  <2> QED BY <1>4, <1>8, <2>1 DEF none
<1>9. CASE mode = "UNRECOGNIZED"
  <2>1. Dispatched(mode) = Fresh("returned", mode, "none", "none", <<>>,
                                 none)
    BY <1>3, <1>9 DEF Dispatched, Fresh
  <2> QED BY <1>4, <1>9, <2>1 DEF none
<1> QED BY <1>5, <1>6, <1>7, <1>8, <1>9 DEF Modes

LEMMA BeginFacts ==
  ASSUME Typed, Asks \in [Calls -> SUBSET Modes], NEW s \in Calls, Begin(s)
  PROVE  /\ call[s].pc = "new" /\ UNCHANGED <<cacheVars, last>>
         /\ \E d \in CallStates :
               /\ call' = [call EXCEPT ![s] = d]
               /\ \/ /\ d = [call[s] EXCEPT !.pc = "refused"]
                     /\ d.pc = "refused" /\ d.sender = call[s].sender
                     /\ spots' = spots
                  \/ /\ spots # 0 /\ spots' = spots - 1
                     /\ \E mode \in Modes : d = Dispatched(mode)
<1>1. call[s] \in CallStates /\ call \in [Calls -> CallStates]
  BY DEF Typed
<1>2. CASE spots = 0
  <2> DEFINE d == [call[s] EXCEPT !.pc = "refused"]
  <2>1. d \in CallStates /\ d.pc = "refused" /\ d.sender = call[s].sender
    BY <1>1 DEF CallStates
  <2>2. call' = [call EXCEPT ![s] = d] /\ spots' = spots
    BY <1>1, <1>2 DEF Begin, CallStates
  <2>3. call[s].pc = "new" /\ UNCHANGED <<cacheVars, last>>
    BY DEF Begin
  <2> HIDE DEF d
  <2>4. \E e \in CallStates : /\ call' = [call EXCEPT ![s] = e]
                             /\ e = d
    BY <2>1, <2>2
  <2> QED BY <2>1, <2>2, <2>3, <2>4 DEF d
<1>3. CASE spots # 0
  <2> PICK mode \in Asks[s] : call' = [call EXCEPT ![s] = Dispatched(mode)]
    BY <1>3 DEF Begin
  <2>1. mode \in Modes
    OBVIOUS
  <2>2. Dispatched(mode) \in CallStates
    BY <2>1, DispatchedFacts
  <2>3. call[s].pc = "new" /\ spots' = spots - 1
        /\ UNCHANGED <<cacheVars, last>>
    BY <1>3 DEF Begin
  <2> QED BY <1>3, <2>1, <2>2, <2>3
<1> QED BY <1>2, <1>3

LEMMA RegisterFacts ==
  ASSUME Typed, NEW s \in Calls, Register(s)
  PROVE  /\ call[s].pc = "register" /\ UNCHANGED <<cacheVars, spots, last>>
         /\ \E p \in Paths \ call[s].reg :
               LET d == [call[s] EXCEPT !.reg = @ \cup {p}] IN
               d \in CallStates /\ call' = [call EXCEPT ![s] = d]
<1> PICK p \in Paths \ call[s].reg :
           call' = [call EXCEPT ![s].reg = @ \cup {p}]
  BY DEF Register
<1> DEFINE d == [call[s] EXCEPT !.reg = @ \cup {p}]
<1>1. call[s] \in CallStates /\ call \in [Calls -> CallStates]
  BY DEF Typed
<1>2. d \in CallStates
  BY <1>1 DEF CallStates
<1>3. call' = [call EXCEPT ![s] = d]
  BY <1>1 DEF CallStates
<1> QED BY <1>2, <1>3 DEF Register

LEMMA LaunchFacts ==
  ASSUME Typed, NEW s \in Calls, Launch(s)
  PROVE  /\ call[s].pc = "register" /\ UNCHANGED <<cacheVars, spots, last>>
         /\ \E d \in CallStates :
               /\ call' = [call EXCEPT ![s] = d]
               /\ d.pc = "wait" /\ d.sender = "run" /\ d.reg = Paths
               /\ d.mode = call[s].mode /\ d.queue = call[s].queue
               /\ d.closed = call[s].closed /\ d.synced = call[s].synced
               /\ d.snap = call[s].snap
               /\ d.mode = "STREAM" => d.handler = "query" /\ d.todo = Paths
<1> DEFINE d == Launched(s)
<1>1. call[s] \in CallStates /\ call \in [Calls -> CallStates]
  BY DEF Typed
<1>2. d \in CallStates
  BY <1>1 DEF CallStates, Launched
<1>3. /\ d.pc = "wait" /\ d.sender = "run" /\ d.reg = call[s].reg
      /\ d.mode = call[s].mode /\ d.queue = call[s].queue
      /\ d.closed = call[s].closed /\ d.synced = call[s].synced
      /\ d.snap = call[s].snap
      /\ d.mode = "STREAM" => d.handler = "query" /\ d.todo = Paths
  BY <1>1 DEF CallStates, Launched
<1>4. call' = [call EXCEPT ![s] = d] /\ call[s].reg = Paths
  BY DEF Launch
<1> HIDE DEF d
<1> QED BY <1>2, <1>3, <1>4 DEF Launch

(* The client leaves, a ONCE closes its queue, or a query fails.           *)
LEMMA FlagFacts ==
  ASSUME Typed, NEW s \in Calls,
         ClientLeaves(s) \/ CloseOnce(s) \/ QueryFails(s)
  PROVE  /\ UNCHANGED <<cacheVars, spots, last>>
         /\ \E d \in CallStates :
               /\ call' = [call EXCEPT ![s] = d]
               /\ d.pc = call[s].pc /\ d.mode = call[s].mode
               /\ d.reg = call[s].reg /\ d.todo = call[s].todo
               /\ d.sender = call[s].sender /\ d.queue = call[s].queue
               /\ d.synced = call[s].synced /\ d.snap = call[s].snap
               /\ \/ /\ d.closed = call[s].closed
                     /\ d.handler = call[s].handler
                     /\ d.pc # "new"
                  \/ d.closed /\ d.handler = "done"
                     /\ call[s].handler = "close"
                  \/ d.closed /\ d.handler = "failed"
                     /\ call[s].handler = "query"
<1>1. call[s] \in CallStates /\ call \in [Calls -> CallStates]
  BY DEF Typed
<1>2. UNCHANGED <<cacheVars, spots, last>>
  BY DEF ClientLeaves, CloseOnce, QueryFails
<1>3. CASE ClientLeaves(s)
  <2> DEFINE d == [call[s] EXCEPT !.gone = TRUE]
  <2>1. d \in CallStates /\ SameButQueue([call[s] EXCEPT !.gone = TRUE], d)
    BY <1>1 DEF CallStates, SameButQueue
  <2>2. call' = [call EXCEPT ![s] = d]
    BY <1>1, <1>3 DEF ClientLeaves, CallStates
  <2> QED BY <1>1, <1>2, <1>3, <2>1, <2>2 DEF CallStates, ClientLeaves
<1>4. CASE CloseOnce(s)
  <2> DEFINE d == [call[s] EXCEPT !.closed = TRUE, !.handler = "done"]
  <2>1. d \in CallStates
    BY <1>1 DEF CallStates
  <2>2. call' = [call EXCEPT ![s] = d]
    BY <1>1, <1>4 DEF CloseOnce, CallStates
  <2> QED BY <1>1, <1>2, <1>4, <2>1, <2>2 DEF CallStates, CloseOnce
<1>5. CASE QueryFails(s)
  <2> DEFINE d == [call[s] EXCEPT !.closed = TRUE, !.handler = "failed"]
  <2>1. d \in CallStates
    BY <1>1 DEF CallStates
  <2>2. call' = [call EXCEPT ![s] = d]
    BY <1>1, <1>5 DEF QueryFails, CallStates
  <2> QED BY <1>1, <1>2, <1>5, <2>1, <2>2 DEF CallStates, QueryFails
<1> QED BY <1>3, <1>4, <1>5

(* A queue takes an item, or has it already, or takes none.                *)
Grows(q, r, x) ==
    \/ r = q
    \/ r = Append(q, x) /\ \A i \in DOMAIN q : q[i] # x

LEMMA QueryFacts ==
  ASSUME Typed, NEW s \in Calls, Query(s)
  PROVE  /\ call[s].handler = "query" /\ UNCHANGED <<cacheVars, spots, last>>
         /\ \E p \in call[s].todo, d \in CallStates :
               LET x == <<"state", tree["state"][p]>> IN
               /\ call' = [call EXCEPT ![s] = d]
               /\ d.todo = call[s].todo \ {p}
               /\ d.pc = call[s].pc /\ d.mode = call[s].mode
               /\ d.reg = call[s].reg /\ d.handler = call[s].handler
               /\ d.sender = call[s].sender /\ d.closed = call[s].closed
               /\ d.synced = call[s].synced /\ d.snap = call[s].snap
               /\ \/ tree["state"][p] = 0 /\ d.queue = call[s].queue
                  \/ /\ tree["state"][p] # 0 /\ x \in Items
                     /\ Grows(call[s].queue, d.queue, x)
                     /\ ~d.closed /\ d.sender # "ended" =>
                           \E i \in DOMAIN d.queue : d.queue[i] = x
<1>1. call[s] \in CallStates /\ call \in [Calls -> CallStates]
  BY DEF Typed
<1>2. call[s].handler = "query" /\ UNCHANGED <<cacheVars, spots, last>>
  BY DEF Query
<1> PICK p \in call[s].todo :
      LET c == [call[s] EXCEPT !.todo = @ \ {p}] IN
      call' = [call EXCEPT ![s] = IF tree["state"][p] = 0 THEN c
                              ELSE Insert(c, <<"state", tree["state"][p]>>)]
  BY DEF Query
<1> DEFINE c == [call[s] EXCEPT !.todo = @ \ {p}]
           x == <<"state", tree["state"][p]>>
<1>3. /\ c \in CallStates
      /\ c.todo = call[s].todo \ {p}
      /\ c.pc = call[s].pc /\ c.mode = call[s].mode
      /\ c.reg = call[s].reg /\ c.handler = call[s].handler
      /\ c.sender = call[s].sender /\ c.closed = call[s].closed
      /\ c.synced = call[s].synced /\ c.snap = call[s].snap
      /\ c.queue = call[s].queue
  BY <1>1 DEF CallStates
<1>4. p \in Paths
  BY <1>1 DEF CallStates
<1> HIDE DEF c
<1>5. CASE tree["state"][p] = 0
  <2>1. call' = [call EXCEPT ![s] = c]
    BY <1>5 DEF c
  <2> QED BY <1>2, <1>3, <1>5, <2>1
<1>6. CASE tree["state"][p] # 0
  <2> DEFINE d == Insert(c, x)
  <2>1. x \in Items
    <3>1. tree["state"][p] \in Sets
      BY <1>4, <1>6 DEF Typed, Caches, Sets
    <3> QED BY <3>1, ItemFacts DEF Caches
  <2>2. call' = [call EXCEPT ![s] = d]
    BY <1>6 DEF c
  <2>3. /\ d \in CallStates /\ SameButQueue(c, d)
        /\ d = c \/ (/\ d.queue = Append(c.queue, x)
                      /\ \A i \in DOMAIN c.queue : c.queue[i] # x)
        /\ (~c.closed /\ c.sender # "ended") =>
                         \E i \in DOMAIN d.queue : d.queue[i] = x
    <3> HIDE DEF x
    <3> QED BY <1>3, <2>1, InsertFacts
  <2> HIDE DEF d
  <2>4. Grows(call[s].queue, d.queue, x)
    BY <1>3, <2>3 DEF Grows
  <2>5. ~d.closed /\ d.sender # "ended" =>
           \E i \in DOMAIN d.queue : d.queue[i] = x
    BY <2>3 DEF SameButQueue
  <2>6. /\ d.todo = call[s].todo \ {p}
        /\ d.pc = call[s].pc /\ d.mode = call[s].mode
        /\ d.reg = call[s].reg /\ d.handler = call[s].handler
        /\ d.sender = call[s].sender /\ d.closed = call[s].closed
        /\ d.synced = call[s].synced /\ d.snap = call[s].snap
    BY <1>3, <2>3 DEF SameButQueue
  <2> QED BY <1>2, <1>6, <2>1, <2>2, <2>3, <2>4, <2>5, <2>6
<1> QED BY <1>5, <1>6

LEMMA QueryDoneFacts ==
  ASSUME Typed, NEW s \in Calls, QueryDone(s)
  PROVE  /\ call[s].handler = "query" /\ call[s].todo = {}
         /\ UNCHANGED <<cacheVars, spots, last>>
         /\ \E d \in CallStates :
               /\ call' = [call EXCEPT ![s] = d]
               /\ d.handler = "done" /\ d.todo = {}
               /\ d.pc = call[s].pc /\ d.mode = call[s].mode
               /\ d.reg = call[s].reg
               /\ d.sender = call[s].sender /\ d.closed = call[s].closed
               /\ d.synced = call[s].synced /\ d.snap = call[s].snap
               /\ Grows(call[s].queue, d.queue, Sync)
<1>1. call[s] \in CallStates
  BY DEF Typed
<1> DEFINE c == Insert(call[s], Sync)
           d == [c EXCEPT !.handler = "done"]
<1>2. /\ c \in CallStates /\ SameButQueue(call[s], c)
      /\ c = call[s] \/ (/\ c.queue = Append(call[s].queue, Sync)
                         /\ \A i \in DOMAIN call[s].queue :
                               call[s].queue[i] # Sync)
  BY <1>1, ItemFacts, InsertFacts
<1>3. call' = [call EXCEPT ![s] = d]
  BY DEF QueryDone
<1> HIDE DEF c
<1>4. d \in CallStates
  BY <1>2 DEF CallStates
<1>5. /\ d.handler = "done" /\ d.todo = c.todo
      /\ d.pc = c.pc /\ d.mode = c.mode /\ d.reg = c.reg
      /\ d.sender = c.sender /\ d.closed = c.closed
      /\ d.synced = c.synced /\ d.snap = c.snap /\ d.queue = c.queue
  BY <1>2 DEF CallStates
<1>6. Grows(call[s].queue, c.queue, Sync)
  BY <1>2 DEF Grows
<1>7. call[s].handler = "query" /\ call[s].todo = {}
      /\ UNCHANGED <<cacheVars, spots, last>>
  BY DEF QueryDone
<1> HIDE DEF d
<1> QED BY <1>2, <1>3, <1>4, <1>5, <1>6, <1>7 DEF SameButQueue

LEMMA SendFacts ==
  ASSUME Typed, NEW s \in Calls, Send(s)
  PROVE  LET q == call[s].queue IN
         /\ call[s].sender = "run" /\ q # <<>> /\ q[1] \in Items
         /\ UNCHANGED <<cacheVars, spots>>
         /\ \E d \in CallStates :
               /\ call' = [call EXCEPT ![s] = d] /\ d.queue = Tail(q)
               /\ d.pc = call[s].pc /\ d.mode = call[s].mode
               /\ d.reg = call[s].reg /\ d.todo = call[s].todo
               /\ d.handler = call[s].handler
               /\ d.sender = call[s].sender /\ d.closed = call[s].closed
               /\ d.snap = call[s].snap
               /\ d.synced = (call[s].synced \/ q[1] = Sync)
         /\ IF IsState(q[1])
            THEN last' = [last EXCEPT ![s][PathOf(q[1])] =
                            [ver |-> VerOf(q[1]), del |-> leaf[q[1][2]].del]]
            ELSE last' = last
<1> DEFINE q == call[s].queue
           c == Taken(s)
<1>1. call[s].sender = "run" /\ q # <<>> /\ UNCHANGED <<cacheVars, spots>>
  BY DEF Send
<1>2. /\ c \in CallStates /\ SameButQueue(call[s], c)
      /\ c.queue = Tail(q)
      /\ Taking(q).item = q[1] /\ q[1] \in Items
  BY <1>1, TakenFacts DEF Typed
<1>3. q[1] # Sync => q[1][1] \in Caches
  BY <1>2, ItemFacts
<1> HIDE DEF c
<1>4. CASE q[1] = Sync
  <2> DEFINE d == [c EXCEPT !.synced = TRUE]
  <2>1. call' = [call EXCEPT ![s] = d] /\ last' = last
    BY <1>2, <1>4 DEF Send, c
  <2>2. /\ d \in CallStates /\ d.queue = c.queue /\ d.pc = c.pc
        /\ d.mode = c.mode /\ d.reg = c.reg /\ d.todo = c.todo
        /\ d.handler = c.handler /\ d.sender = c.sender
        /\ d.closed = c.closed /\ d.snap = c.snap /\ d.synced = TRUE
    BY <1>2 DEF CallStates
  <2>3. ~IsState(q[1])
    BY <1>4, ItemFacts
  <2> HIDE DEF d
  <2> QED BY <1>1, <1>2, <1>4, <2>1, <2>2, <2>3 DEF SameButQueue
<1>5. CASE q[1] # Sync
  <2>1. call' = [call EXCEPT ![s] = c]
    BY <1>2, <1>5 DEF Send, c
  <2>2. last' = IF q[1][1] = "config" THEN last
                ELSE [last EXCEPT ![s][PathOf(q[1])] =
                        [ver |-> VerOf(q[1]), del |-> leaf[q[1][2]].del]]
    BY <1>2, <1>5 DEF Send, PathOf, VerOf
  <2>3. IsState(q[1]) <=> q[1][1] # "config"
    BY <1>3, <1>5 DEF IsState, Caches
  <2>4. c.synced = call[s].synced /\ call[s].synced \in BOOLEAN
    BY <1>2 DEF SameButQueue, Typed, CallStates
  <2>5. /\ c.pc = call[s].pc /\ c.mode = call[s].mode
        /\ c.reg = call[s].reg /\ c.todo = call[s].todo
        /\ c.handler = call[s].handler
        /\ c.sender = call[s].sender /\ c.closed = call[s].closed
        /\ c.snap = call[s].snap
    BY <1>2 DEF SameButQueue
  <2>6. c.synced = (call[s].synced \/ q[1] = Sync)
    BY <1>5, <2>4
  <2>7. IF IsState(q[1])
        THEN last' = [last EXCEPT ![s][PathOf(q[1])] =
                        [ver |-> VerOf(q[1]), del |-> leaf[q[1][2]].del]]
        ELSE last' = last
    BY <2>2, <2>3
  <2> QED BY <1>1, <1>2, <2>1, <2>5, <2>6, <2>7
<1> QED BY <1>4, <1>5

LEMMA EndFacts ==
  ASSUME Typed, NEW s \in Calls, SendFails(s) \/ SenderEnds(s)
  PROVE  /\ call[s].sender = "run" /\ UNCHANGED cacheVars
         /\ spots' = spots + 1
         /\ last' = [last EXCEPT ![s] = [p \in Paths |-> NotSent]]
         /\ \E d \in CallStates :
               /\ call' = [call EXCEPT ![s] = d] /\ d.sender = "ended"
               /\ d.queue = <<>> /\ d.snap = [p \in Paths |-> 0]
               /\ d.pc = call[s].pc /\ d.mode = call[s].mode
               /\ d.reg = call[s].reg /\ d.todo = call[s].todo
               /\ d.handler = call[s].handler
               /\ d.closed = call[s].closed
<1>1. call[s].sender = "run" /\ UNCHANGED cacheVars /\ spots' = spots + 1
      /\ last' = [last EXCEPT ![s] = [p \in Paths |-> NotSent]]
  BY DEF SendFails, SenderEnds, End, Ended
<1>2. \E c \in CallStates :
         /\ c.pc = call[s].pc /\ c.mode = call[s].mode
         /\ c.reg = call[s].reg /\ c.todo = call[s].todo
         /\ c.handler = call[s].handler /\ c.closed = call[s].closed
         /\ call' = [call EXCEPT ![s] = [c EXCEPT !.sender = "ended",
                       !.queue = <<>>, !.snap = NotMade.snap]]
  <2>1. CASE SendFails(s)
    <3> DEFINE c == Taken(s)
    <3>1. c \in CallStates /\ SameButQueue(call[s], c)
      BY <2>1, TakenFacts DEF SendFails, Typed
    <3>2. call' = [call EXCEPT ![s] = [c EXCEPT !.sender = "ended",
                     !.queue = <<>>, !.snap = NotMade.snap]]
      BY <2>1 DEF SendFails, End, Ended
    <3> HIDE DEF c
    <3> QED BY <3>1, <3>2 DEF SameButQueue
  <2>2. CASE SenderEnds(s)
    BY <2>2 DEF SenderEnds, End, Ended, Typed
  <2> QED BY <2>1, <2>2
<1> PICK c \in CallStates :
         /\ c.pc = call[s].pc /\ c.mode = call[s].mode
         /\ c.reg = call[s].reg /\ c.todo = call[s].todo
         /\ c.handler = call[s].handler /\ c.closed = call[s].closed
         /\ call' = [call EXCEPT ![s] = [c EXCEPT !.sender = "ended",
                       !.queue = <<>>, !.snap = NotMade.snap]]
  BY <1>2
<1> DEFINE none == NotMade.snap
           nil == <<>>
           d == [c EXCEPT !.sender = "ended", !.queue = nil, !.snap = none]
<1>3. /\ none \in [Paths -> 0 .. MaxSets] /\ none = [p \in Paths |-> 0]
      /\ nil \in Seq(Items)
  BY DEF NotMade
<1> HIDE DEF none, nil
<1>4. d \in CallStates
  BY <1>3 DEF CallStates
<1>5. /\ d.sender = "ended" /\ d.queue = nil /\ d.snap = none
      /\ d.pc = c.pc /\ d.mode = c.mode /\ d.reg = c.reg
      /\ d.todo = c.todo /\ d.handler = c.handler /\ d.closed = c.closed
  BY DEF CallStates
<1>6. call' = [call EXCEPT ![s] = d]
  BY DEF none, nil
<1> HIDE DEF d
<1> QED BY ZenonT(30), <1>1, <1>3, <1>4, <1>5, <1>6 DEF nil

LEMMA TellFacts ==
  ASSUME Typed, NEW c \in Caches, NEW p \in Paths, NEW l \in Sets,
         Tell(c, p, l)
  PROVE  /\ call' \in [Calls -> CallStates]
         /\ \A s \in Calls :
               /\ SameButQueue(call[s], call'[s])
               /\ p \notin call[s].reg => call'[s] = call[s]
               /\ Grows(call[s].queue, call'[s].queue, <<c, l>>)
               /\ p \in call[s].reg /\ ~call[s].closed
                  /\ call[s].sender # "ended"
                  => \E i \in DOMAIN call'[s].queue :
                        call'[s].queue[i] = <<c, l>>
<1>1. <<c, l>> \in Items
  BY ItemFacts
<1>2. ASSUME NEW s \in Calls
      PROVE  LET k == IF p \in call[s].reg THEN Insert(call[s], <<c, l>>)
                                          ELSE call[s]
             IN  /\ k \in CallStates /\ call'[s] = k
                 /\ SameButQueue(call[s], k)
                 /\ p \notin call[s].reg => k = call[s]
                 /\ Grows(call[s].queue, k.queue, <<c, l>>)
                 /\ p \in call[s].reg /\ ~call[s].closed
                    /\ call[s].sender # "ended"
                    => \E i \in DOMAIN k.queue : k.queue[i] = <<c, l>>
  <2>1. call[s] \in CallStates
    BY DEF Typed
  <2>2. CASE p \notin call[s].reg
    BY <2>1, <2>2 DEF Tell, SameButQueue, Grows
  <2>3. CASE p \in call[s].reg
    <3> DEFINE x == <<c, l>>
               k == Insert(call[s], x)
    <3>1. call'[s] = k
      BY <2>3 DEF Tell
    <3> HIDE DEF x
    <3>2. x \in Items
      BY <1>1 DEF x
    <3>3. /\ k \in CallStates /\ SameButQueue(call[s], k)
          /\ \/ k = call[s]
             \/ /\ k.queue = Append(call[s].queue, x)
                /\ \A i \in DOMAIN call[s].queue : call[s].queue[i] # x
          /\ (~call[s].closed /\ call[s].sender # "ended") =>
               \E i \in DOMAIN k.queue : k.queue[i] = x
      BY <2>1, <3>2, InsertFacts
    <3> HIDE DEF k
    <3>4. Grows(call[s].queue, k.queue, x)
      BY <3>3 DEF Grows
    <3> QED BY <2>3, <3>1, <3>3, <3>4 DEF x, k
  <2> QED BY <2>2, <2>3
<1>3. call' \in [Calls -> CallStates]
  <2>1. \A s \in Calls : call'[s] \in CallStates
    BY <1>2
  <2>2. call' = [s \in Calls |-> call'[s]]
    BY DEF Tell
  <2> QED BY <2>1, <2>2
<1> QED BY <1>2, <1>3

----------------------------------------------------------------------------
(* Types and spots, whoever Sets *)

Used(c) == c.pc = "register" \/ c.sender = "run" \/ c.pc = "returned"

InUse == {s \in Calls : Used(call[s])}

LEMMA Accounting ==
    /\ SpotsAccounted <=> spots + Cardinality(InUse) = MaxSpots
    /\ IsFiniteSet(InUse) /\ Cardinality(InUse) \in Nat
<1>1. InUse = {s \in Calls : HoldsSpot(s) \/ call[s].pc = "returned"}
  BY DEF InUse, Used, HoldsSpot
<1>2. IsFiniteSet(InUse)
  BY FS_Subset DEF InUse
<1> QED BY <1>1, <1>2, FS_CardinalityType DEF SpotsAccounted

(* One call moves: the account closes if the spots change by what it takes *)
(* or gives back.                                                          *)
LEMMA SpotStep ==
  ASSUME Typed, SpotsAccounted, NEW s \in Calls, NEW d \in CallStates,
         call' = [call EXCEPT ![s] = d],
         \/ spots' = spots /\ (Used(call[s]) <=> Used(d))
         \/ spots' = spots - 1 /\ ~Used(call[s]) /\ Used(d)
         \/ spots' = spots + 1 /\ Used(call[s]) /\ ~Used(d)
  PROVE  SpotsAccounted'
<1>1. spots \in Nat /\ IsFiniteSet(InUse) /\ Cardinality(InUse) \in Nat
      /\ spots + Cardinality(InUse) = MaxSpots
  BY Accounting DEF Typed
<1>2. call'[s] = d /\ \A r \in Calls \ {s} : call'[r] = call[r]
  BY DEF Typed
<1>3. SpotsAccounted' <=> spots' + Cardinality(InUse') = MaxSpots
  <2>1. InUse' = {r \in Calls : HoldsSpot(r)' \/ call'[r].pc = "returned"}
    BY DEF InUse, Used, HoldsSpot
  <2> QED BY <2>1 DEF SpotsAccounted
<1>4. CASE spots' = spots /\ (Used(call[s]) <=> Used(d))
  <2>1. InUse' = InUse
    BY <1>2, <1>4 DEF InUse, Used
  <2> QED BY <1>1, <1>3, <1>4, <2>1
<1>5. CASE spots' = spots - 1 /\ ~Used(call[s]) /\ Used(d)
  <2>1. InUse' = InUse \cup {s} /\ s \notin InUse
    BY <1>2, <1>5 DEF InUse, Used
  <2>2. Cardinality(InUse') = Cardinality(InUse) + 1
    BY <1>1, <2>1, FS_AddElement
  <2> QED BY <1>1, <1>3, <1>5, <2>2
<1>6. CASE spots' = spots + 1 /\ Used(call[s]) /\ ~Used(d)
  <2>1. InUse' = InUse \ {s} /\ s \in InUse
    BY <1>2, <1>6 DEF InUse, Used
  <2>2. Cardinality(InUse') = Cardinality(InUse) - 1
    BY <1>1, <2>1, FS_RemoveElement
  <2> QED BY <1>1, <1>3, <1>6, <2>2
<1> QED BY <1>4, <1>5, <1>6

LEMMA CallMoves ==
  ASSUME TInv, NEW s \in Calls, NEW d \in CallStates,
         call' = [call EXCEPT ![s] = d], Staged(d),
         \/ spots' = spots /\ (Used(call[s]) <=> Used(d))
         \/ spots # 0 /\ spots' = spots - 1 /\ ~Used(call[s]) /\ Used(d)
         \/ spots' = spots + 1 /\ Used(call[s]) /\ ~Used(d),
         UNCHANGED cacheVars,
         last' \in [Calls -> [Paths -> [ver : 0 .. MaxSets, del : BOOLEAN]]]
  PROVE  TInv'
<1>1. call' \in [Calls -> CallStates] /\ spots' \in Nat
  BY DEF TInv, Typed
<1>2. Typed' /\ SettersBusy'
  BY <1>1 DEF TInv, Typed, SettersBusy, cacheVars
<1>3. SpotsAccounted'
  BY SpotStep DEF TInv
<1>4. \A r \in Calls : Staged(call[r])'
  BY DEF TInv, Typed, Staged
<1> QED BY <1>2, <1>3, <1>4 DEF TInv

LEMMA InitTInv == Init => TInv
<1> SUFFICES ASSUME Init PROVE TInv
  OBVIOUS
<1>1. Typed
  BY StartTyped DEF Init, Typed, Caches
<1>2. SettersBusy
  BY DEF Init, SettersBusy, Resting
<1>3. \A s \in Calls : Staged(call[s]) /\ ~Used(call[s])
  BY DEF Init, Staged, NotMade, Used
<1>4. InUse = {} /\ spots = MaxSpots
  BY <1>3 DEF InUse, Init
<1>5. SpotsAccounted
  <2>1. Cardinality(InUse) = 0
    BY <1>4, FS_EmptySet
  <2> QED BY <1>4, <2>1, Accounting
<1> QED BY <1>1, <1>2, <1>3, <1>5 DEF TInv

LEMMA CallTInv ==
  ASSUME TInv, NEW s \in Calls,
         \/ Begin(s) \/ ClientLeaves(s) \/ QueryFails(s)
         \/ CallStep(s) \/ HandlerStep(s) \/ SenderStep(s)
  PROVE  TInv'
<1>0. Typed /\ call[s] \in CallStates /\ Staged(call[s])
      /\ last \in [Calls -> [Paths -> [ver : 0 .. MaxSets, del : BOOLEAN]]]
  BY DEF TInv, Typed
<1>1. CASE Begin(s)
  <2>1. Asks \in [Calls -> SUBSET Modes]
    OBVIOUS
  <2>2. call[s].pc = "new" /\ UNCHANGED <<cacheVars, last>>
        /\ ~Used(call[s])
    BY <1>0, <1>1, <2>1, BeginFacts DEF Staged, Used
  <2> PICK d \in CallStates :
        /\ call' = [call EXCEPT ![s] = d]
        /\ \/ /\ d = [call[s] EXCEPT !.pc = "refused"]
              /\ d.pc = "refused" /\ d.sender = call[s].sender
              /\ spots' = spots
           \/ /\ spots # 0 /\ spots' = spots - 1
              /\ \E mode \in Modes : d = Dispatched(mode)
    BY <1>0, <1>1, <2>1, BeginFacts
  <2>3. CASE d.pc = "refused" /\ d.sender = call[s].sender /\ spots' = spots
    <3>1. Staged(d) /\ ~Used(d)
      BY <1>0, <2>2, <2>3 DEF Staged, Used
    <3> QED BY <1>0, <2>2, <2>3, <3>1, CallMoves
  <2>4. CASE /\ spots # 0 /\ spots' = spots - 1
             /\ \E mode \in Modes : d = Dispatched(mode)
    <3>1. Staged(d) /\ Used(d)
      BY <1>0, <2>4, DispatchedFacts DEF Staged, Used, Fresh
    <3> QED BY <1>0, <2>2, <2>4, <3>1, CallMoves
  <2> QED BY <2>3, <2>4
<1>2. ASSUME NEW d \in CallStates, call' = [call EXCEPT ![s] = d],
             UNCHANGED <<cacheVars, spots>>,
             last' \in [Calls -> [Paths ->
                          [ver : 0 .. MaxSets, del : BOOLEAN]]],
             d.pc = call[s].pc /\ d.sender = call[s].sender
      PROVE  TInv'
  <2>1. Staged(d) /\ (Used(call[s]) <=> Used(d))
    BY <1>0, <1>2 DEF Staged, Used
  <2> QED BY <1>2, <2>1, CallMoves
<1>3. CASE ClientLeaves(s) \/ CloseOnce(s) \/ QueryFails(s)
  BY <1>0, <1>2, <1>3, FlagFacts
<1>4. CASE Register(s)
  <2> PICK p \in Paths \ call[s].reg :
        LET d == [call[s] EXCEPT !.reg = @ \cup {p}] IN
        d \in CallStates /\ call' = [call EXCEPT ![s] = d]
    BY <1>0, <1>4, RegisterFacts
  <2> DEFINE d == [call[s] EXCEPT !.reg = @ \cup {p}]
  <2>1. d.pc = call[s].pc /\ d.sender = call[s].sender
    BY <1>0 DEF CallStates
  <2>2. d \in CallStates /\ call' = [call EXCEPT ![s] = d]
    OBVIOUS
  <2> HIDE DEF d
  <2> QED BY <1>0, <1>2, <1>4, <2>1, <2>2, RegisterFacts
<1>5. CASE Launch(s)
  <2> PICK d \in CallStates : /\ call' = [call EXCEPT ![s] = d]
                              /\ d.pc = "wait" /\ d.sender = "run"
    BY <1>0, <1>5, LaunchFacts
  <2>1. Staged(d) /\ Used(d) /\ Used(call[s])
        /\ UNCHANGED <<cacheVars, spots, last>>
    BY <1>0, <1>5, LaunchFacts DEF Staged, Used
  <2> QED BY <1>0, <2>1, CallMoves
<1>6. CASE Query(s)
  <2> PICK d \in CallStates :
        /\ call' = [call EXCEPT ![s] = d]
        /\ d.pc = call[s].pc /\ d.sender = call[s].sender
    BY <1>0, <1>6, QueryFacts
  <2> QED BY <1>0, <1>2, <1>6, QueryFacts
<1>7. CASE QueryDone(s)
  BY <1>0, <1>2, <1>7, QueryDoneFacts
<1>8. CASE Send(s)
  <2> DEFINE x == call[s].queue[1]
  <2>1. last' \in [Calls -> [Paths -> [ver : 0 .. MaxSets, del : BOOLEAN]]]
    <3>1. x \in Items
      BY <1>0, <1>8, SendFacts
    <3>2. CASE IsState(x)
      <4>1. x[2] \in Sets
        BY <3>1, <3>2, ItemFacts
      <4>2. leaf[x[2]] \in [path : Paths, ver : 0 .. MaxSets, del : BOOLEAN]
        BY <1>0, <4>1 DEF Typed
      <4>3. last' = [last EXCEPT ![s][PathOf(x)] =
                            [ver |-> VerOf(x), del |-> leaf[x[2]].del]]
        BY <1>0, <1>8, <3>2, SendFacts
      <4> QED BY <1>0, <4>2, <4>3 DEF PathOf, VerOf
    <3>3. CASE ~IsState(x)
      BY <1>0, <1>8, <3>3, SendFacts
    <3> QED BY <3>2, <3>3
  <2> QED BY <1>0, <1>2, <1>8, <2>1, SendFacts
<1>9. CASE SendFails(s) \/ SenderEnds(s)
  <2> PICK d \in CallStates : /\ call' = [call EXCEPT ![s] = d]
                              /\ d.sender = "ended" /\ d.pc = call[s].pc
    BY <1>0, <1>9, EndFacts
  <2>1. call[s].sender = "run" /\ UNCHANGED cacheVars /\ spots' = spots + 1
        /\ last' = [last EXCEPT ![s] = [p \in Paths |-> NotSent]]
    BY <1>0, <1>9, EndFacts
  <2>2. Staged(d) /\ Used(call[s]) /\ ~Used(d)
    BY <1>0, <2>1 DEF Staged, Used
  <2>3. last' \in [Calls -> [Paths -> [ver : 0 .. MaxSets, del : BOOLEAN]]]
    BY <1>0, <2>1, StartTyped
  <2> QED BY <2>1, <2>2, <2>3, CallMoves
<1> QED
  BY <1>1, <1>3, <1>4, <1>5, <1>6, <1>7, <1>8, <1>9
  DEF CallStep, HandlerStep, SenderStep

(* Telling the match leaves the spots and the senders alone.               *)
LEMMA TellKeeps ==
  ASSUME TInv, NEW c \in Caches, NEW p \in Paths, NEW l \in Sets,
         Tell(c, p, l), spots' = spots
  PROVE  /\ call' \in [Calls -> CallStates] /\ SpotsAccounted'
         /\ \A s \in Calls : Staged(call[s])'
<1>1. /\ call' \in [Calls -> CallStates]
      /\ \A s \in Calls : SameButQueue(call[s], call'[s])
  BY TellFacts DEF TInv
<1>2. \A s \in Calls :
        /\ call'[s].pc = call[s].pc /\ call'[s].sender = call[s].sender
  BY <1>1 DEF SameButQueue
<1>3. {s \in Calls : HoldsSpot(s) \/ call[s].pc = "returned"}
      = {s \in Calls : HoldsSpot(s)' \/ call'[s].pc = "returned"}
  BY <1>2 DEF HoldsSpot
<1>4. SpotsAccounted'
  BY <1>3 DEF TInv, SpotsAccounted
<1>5. \A s \in Calls : Staged(call[s])'
  BY <1>2 DEF TInv, Staged
<1> QED BY <1>1, <1>4, <1>5

SetStates == [pc : {"rest", "state", "tellState"},
              n : 0 .. MaxSets, path : Paths, del : BOOLEAN]

LEMMA SetterTells ==
  ASSUME NEW a \in SetStates, NEW l \in Sets
  PROVE  [a EXCEPT !.pc = "tellState", !.n = l]
         = [pc |-> "tellState", n |-> l, path |-> a.path, del |-> a.del]
<1> DEFINE r == [a EXCEPT !.pc = "tellState", !.n = l]
<1>0. l \in 0 .. MaxSets
  BY DEF Sets
<1>1. /\ r \in SetStates
      /\ r.pc = "tellState" /\ r.n = l /\ r.path = a.path /\ r.del = a.del
  BY <1>0 DEF SetStates
<1> HIDE DEF r
<1>2. r = [pc |-> r.pc, n |-> r.n, path |-> r.path, del |-> r.del]
  BY <1>1 DEF SetStates
<1>3. r = [pc |-> "tellState", n |-> l, path |-> a.path, del |-> a.del]
  BY <1>1, <1>2
<1> QED BY <1>3 DEF r

(* What a Set does: to the config cache ...                                *)
LEMMA WriteConfigFacts ==
  ASSUME TInv, NEW w \in Setters, WriteConfig(w)
  PROVE  /\ set[w].pc = "rest" /\ sets' = sets + 1 /\ sets' \in Sets
         /\ UNCHANGED <<leaf, spots, last>>
         /\ \E p \in Paths, del \in BOOLEAN, l \in Sets :
               /\ Tell("config", p, l)
               /\ tree' = [tree EXCEPT !["config"][p] = IF del THEN 0 ELSE l]
               /\ set' = [set EXCEPT ![w] = [pc |-> "state", n |-> sets',
                                            path |-> p, del |-> del]]
<1>1. /\ set[w].pc = "rest" /\ sets' = sets + 1 /\ sets' \in Sets
      /\ UNCHANGED <<leaf, spots, last>>
  BY DEF WriteConfig, TInv, Typed, Sets
<1> PICK p \in Paths, del \in BOOLEAN :
         LET l == IF del THEN sets' ELSE Written("config", p, sets') IN
         /\ tree' = [tree EXCEPT !["config"][p] = IF del THEN 0 ELSE l]
         /\ Tell("config", p, l)
         /\ set' = [set EXCEPT ![w] = [pc |-> "state", n |-> sets',
                                       path |-> p, del |-> del]]
  BY DEF WriteConfig
<1>2. (IF del THEN sets' ELSE Written("config", p, sets')) \in Sets
  <2>1. tree["config"][p] \in 0 .. MaxSets
    BY DEF TInv, Typed, Caches
  <2> QED BY <1>1, <2>1 DEF Written, Sets
<1> QED BY <1>1, <1>2

(* ... to the state cache ...                                              *)
LEMMA WriteStateFacts ==
  ASSUME TInv, NEW w \in Setters, WriteState(w)
  PROVE  LET n == set[w].n
             p == set[w].path
             del == set[w].del
         IN
         /\ set[w].pc = "state" /\ n \in Sets /\ p \in Paths
         /\ del \in BOOLEAN /\ UNCHANGED <<sets, spots, call, last>>
         /\ \/ /\ set' = [set EXCEPT ![w] = Resting]
               /\ UNCHANGED <<tree, leaf>>
            \/ \E l \in Sets :
                 /\ tree["state"][p] # 0 => l \in {n, tree["state"][p]}
                 /\ tree["state"][p] = 0 => l = n /\ ~del
                 /\ del => l = n
                 /\ ~del /\ tree["state"][p] # 0 => l = tree["state"][p]
                 /\ tree' = [tree EXCEPT !["state"][p] =
                                          IF del THEN 0 ELSE l]
                 /\ leaf' = [leaf EXCEPT ![l] =
                               [path |-> p, ver |-> n, del |-> del]]
                 /\ set' = [set EXCEPT ![w] =
                       [pc |-> "tellState", n |-> l, path |-> p, del |-> del]]
<1> DEFINE n == set[w].n
           p == set[w].path
           del == set[w].del
           l == IF del THEN n ELSE Written("state", p, n)
<1>1. /\ set[w].pc = "state" /\ n \in Sets /\ p \in Paths
      /\ del \in BOOLEAN /\ UNCHANGED <<sets, spots, call, last>>
      /\ set[w] \in SetStates /\ set \in [Setters -> SetStates]
  BY DEF WriteState, TInv, Typed, SettersBusy, SetStates
<1>2. tree["state"][p] \in 0 .. MaxSets
  BY <1>1 DEF TInv, Typed, Caches
<1>3. CASE del /\ tree["state"][p] = 0
  BY <1>1, <1>3 DEF WriteState
<1>4. CASE ~(del /\ tree["state"][p] = 0)
  <2>1. l \in Sets
    BY <1>1, <1>2 DEF Written, Sets
  <2>2. /\ tree["state"][p] # 0 => l \in {n, tree["state"][p]}
        /\ tree["state"][p] = 0 => l = n /\ ~del
        /\ del => l = n
        /\ ~del /\ tree["state"][p] # 0 => l = tree["state"][p]
    BY <1>4 DEF Written
  <2>3. /\ tree' = [tree EXCEPT !["state"][p] = IF del THEN 0 ELSE l]
        /\ leaf' = [leaf EXCEPT ![l] =
                      [path |-> p, ver |-> n, del |-> del]]
    BY <1>4 DEF WriteState
  <2>4. set' = [set EXCEPT ![w].pc = "tellState", ![w].n = l]
    BY <1>4 DEF WriteState
  <2>5. set' = [set EXCEPT ![w] =
              [pc |-> "tellState", n |-> l, path |-> p, del |-> del]]
    <3> HIDE DEF l
    <3> DEFINE r == [set[w] EXCEPT !.pc = "tellState", !.n = l]
    <3>1. set' = [set EXCEPT ![w] = r]
      BY <1>1, <2>4 DEF SetStates
    <3>2. r = [pc |-> "tellState", n |-> l, path |-> p, del |-> del]
      BY <1>1, <2>1, SetterTells
    <3> QED BY <3>1, <3>2
  <2> HIDE DEF l
  <2> QED BY <1>1, <2>1, <2>2, <2>3, <2>5
<1> QED BY <1>3, <1>4

(* ... and to the match.                                                   *)
LEMMA TellStateFacts ==
  ASSUME TInv, NEW w \in Setters, TellState(w)
  PROVE  /\ set[w].pc = "tellState" /\ set[w].n \in Sets
         /\ set[w].path \in Paths
         /\ Tell("state", set[w].path, set[w].n)
         /\ set' = [set EXCEPT ![w] = Resting]
         /\ UNCHANGED <<tree, leaf, sets, spots, last>>
BY DEF TellState, TInv, Typed, SettersBusy

LEMMA SetterTInv ==
  ASSUME TInv, NEW w \in Setters, WriteConfig(w) \/ SetFails(w) \/ SetStep(w)
  PROVE  TInv'
<1>0. Typed /\ SettersBusy
      /\ set \in [Setters -> SetStates] /\ Resting \in SetStates
  BY StartTyped DEF TInv, Typed, SetStates
<1>1. CASE WriteConfig(w)
  <2> PICK p \in Paths, del \in BOOLEAN, l \in Sets :
        /\ Tell("config", p, l)
        /\ tree' = [tree EXCEPT !["config"][p] = IF del THEN 0 ELSE l]
        /\ set' = [set EXCEPT ![w] = [pc |-> "state", n |-> sets',
                                     path |-> p, del |-> del]]
    BY <1>1, WriteConfigFacts
  <2>1. sets' \in Sets /\ UNCHANGED <<leaf, spots, last>>
    BY <1>1, WriteConfigFacts
  <2>2. call' \in [Calls -> CallStates] /\ SpotsAccounted'
        /\ \A s \in Calls : Staged(call[s])'
    BY <2>1, TellKeeps DEF Caches
  <2>3. [pc |-> "state", n |-> sets', path |-> p, del |-> del] \in SetStates
    BY <2>1 DEF SetStates, Sets
  <2>4. set' \in [Setters -> SetStates] /\ SettersBusy'
    BY <1>0, <2>1, <2>3 DEF SettersBusy
  <2>5. tree' \in [Caches -> [Paths -> 0 .. MaxSets]]
    <3>1. (IF del THEN 0 ELSE l) \in 0 .. MaxSets
      BY DEF Sets
    <3> QED BY <1>0, <3>1 DEF Typed
  <2>6. Typed'
    BY <1>0, <2>1, <2>2, <2>4, <2>5 DEF Typed, SetStates, Sets
  <2> QED BY <2>2, <2>4, <2>6 DEF TInv
<1>2. CASE SetFails(w)
  <2>1. set' = [set EXCEPT ![w] = Resting]
        /\ UNCHANGED <<tree, leaf, sets, spots, call, last>>
    BY <1>2 DEF SetFails
  <2>2. set' \in [Setters -> SetStates] /\ SettersBusy'
    BY <1>0, <2>1 DEF SettersBusy, Resting
  <2>3. Typed'
    BY <1>0, <2>1, <2>2 DEF Typed, SetStates
  <2> QED
    BY <2>1, <2>2, <2>3 DEF TInv, SpotsAccounted, HoldsSpot, Staged
<1>3. CASE WriteState(w)
  <2> DEFINE n == set[w].n
             p == set[w].path
             del == set[w].del
  <2>1. n \in Sets /\ p \in Paths /\ del \in BOOLEAN
        /\ UNCHANGED <<sets, spots, call, last>>
    BY <1>3, WriteStateFacts
  <2>2. SpotsAccounted' /\ \A s \in Calls : Staged(call[s])'
    BY <2>1 DEF TInv, SpotsAccounted, HoldsSpot, Staged
  <2>3. CASE set' = [set EXCEPT ![w] = Resting] /\ UNCHANGED <<tree, leaf>>
    <3>1. set' \in [Setters -> SetStates] /\ SettersBusy'
      BY <1>0, <2>3 DEF SettersBusy, Resting
    <3>2. Typed'
      BY <1>0, <2>1, <2>3, <3>1 DEF Typed, SetStates
    <3> QED BY <2>2, <3>1, <3>2 DEF TInv
  <2>4. ASSUME NEW l \in Sets,
               tree' = [tree EXCEPT !["state"][p] = IF del THEN 0 ELSE l],
               leaf' = [leaf EXCEPT ![l] =
                          [path |-> p, ver |-> n, del |-> del]],
               set' = [set EXCEPT ![w] = [pc |-> "tellState", n |-> l,
                                          path |-> p, del |-> del]]
        PROVE  TInv'
    <3>1. [pc |-> "tellState", n |-> l, path |-> p, del |-> del]
            \in SetStates
      BY <2>1 DEF SetStates, Sets
    <3>2. set' \in [Setters -> SetStates] /\ SettersBusy'
      BY <1>0, <2>4, <3>1 DEF SettersBusy
    <3>3. tree' \in [Caches -> [Paths -> 0 .. MaxSets]]
      <4>1. (IF del THEN 0 ELSE l) \in 0 .. MaxSets
        BY DEF Sets
      <4> QED BY <1>0, <2>4, <4>1 DEF Typed
    <3>4. leaf' \in [Sets -> [path : Paths, ver : 0 .. MaxSets,
                              del : BOOLEAN]]
      <4>1. n \in 0 .. MaxSets
        BY <2>1 DEF Sets
      <4> QED BY <1>0, <2>1, <2>4, <4>1 DEF Typed
    <3>5. Typed'
      BY <1>0, <2>1, <3>2, <3>3, <3>4 DEF Typed, SetStates
    <3> QED BY <2>2, <3>2, <3>5 DEF TInv
  <2> QED BY <1>3, <2>3, <2>4, WriteStateFacts
<1>4. CASE TellState(w)
  <2>1. /\ set[w].n \in Sets /\ set[w].path \in Paths
        /\ Tell("state", set[w].path, set[w].n)
        /\ set' = [set EXCEPT ![w] = Resting]
        /\ UNCHANGED <<tree, leaf, sets, spots, last>>
    BY <1>4, TellStateFacts
  <2>2. call' \in [Calls -> CallStates] /\ SpotsAccounted'
        /\ \A s \in Calls : Staged(call[s])'
    BY <2>1, TellKeeps DEF Caches
  <2>3. set' \in [Setters -> SetStates] /\ SettersBusy'
    BY <1>0, <2>1 DEF SettersBusy, Resting
  <2>4. Typed'
    BY <1>0, <2>1, <2>2, <2>3 DEF Typed, SetStates
  <2> QED BY <2>2, <2>3, <2>4 DEF TInv
<1> QED BY <1>1, <1>2, <1>3, <1>4 DEF SetStep

LEMMA StutterTInv == ASSUME TInv, UNCHANGED vars PROVE TInv'
BY DEF vars, cacheVars, TInv, Typed, SettersBusy, SpotsAccounted, HoldsSpot,
       Staged

LEMMA TypesAndSpots == Spec => []TInv
<1>1. TInv /\ [Next]_vars => TInv'
  BY StutterTInv, CallTInv, SetterTInv DEF Next
<1> QED BY <1>1, InitTInv, PTL DEF Spec

(* A spot is left, in use by a call with a live sender, or lost to a call  *)
(* of an unrecognised mode, however many Sets and calls run at a time and  *)
(* whatever fails (subscribe.go:73, 100, 191).                             *)
THEOREM SpotsAccountedHolds == Spec => []SpotsAccounted
BY TypesAndSpots, PTL DEF TInv

(* Every variable keeps its type: in particular a queue holds leaves and   *)
(* markers only, and there are never more spots than at the start          *)
(* (subscribe.go:120-130, 191).                                            *)
THEOREM TypeCorrect == Spec => []TypeOK
<1>1. TInv => spots \in 0 .. MaxSpots
  BY Accounting DEF TInv, Typed
<1>2. ASSUME TInv, NEW s \in Calls
      PROVE  /\ call[s].pc \in {"new", "refused", "returned", "register",
                                 "wait"}
             /\ call[s].mode \in Modes
             /\ call[s].reg \subseteq Paths /\ call[s].todo \subseteq Paths
             /\ call[s].handler \in {"none", "close", "query", "done",
                                      "failed"}
             /\ call[s].sender \in {"none", "run", "ended"}
             /\ \A i \in DOMAIN call[s].queue : call[s].queue[i] \in Items
             /\ {call[s].closed, call[s].gone, call[s].synced}
                  \subseteq BOOLEAN
             /\ call[s].snap \in [Paths -> 0 .. MaxSets]
  <2>1. call[s] \in CallStates
    BY <1>2 DEF TInv, Typed
  <2>2. \A i \in DOMAIN call[s].queue : call[s].queue[i] \in Items
    BY <2>1 DEF CallStates
  <2> QED BY <2>1, <2>2 DEF CallStates
<1>3. TInv => TypeOK
  BY <1>1, <1>2 DEF TInv, Typed, TypeOK
<1> QED BY <1>3, TypesAndSpots, PTL

====
