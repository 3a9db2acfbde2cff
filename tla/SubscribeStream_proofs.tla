----------------------- MODULE SubscribeStream_proofs -----------------------
(***************************************************************************)
(* Proofs about Subscribe where Sets come one at a time: what a client is  *)
(* sent, and when.                                                         *)
(***************************************************************************)
EXTENDS Subscribe_proofs

USE ConstantsAssumption

(* One goroutine serves the Sets.                                          *)
OneAtATime == \A v, w \in Setters : v = w

(* The leaf of the state cache that was written last for a path.           *)
Newest(l, p) ==
    /\ l \in Sets /\ leaf[l].ver # 0 /\ leaf[l].path = p
    /\ \A m \in Sets : leaf[m].path = p => leaf[m].ver <= leaf[l].ver

(* No two leaves were written last by one Set, and a leaf is named after   *)
(* the Set that made it.                                                   *)
Numbered ==
    /\ \A l \in Sets : leaf[l].ver # 0 =>
          l <= leaf[l].ver /\ leaf[l].ver <= sets
    /\ \A l, m \in Sets : leaf[l].ver # 0 /\ leaf[l].ver = leaf[m].ver
                            => l = m

(* What the tree holds was written last for its path; if it holds nothing, *)
(* that was a deletion.                                                    *)
TreeIsNewest ==
    /\ \A p \in Paths : tree["state"][p] # 0 =>
          Newest(tree["state"][p], p) /\ ~leaf[tree["state"][p]].del
    /\ \A p \in Paths, l \in Sets :
          Newest(l, p) /\ tree["state"][p] = 0 => leaf[l].del

(* A Set that has still to write the state cache is the latest, and so is  *)
(* one that has still to tell of it.                                       *)
SetsInOrder ==
    \A w \in Setters :
        /\ set[w].pc = "state" =>
              set[w].n = sets /\ \A l \in Sets : leaf[l].ver < sets
        /\ set[w].pc = "tellState" => Newest(set[w].n, set[w].path)

CacheInv == Numbered /\ TreeIsNewest /\ SetsInOrder

(* The leaves of a path are queued in the order of their versions, none of *)
(* which is older than what was sent.                                      *)
Ordered(q, sent) ==
    /\ \A i \in DOMAIN q : IsState(q[i]) =>
          VerOf(q[i]) # 0 /\ sent[PathOf(q[i])].ver <= VerOf(q[i])
    /\ \A i, j \in DOMAIN q :
          /\ i < j /\ IsState(q[i]) /\ IsState(q[j])
          /\ PathOf(q[i]) = PathOf(q[j])
          => VerOf(q[i]) < VerOf(q[j])

(* What was sent was written.                                              *)
SentWritten(sent) ==
    \A p \in Paths : /\ sent[p].ver <= sets
                     /\ \A l \in Sets : Newest(l, p) =>
                           sent[p].ver <= leaf[l].ver

OInv == /\ CacheInv
        /\ \A s \in Calls : /\ Ordered(call[s].queue, last[s])
                            /\ SentWritten(last[s])

----------------------------------------------------------------------------
(* A STREAM *)

NotQueried(c, p) == c.pc = "register" \/ p \in c.todo

Queued(q, x) == \E i \in DOMAIN q : q[i] = x

QueuedBeforeSync(q, x) ==
    \E i \in DOMAIN q : /\ q[i] = x
                         /\ \A j \in DOMAIN q : q[j] = Sync => i < j

(* Nothing is queued for a path.                                           *)
NoneQueued(q, p) == \A i \in DOMAIN q : ~(IsState(q[i]) /\ PathOf(q[i]) = p)

(* How far a call is.                                                      *)
Progress(c, sent) ==
    /\ c.pc = "new" => c = NotMade
    /\ c.sender = "none" => \A p \in Paths : sent[p] = NotSent
    /\ c.sender = "ended" => \A p \in Paths : c.snap[p] = 0
    /\ c.mode = "STREAM" =>
          /\ c.pc = "register" => c.handler = "none" /\ c.sender = "none"
          /\ c.pc = "wait" => c.reg = Paths /\ c.handler # "none"
          /\ c.handler # "close"
          /\ c.handler = "done" => c.todo = {}
          /\ c.closed => c.handler = "failed"
          /\ c.synced \/ Queued(c.queue, Sync) =>
                c.handler = "done" \/ c.sender = "ended"

(* A leaf that was there when the call began and still is will be queried, *)
(* is queued before the marker, or was sent.                               *)
Covered(c, sent, p) ==
    \/ NotQueried(c, p)
    \/ sent[p].ver >= c.snap[p]
    \/ ~c.synced /\ QueuedBeforeSync(c.queue, <<"state", c.snap[p]>>)

Complete(c, sent) ==
    c.mode = "STREAM" =>
    \A p \in Paths : c.snap[p] # 0 =>
        /\ c.snap[p] \in Sets /\ leaf[c.snap[p]].ver # 0
        /\ tree["state"][p] = c.snap[p] => Covered(c, sent, p)

(* The leaf that was written last for a path is queued; or it was sent; or *)
(* the client has not been told of any and there is none, unless the path  *)
(* has still to be queried.                                                *)
UpToDate(c, sent, p) ==
    \/ \E l \in Sets : Newest(l, p) /\ Queued(c.queue, <<"state", l>>)
    \/ /\ NoneQueued(c.queue, p)
       /\ \E l \in Sets : /\ Newest(l, p)
                           /\ sent[p].ver = leaf[l].ver
                           /\ sent[p].del = leaf[l].del
    \/ /\ NoneQueued(c.queue, p) /\ sent[p].del
       /\ tree["state"][p] = 0 \/ NotQueried(c, p)

Pending(p) == \E w \in Setters : set[w].pc = "tellState" /\ set[w].path = p

Live(c) == /\ c.mode = "STREAM" /\ c.pc \in {"register", "wait"}
           /\ c.handler # "failed" /\ c.sender # "ended"

Informed(c, sent) ==
    Live(c) =>
    \A p \in Paths :
        /\ p \notin c.reg => NoneQueued(c.queue, p) /\ c.pc = "register"
        /\ p \in c.reg /\ ~Pending(p) => UpToDate(c, sent, p)

InStep(c, sent) == Progress(c, sent) /\ Complete(c, sent) /\ Informed(c, sent)

SInv == \A s \in Calls : InStep(call[s], last[s])

----------------------------------------------------------------------------
(* The state cache *)

LEMMA LeafTypes ==
  ASSUME Typed
  PROVE  /\ sets \in Nat
         /\ \A l \in Sets : leaf[l].ver \in Nat /\ l \in Nat \ {0}
         /\ \A p \in Paths : tree["state"][p] \in Sets \cup {0}
         /\ \A s \in Calls, p \in Paths : last[s][p].ver \in Nat
         /\ \A s \in Calls : call[s].queue \in Seq(Items)
         /\ \A s \in Calls : call[s].snap \in [Paths -> 0 .. MaxSets]
<1>1. \A l \in Sets : leaf[l].ver \in Nat /\ l \in Nat \ {0}
  BY DEF Typed, Sets
<1>2. \A p \in Paths : tree["state"][p] \in Sets \cup {0}
  BY DEF Typed, Caches, Sets
<1>3. \A s \in Calls, p \in Paths : last[s][p].ver \in Nat
  BY DEF Typed
<1>4. \A s \in Calls : /\ call[s].queue \in Seq(Items)
                       /\ call[s].snap \in [Paths -> 0 .. MaxSets]
  BY DEF Typed, CallStates
<1> QED BY <1>1, <1>2, <1>3, <1>4 DEF Typed

(* There is but one leaf that was written last for a path.                 *)
LEMMA NewestUnique ==
  ASSUME Typed, Numbered, NEW p, NEW l, NEW m, Newest(l, p), Newest(m, p)
  PROVE  l = m
<1>1. leaf[l].ver <= leaf[m].ver /\ leaf[m].ver <= leaf[l].ver
  BY DEF Newest
<1>2. leaf[l].ver = leaf[m].ver
  BY <1>1, LeafTypes DEF Newest
<1> QED BY <1>2 DEF Newest, Numbered

(* The write of a leaf l of path p by the latest Set n.                    *)
Writes(l, p, n, del) ==
    /\ l \in Sets /\ p \in Paths /\ n \in Sets /\ del \in BOOLEAN
    /\ n = sets /\ sets' = sets
    /\ \A m \in Sets : leaf[m].ver < sets
    /\ (l = n /\ leaf[n].ver = 0) \/ (l = tree["state"][p] /\ ~del)
    /\ tree["state"][p] # 0 /\ ~del => l = tree["state"][p]
    /\ tree' = [tree EXCEPT !["state"][p] = IF del THEN 0 ELSE l]
    /\ leaf' = [leaf EXCEPT ![l] = [path |-> p, ver |-> n, del |-> del]]

LEMMA WriteStateWrites ==
  ASSUME TInv, CacheInv, NEW w \in Setters, WriteState(w),
         tree' # tree \/ leaf' # leaf
  PROVE  \E l \in Sets, p \in Paths, n \in Sets, del \in BOOLEAN :
            /\ Writes(l, p, n, del)
            /\ set' = [set EXCEPT ![w] =
                         [pc |-> "tellState", n |-> l, path |-> p,
                          del |-> del]]
<1> DEFINE n == set[w].n
           p == set[w].path
           del == set[w].del
<1>1. /\ set[w].pc = "state" /\ n \in Sets /\ p \in Paths
      /\ del \in BOOLEAN /\ sets' = sets
  BY WriteStateFacts
<1> PICK l \in Sets :
      /\ tree["state"][p] # 0 => l \in {n, tree["state"][p]}
      /\ tree["state"][p] = 0 => l = n /\ ~del
      /\ del => l = n
      /\ ~del /\ tree["state"][p] # 0 => l = tree["state"][p]
      /\ tree' = [tree EXCEPT !["state"][p] = IF del THEN 0 ELSE l]
      /\ leaf' = [leaf EXCEPT ![l] = [path |-> p, ver |-> n, del |-> del]]
      /\ set' = [set EXCEPT ![w] =
                  [pc |-> "tellState", n |-> l, path |-> p, del |-> del]]
  BY WriteStateFacts
<1>2. n = sets /\ \A m \in Sets : leaf[m].ver < sets
  BY <1>1 DEF CacheInv, SetsInOrder
<1>3. leaf[n].ver = 0
  <2>1. leaf[n].ver # 0 => n <= leaf[n].ver
    BY <1>1 DEF CacheInv, Numbered
  <2>2. leaf[n].ver < n /\ leaf[n].ver \in Nat /\ n \in Nat
    BY <1>1, <1>2, LeafTypes DEF TInv
  <2> QED BY <2>1, <2>2
<1>4. Writes(l, p, n, del)
  <2>1. (l = n /\ leaf[n].ver = 0) \/ (l = tree["state"][p] /\ ~del)
    BY <1>1, <1>3
  <2> QED BY <1>1, <1>2, <2>1 DEF Writes
<1> QED BY <1>1, <1>4

(* The leaf that is written becomes the newest of its path, and nothing    *)
(* changes for the others.                                                 *)
LEMMA WritesNewest ==
  ASSUME Typed, CacheInv, NEW l, NEW p, NEW n, NEW del, Writes(l, p, n, del)
  PROVE  /\ leaf'[l] = [path |-> p, ver |-> n, del |-> del]
         /\ \A m \in Sets \ {l} : leaf'[m] = leaf[m] /\ leaf[m].ver < n
         /\ Newest(l, p)'
         /\ \A m : Newest(m, p)' => m = l
         /\ \A q \in Paths \ {p} : \A m : Newest(m, q)' <=> Newest(m, q)
         /\ \A q \in Paths \ {p} : tree'["state"][q] = tree["state"][q]
         /\ tree'["state"][p] = IF del THEN 0 ELSE l
         /\ leaf[l].ver # 0 => Newest(l, p)
<1>1. leaf'[l] = [path |-> p, ver |-> n, del |-> del]
      /\ \A m \in Sets \ {l} : leaf'[m] = leaf[m] /\ leaf[m].ver < n
  BY DEF Writes, Typed
<1>2. n \in Nat \ {0} /\ l \in Sets
      /\ \A m \in Sets : leaf[m].ver \in Nat
  BY LeafTypes DEF Writes
<1>3. Newest(l, p)'
  BY <1>1, <1>2 DEF Newest
<1>4. ASSUME NEW m, Newest(m, p)' PROVE m = l
  BY <1>1, <1>2, <1>4 DEF Newest
<1>5. leaf[l].ver # 0 => Newest(l, p)
  <2>1. leaf[l].ver # 0 => l = tree["state"][p] /\ l # 0
    BY <1>2, LeafTypes DEF Writes
  <2> QED BY <2>1 DEF CacheInv, TreeIsNewest, Writes
<1>6. ASSUME NEW q \in Paths \ {p}, NEW m
      PROVE  Newest(m, q)' <=> Newest(m, q)
  <2>1. leaf'[l].path # q
    BY <1>1
  <2>2. leaf[l].path = q => leaf[l].ver = 0
    BY <1>5 DEF Newest
  <2>3. Newest(m, q)' => Newest(m, q)
    BY <1>1, <1>2, <2>1, <2>2 DEF Newest
  <2>4. Newest(m, q) => Newest(m, q)'
    BY <1>1, <1>2, <2>1, <2>2 DEF Newest
  <2> QED BY <2>3, <2>4
<1>7. /\ \A q \in Paths \ {p} : tree'["state"][q] = tree["state"][q]
      /\ tree'["state"][p] = IF del THEN 0 ELSE l
  BY DEF Writes, Typed, Caches
<1> QED BY <1>1, <1>3, <1>4, <1>5, <1>6, <1>7

LEMMA NewestKept ==
  ASSUME leaf' = leaf
  PROVE  \A l, p : Newest(l, p)' <=> Newest(l, p)
BY DEF Newest

(* A Set keeps the state cache in order.                                   *)
LEMMA SetterCacheInv ==
  ASSUME TInv, CacheInv, OneAtATime, NEW w \in Setters,
         WriteConfig(w) \/ SetFails(w) \/ SetStep(w)
  PROVE  CacheInv'
<1>0. Typed /\ Setters = {w} /\ set \in [Setters -> SetStates]
  BY DEF TInv, Typed, SetStates, OneAtATime
<1>1. CASE WriteConfig(w)
  <2>1. sets' = sets + 1 /\ UNCHANGED leaf
    BY <1>0, <1>1, WriteConfigFacts
  <2> PICK p \in Paths, del \in BOOLEAN, l \in Sets :
        /\ tree' = [tree EXCEPT !["config"][p] = IF del THEN 0 ELSE l]
        /\ set' = [set EXCEPT ![w] = [pc |-> "state", n |-> sets',
                                     path |-> p, del |-> del]]
    BY <1>0, <1>1, WriteConfigFacts
  <2>2. tree'["state"] = tree["state"]
    BY <1>0 DEF Typed, Caches
  <2>3. \A m \in Sets : leaf[m].ver <= sets
    BY <1>0, LeafTypes DEF CacheInv, Numbered
  <2>4. Numbered'
    BY <1>0, <2>1, <2>3, LeafTypes DEF CacheInv, Numbered
  <2>5. TreeIsNewest'
    BY <2>1, <2>2, NewestKept DEF CacheInv, TreeIsNewest
  <2>6. set'[w].pc = "state" /\ set'[w].n = sets'
    BY <1>0
  <2>7. \A m \in Sets : leaf'[m].ver < sets'
    BY <1>0, <2>1, <2>3, LeafTypes
  <2>8. SetsInOrder'
    BY <1>0, <2>6, <2>7 DEF SetsInOrder
  <2> QED BY <2>4, <2>5, <2>8 DEF CacheInv
<1>2. CASE \/ SetFails(w) \/ TellState(w)
           \/ WriteState(w) /\ tree' = tree /\ leaf' = leaf
  <2>1. UNCHANGED <<tree, leaf, sets>>
    BY <1>2 DEF SetFails, TellState, WriteState
  <2>2. set' = [set EXCEPT ![w] = Resting]
        \/ (WriteState(w) /\ tree' = tree /\ leaf' = leaf)
    BY <1>2 DEF SetFails, TellState
  <2>3. set'[w].pc = "rest"
    <3>1. CASE set' = [set EXCEPT ![w] = Resting]
      BY <1>0, <3>1 DEF Resting
    <3>2. CASE WriteState(w) /\ tree' = tree /\ leaf' = leaf
      <4>1. /\ set[w].pc = "state" /\ set[w].n \in Sets
            /\ set[w].path \in Paths
        BY <1>0, <3>2, WriteStateFacts
      <4>2. ASSUME NEW l \in Sets,
                   leaf' = [leaf EXCEPT ![l] = [path |-> set[w].path,
                              ver |-> set[w].n, del |-> set[w].del]]
            PROVE  FALSE
        <5>1. leaf'[l].ver = set[w].n
          BY <1>0, <4>2 DEF Typed
        <5>2. leaf[l].ver < sets /\ set[w].n = sets
          BY <1>0, <4>1 DEF CacheInv, SetsInOrder
        <5> QED BY <1>0, <3>2, <5>1, <5>2, LeafTypes
      <4>3. set' = [set EXCEPT ![w] = Resting]
        BY <1>0, <3>2, <4>2, WriteStateFacts
      <4> QED BY <1>0, <4>3 DEF Resting
    <3> QED BY <2>2, <3>1, <3>2
  <2>4. Numbered' /\ TreeIsNewest'
    BY <2>1, NewestKept DEF CacheInv, Numbered, TreeIsNewest
  <2>5. SetsInOrder'
    BY <1>0, <2>3 DEF SetsInOrder
  <2> QED BY <2>4, <2>5 DEF CacheInv
<1>3. CASE WriteState(w) /\ (tree' # tree \/ leaf' # leaf)
  <2> PICK l \in Sets, p \in Paths, n \in Sets, del \in BOOLEAN :
        /\ Writes(l, p, n, del)
        /\ set' = [set EXCEPT ![w] =
              [pc |-> "tellState", n |-> l, path |-> p, del |-> del]]
    BY <1>0, <1>3, WriteStateWrites
  <2>0. /\ leaf'[l] = [path |-> p, ver |-> n, del |-> del]
        /\ \A m \in Sets \ {l} : leaf'[m] = leaf[m] /\ leaf[m].ver < n
        /\ Newest(l, p)'
        /\ \A m : Newest(m, p)' => m = l
        /\ \A q \in Paths \ {p} : \A m : Newest(m, q)' <=> Newest(m, q)
        /\ \A q \in Paths \ {p} : tree'["state"][q] = tree["state"][q]
        /\ tree'["state"][p] = IF del THEN 0 ELSE l
    BY <1>0, WritesNewest
  <2>1. n = sets /\ sets' = sets /\ p \in Paths /\ del \in BOOLEAN
        /\ l \in Nat \ {0} /\ n \in Nat \ {0}
    BY <1>0, LeafTypes DEF Writes
  <2>2. Numbered'
    <3>1. l <= n
      <4>1. CASE l = n
        BY <2>1, <4>1
      <4>2. CASE l # n
        <5>1. l = tree["state"][p] /\ l # 0
          BY <2>1, <4>2 DEF Writes
        <5>2. leaf[l].ver # 0
          BY <2>1, <5>1 DEF CacheInv, TreeIsNewest, Newest
        <5>3. l <= leaf[l].ver /\ leaf[l].ver <= sets
          BY <5>2 DEF CacheInv, Numbered
        <5> QED BY <1>0, <2>1, <5>3, LeafTypes
      <4> QED BY <4>1, <4>2
    <3>2. ASSUME NEW m \in Sets, leaf'[m].ver # 0
          PROVE  m <= leaf'[m].ver /\ leaf'[m].ver <= sets'
      <4>1. CASE m = l
        BY <2>0, <2>1, <3>1, <4>1
      <4>2. CASE m # l
        BY <2>0, <2>1, <3>2, <4>2 DEF CacheInv, Numbered
      <4> QED BY <4>1, <4>2
    <3>3. ASSUME NEW m \in Sets, NEW k \in Sets, leaf'[m].ver # 0,
                 leaf'[m].ver = leaf'[k].ver
          PROVE  m = k
      <4>1. CASE m # l /\ k # l
        BY <2>0, <3>3, <4>1 DEF CacheInv, Numbered
      <4>2. CASE m = l /\ k # l
        BY <1>0, <2>0, <2>1, <3>3, <4>2, LeafTypes
      <4>3. CASE m # l /\ k = l
        BY <1>0, <2>0, <2>1, <3>3, <4>3, LeafTypes
      <4> QED BY <4>1, <4>2, <4>3
    <3> QED BY <3>2, <3>3 DEF Numbered
  <2>3. TreeIsNewest'
    <3>1. ASSUME NEW q \in Paths, NEW m, m = tree'["state"][q], m # 0
          PROVE  Newest(m, q)' /\ ~leaf'[m].del
      <4>1. CASE q = p
        <5>1. m = l /\ ~del
          BY <2>0, <3>1, <4>1
        <5> QED BY <2>0, <4>1, <5>1
      <4>2. CASE q # p
        <5>1. m = tree["state"][q]
          BY <2>0, <3>1, <4>2
        <5>2. Newest(m, q) /\ ~leaf[m].del
          BY <3>1, <5>1 DEF CacheInv, TreeIsNewest
        <5>3. Newest(m, q)'
          BY <2>0, <4>2, <5>2
        <5>4. leaf'[m].path = q /\ m \in Sets
          BY <5>3 DEF Newest
        <5>5. m # l
          BY <2>0, <4>2, <5>4
        <5> QED BY <2>0, <5>2, <5>3, <5>4, <5>5
      <4> QED BY <4>1, <4>2
    <3>2. ASSUME NEW q \in Paths, NEW m \in Sets, Newest(m, q)',
                 tree'["state"][q] = 0
          PROVE  leaf'[m].del
      <4>1. CASE q = p
        BY <2>0, <2>1, <3>2, <4>1
      <4>2. CASE q # p
        <5>1. leaf'[m].path = q
          BY <3>2 DEF Newest
        <5>2. m # l
          BY <2>0, <4>2, <5>1
        <5> QED BY <2>0, <3>2, <4>2, <5>2 DEF CacheInv, TreeIsNewest
      <4> QED BY <4>1, <4>2
    <3>3. \A q \in Paths : tree'["state"][q] # 0 =>
             Newest(tree["state"][q], q)' /\ ~leaf'[tree'["state"][q]].del
      BY <3>1 DEF Newest
    <3>4. \A q \in Paths, m \in Sets :
             Newest(m, q)' /\ tree'["state"][q] = 0 => leaf'[m].del
      BY <3>2
    <3> QED BY <3>3, <3>4 DEF TreeIsNewest
  <2>4. SetsInOrder'
    <3>1. set'[w].pc = "tellState" /\ set'[w].n = l /\ set'[w].path = p
      BY <1>0
    <3> QED BY <1>0, <2>0, <3>1 DEF SetsInOrder
  <2> QED BY <2>2, <2>3, <2>4 DEF CacheInv
<1> QED BY <1>1, <1>2, <1>3 DEF SetStep

----------------------------------------------------------------------------
(* The order of a queue *)

(* A queue that grows by the leaf that was written last stays in order.    *)
LEMMA GrowsOrdered ==
  ASSUME Typed, Numbered, NEW q \in Seq(Items), NEW r, NEW x \in Items,
         NEW sent \in [Paths -> [ver : 0 .. MaxSets, del : BOOLEAN]],
         Ordered(q, sent), SentWritten(sent), Grows(q, r, x),
         IsState(x) => x[2] \in Sets /\ Newest(x[2], PathOf(x))
  PROVE  Ordered(r, sent)
<1>1. CASE r = q
  BY <1>1
<1>2. CASE r = Append(q, x) /\ \A i \in DOMAIN q : q[i] # x
  <2> DEFINE e == Len(q) + 1
  <2>1. /\ DOMAIN q = 1 .. Len(q) /\ DOMAIN r = 1 .. e
        /\ \A i \in DOMAIN q : r[i] = q[i]
        /\ r[e] = x /\ Len(q) \in Nat
    BY <1>2, AppendFacts
  <2>2. IsState(x) => /\ PathOf(x) \in Paths /\ VerOf(x) # 0
                      /\ sent[PathOf(x)].ver <= VerOf(x)
    BY DEF Newest, SentWritten, PathOf, VerOf, Typed
  <2>3. ASSUME NEW i \in DOMAIN r, IsState(r[i])
        PROVE  VerOf(r[i]) # 0 /\ sent[PathOf(r[i])].ver <= VerOf(r[i])
    <3>1. CASE i = e
      BY <2>1, <2>2, <2>3, <3>1
    <3>2. CASE i # e
      <4>1. i \in DOMAIN q /\ r[i] = q[i]
        BY <2>1, <3>2
      <4> QED BY <2>3, <4>1 DEF Ordered
    <3> QED BY <3>1, <3>2
  <2>4. ASSUME NEW i \in DOMAIN q, IsState(q[i]), IsState(x),
               PathOf(q[i]) = PathOf(x)
        PROVE  VerOf(q[i]) < VerOf(x)
    <3>1. q[i] \in Items /\ VerOf(q[i]) # 0
      BY <2>4 DEF Ordered
    <3>2. q[i][2] \in Sets /\ x[2] \in Sets /\ q[i][2] # x[2]
      <4>1. q[i] # Sync /\ x # Sync
        BY <2>4, ItemFacts
      <4>2. /\ q[i][2] \in Sets /\ q[i] = <<"state", q[i][2]>>
            /\ x[2] \in Sets /\ x = <<"state", x[2]>>
        BY <2>4, <3>1, <4>1, ItemFacts DEF IsState
      <4>3. q[i] # x
        BY <1>2
      <4> QED BY <4>2, <4>3
    <3>3. VerOf(q[i]) <= VerOf(x)
      BY <2>4, <3>2 DEF Newest, PathOf, VerOf
    <3>4. VerOf(q[i]) # VerOf(x)
      BY <3>1, <3>2 DEF Numbered, VerOf
    <3> QED BY <3>2, <3>3, <3>4, LeafTypes DEF VerOf
  <2>5. ASSUME NEW i \in DOMAIN r, NEW j \in DOMAIN r, i < j,
               IsState(r[i]), IsState(r[j]), PathOf(r[i]) = PathOf(r[j])
        PROVE  VerOf(r[i]) < VerOf(r[j])
    <3>1. i \in DOMAIN q /\ r[i] = q[i]
      BY <2>1, <2>5
    <3>2. CASE j = e
      BY <2>1, <2>4, <2>5, <3>1, <3>2
    <3>3. CASE j # e
      <4>1. j \in DOMAIN q /\ r[j] = q[j]
        BY <2>1, <3>3
      <4> QED BY <2>5, <3>1, <4>1 DEF Ordered
    <3> QED BY <3>2, <3>3
  <2> QED BY <2>3, <2>5 DEF Ordered
<1> QED BY <1>1, <1>2 DEF Grows

(* What is sent from the front of a queue in order is not older than what  *)
(* was sent, and leaves the queue in order.                                *)
LEMMA TailOrdered ==
  ASSUME Typed, Numbered, NEW q \in Seq(Items), q # <<>>,
         NEW sent \in [Paths -> [ver : 0 .. MaxSets, del : BOOLEAN]],
         Ordered(q, sent), SentWritten(sent), NEW next,
         IF IsState(q[1])
         THEN next = [sent EXCEPT ![PathOf(q[1])] =
                        [ver |-> VerOf(q[1]), del |-> leaf[q[1][2]].del]]
         ELSE next = sent
  PROVE  /\ Ordered(Tail(q), next) /\ SentWritten(next)
         /\ \A p \in Paths : next[p].ver >= sent[p].ver
<1> DEFINE x == q[1]
           r == Tail(q)
<1>0. /\ 1 \in DOMAIN q /\ x \in Items
      /\ \A i \in DOMAIN r : i + 1 \in DOMAIN q /\ r[i] = q[i + 1] /\ 1 < i + 1
      /\ \A i, j \in DOMAIN r : i < j => i + 1 < j + 1
  BY TailFacts
<1>1. IsState(x) =>
      /\ x[2] \in Sets /\ PathOf(x) \in Paths /\ VerOf(x) \in Nat
      /\ VerOf(x) # 0 /\ sent[PathOf(x)].ver <= VerOf(x)
      /\ next[PathOf(x)].ver = VerOf(x)
      /\ \A p \in Paths : p # PathOf(x) => next[p] = sent[p]
  <2> SUFFICES ASSUME IsState(x)
               PROVE  /\ x[2] \in Sets /\ PathOf(x) \in Paths
                      /\ VerOf(x) \in Nat
                      /\ VerOf(x) # 0 /\ sent[PathOf(x)].ver <= VerOf(x)
                      /\ next[PathOf(x)].ver = VerOf(x)
                      /\ \A p \in Paths : p # PathOf(x) => next[p] = sent[p]
    OBVIOUS
  <2>1. x[2] \in Sets /\ PathOf(x) \in Paths /\ VerOf(x) \in Nat
    BY <1>0, ItemFacts DEF Typed, PathOf, VerOf, IsState
  <2>2. VerOf(x) # 0 /\ sent[PathOf(x)].ver <= VerOf(x)
    BY <1>0 DEF Ordered
  <2> HIDE DEF x
  <2>3. next[PathOf(x)].ver = VerOf(x)
        /\ \A p \in Paths : p # PathOf(x) => next[p] = sent[p]
    BY <2>1 DEF x
  <2> QED BY <2>1, <2>2, <2>3
<1>2. ~IsState(x) => next = sent
  OBVIOUS
<1>3. \A p \in Paths : next[p].ver >= sent[p].ver /\ sent[p].ver \in Nat
  BY <1>1, <1>2
<1>4. SentWritten(next)
  <2>1. CASE ~IsState(x)
    BY <1>2, <2>1
  <2>2. CASE IsState(x)
    <3>1. VerOf(x) <= sets
      BY <1>1, <2>2 DEF Numbered, VerOf
    <3>2. \A l \in Sets : Newest(l, PathOf(x)) => VerOf(x) <= leaf[l].ver
      BY <1>1, <2>2 DEF Newest, VerOf, PathOf
    <3> HIDE DEF x
    <3> QED BY <1>1, <2>2, <3>1, <3>2 DEF SentWritten
  <2> QED BY <2>1, <2>2
<1>5. ASSUME NEW i \in DOMAIN r, IsState(r[i])
      PROVE  VerOf(r[i]) # 0 /\ next[PathOf(r[i])].ver <= VerOf(r[i])
  <2>1. i + 1 \in DOMAIN q /\ r[i] = q[i + 1] /\ 1 < i + 1
    BY <1>0
  <2>2. /\ VerOf(r[i]) # 0 /\ sent[PathOf(r[i])].ver <= VerOf(r[i])
        /\ PathOf(r[i]) \in Paths /\ VerOf(r[i]) \in Nat
    <3>1. r[i] \in Items /\ r[i][2] \in Sets
      BY <1>5, <2>1, ItemFacts
    <3> QED BY <1>5, <2>1, <3>1, LeafTypes DEF Ordered, Typed, PathOf, VerOf
  <2>3. CASE IsState(x) /\ PathOf(r[i]) = PathOf(x)
    <3>1. VerOf(x) < VerOf(r[i])
      BY <1>0, <1>5, <2>1, <2>3 DEF Ordered
    <3> QED BY <1>1, <2>2, <2>3, <3>1
  <2>4. CASE ~(IsState(x) /\ PathOf(r[i]) = PathOf(x))
    <3>1. next[PathOf(r[i])] = sent[PathOf(r[i])]
      BY <1>1, <1>2, <2>2, <2>4
    <3> QED BY <2>2, <3>1
  <2> QED BY <2>3, <2>4
<1>6. ASSUME NEW i \in DOMAIN r, NEW j \in DOMAIN r, i < j,
             IsState(r[i]), IsState(r[j]), PathOf(r[i]) = PathOf(r[j])
      PROVE  VerOf(r[i]) < VerOf(r[j])
  BY <1>0, <1>6 DEF Ordered
<1> QED BY <1>3, <1>4, <1>5, <1>6 DEF Ordered

(* A write keeps the queues in order: a leaf that is rewritten was the     *)
(* last of its path in every queue.                                        *)
LEMMA WritesOrdered ==
  ASSUME Typed, CacheInv, NEW l, NEW p, NEW n, NEW del, Writes(l, p, n, del),
         NEW q \in Seq(Items),
         NEW sent \in [Paths -> [ver : 0 .. MaxSets, del : BOOLEAN]],
         Ordered(q, sent), SentWritten(sent)
  PROVE  Ordered(q, sent)' /\ SentWritten(sent)'
<1>0. /\ leaf'[l] = [path |-> p, ver |-> n, del |-> del]
      /\ \A m \in Sets \ {l} : leaf'[m] = leaf[m] /\ leaf[m].ver < n
      /\ \A m : Newest(m, p)' => m = l
      /\ \A k \in Paths \ {p} : \A m : Newest(m, k)' <=> Newest(m, k)
      /\ leaf[l].ver # 0 => Newest(l, p)
  BY WritesNewest
<1>1. /\ n = sets /\ sets' = sets /\ n \in Nat \ {0}
      /\ \A m \in Sets : leaf[m].ver \in Nat /\ leaf[m].ver < n
  BY LeafTypes DEF Writes
<1>2. ASSUME NEW i \in DOMAIN q, IsState(q[i])
      PROVE  /\ PathOf(q[i])' = PathOf(q[i])
             /\ VerOf(q[i])' # 0 /\ VerOf(q[i]) <= VerOf(q[i])'
             /\ q[i][2] \in Sets /\ VerOf(q[i]) # 0
  <2>1. q[i][2] \in Sets /\ VerOf(q[i]) # 0
    BY <1>2, ItemFacts DEF Ordered
  <2>2. CASE q[i][2] = l
    <3>1. leaf[l].path = p
      BY <1>0, <2>1, <2>2 DEF VerOf, Newest
    <3> QED BY <1>0, <1>1, <2>1, <2>2, <3>1 DEF PathOf, VerOf
  <2>3. CASE q[i][2] # l
    BY <1>0, <1>1, <2>1, <2>3 DEF PathOf, VerOf
  <2> QED BY <2>1, <2>2, <2>3
<1>3. ASSUME NEW i \in DOMAIN q, IsState(q[i])
      PROVE  VerOf(q[i])' # 0 /\ sent[PathOf(q[i])'].ver <= VerOf(q[i])'
  <2>1. sent[PathOf(q[i])].ver <= VerOf(q[i])
    BY <1>3 DEF Ordered
  <2>2. /\ sent[PathOf(q[i])].ver \in Nat
        /\ VerOf(q[i]) \in Nat /\ VerOf(q[i])' \in Nat
    <3>1. PathOf(q[i]) \in Paths /\ VerOf(q[i]) \in Nat
      BY <1>2, <1>3 DEF Typed, PathOf, VerOf
    <3>2. VerOf(q[i])' \in Nat
      BY <1>0, <1>1, <1>2, <1>3 DEF VerOf
    <3> QED BY <3>1, <3>2
  <2> QED BY <1>2, <1>3, <2>1, <2>2
<1>4. ASSUME NEW i \in DOMAIN q, NEW j \in DOMAIN q, i < j,
             IsState(q[i]), IsState(q[j]), PathOf(q[i])' = PathOf(q[j])'
      PROVE  VerOf(q[i])' < VerOf(q[j])'
  <2>1. VerOf(q[i]) < VerOf(q[j]) /\ PathOf(q[i]) = PathOf(q[j])
    BY <1>2, <1>4 DEF Ordered
  <2>2. q[i][2] # l
    <3>1. ASSUME q[i][2] = l PROVE FALSE
      <4>1. Newest(l, p) /\ PathOf(q[j]) = p
        BY <1>0, <1>2, <1>4, <2>1, <3>1 DEF Newest, PathOf, VerOf
      <4>2. VerOf(q[j]) <= VerOf(q[i])
        BY <1>2, <1>4, <3>1, <4>1 DEF Newest, PathOf, VerOf
      <4> QED BY <1>1, <1>2, <1>4, <2>1, <4>2 DEF VerOf
    <3> QED BY <3>1
  <2>3. VerOf(q[i])' = VerOf(q[i])
    BY <1>0, <1>2, <1>4, <2>2 DEF VerOf
  <2>4. CASE q[j][2] = l
    BY <1>0, <1>1, <1>2, <1>4, <2>3, <2>4 DEF VerOf
  <2>5. CASE q[j][2] # l
    BY <1>0, <1>2, <1>4, <2>1, <2>3, <2>5 DEF VerOf
  <2> QED BY <2>4, <2>5
<1>5. SentWritten(sent)'
  <2>1. \A k \in Paths : sent[k].ver <= sets
    BY DEF SentWritten
  <2>2. ASSUME NEW k \in Paths, NEW m \in Sets, Newest(m, k)'
        PROVE  sent[k].ver <= leaf'[m].ver
    <3>1. CASE k = p
      BY <1>0, <1>1, <2>1, <2>2, <3>1
    <3>2. CASE k # p
      <4>1. Newest(m, k) /\ leaf'[m].path = k
        BY <1>0, <2>2, <3>2 DEF Newest
      <4>2. m # l
        BY <1>0, <3>2, <4>1
      <4> QED BY <1>0, <4>1, <4>2 DEF SentWritten
    <3> QED BY <3>1, <3>2
  <2> QED BY <1>1, <2>1, <2>2 DEF SentWritten
<1> QED BY <1>3, <1>4, <1>5 DEF Ordered

----------------------------------------------------------------------------
(* Every queue stays in order *)

SentStates == [Paths -> [ver : 0 .. MaxSets, del : BOOLEAN]]

(* No step sends anything older than what was sent.                        *)
NoOlder == \A s \in Calls, p \in Paths :
              call'[s].sender = "run" => last'[s][p].ver >= last[s][p].ver

LEMMA ShortOrdered ==
  ASSUME NEW q \in {<<>>, <<Sync>>}, NEW sent
  PROVE  Ordered(q, sent)
<1>1. CASE q = <<>>
  BY <1>1 DEF Ordered
<1>2. CASE q = <<Sync>>
  <2>1. DOMAIN q = {1} /\ ~IsState(q[1])
    BY <1>2, ItemFacts
  <2> QED BY <2>1 DEF Ordered
<1> QED BY <1>1, <1>2

LEMMA InitOInv == Init => OInv
<1> SUFFICES ASSUME Init PROVE OInv
  OBVIOUS
<1>1. TInv
  BY InitTInv
<1>2. \A l \in Sets : leaf[l].ver = 0
  BY DEF Init, NoLeaf
<1>3. \A p \in Paths : tree["state"][p] = 0
  BY DEF Init, Caches
<1>4. CacheInv
  BY <1>2, <1>3 DEF CacheInv, Numbered, TreeIsNewest, SetsInOrder, Newest,
                    Init, Resting
<1>5. ASSUME NEW s \in Calls
      PROVE  Ordered(call[s].queue, last[s]) /\ SentWritten(last[s])
  <2>1. call[s].queue = <<>>
    BY DEF Init, NotMade
  <2>2. \A p \in Paths : last[s][p].ver = 0
    BY DEF Init, NotSent
  <2>3. SentWritten(last[s])
    BY <1>2, <2>2 DEF SentWritten, Newest, Init
  <2> QED BY <2>1, <2>3, ShortOrdered
<1> QED BY <1>4, <1>5 DEF OInv

(* A step of one call.                                                     *)
LEMMA OneCallOrdered ==
  ASSUME TInv, OInv, UNCHANGED cacheVars, NEW s \in Calls, NEW d,
         call' = [call EXCEPT ![s] = d], NEW e \in SentStates,
         last' = [last EXCEPT ![s] = e],
         Ordered(d.queue, e), SentWritten(e),
         d.sender = "run" => \A p \in Paths : e[p].ver >= last[s][p].ver
  PROVE  OInv' /\ NoOlder
<1>1. /\ \A r \in Calls \ {s} : call'[r] = call[r] /\ last'[r] = last[r]
      /\ call'[s] = d /\ last'[s] = e
  BY DEF TInv, Typed
<1>2. CacheInv'
  BY DEF OInv, CacheInv, Numbered, TreeIsNewest, SetsInOrder, Newest,
         cacheVars
<1>3. ASSUME NEW r \in Calls
      PROVE  /\ Ordered(call'[r].queue, last'[r]) /\ SentWritten(last'[r])
             /\ call'[r].sender = "run" =>
                   \A p \in Paths : last'[r][p].ver >= last[r][p].ver
  <2>1. CASE r = s
    BY <1>1, <2>1
  <2>2. CASE r # s
    <3>1. \A p \in Paths : last[r][p].ver \in Nat
      BY LeafTypes DEF TInv
    <3> QED BY <1>1, <2>2, <3>1 DEF OInv
  <2> QED BY <2>1, <2>2
<1>4. \A r \in Calls :
         Ordered(call'[r].queue, last'[r]) => Ordered(call[r].queue, last[r])'
  <2>1. leaf' = leaf
    BY DEF cacheVars
  <2> SUFFICES ASSUME NEW r \in Calls, Ordered(call'[r].queue, last'[r])
               PROVE  Ordered(call[r].queue, last[r])'
    OBVIOUS
  <2>2. \A x : /\ IsState(x)' <=> IsState(x)
               /\ PathOf(x)' = PathOf(x) /\ VerOf(x)' = VerOf(x)
    BY <2>1 DEF IsState, PathOf, VerOf
  <2> QED BY <2>2 DEF Ordered, IsState
<1>5. \A r \in Calls : SentWritten(last'[r]) => SentWritten(last[r])'
  BY DEF SentWritten, Newest, cacheVars
<1>6. OInv'
  BY <1>2, <1>3, <1>4, <1>5 DEF OInv
<1> QED BY <1>3, <1>6 DEF NoOlder

LEMMA CallOInv ==
  ASSUME TInv, OInv, NEW s \in Calls,
         \/ Begin(s) \/ ClientLeaves(s) \/ QueryFails(s)
         \/ CallStep(s) \/ HandlerStep(s) \/ SenderStep(s)
  PROVE  OInv' /\ NoOlder
<1>0. /\ Typed /\ Numbered /\ last[s] \in SentStates
      /\ call[s].queue \in Seq(Items)
      /\ Ordered(call[s].queue, last[s]) /\ SentWritten(last[s])
      /\ \A p \in Paths : last[s][p].ver \in Nat
      /\ last = [last EXCEPT ![s] = last[s]]
  BY LeafTypes DEF TInv, Typed, OInv, CacheInv, SentStates
<1>1. ASSUME UNCHANGED <<cacheVars, last>>, NEW d,
             call' = [call EXCEPT ![s] = d], Ordered(d.queue, last[s])
      PROVE  OInv' /\ NoOlder
  <2>1. \A p \in Paths : last[s][p].ver >= last[s][p].ver
    BY <1>0
  <2> QED BY <1>0, <1>1, <2>1, OneCallOrdered
<1>2. CASE Begin(s)
  <2>0. Asks \in [Calls -> SUBSET Modes]
    OBVIOUS
  <2> PICK d \in CallStates :
        /\ call' = [call EXCEPT ![s] = d]
        /\ \/ d = [call[s] EXCEPT !.pc = "refused"]
           \/ \E mode \in Modes : d = Dispatched(mode)
    BY <1>0, <1>2, <2>0, BeginFacts
  <2>1. UNCHANGED <<cacheVars, last>>
    BY <1>0, <1>2, <2>0, BeginFacts
  <2>2. CASE d = [call[s] EXCEPT !.pc = "refused"]
    <3>1. call[s] \in CallStates
      BY DEF TInv, Typed
    <3>2. d.queue = call[s].queue
      BY <2>2, <3>1 DEF CallStates
    <3> QED BY <1>0, <1>1, <2>1, <3>2
  <2>3. CASE \E mode \in Modes : d = Dispatched(mode)
    <3>1. d.queue \in {<<>>, <<Sync>>}
      BY <1>0, <2>3, DispatchedFacts DEF Fresh
    <3> QED BY <1>1, <2>1, <3>1, ShortOrdered
  <2> QED BY <2>2, <2>3
<1>3. CASE ClientLeaves(s) \/ CloseOnce(s) \/ QueryFails(s)
  <2>1. /\ UNCHANGED <<cacheVars, last>>
        /\ \E d \in CallStates : /\ call' = [call EXCEPT ![s] = d]
                                 /\ d.queue = call[s].queue
    BY <1>0, <1>3, FlagFacts
  <2> QED BY <1>0, <1>1, <2>1
<1>4. CASE Register(s)
  <2>1. call[s] \in CallStates
    BY DEF TInv, Typed
  <2>2. UNCHANGED <<cacheVars, last>>
    BY <1>0, <1>4, RegisterFacts
  <2> PICK p \in Paths :
        call' = [call EXCEPT ![s] = [call[s] EXCEPT !.reg = @ \cup {p}]]
    BY <1>0, <1>4, RegisterFacts
  <2> DEFINE d == [call[s] EXCEPT !.reg = @ \cup {p}]
  <2>3. d.queue = call[s].queue
    BY <2>1 DEF CallStates
  <2>4. call' = [call EXCEPT ![s] = d]
    OBVIOUS
  <2> HIDE DEF d
  <2> QED BY <1>0, <1>1, <2>2, <2>3, <2>4
<1>5. CASE Launch(s)
  <2>1. /\ UNCHANGED <<cacheVars, last>>
        /\ \E d \in CallStates : /\ call' = [call EXCEPT ![s] = d]
                                 /\ d.queue = call[s].queue
    BY <1>0, <1>5, LaunchFacts
  <2> QED BY <1>0, <1>1, <2>1
<1>6. CASE Query(s)
  <2>1. UNCHANGED <<cacheVars, last>>
    BY <1>0, <1>6, QueryFacts
  <2> PICK p \in call[s].todo, d \in CallStates :
        /\ call' = [call EXCEPT ![s] = d]
        /\ \/ tree["state"][p] = 0 /\ d.queue = call[s].queue
           \/ /\ tree["state"][p] # 0 /\ <<"state", tree["state"][p]>> \in Items
              /\ Grows(call[s].queue, d.queue, <<"state", tree["state"][p]>>)
    BY <1>0, <1>6, QueryFacts
  <2>2. CASE d.queue = call[s].queue
    BY <1>0, <1>1, <2>1, <2>2
  <2>3. CASE tree["state"][p] # 0 /\ d.queue # call[s].queue
    <3> DEFINE x == <<"state", tree["state"][p]>>
    <3>1. p \in Paths
      BY DEF TInv, Typed, CallStates
    <3>2. Newest(tree["state"][p], p)
      BY <2>3, <3>1 DEF OInv, CacheInv, TreeIsNewest
    <3>3. x[2] \in Sets /\ Newest(x[2], PathOf(x))
      BY <3>2 DEF Newest, PathOf
    <3>4. x \in Items /\ Grows(call[s].queue, d.queue, x)
      BY <2>3
    <3> HIDE DEF x
    <3>5. Ordered(d.queue, last[s])
      BY <1>0, <3>3, <3>4, GrowsOrdered DEF SentStates
    <3> QED BY <1>1, <2>1, <3>5
  <2> QED BY <2>2, <2>3
<1>7. CASE QueryDone(s)
  <2>1. UNCHANGED <<cacheVars, last>>
    BY <1>0, <1>7, QueryDoneFacts
  <2> PICK d \in CallStates : /\ call' = [call EXCEPT ![s] = d]
                              /\ Grows(call[s].queue, d.queue, Sync)
    BY <1>0, <1>7, QueryDoneFacts
  <2>2. Ordered(d.queue, last[s])
    BY <1>0, ItemFacts, GrowsOrdered DEF SentStates
  <2> QED BY <1>1, <2>1, <2>2
<1>8. CASE Send(s)
  <2> DEFINE q == call[s].queue
             e == IF IsState(q[1])
                  THEN [last[s] EXCEPT ![PathOf(q[1])] =
                          [ver |-> VerOf(q[1]), del |-> leaf[q[1][2]].del]]
                  ELSE last[s]
  <2> PICK d \in CallStates : /\ call' = [call EXCEPT ![s] = d]
                              /\ d.queue = Tail(q)
    BY <1>0, <1>8, SendFacts
  <2>1. q # <<>> /\ q[1] \in Items /\ UNCHANGED cacheVars
    BY <1>0, <1>8, SendFacts
  <2>2. Ordered(Tail(q), e) /\ SentWritten(e)
        /\ \A p \in Paths : e[p].ver >= last[s][p].ver
    <3> HIDE DEF q
    <3>1. q \in Seq(Items) /\ Ordered(q, last[s])
      BY <1>0 DEF q
    <3> QED BY <1>0, <2>1, <3>1, TailOrdered DEF SentStates
  <2>3. e \in SentStates
    <3>1. IsState(q[1]) => leaf[q[1][2]] \in
             [path : Paths, ver : 0 .. MaxSets, del : BOOLEAN]
      BY <1>0, <2>1, ItemFacts DEF Typed, IsState
    <3> HIDE DEF q
    <3> QED BY <1>0, <3>1 DEF SentStates, VerOf, PathOf
  <2>4. last' = [last EXCEPT ![s] = e]
    BY <1>0, <1>8, SendFacts
  <2>5. d.queue = Tail(q) /\ UNCHANGED cacheVars
    BY <2>1
  <2> HIDE DEF e, q
  <2>6. Ordered(d.queue, e)
    BY <2>2, <2>5
  <2> QED BY <2>2, <2>3, <2>4, <2>5, <2>6, OneCallOrdered
<1>9. CASE SendFails(s) \/ SenderEnds(s)
  <2> DEFINE e == [p \in Paths |-> NotSent]
  <2> PICK d \in CallStates : /\ call' = [call EXCEPT ![s] = d]
                              /\ d.sender = "ended" /\ d.queue = <<>>
    BY <1>0, <1>9, EndFacts
  <2>1. last' = [last EXCEPT ![s] = e] /\ UNCHANGED cacheVars
    BY <1>0, <1>9, EndFacts
  <2>2. e \in SentStates
    BY StartTyped DEF SentStates
  <2>3. SentWritten(e)
    <3>1. \A p \in Paths : e[p].ver = 0
      BY DEF NotSent
    <3>2. sets \in Nat /\ \A l \in Sets : leaf[l].ver \in Nat
      BY <1>0, LeafTypes
    <3> HIDE DEF e
    <3> QED BY <3>1, <3>2 DEF SentWritten
  <2> HIDE DEF e
  <2> QED BY <2>1, <2>2, <2>3, ShortOrdered, OneCallOrdered
<1> QED BY <1>2, <1>3, <1>4, <1>5, <1>6, <1>7, <1>8, <1>9
        DEF CallStep, HandlerStep, SenderStep

(* A step of a Set: what it tells of was written last.                     *)
LEMMA TellOrdered ==
  ASSUME TInv, OInv, NEW c \in Caches, NEW p \in Paths, NEW l \in Sets,
         Tell(c, p, l), c = "state" => Newest(l, p), NEW s \in Calls
  PROVE  Ordered(call'[s].queue, last[s])
<1> DEFINE x == <<c, l>>
<1>1. Grows(call[s].queue, call'[s].queue, x)
  BY TellFacts DEF TInv
<1>2. x \in Items /\ (IsState(x) => x[2] \in Sets /\ Newest(x[2], PathOf(x)))
  BY ItemFacts DEF IsState, PathOf, Newest
<1>3. call[s].queue \in Seq(Items) /\ last[s] \in SentStates
  BY LeafTypes DEF TInv, Typed, SentStates
<1> HIDE DEF x
<1> QED BY <1>1, <1>2, <1>3, GrowsOrdered DEF TInv, OInv, CacheInv, SentStates

LEMMA SetterOInv ==
  ASSUME TInv, OInv, OneAtATime, NEW w \in Setters,
         WriteConfig(w) \/ SetFails(w) \/ SetStep(w)
  PROVE  OInv' /\ NoOlder
<1>0. CacheInv' /\ Typed /\ sets \in Nat
  BY SetterCacheInv, LeafTypes DEF OInv, TInv
<1>1. UNCHANGED last
  BY DEF WriteConfig, SetFails, SetStep, WriteState, TellState
<1>2. NoOlder
  BY <1>0, <1>1, LeafTypes DEF NoOlder
<1>3. ASSUME NEW s \in Calls
      PROVE  /\ call[s].queue \in Seq(Items) /\ last[s] \in SentStates
             /\ Ordered(call[s].queue, last[s]) /\ SentWritten(last[s])
  BY <1>0 DEF OInv, Typed, CallStates, SentStates
<1>4. CASE /\ UNCHANGED leaf /\ sets' \in Nat /\ sets <= sets'
           /\ \A s \in Calls : Ordered(call'[s].queue, last[s])
  <2>1. \A s \in Calls : Ordered(call[s].queue, last[s])'
    BY <1>1, <1>4 DEF Ordered, IsState, PathOf, VerOf
  <2>2. \A s \in Calls : SentWritten(last[s])'
    <3>1. \A s \in Calls, p \in Paths : last[s][p].ver \in Nat
      BY <1>0, LeafTypes
    <3> QED BY <1>0, <1>1, <1>3, <1>4, <3>1 DEF SentWritten, Newest
  <2> QED BY <1>0, <1>2, <2>1, <2>2 DEF OInv
<1>5. CASE WriteConfig(w)
  <2>1. UNCHANGED leaf /\ sets' = sets + 1
        /\ \E p \in Paths, l \in Sets : Tell("config", p, l)
    BY <1>5, WriteConfigFacts
  <2>2. \A s \in Calls : Ordered(call'[s].queue, last[s])
    BY <2>1, TellOrdered DEF Caches
  <2> QED BY <1>0, <1>4, <2>1, <2>2
<1>6. CASE SetFails(w)
  BY <1>0, <1>3, <1>4, <1>6 DEF SetFails
<1>7. CASE TellState(w)
  <2>1. Newest(set[w].n, set[w].path)
    BY <1>7, TellStateFacts DEF OInv, CacheInv, SetsInOrder
  <2>2. \A s \in Calls : Ordered(call'[s].queue, last[s])
    BY <1>7, <2>1, TellStateFacts, TellOrdered DEF Caches
  <2> QED BY <1>0, <1>4, <1>7, <2>2, TellStateFacts
<1>8. CASE WriteState(w)
  <2>1. UNCHANGED <<sets, call>>
    BY <1>8, WriteStateFacts
  <2>2. CASE tree' # tree \/ leaf' # leaf
    <3> PICK l \in Sets, p \in Paths, n \in Sets, del \in BOOLEAN :
          Writes(l, p, n, del)
      BY <1>8, <2>2, WriteStateWrites DEF OInv
    <3>1. ASSUME NEW s \in Calls, NEW q, q = call[s].queue,
                 NEW sent, sent = last[s]
          PROVE  Ordered(q, sent)' /\ SentWritten(sent)'
      BY <1>0, <1>3, <3>1, WritesOrdered DEF OInv, SentStates
    <3>2. \A s \in Calls : /\ Ordered(call[s].queue, last[s])'
                           /\ SentWritten(last[s])'
      BY <1>1, <2>1, <3>1
         DEF Ordered, SentWritten, Newest, IsState, PathOf, VerOf
    <3> QED BY <1>0, <1>2, <3>2 DEF OInv
  <2>3. CASE tree' = tree /\ leaf' = leaf
    BY <1>0, <1>3, <1>4, <2>1, <2>3
  <2> QED BY <2>2, <2>3
<1> QED BY <1>5, <1>6, <1>7, <1>8 DEF SetStep

LEMMA StutterOInv ==
  ASSUME TInv, OInv, UNCHANGED vars PROVE OInv' /\ NoOlder
<1>1. NoOlder
  BY LeafTypes DEF TInv, NoOlder, vars
<1>2. UNCHANGED <<tree, leaf, set, sets, call, last>>
  BY DEF vars, cacheVars
<1>3. CacheInv'
  BY <1>2 DEF OInv, CacheInv, Numbered, TreeIsNewest, SetsInOrder, Newest
<1>4. \A s \in Calls : Ordered(call[s].queue, last[s])'
  BY <1>2 DEF OInv, Ordered, IsState, PathOf, VerOf
<1>5. \A s \in Calls : SentWritten(last[s])'
  BY <1>2 DEF OInv, SentWritten, Newest
<1> QED BY <1>1, <1>3, <1>4, <1>5 DEF OInv

LEMMA StepOInv == TInv /\ OInv /\ OneAtATime /\ [Next]_vars => OInv' /\ NoOlder
BY StutterOInv, CallOInv, SetterOInv DEF Next

LEMMA InOrder ==
  ASSUME OneAtATime PROVE Spec => [](TInv /\ OInv)
<1>1. TInv /\ [Next]_vars => TInv'
  BY StutterTInv, CallTInv, SetterTInv DEF Next
<1>2. TInv /\ OInv /\ [Next]_vars => OInv'
  BY StepOInv
<1> QED BY <1>1, <1>2, InitTInv, InitOInv, PTL DEF Spec

(* Where Sets come one at a time, what a client is sent from the state     *)
(* cache about a path never goes back in time, whatever is told, queried   *)
(* and coalesced meanwhile, however many leaves, calls and Sets there are  *)
(* (subscribe.go:187-230).                                                 *)
THEOREM NeverOlderHolds == ASSUME OneAtATime PROVE Spec => NeverOlder
<1>1. TInv /\ OInv /\ [Next]_vars => [NoOlder]_vars
  BY StepOInv
<1>2. Spec => [][NoOlder]_vars
  BY <1>1, InOrder, PTL DEF Spec
<1> QED BY <1>2 DEF NeverOlder, NoOlder

----------------------------------------------------------------------------
(* What is queued *)

LEMMA GrowsQueued ==
  ASSUME NEW q \in Seq(Items), NEW r, NEW x \in Items, Grows(q, r, x)
  PROVE  /\ \A y : Queued(q, y) => Queued(r, y)
         /\ Queued(r, Sync) => Queued(q, Sync) \/ x = Sync
         /\ \A y : QueuedBeforeSync(q, y) => QueuedBeforeSync(r, y)
         /\ \A y : Queued(r, y) /\ ~Queued(q, Sync) /\ x # Sync
                    => QueuedBeforeSync(r, y)
         /\ \A p : NoneQueued(q, p) /\ ~(IsState(x) /\ PathOf(x) = p)
                    => NoneQueued(r, p)
<1>1. CASE r = q
  <2>1. \A y : Queued(q, y) /\ ~Queued(q, Sync) => QueuedBeforeSync(q, y)
    BY DEF Queued, QueuedBeforeSync
  <2> QED BY <1>1, <2>1
<1>2. CASE r = Append(q, x) /\ \A i \in DOMAIN q : q[i] # x
  <2> DEFINE e == Len(q) + 1
  <2>1. /\ \A i \in DOMAIN q : i \in DOMAIN r /\ r[i] = q[i] /\ i < e
        /\ e \in DOMAIN r /\ r[e] = x
        /\ \A i \in DOMAIN r : i \in DOMAIN q \/ i = e
    BY <1>2, AppendFacts
  <2> HIDE DEF e
  <2>2. \A y : Queued(q, y) => Queued(r, y)
    BY <2>1 DEF Queued
  <2>3. Queued(r, Sync) => Queued(q, Sync) \/ x = Sync
    BY <2>1 DEF Queued
  <2>4. \A y : QueuedBeforeSync(q, y) => QueuedBeforeSync(r, y)
    BY <2>1 DEF QueuedBeforeSync
  <2>5. \A y : Queued(r, y) /\ ~Queued(r, Sync) => QueuedBeforeSync(r, y)
    BY DEF Queued, QueuedBeforeSync
  <2>6. \A p : NoneQueued(q, p) /\ ~(IsState(x) /\ PathOf(x) = p)
               => NoneQueued(r, p)
    BY <2>1 DEF NoneQueued
  <2> QED BY <2>2, <2>3, <2>4, <2>5, <2>6
<1> QED BY <1>1, <1>2 DEF Grows

LEMMA TailQueued ==
  ASSUME NEW q \in Seq(Items), q # <<>>
  PROVE  /\ \A y : Queued(q, y) => q[1] = y \/ Queued(Tail(q), y)
         /\ \A y : Queued(Tail(q), y) => Queued(q, y)
         /\ Queued(q, q[1])
         /\ \A y : QueuedBeforeSync(q, y) /\ y # Sync =>
               q[1] # Sync /\ (q[1] = y \/ QueuedBeforeSync(Tail(q), y))
         /\ \A p : NoneQueued(q, p) =>
               /\ NoneQueued(Tail(q), p)
               /\ ~(IsState(q[1]) /\ PathOf(q[1]) = p)
<1> DEFINE r == Tail(q)
<1>1. /\ 1 \in DOMAIN q
      /\ \A i \in DOMAIN r : i + 1 \in DOMAIN q /\ r[i] = q[i + 1]
      /\ \A i \in DOMAIN q : /\ i = 1 \/ (i - 1 \in DOMAIN r /\ r[i - 1] = q[i])
                            /\ ~(i < 1)
      /\ \A i \in DOMAIN q, j \in DOMAIN r : i < j + 1 => i - 1 < j
  BY TailFacts
<1> HIDE DEF r
<1>2. \A y : Queued(q, y) => q[1] = y \/ Queued(r, y)
  BY <1>1 DEF Queued
<1>3. \A y : Queued(r, y) => Queued(q, y)
  BY <1>1 DEF Queued
<1>4. ASSUME NEW y, QueuedBeforeSync(q, y), y # Sync
      PROVE  q[1] # Sync /\ (q[1] = y \/ QueuedBeforeSync(r, y))
  <2> PICK i \in DOMAIN q : /\ q[i] = y
                            /\ \A j \in DOMAIN q : q[j] = Sync => i < j
    BY <1>4 DEF QueuedBeforeSync
  <2>1. q[1] # Sync
    BY <1>1
  <2>2. CASE i # 1
    <3>1. i - 1 \in DOMAIN r /\ r[i - 1] = y
      BY <1>1, <2>2
    <3>2. \A j \in DOMAIN r : r[j] = Sync => i - 1 < j
      BY <1>1
    <3> QED BY <2>1, <3>1, <3>2 DEF QueuedBeforeSync
  <2> QED BY <2>1, <2>2
<1>5. \A p : NoneQueued(q, p) =>
             NoneQueued(r, p) /\ ~(IsState(q[1]) /\ PathOf(q[1]) = p)
  BY <1>1 DEF NoneQueued
<1>6. Queued(q, q[1])
  BY <1>1 DEF Queued
<1> QED BY <1>2, <1>3, <1>4, <1>5, <1>6 DEF r

LEMMA EmptyQueue ==
  /\ \A y : ~Queued(<<>>, y)
  /\ \A p : NoneQueued(<<>>, p)
BY DEF Queued, NoneQueued

(* A leaf that was written last for its path and is sent was the last of   *)
(* its path in the queue.                                                  *)
LEMMA NewestIsLast ==
  ASSUME Typed, NEW q \in Seq(Items), q # <<>>, NEW sent, Ordered(q, sent),
         IsState(q[1]), NEW p, Newest(q[1][2], p)
  PROVE  NoneQueued(Tail(q), p)
<1> SUFFICES ASSUME NEW i \in DOMAIN Tail(q), IsState(Tail(q)[i]),
                    PathOf(Tail(q)[i]) = p
             PROVE  FALSE
  BY DEF NoneQueued
<1>1. /\ 1 \in DOMAIN q /\ i + 1 \in DOMAIN q /\ 1 < i + 1
      /\ Tail(q)[i] = q[i + 1]
  BY TailFacts
<1>2. PathOf(q[1]) = p
  BY DEF Newest, PathOf
<1>3. VerOf(q[1]) < VerOf(q[i + 1])
  BY <1>1, <1>2 DEF Ordered
<1>4. q[i + 1][2] \in Sets /\ q[1][2] \in Sets
  <2>1. q[i + 1] \in Items /\ q[1] \in Items
    BY <1>1
  <2> QED BY <1>1, <2>1, ItemFacts
<1>5. VerOf(q[i + 1]) <= VerOf(q[1])
  BY <1>1, <1>4 DEF Newest, VerOf, PathOf
<1> QED BY <1>3, <1>4, <1>5, LeafTypes DEF VerOf

(* A call whose queue grows remains up to date and covered.                *)
LEMMA GrowsUpToDate ==
  ASSUME NEW c, NEW d, c.queue \in Seq(Items), NEW x \in Items,
         Grows(c.queue, d.queue, x), NEW sent, NEW p, UpToDate(c, sent, p),
         ~(IsState(x) /\ PathOf(x) = p),
         NotQueried(c, p) => NotQueried(d, p) \/ tree["state"][p] = 0
  PROVE  UpToDate(d, sent, p)
BY GrowsQueued DEF UpToDate

LEMMA GrowsCovered ==
  ASSUME NEW c, NEW d, c.queue \in Seq(Items), NEW x \in Items,
         Grows(c.queue, d.queue, x), NEW sent, NEW p, Covered(c, sent, p),
         d.snap = c.snap, d.synced = c.synced,
         NotQueried(c, p) => NotQueried(d, p)
  PROVE  Covered(d, sent, p)
BY GrowsQueued DEF Covered

----------------------------------------------------------------------------
(* A STREAM stays in step with the state cache *)

LEMMA NewSnap ==
  ASSUME TInv, OInv, NEW p \in Paths, tree["state"][p] # 0
  PROVE  /\ tree["state"][p] \in Sets /\ leaf[tree["state"][p]].ver # 0
         /\ Newest(tree["state"][p], p)
BY DEF OInv, CacheInv, TreeIsNewest, Newest

LEMMA BeginInStep ==
  ASSUME TInv, OInv, SInv, NEW s \in Calls, Begin(s)
  PROVE  \E d : /\ call' = [call EXCEPT ![s] = d]
                /\ InStep(d, last[s])
<1>0. /\ Typed /\ Asks \in [Calls -> SUBSET Modes]
      /\ call[s] = NotMade /\ \A p \in Paths : last[s][p] = NotSent
  <2>1. call[s] = NotMade
    BY DEF Begin, SInv, InStep, Progress
  <2>2. call[s].sender = "none"
    BY <2>1 DEF NotMade
  <2> QED BY <2>1, <2>2 DEF TInv, SInv, InStep, Progress
<1> PICK d \in CallStates :
      /\ call' = [call EXCEPT ![s] = d]
      /\ \/ d = [call[s] EXCEPT !.pc = "refused"]
         \/ \E mode \in Modes : d = Dispatched(mode)
  BY <1>0, BeginFacts
<1>1. CASE d = [call[s] EXCEPT !.pc = "refused"]
  <2>1. d.pc = "refused" /\ d.mode = "POLL" /\ d.sender = "none"
    BY <1>0, <1>1 DEF NotMade
  <2>2. InStep(d, last[s])
    BY <1>0, <2>1 DEF InStep, Progress, Complete, Informed, Live
  <2> QED BY <2>2
<1>2. ASSUME NEW mode \in Modes, d = Dispatched(mode) PROVE InStep(d, last[s])
  <2> PICK pc \in {"wait", "register", "returned"},
           handler \in {"none", "close"},
           queue \in {<<>>, <<Sync>>},
           snap \in {NotMade.snap, tree["state"]} :
        /\ d = Fresh(pc, mode, handler,
                     IF pc = "wait" THEN "run" ELSE "none", queue, snap)
        /\ mode = "STREAM" => /\ pc = "register" /\ handler = "none"
                              /\ queue = <<>> /\ snap = tree["state"]
    BY <1>0, <1>2, DispatchedFacts
  <2>1. /\ d.pc = pc /\ d.mode = mode /\ d.handler = handler
        /\ d.sender = IF pc = "wait" THEN "run" ELSE "none"
        /\ d.queue = queue /\ d.snap = snap /\ d.reg = {}
        /\ d.closed = FALSE /\ d.synced = FALSE
    BY DEF Fresh
  <2>2. CASE mode # "STREAM"
    BY <1>0, <2>1, <2>2 DEF InStep, Progress, Complete, Informed, Live
  <2>3. CASE mode = "STREAM"
    <3>1. Progress(d, last[s])
      <4>1. ~Queued(d.queue, Sync)
        BY <2>1, <2>3, EmptyQueue
      <4> QED BY <1>0, <2>1, <2>3, <4>1 DEF Progress
    <3>2. Complete(d, last[s])
      BY <2>1, <2>3, NewSnap DEF Complete, Covered, NotQueried
    <3>3. Informed(d, last[s])
      BY <2>1, <2>3, EmptyQueue DEF Informed
    <3> QED BY <3>1, <3>2, <3>3 DEF InStep
  <2> QED BY <2>2, <2>3
<1> QED BY <1>1, <1>2

LEMMA RegisterInStep ==
  ASSUME TInv, OInv, SInv, NEW s \in Calls, Register(s)
  PROVE  \E d : /\ call' = [call EXCEPT ![s] = d]
                /\ InStep(d, last[s])
<1> DEFINE c == call[s]
<1>0. /\ Typed /\ c \in CallStates /\ c.queue \in Seq(Items)
      /\ Progress(c, last[s]) /\ Complete(c, last[s]) /\ Informed(c, last[s])
      /\ c.pc = "register"
  BY LeafTypes DEF TInv, Typed, SInv, InStep, Register
<1> PICK p \in Paths :
      call' = [call EXCEPT ![s] = [call[s] EXCEPT !.reg = @ \cup {p}]]
  BY <1>0, RegisterFacts
<1> DEFINE d == [c EXCEPT !.reg = @ \cup {p}]
<1>1. call' = [call EXCEPT ![s] = d]
  OBVIOUS
<1> HIDE DEF c
<1>2. /\ d.pc = c.pc /\ d.mode = c.mode /\ d.reg = c.reg \cup {p}
      /\ d.todo = c.todo /\ d.handler = c.handler
      /\ d.sender = c.sender /\ d.queue = c.queue /\ d.closed = c.closed
      /\ d.synced = c.synced /\ d.snap = c.snap
  BY <1>0 DEF CallStates
<1> HIDE DEF d
<1>3. Progress(d, last[s])
  BY <1>0, <1>2 DEF Progress
<1>4. Complete(d, last[s])
  BY <1>0, <1>2 DEF Complete, Covered, NotQueried
<1>5. Informed(d, last[s])
  <2> SUFFICES ASSUME Live(d), NEW k \in Paths
               PROVE  /\ k \notin d.reg => /\ NoneQueued(d.queue, k)
                                           /\ d.pc = "register"
                      /\ k \in d.reg /\ ~Pending(k) => UpToDate(d, last[s], k)
    BY DEF Informed
  <2>1. Live(c)
    BY <1>2 DEF Live
  <2>2. k \notin c.reg => NoneQueued(c.queue, k)
    BY <1>0, <2>1 DEF Informed
  <2>3. CASE k \notin c.reg
    <3>1. last[s][k].del
      BY <1>0, <2>1 DEF Progress, Live, NotSent
    <3> QED BY <1>0, <1>2, <2>2, <2>3, <3>1 DEF UpToDate, NotQueried
  <2>4. CASE k \in c.reg
    <3>1. ~Pending(k) => UpToDate(c, last[s], k)
      BY <1>0, <2>1, <2>4 DEF Informed
    <3> QED BY <1>2, <2>4, <3>1 DEF UpToDate, NotQueried
  <2> QED BY <2>3, <2>4
<1> QED BY <1>1, <1>3, <1>4, <1>5 DEF InStep

LEMMA LaunchInStep ==
  ASSUME TInv, OInv, SInv, NEW s \in Calls, Launch(s)
  PROVE  \E d : /\ call' = [call EXCEPT ![s] = d]
                /\ InStep(d, last[s])
<1> DEFINE c == call[s]
<1>0. /\ Typed /\ c \in CallStates /\ c.queue \in Seq(Items)
      /\ Progress(c, last[s]) /\ Complete(c, last[s]) /\ Informed(c, last[s])
      /\ c.pc = "register" /\ c.reg = Paths
  BY LeafTypes DEF TInv, Typed, SInv, InStep, Launch
<1> PICK d \in CallStates :
      /\ call' = [call EXCEPT ![s] = d]
      /\ d.pc = "wait" /\ d.sender = "run" /\ d.reg = Paths
      /\ d.mode = c.mode /\ d.queue = c.queue
      /\ d.closed = c.closed /\ d.synced = c.synced
      /\ d.snap = c.snap
      /\ d.mode = "STREAM" => d.handler = "query" /\ d.todo = Paths
  BY <1>0, LaunchFacts
<1> HIDE DEF c
<1>1. d.mode = "STREAM" =>
        /\ c.handler = "none" /\ c.sender = "none" /\ ~c.closed
        /\ ~c.synced /\ ~Queued(c.queue, Sync) /\ Live(c)
  BY <1>0 DEF Progress, Live
<1>2. Progress(d, last[s])
  BY <1>1 DEF Progress
<1>3. Complete(d, last[s])
  BY <1>0 DEF Complete, Covered, NotQueried
<1>4. Informed(d, last[s])
  <2> SUFFICES ASSUME Live(d), NEW k \in Paths, ~Pending(k)
               PROVE  UpToDate(d, last[s], k)
    BY DEF Informed
  <2>1. UpToDate(c, last[s], k) /\ d.todo = Paths
    BY <1>0, <1>1 DEF Informed, Live
  <2> QED BY <2>1 DEF UpToDate, NotQueried
<1> QED BY <1>2, <1>3, <1>4 DEF InStep

LEMMA FlagInStep ==
  ASSUME TInv, OInv, SInv, NEW s \in Calls,
         ClientLeaves(s) \/ CloseOnce(s) \/ QueryFails(s)
  PROVE  \E d : /\ call' = [call EXCEPT ![s] = d]
                /\ InStep(d, last[s])
<1> DEFINE c == call[s]
<1>0. /\ Typed /\ c \in CallStates
      /\ Progress(c, last[s]) /\ Complete(c, last[s]) /\ Informed(c, last[s])
  BY DEF TInv, Typed, SInv, InStep
<1> PICK d \in CallStates :
      /\ call' = [call EXCEPT ![s] = d]
      /\ d.pc = c.pc /\ d.mode = c.mode
      /\ d.reg = c.reg /\ d.todo = c.todo
      /\ d.sender = c.sender /\ d.queue = c.queue
      /\ d.synced = c.synced /\ d.snap = c.snap
      /\ \/ /\ d.closed = c.closed /\ d.handler = c.handler /\ d.pc # "new"
         \/ d.closed /\ d.handler = "done" /\ c.handler = "close"
         \/ d.closed /\ d.handler = "failed" /\ c.handler = "query"
  BY <1>0, FlagFacts
<1> HIDE DEF c
<1>1. d.pc # "new"
  BY <1>0 DEF Progress, NotMade
<1>2. Progress(d, last[s])
  <2>1. c.pc # "new" /\ (c.mode = "STREAM" => c.handler # "close")
    BY <1>0, <1>1 DEF Progress
  <2> QED BY <1>0, <1>1, <2>1 DEF Progress
<1>3. Complete(d, last[s])
  BY <1>0 DEF Complete, Covered, NotQueried
<1>4. Informed(d, last[s])
  <2> SUFFICES ASSUME Live(d), NEW k \in Paths
               PROVE  /\ k \notin d.reg => /\ NoneQueued(d.queue, k)
                                           /\ d.pc = "register"
                      /\ k \in d.reg /\ ~Pending(k) => UpToDate(d, last[s], k)
    BY DEF Informed
  <2>1. Live(c)
    BY <1>0 DEF Live
  <2> QED BY <1>0, <2>1 DEF Informed, UpToDate, NotQueried
<1> QED BY <1>2, <1>3, <1>4 DEF InStep

LEMMA QueryInStep ==
  ASSUME TInv, OInv, SInv, NEW s \in Calls, Query(s)
  PROVE  \E d : /\ call' = [call EXCEPT ![s] = d]
                /\ InStep(d, last[s])
<1> DEFINE c == call[s]
<1>0. /\ Typed /\ c \in CallStates /\ c.queue \in Seq(Items)
      /\ Progress(c, last[s]) /\ Complete(c, last[s]) /\ Informed(c, last[s])
      /\ c.handler = "query" /\ c.todo \subseteq Paths
  BY LeafTypes DEF TInv, Typed, CallStates, SInv, InStep, Query
<1> PICK p \in c.todo, d \in CallStates :
      LET x == <<"state", tree["state"][p]>> IN
      /\ call' = [call EXCEPT ![s] = d]
      /\ d.todo = c.todo \ {p}
      /\ d.pc = c.pc /\ d.mode = c.mode
      /\ d.reg = c.reg /\ d.handler = c.handler
      /\ d.sender = c.sender /\ d.closed = c.closed
      /\ d.synced = c.synced /\ d.snap = c.snap
      /\ \/ tree["state"][p] = 0 /\ d.queue = c.queue
         \/ /\ tree["state"][p] # 0 /\ x \in Items
            /\ Grows(c.queue, d.queue, x)
            /\ ~d.closed /\ d.sender # "ended" =>
                  \E i \in DOMAIN d.queue : d.queue[i] = x
  BY <1>0, QueryFacts
<1> HIDE DEF c
<1>1. /\ p \in Paths /\ c.pc # "new"
      /\ c.mode = "STREAM" => c.pc # "register" /\ ~c.closed
      /\ c.mode = "STREAM" /\ c.sender # "ended"
            => ~c.synced /\ ~Queued(c.queue, Sync)
  BY <1>0 DEF Progress, NotMade
<1>2. \E x \in Items :
         /\ (Grows(c.queue, d.queue, x) /\ x # Sync) \/ d.queue = c.queue
         /\ IsState(x) => PathOf(x) = p
         /\ tree["state"][p] # 0 /\ ~d.closed /\ d.sender # "ended" =>
               Queued(d.queue, <<"state", tree["state"][p]>>)
  <2>1. CASE tree["state"][p] = 0
    <3>1. Sync \in Items /\ ~IsState(Sync)
      BY ItemFacts
    <3> QED BY <1>1, <2>1, <3>1
  <2>2. CASE tree["state"][p] # 0
    <3> DEFINE x == <<"state", tree["state"][p]>>
    <3>1. /\ x \in Items /\ Grows(c.queue, d.queue, x)
          /\ ~d.closed /\ d.sender # "ended" => Queued(d.queue, x)
      BY <2>2 DEF Queued
    <3>2. x # Sync
      BY DEF Sync
    <3>3. PathOf(x) = p
      BY <1>1, <2>2, NewSnap DEF PathOf, Newest
    <3> QED BY <3>1, <3>2, <3>3
  <2> QED BY <2>1, <2>2
<1> PICK x \in Items :
         /\ (Grows(c.queue, d.queue, x) /\ x # Sync) \/ d.queue = c.queue
         /\ IsState(x) => PathOf(x) = p
         /\ tree["state"][p] # 0 /\ ~d.closed /\ d.sender # "ended" =>
               Queued(d.queue, <<"state", tree["state"][p]>>)
  BY <1>2
<1>3. Grows(c.queue, d.queue, x)
      /\ (Queued(d.queue, Sync) => Queued(c.queue, Sync))
  BY SMTT(30), <1>0, GrowsQueued DEF Grows
<1>4. Progress(d, last[s])
  BY <1>0, <1>1, <1>3 DEF Progress
<1>5. Complete(d, last[s])
  <2> SUFFICES ASSUME d.mode = "STREAM", NEW k \in Paths, d.snap[k] # 0,
                      tree["state"][k] = d.snap[k]
               PROVE  Covered(d, last[s], k)
    BY <1>0 DEF Complete
  <2>1. Covered(c, last[s], k) /\ c.sender # "ended"
    BY <1>0 DEF Complete, Progress
  <2>2. CASE k = p
    <3>1. Queued(d.queue, <<"state", d.snap[k]>>)
      BY <1>1, <2>1, <2>2
    <3>2. QueuedBeforeSync(d.queue, <<"state", d.snap[k]>>)
      BY <1>1, <1>3, <2>1, <3>1 DEF Queued, QueuedBeforeSync
    <3> QED BY <1>1, <2>1, <3>2 DEF Covered
  <2>3. CASE k # p
    <3>1. NotQueried(c, k) => NotQueried(d, k)
      BY <2>3 DEF NotQueried
    <3> QED BY <1>0, <1>3, <2>1, <3>1, GrowsCovered
  <2> QED BY <2>2, <2>3
<1>6. Informed(d, last[s])
  <2> SUFFICES ASSUME Live(d), NEW k \in Paths
               PROVE  /\ k \notin d.reg => /\ NoneQueued(d.queue, k)
                                           /\ d.pc = "register"
                      /\ k \in d.reg /\ ~Pending(k) => UpToDate(d, last[s], k)
    BY DEF Informed
  <2>1. Live(c) /\ d.pc = "wait" /\ d.reg = Paths /\ ~d.closed
        /\ d.sender # "ended"
    BY <1>0, <1>1 DEF Live, Progress
  <2>2. ASSUME ~Pending(k) PROVE UpToDate(d, last[s], k)
    <3>1. UpToDate(c, last[s], k)
      BY <1>0, <2>1, <2>2 DEF Informed
    <3>2. CASE k = p /\ tree["state"][p] # 0
      BY <1>1, <2>1, <3>2, NewSnap DEF UpToDate
    <3>3. CASE k = p /\ tree["state"][p] = 0
      <4>1. d.queue = c.queue
        BY <3>3
      <4> QED BY <3>1, <3>3, <4>1 DEF UpToDate
    <3>4. CASE k # p
      <4>1. NotQueried(c, k) => NotQueried(d, k)
        BY <3>4 DEF NotQueried
      <4> QED BY <1>0, <1>3, <3>1, <3>4, <4>1, GrowsUpToDate
    <3> QED BY <3>2, <3>3, <3>4
  <2> QED BY <2>1, <2>2
<1> QED BY <1>4, <1>5, <1>6 DEF InStep

LEMMA QueryDoneInStep ==
  ASSUME TInv, OInv, SInv, NEW s \in Calls, QueryDone(s)
  PROVE  \E d : /\ call' = [call EXCEPT ![s] = d]
                /\ InStep(d, last[s])
<1> DEFINE c == call[s]
<1>0. /\ Typed /\ c \in CallStates /\ c.queue \in Seq(Items)
      /\ Progress(c, last[s]) /\ Complete(c, last[s]) /\ Informed(c, last[s])
      /\ c.handler = "query" /\ c.todo = {}
  BY LeafTypes DEF TInv, Typed, CallStates, SInv, InStep, QueryDone
<1> PICK d \in CallStates :
      /\ call' = [call EXCEPT ![s] = d]
      /\ d.handler = "done" /\ d.todo = {}
      /\ d.pc = c.pc /\ d.mode = c.mode
      /\ d.reg = c.reg
      /\ d.sender = c.sender /\ d.closed = c.closed
      /\ d.synced = c.synced /\ d.snap = c.snap
      /\ Grows(c.queue, d.queue, Sync)
  BY <1>0, QueryDoneFacts
<1> HIDE DEF c
<1>1. /\ c.pc # "new" /\ Sync \in Items /\ ~IsState(Sync)
      /\ c.mode = "STREAM" => c.pc # "register" /\ ~c.closed
  BY <1>0, ItemFacts DEF Progress, NotMade
<1>2. Progress(d, last[s])
  BY <1>0, <1>1 DEF Progress
<1>3. \A k : NotQueried(c, k) => NotQueried(d, k)
  BY <1>0 DEF NotQueried
<1>4. Complete(d, last[s])
  BY <1>0, <1>1, <1>3, GrowsCovered DEF Complete
<1>5. Informed(d, last[s])
  <2> SUFFICES ASSUME Live(d), NEW k \in Paths
               PROVE  /\ k \notin d.reg => /\ NoneQueued(d.queue, k)
                                           /\ d.pc = "register"
                      /\ k \in d.reg /\ ~Pending(k) => UpToDate(d, last[s], k)
    BY DEF Informed
  <2>1. Live(c) /\ d.pc = "wait" /\ d.reg = Paths
    BY <1>0, <1>1 DEF Live, Progress
  <2>2. ~Pending(k) => UpToDate(c, last[s], k)
    BY <1>0, <2>1 DEF Informed
  <2> QED BY <1>0, <1>1, <1>3, <2>1, <2>2, GrowsUpToDate
<1> QED BY <1>2, <1>4, <1>5 DEF InStep

LEMMA SendInStep ==
  ASSUME TInv, OInv, SInv, NEW s \in Calls, Send(s)
  PROVE  \E d, e : /\ call' = [call EXCEPT ![s] = d]
                   /\ last' = [last EXCEPT ![s] = e]
                   /\ InStep(d, e)
<1> DEFINE c == call[s]
           q == c.queue
           x == q[1]
           sent == last[s]
           e == IF IsState(x)
                THEN [sent EXCEPT ![PathOf(x)] =
                        [ver |-> VerOf(x), del |-> leaf[x[2]].del]]
                ELSE sent
<1>0. /\ Typed /\ Numbered /\ c \in CallStates /\ q \in Seq(Items)
      /\ Progress(c, sent) /\ Complete(c, sent) /\ Informed(c, sent)
      /\ Ordered(q, sent) /\ SentWritten(sent) /\ sent \in SentStates
      /\ q # <<>> /\ x \in Items /\ c.sender = "run"
      /\ c.snap \in [Paths -> 0 .. MaxSets]
  BY LeafTypes, SendFacts
     DEF TInv, Typed, SInv, InStep, OInv, CacheInv, SentStates
<1> PICK d \in CallStates :
      /\ call' = [call EXCEPT ![s] = d] /\ d.queue = Tail(q)
      /\ d.pc = c.pc /\ d.mode = c.mode
      /\ d.reg = c.reg /\ d.todo = c.todo
      /\ d.handler = c.handler
      /\ d.sender = c.sender /\ d.closed = c.closed
      /\ d.snap = c.snap
      /\ d.synced = (c.synced \/ x = Sync)
  BY <1>0, SendFacts
<1>1. last' = [last EXCEPT ![s] = e]
  <2>1. CASE IsState(x)
    BY <1>0, <2>1, SendFacts
  <2>2. CASE ~IsState(x)
    <3>1. last' = last /\ e = last[s]
      BY <1>0, <2>2, SendFacts
    <3> HIDE DEF e
    <3> QED BY <1>0, <3>1 DEF Typed
  <2> QED BY <2>1, <2>2
<1> HIDE DEF c, q, sent
<1>2. IsState(x) => x[2] \in Sets /\ PathOf(x) \in Paths /\ x = <<"state", x[2]>>
  <2>1. IsState(x) => x # Sync /\ x[1] = "state"
    BY ItemFacts DEF IsState
  <2> HIDE DEF x
  <2>2. IsState(x) => x[2] \in Sets /\ x = <<"state", x[2]>>
    BY <1>0, <2>1, ItemFacts
  <2> QED BY <1>0, <2>2 DEF Typed, PathOf
<1>3. \A k \in Paths :
         /\ e[k].ver >= sent[k].ver
         /\ sent[k].ver \in Nat /\ e[k].ver \in Nat /\ c.snap[k] \in Nat
  <2>1. \A k \in Paths : e[k].ver >= sent[k].ver
    <3> HIDE DEF e
    <3> QED BY <1>0, TailOrdered DEF e, x, SentStates
  <2>2. \A k \in Paths : sent[k].ver \in Nat /\ c.snap[k] \in Nat
    BY <1>0 DEF SentStates
  <2>3. IsState(x) => VerOf(x) \in Nat
    BY <1>0, <1>2 DEF Typed, VerOf
  <2> HIDE DEF x
  <2>4. \A k \in Paths : e[k].ver \in Nat
    BY <1>0, <1>2, <2>2, <2>3 DEF SentStates
  <2> QED BY <2>1, <2>2, <2>4
<1>4. \A k \in Paths :
         IF IsState(x) /\ PathOf(x) = k
         THEN e[k].ver = VerOf(x) /\ e[k].del = leaf[x[2]].del
         ELSE e[k] = sent[k]
  <2> HIDE DEF x
  <2> QED BY <1>0, <1>2 DEF SentStates
<1> HIDE DEF e, x
<1>5. Progress(d, e)
  <2>1. c.pc # "new"
    BY <1>0 DEF Progress, NotMade
  <2>2. Queued(d.queue, Sync) \/ x = Sync => Queued(q, Sync)
    BY <1>0, TailQueued DEF x
  <2> QED BY <1>0, <2>1, <2>2 DEF Progress, q
<1>6. Complete(d, e)
  <2> SUFFICES ASSUME d.mode = "STREAM", NEW k \in Paths, d.snap[k] # 0,
                      tree["state"][k] = d.snap[k]
               PROVE  Covered(d, e, k)
    BY <1>0 DEF Complete
  <2> DEFINE y == <<"state", c.snap[k]>>
  <2>1. Covered(c, sent, k)
    BY <1>0 DEF Complete
  <2>2. CASE NotQueried(c, k)
    BY <2>2 DEF Covered, NotQueried
  <2>3. CASE sent[k].ver >= c.snap[k]
    BY <1>3, <2>3 DEF Covered
  <2>4. CASE ~c.synced /\ QueuedBeforeSync(q, y)
    <3>1. x # Sync /\ (x = y \/ QueuedBeforeSync(Tail(q), y))
      <4>1. y # Sync
        BY DEF Sync
      <4> HIDE DEF y
      <4> QED BY <1>0, <2>4, <4>1, TailQueued DEF x
    <3>2. CASE x = y
      <4>1. /\ Newest(c.snap[k], k) /\ c.snap[k] \in Sets
            /\ leaf[c.snap[k]].ver # 0
        BY NewSnap
      <4>2. IsState(x) /\ PathOf(x) = k /\ VerOf(x) = leaf[c.snap[k]].ver
        BY <3>2, <4>1 DEF IsState, PathOf, VerOf, Newest
      <4>3. e[k].ver = leaf[c.snap[k]].ver
        BY <1>4, <4>2
      <4>4. e[k].ver >= c.snap[k]
        BY <1>0, <1>3, <4>1, <4>3 DEF Numbered
      <4> QED BY <4>4 DEF Covered
    <3>3. CASE QueuedBeforeSync(Tail(q), y)
      BY <2>4, <3>1, <3>3 DEF Covered
    <3> QED BY <3>1, <3>2, <3>3
  <2> QED BY <2>1, <2>2, <2>3, <2>4 DEF Covered, q
<1>7. Informed(d, e)
  <2> SUFFICES ASSUME Live(d), NEW k \in Paths
               PROVE  /\ k \notin d.reg => /\ NoneQueued(d.queue, k)
                                           /\ d.pc = "register"
                      /\ k \in d.reg /\ ~Pending(k) => UpToDate(d, e, k)
    BY DEF Informed
  <2>1. Live(c)
    BY <1>0 DEF Live
  <2>2. NoneQueued(q, k) =>
           /\ NoneQueued(d.queue, k) /\ ~(IsState(x) /\ PathOf(x) = k)
    BY <1>0, TailQueued DEF x
  <2>3. ASSUME k \in c.reg, ~Pending(k) PROVE UpToDate(d, e, k)
    <3>1. UpToDate(c, sent, k)
      BY <1>0, <2>1, <2>3 DEF Informed
    <3>2. CASE NoneQueued(q, k)
      <4>1. e[k] = sent[k] /\ NoneQueued(d.queue, k)
        BY <1>4, <2>2, <3>2
      <4>2. ~\E l \in Sets : Newest(l, k) /\ Queued(q, <<"state", l>>)
        BY <3>2 DEF NoneQueued, Queued, Newest, IsState, PathOf
      <4> QED BY <3>1, <4>1, <4>2 DEF UpToDate, NotQueried, q
    <3>3. CASE ~NoneQueued(q, k)
      <4> PICK l \in Sets : Newest(l, k) /\ Queued(q, <<"state", l>>)
        BY <3>1, <3>3 DEF UpToDate, q
      <4> DEFINE y == <<"state", l>>
      <4>1. CASE x = y
        <5>1. IsState(x) /\ PathOf(x) = k /\ VerOf(x) = leaf[l].ver /\ x[2] = l
          BY <4>1 DEF IsState, PathOf, VerOf, Newest
        <5>2. NoneQueued(Tail(q), k)
          BY <1>0, <5>1, NewestIsLast DEF x
        <5>3. e[k].ver = leaf[l].ver /\ e[k].del = leaf[l].del
          BY <1>4, <5>1
        <5> QED BY <5>2, <5>3 DEF UpToDate
      <4>2. CASE x # y
        <5> HIDE DEF y
        <5>1. Queued(Tail(q), y)
          BY <1>0, <4>2, TailQueued DEF x, y
        <5> QED BY <5>1 DEF UpToDate, y
      <4> QED BY <4>1, <4>2
    <3> QED BY <3>2, <3>3
  <2>4. k \notin c.reg => NoneQueued(q, k) /\ c.pc = "register"
    BY <1>0, <2>1 DEF Informed, q
  <2> QED BY <2>2, <2>3, <2>4
<1> QED BY <1>1, <1>5, <1>6, <1>7 DEF InStep

LEMMA EndInStep ==
  ASSUME TInv, OInv, SInv, NEW s \in Calls, SendFails(s) \/ SenderEnds(s)
  PROVE  \E d, e : /\ call' = [call EXCEPT ![s] = d]
                   /\ last' = [last EXCEPT ![s] = e]
                   /\ InStep(d, e)
<1> DEFINE c == call[s]
           e == [p \in Paths |-> NotSent]
<1>0. /\ Typed /\ Progress(c, last[s]) /\ c.sender = "run"
      /\ last' = [last EXCEPT ![s] = e]
  BY EndFacts DEF TInv, SInv, InStep
<1> PICK d \in CallStates :
      /\ call' = [call EXCEPT ![s] = d] /\ d.sender = "ended"
      /\ d.queue = <<>> /\ d.snap = [p \in Paths |-> 0]
      /\ d.pc = c.pc /\ d.mode = c.mode
      /\ d.reg = c.reg /\ d.todo = c.todo
      /\ d.handler = c.handler
      /\ d.closed = c.closed
  BY <1>0, EndFacts
<1> HIDE DEF c, e
<1>1. Progress(d, e)
  <2>1. c.pc # "new" /\ (c.mode = "STREAM" => c.pc # "register")
    BY <1>0 DEF Progress, NotMade
  <2> QED BY <1>0, <2>1 DEF Progress
<1>2. Complete(d, e) /\ Informed(d, e)
  BY DEF Complete, Informed, Live
<1> QED BY <1>0, <1>1, <1>2 DEF InStep

(* A step of one call leaves the others in step.                           *)
LEMMA OneCallInStep ==
  ASSUME TInv, SInv, UNCHANGED cacheVars, NEW s \in Calls, NEW d, NEW e,
         call' = [call EXCEPT ![s] = d], last' = [last EXCEPT ![s] = e],
         InStep(d, e)
  PROVE  SInv'
<1>1. /\ \A r \in Calls \ {s} : call'[r] = call[r] /\ last'[r] = last[r]
      /\ call'[s] = d /\ last'[s] = e
  BY DEF TInv, Typed
<1>2. \A r \in Calls : InStep(call'[r], last'[r])
  BY <1>1 DEF SInv
<1>3. leaf' = leaf /\ tree' = tree /\ set' = set
  BY DEF cacheVars
<1>4. ASSUME NEW r \in Calls PROVE InStep(call[r], last[r])'
  <2>1. InStep(call'[r], last'[r])
    BY <1>2
  <2>2. Progress(call[r], last[r])'
    BY <2>1 DEF InStep, Progress, Queued
  <2>3. Complete(call[r], last[r])'
    BY <1>3, <2>1 DEF InStep, Complete, Covered, NotQueried, QueuedBeforeSync
  <2>4. \A x : /\ IsState(x)' <=> IsState(x)
               /\ PathOf(x)' = PathOf(x)
    BY <1>3 DEF IsState, PathOf
  <2>5. \A l, p : Newest(l, p)' <=> Newest(l, p)
    BY <1>3, NewestKept
  <2>6. \A p : Pending(p)' <=> Pending(p)
    BY <1>3 DEF Pending
  <2>7. Informed(call[r], last[r])'
    BY SMTT(30), <1>3, <2>1, <2>4, <2>5, <2>6
       DEF InStep, Informed, Live, UpToDate, NoneQueued, NotQueried, Queued,
           IsState
  <2> QED BY <2>2, <2>3, <2>7 DEF InStep
<1> QED BY <1>4 DEF SInv

LEMMA CallSInv ==
  ASSUME TInv, OInv, SInv, NEW s \in Calls,
         \/ Begin(s) \/ ClientLeaves(s) \/ QueryFails(s)
         \/ CallStep(s) \/ HandlerStep(s) \/ SenderStep(s)
  PROVE  SInv'
<1>1. CASE \/ Begin(s) \/ ClientLeaves(s) \/ QueryFails(s)
           \/ CallStep(s) \/ HandlerStep(s)
  <2>1. \E d : call' = [call EXCEPT ![s] = d] /\ InStep(d, last[s])
    BY <1>1, BeginInStep, RegisterInStep, LaunchInStep, FlagInStep,
       QueryInStep, QueryDoneInStep DEF CallStep, HandlerStep
  <2>2. UNCHANGED <<cacheVars, last>>
    BY <1>1 DEF Begin, ClientLeaves, QueryFails, CallStep, Register, Launch,
                HandlerStep, CloseOnce, Query, QueryDone
  <2>3. last' = [last EXCEPT ![s] = last[s]]
    BY <2>2 DEF TInv, Typed
  <2> QED BY <2>1, <2>2, <2>3, OneCallInStep
<1>2. CASE SenderStep(s)
  <2>1. \E d, e : /\ call' = [call EXCEPT ![s] = d]
                  /\ last' = [last EXCEPT ![s] = e] /\ InStep(d, e)
    BY <1>2, SendInStep, EndInStep DEF SenderStep
  <2>2. UNCHANGED cacheVars
    BY <1>2 DEF SenderStep, Send, SendFails, SenderEnds
  <2> QED BY <2>1, <2>2, OneCallInStep
<1> QED BY <1>1, <1>2

(* What a call is told keeps it in step, and up to date about the path.    *)
LEMMA TellInStep ==
  ASSUME TInv, OInv, SInv, NEW c \in Caches, NEW p \in Paths, NEW l \in Sets,
         Tell(c, p, l), c = "state" => Newest(l, p), NEW s \in Calls
  PROVE  LET d == call'[s] IN
         /\ Progress(d, last[s]) /\ Complete(d, last[s])
         /\ Live(d) => \A k \in Paths :
               /\ k \notin d.reg => NoneQueued(d.queue, k) /\ d.pc = "register"
               /\ k \in d.reg /\ (~Pending(k) \/ (c = "state" /\ k = p))
                     => UpToDate(d, last[s], k)
<1> DEFINE x == <<c, l>>
<1>0. /\ Typed /\ call[s].queue \in Seq(Items)
      /\ Progress(call[s], last[s]) /\ Complete(call[s], last[s])
      /\ Informed(call[s], last[s])
  BY LeafTypes DEF TInv, SInv, InStep
<1>1. /\ SameButQueue(call[s], call'[s])
      /\ p \notin call[s].reg => call'[s] = call[s]
      /\ Grows(call[s].queue, call'[s].queue, x)
      /\ p \in call[s].reg /\ ~call[s].closed /\ call[s].sender # "ended"
         => Queued(call'[s].queue, x)
  BY <1>0, TellFacts DEF Queued
<1>2. x \in Items /\ x # Sync /\ (IsState(x) <=> c = "state")
      /\ (c = "state" => PathOf(x) = p)
  BY ItemFacts DEF IsState, PathOf, Newest
<1> PICK d : d = call'[s]
  OBVIOUS
<1> HIDE DEF x
<1>3. /\ d.pc = call[s].pc /\ d.mode = call[s].mode /\ d.reg = call[s].reg
      /\ d.todo = call[s].todo /\ d.handler = call[s].handler
      /\ d.sender = call[s].sender /\ d.closed = call[s].closed
      /\ d.synced = call[s].synced /\ d.snap = call[s].snap
      /\ Grows(call[s].queue, d.queue, x)
      /\ Queued(d.queue, Sync) => Queued(call[s].queue, Sync)
      /\ \A k : NotQueried(call[s], k) => NotQueried(d, k)
  BY <1>0, <1>1, <1>2, GrowsQueued DEF SameButQueue, NotQueried
<1>4. Progress(d, last[s])
  <2>1. CASE call[s].pc = "new"
    <3>1. call[s].reg = {}
      BY <1>0, <2>1 DEF Progress, NotMade
    <3> QED BY <1>0, <1>1, <3>1
  <2>2. CASE call[s].pc # "new"
    BY <1>0, <1>3, <2>2 DEF Progress
  <2> QED BY <2>1, <2>2
<1>5. Complete(d, last[s])
  BY <1>0, <1>2, <1>3, GrowsCovered DEF Complete
<1>6. ASSUME Live(d), NEW k \in Paths, k \notin d.reg
      PROVE  NoneQueued(d.queue, k) /\ d.pc = "register"
  <2>1. NoneQueued(call[s].queue, k) /\ d.pc = "register"
    BY <1>0, <1>3, <1>6 DEF Informed, Live
  <2>2. CASE k = p
    BY <1>1, <1>3, <1>6, <2>1, <2>2
  <2>3. CASE k # p
    BY <1>0, <1>2, <1>3, <2>1, <2>3, GrowsQueued
  <2> QED BY <2>1, <2>2, <2>3
<1>7. ASSUME Live(d), NEW k \in Paths, k \in d.reg,
             ~Pending(k) \/ (c = "state" /\ k = p)
      PROVE  UpToDate(d, last[s], k)
  <2>1. CASE c = "state" /\ k = p
    <3>1. ~call[s].closed /\ call[s].sender # "ended"
      BY <1>0, <1>3, <1>7 DEF Progress, Live
    <3>2. Queued(d.queue, <<"state", l>>)
      BY <1>1, <1>3, <1>7, <2>1, <3>1 DEF x
    <3> QED BY <2>1, <3>2 DEF UpToDate
  <2>2. CASE ~(c = "state" /\ k = p)
    <3>1. UpToDate(call[s], last[s], k)
      BY <1>0, <1>3, <1>7, <2>2 DEF Informed, Live
    <3>2. ~(IsState(x) /\ PathOf(x) = k)
      BY <1>2, <2>2
    <3> QED BY <1>0, <1>2, <1>3, <3>1, <3>2, GrowsUpToDate
  <2> QED BY <2>1, <2>2
<1> QED BY <1>4, <1>5, <1>6, <1>7

(* A step that leaves the state cache alone.                               *)
LEMMA KeptInStep ==
  ASSUME leaf' = leaf, tree'["state"] = tree["state"], NEW s \in Calls,
         Progress(call'[s], last'[s]), Complete(call'[s], last'[s]),
         Live(call'[s]) => \A k \in Paths :
            /\ k \notin call'[s].reg =>
                  NoneQueued(call'[s].queue, k) /\ call'[s].pc = "register"
            /\ k \in call'[s].reg /\ ~Pending(k)'
                  => UpToDate(call'[s], last'[s], k)
  PROVE  InStep(call[s], last[s])'
<1>1. Progress(call[s], last[s])'
  BY DEF Progress, Queued
<1>2. Complete(call[s], last[s])'
  BY DEF Complete, Covered, NotQueried, QueuedBeforeSync
<1>3. \A x : /\ IsState(x)' <=> IsState(x)
             /\ PathOf(x)' = PathOf(x)
  BY DEF IsState, PathOf
<1>4. \A l, p : Newest(l, p)' <=> Newest(l, p)
  BY NewestKept
<1>5. Informed(call[s], last[s])'
  <2> SUFFICES ASSUME Live(call'[s]), NEW k \in Paths
               PROVE  /\ k \notin call'[s].reg =>
                            /\ NoneQueued(call[s].queue, k)'
                            /\ call'[s].pc = "register"
                      /\ k \in call'[s].reg /\ ~Pending(k)'
                            => UpToDate(call[s], last[s], k)'
    BY DEF Informed, Live
  <2>1. NoneQueued(call'[s].queue, k) => NoneQueued(call[s].queue, k)'
    BY <1>3 DEF NoneQueued, IsState
  <2>2. UpToDate(call'[s], last'[s], k) => UpToDate(call[s], last[s], k)'
    BY <1>3, <1>4 DEF UpToDate, NoneQueued, NotQueried, Queued, IsState
  <2> QED BY <2>1, <2>2
<1> QED BY <1>1, <1>2, <1>5 DEF InStep

(* A write: a call is up to date about the other paths, and about this one *)
(* it will be told.                                                        *)
LEMMA WritesInStep ==
  ASSUME TInv, OInv, SInv, NEW l, NEW p, NEW n, NEW del, Writes(l, p, n, del),
         Pending(p)', \A k \in Paths : ~Pending(k),
         UNCHANGED <<call, last>>, NEW s \in Calls
  PROVE  InStep(call[s], last[s])'
<1> PICK c : c = call[s]
  OBVIOUS
<1> PICK sent : sent = last[s]
  OBVIOUS
<1>0. /\ leaf'[l] = [path |-> p, ver |-> n, del |-> del]
      /\ \A m \in Sets \ {l} : leaf'[m] = leaf[m]
      /\ \A k \in Paths \ {p} : \A m : Newest(m, k)' <=> Newest(m, k)
      /\ \A k \in Paths \ {p} : tree'["state"][k] = tree["state"][k]
      /\ tree'["state"][p] = IF del THEN 0 ELSE l
      /\ leaf[l].ver # 0 => Newest(l, p)
  BY WritesNewest DEF TInv, OInv
<1>1. /\ Progress(c, sent) /\ Complete(c, sent) /\ Informed(c, sent)
      /\ c.queue \in Seq(Items) /\ Ordered(c.queue, sent)
      /\ n \in Nat \ {0} /\ l \in Sets /\ p \in Paths
      /\ (l = n /\ leaf[n].ver = 0) \/ (l = tree["state"][p] /\ ~del)
  BY LeafTypes DEF TInv, OInv, SInv, InStep, Writes
<1>2. \A i \in DOMAIN c.queue : IsState(c.queue[i]) =>
         PathOf(c.queue[i])' = PathOf(c.queue[i])
  <2> SUFFICES ASSUME NEW i \in DOMAIN c.queue, IsState(c.queue[i])
               PROVE  PathOf(c.queue[i])' = PathOf(c.queue[i])
    OBVIOUS
  <2> DEFINE x == c.queue[i]
  <2>1. x \in Items /\ VerOf(x) # 0
    BY <1>1 DEF Ordered
  <2>2. x[2] \in Sets
    BY <2>1, ItemFacts DEF IsState
  <2>3. x[2] = l => leaf[l].path = p
    BY <1>0, <2>1 DEF VerOf, Newest
  <2> QED BY <1>0, <2>2, <2>3 DEF PathOf
<1>3. Complete(c, sent)'
  <2> SUFFICES ASSUME c.mode = "STREAM", NEW k \in Paths, c.snap[k] # 0
               PROVE  /\ leaf'[c.snap[k]].ver # 0
                      /\ tree'["state"][k] = c.snap[k] => Covered(c, sent, k)
    BY <1>1 DEF Complete, Covered, NotQueried, QueuedBeforeSync
  <2>1. /\ c.snap[k] \in Sets /\ leaf[c.snap[k]].ver # 0
        /\ tree["state"][k] = c.snap[k] => Covered(c, sent, k)
    BY <1>1 DEF Complete
  <2>2. leaf'[c.snap[k]].ver # 0
    BY <1>0, <1>1, <2>1
  <2>3. tree'["state"][k] = c.snap[k] => tree["state"][k] = c.snap[k]
    BY <1>0, <1>1, <2>1
  <2> QED BY <2>1, <2>2, <2>3
<1>4. Informed(c, sent)'
  <2> SUFFICES ASSUME Live(c), NEW k \in Paths
               PROVE  /\ k \notin c.reg =>
                            NoneQueued(c.queue, k)' /\ c.pc = "register"
                      /\ k \in c.reg /\ ~Pending(k)' => UpToDate(c, sent, k)'
    BY DEF Informed, Live
  <2>1. NoneQueued(c.queue, k) => NoneQueued(c.queue, k)'
    BY <1>2 DEF NoneQueued, IsState
  <2>2. ASSUME k \in c.reg, ~Pending(k)' PROVE UpToDate(c, sent, k)'
    <3>1. k # p /\ UpToDate(c, sent, k)
      BY <1>1, <2>2 DEF Informed
    <3>2. \A m \in Sets : Newest(m, k) => Newest(m, k)' /\ leaf'[m] = leaf[m]
      <4>1. \A m \in Sets : Newest(m, k)' => m # l
        BY <1>0, <3>1 DEF Newest
      <4> QED BY <1>0, <3>1, <4>1
    <3>3. tree'["state"][k] = tree["state"][k]
      BY <1>0, <3>1
    <3> QED BY <2>1, <3>1, <3>2, <3>3 DEF UpToDate, Queued, NotQueried
  <2>3. k \notin c.reg => NoneQueued(c.queue, k) /\ c.pc = "register"
    BY <1>1 DEF Informed
  <2> QED BY <2>1, <2>2, <2>3
<1>5. Progress(c, sent)'
  BY <1>1 DEF Progress, Queued
<1>6. InStep(c, sent)'
  BY <1>3, <1>4, <1>5 DEF InStep
<1> QED
  BY ZenonT(30), <1>6
  DEF InStep, Progress, Complete, Informed, Covered, NotQueried, Queued,
      QueuedBeforeSync, Live, UpToDate, NoneQueued

LEMMA SetterSInv ==
  ASSUME TInv, OInv, SInv, OneAtATime, NEW w \in Setters,
         WriteConfig(w) \/ SetFails(w) \/ SetStep(w)
  PROVE  SInv'
<1>0. Typed /\ Setters = {w} /\ set \in [Setters -> SetStates]
      /\ \A k : Pending(k) => set[w].pc = "tellState" /\ k = set[w].path
  BY DEF TInv, Typed, SetStates, OneAtATime, Pending
<1>1. CASE WriteConfig(w)
  <2>1. UNCHANGED <<leaf, last>> /\ \A k : ~Pending(k)
    BY <1>0, <1>1, WriteConfigFacts
  <2> PICK p \in Paths, del \in BOOLEAN, l \in Sets :
        /\ Tell("config", p, l)
        /\ tree' = [tree EXCEPT !["config"][p] = IF del THEN 0 ELSE l]
    BY <1>1, WriteConfigFacts
  <2>2. tree'["state"] = tree["state"]
    BY <1>0 DEF Typed, Caches
  <2>3. "config" \in Caches /\ "config" # "state"
    BY DEF Caches
  <2>4. ASSUME NEW s \in Calls PROVE InStep(call[s], last[s])'
    BY <2>1, <2>2, <2>3, TellInStep, KeptInStep
  <2> QED BY <2>4 DEF SInv
<1>2. CASE TellState(w)
  <2>1. /\ UNCHANGED <<tree, leaf, last>>
        /\ set[w].n \in Sets /\ set[w].path \in Paths
        /\ Newest(set[w].n, set[w].path)
        /\ Tell("state", set[w].path, set[w].n)
    BY <1>2, TellStateFacts DEF OInv, CacheInv, SetsInOrder
  <2>2. "state" \in Caches
    BY DEF Caches
  <2>3. ASSUME NEW s \in Calls PROVE InStep(call[s], last[s])'
    BY <1>0, <2>1, <2>2, <2>3, TellInStep, KeptInStep
  <2> QED BY <2>3 DEF SInv
<1>3. CASE \/ SetFails(w)
           \/ WriteState(w) /\ tree' = tree /\ leaf' = leaf
  <2>1. UNCHANGED <<tree, leaf, call, last>> /\ \A k : ~Pending(k)
    BY <1>0, <1>3 DEF SetFails, WriteState
  <2>2. ASSUME NEW s \in Calls PROVE InStep(call[s], last[s])'
    <3>1. /\ Progress(call'[s], last'[s]) /\ Complete(call'[s], last'[s])
          /\ Informed(call'[s], last'[s])
      BY <2>1 DEF SInv, InStep
    <3> QED BY <2>1, <3>1, KeptInStep DEF Informed
  <2> QED BY <2>2 DEF SInv
<1>4. CASE WriteState(w) /\ (tree' # tree \/ leaf' # leaf)
  <2> PICK l \in Sets, p \in Paths, n \in Sets, del \in BOOLEAN :
        /\ Writes(l, p, n, del)
        /\ set' = [set EXCEPT ![w] =
              [pc |-> "tellState", n |-> l, path |-> p, del |-> del]]
    BY <1>4, WriteStateWrites DEF OInv
  <2>1. UNCHANGED <<call, last>> /\ \A k : ~Pending(k)
    BY <1>0, <1>4 DEF WriteState
  <2>2. Pending(p)'
    BY <1>0 DEF Pending
  <2>3. ASSUME NEW s \in Calls PROVE InStep(call[s], last[s])'
    BY <2>1, <2>2, WritesInStep
  <2> QED BY <2>3 DEF SInv
<1> QED BY <1>1, <1>2, <1>3, <1>4 DEF SetStep

LEMMA StutterSInv ==
  ASSUME TInv, OInv, SInv, UNCHANGED vars PROVE SInv'
<1>1. UNCHANGED <<tree, leaf, set, call, last>>
  BY DEF vars, cacheVars
<1>2. ASSUME NEW s \in Calls PROVE InStep(call[s], last[s])'
  <2>1. /\ Progress(call'[s], last'[s]) /\ Complete(call'[s], last'[s])
        /\ Informed(call'[s], last'[s])
    BY <1>1 DEF SInv, InStep
  <2>2. \A k : Pending(k)' <=> Pending(k)
    BY <1>1 DEF Pending
  <2> QED BY <1>1, <2>1, <2>2, KeptInStep DEF Informed
<1> QED BY <1>2 DEF SInv

LEMMA InitSInv == Init => SInv
<1> SUFFICES ASSUME Init, NEW s \in Calls PROVE InStep(call[s], last[s])
  BY DEF SInv
<1>1. call[s] = NotMade /\ \A p \in Paths : last[s][p] = NotSent
  BY DEF Init
<1>2. NotMade.sender = "none" /\ NotMade.mode = "POLL"
  BY DEF NotMade
<1> QED BY <1>1, <1>2 DEF InStep, Progress, Complete, Informed, Live

LEMMA StepSInv ==
  TInv /\ OInv /\ SInv /\ OneAtATime /\ [Next]_vars => SInv'
BY StutterSInv, CallSInv, SetterSInv DEF Next

LEMMA AllInStep == ASSUME OneAtATime PROVE Spec => [](TInv /\ OInv /\ SInv)
<1>1. TInv /\ OInv /\ SInv /\ [Next]_vars => SInv'
  BY StepSInv
<1> QED BY <1>1, InOrder, InitSInv, PTL DEF Spec

----------------------------------------------------------------------------
(* Where Sets come one at a time, the sync marker comes after every leaf   *)
(* that was in the state cache when the call began and still is, whatever  *)
(* is written, deleted, told and coalesced meanwhile                       *)
(* (subscribe.go:163-184).                                                 *)
THEOREM SyncMeansCompleteHolds ==
  ASSUME OneAtATime PROVE Spec => []SyncMeansComplete
<1>1. TInv /\ SInv => SyncMeansComplete
  <2> SUFFICES ASSUME TInv, SInv, NEW s \in Calls, NEW p \in Paths,
                      call[s].mode = "STREAM", call[s].synced,
                      call[s].snap[p] # 0, tree["state"][p] = call[s].snap[p]
               PROVE  last[s][p].ver >= call[s].snap[p]
    BY DEF SyncMeansComplete
  <2>1. Progress(call[s], last[s]) /\ Covered(call[s], last[s], p)
    BY DEF SInv, InStep, Complete
  <2> QED BY <2>1 DEF Progress, Covered, NotQueried
<1> QED BY <1>1, AllInStep, PTL

(* Where Sets come one at a time, no change falls between the registration *)
(* of a STREAM and its initial query, or is lost in the coalescing: what   *)
(* was sent and what is queued leave the client with what the state cache  *)
(* holds (subscribe.go:92-96, 150-185).                                    *)
THEOREM NothingMissedHolds ==
  ASSUME OneAtATime PROVE Spec => []NothingMissed
<1>1. TInv /\ OInv /\ SInv => NothingMissed
  <2> SUFFICES ASSUME TInv, OInv, SInv, NEW s \in Calls, NEW p \in Paths,
                      Served(s), p \notin call[s].todo,
                      \A w \in Setters :
                         set[w].pc = "tellState" => set[w].path # p
               PROVE  Outcome(s, p) = Current(p)
    BY DEF NothingMissed
  <2> DEFINE q == call[s].queue
             about == {i \in DOMAIN q : /\ q[i][1] = "state"
                                        /\ leaf[q[i][2]].path = p}
  <2>1. UpToDate(call[s], last[s], p) /\ ~NotQueried(call[s], p)
    <3>1. /\ Progress(call[s], last[s]) /\ Informed(call[s], last[s])
          /\ Live(call[s]) /\ ~Pending(p)
      BY DEF SInv, InStep, Served, Live, Pending
    <3> QED BY <3>1 DEF Progress, Informed, Live, Served, NotQueried
  <2>2. ASSUME NEW l \in Sets, Newest(l, p)
        PROVE  /\ ~leaf[l].del => Current(p) = leaf[l].ver
               /\ leaf[l].del => Current(p) = 0
    <3>1. CASE tree["state"][p] = 0
      BY <2>2, <3>1 DEF Current, OInv, CacheInv, TreeIsNewest
    <3>2. CASE tree["state"][p] # 0
      <4>1. Newest(tree["state"][p], p) /\ ~leaf[tree["state"][p]].del
        BY <3>2 DEF OInv, CacheInv, TreeIsNewest
      <4>2. tree["state"][p] = l
        BY <2>2, <4>1, NewestUnique DEF TInv, OInv, CacheInv
      <4> QED BY <3>2, <4>1, <4>2 DEF Current
    <3> QED BY <3>1, <3>2
  <2>3. NoneQueued(q, p) => about = {}
    BY DEF NoneQueued, IsState, PathOf
  <2>4. ASSUME NEW l \in Sets, Newest(l, p), Queued(q, <<"state", l>>)
        PROVE  Outcome(s, p) = Current(p)
    <3> PICK i \in DOMAIN q : q[i] = <<"state", l>>
      BY <2>4 DEF Queued
    <3>1. i \in about
      BY <2>4 DEF Newest
    <3>2. q \in Seq(Items) /\ Ordered(q, last[s])
      BY LeafTypes DEF TInv, OInv
    <3>3. ASSUME NEW j \in about PROVE j <= i /\ j \in Nat /\ i \in Nat
      <4>1. j \in Nat /\ i \in Nat
        BY <3>2
      <4>2. IsState(q[j]) /\ IsState(q[i]) /\ PathOf(q[i]) = p /\ PathOf(q[j]) = p
        BY <3>1 DEF IsState, PathOf
      <4>3. q[j] \in Items /\ q[j][2] \in Sets
        BY <3>2, <4>2, ItemFacts DEF IsState
      <4>4. VerOf(q[j]) <= VerOf(q[i]) /\ VerOf(q[i]) \in Nat
            /\ VerOf(q[j]) \in Nat
        BY <2>4, <4>2, <4>3, LeafTypes DEF Newest, VerOf, PathOf, TInv
      <4>5. ASSUME i < j PROVE FALSE
        <5>1. j \in DOMAIN q
          OBVIOUS
        <5>2. VerOf(q[i]) < VerOf(q[j])
          BY <3>2, <4>2, <4>5, <5>1 DEF Ordered
        <5> QED BY <4>4, <5>2
      <4> QED BY <4>1, <4>5
    <3> DEFINE first == CHOOSE k \in about : \A j \in about : j <= k
    <3>4. first \in about /\ \A j \in about : j <= first
      <4> HIDE DEF about
      <4>1. \E k \in about : \A j \in about : j <= k
        BY <3>1, <3>3
      <4> QED BY <4>1, Zenon
    <3>5. Outcome(s, p) = Version(leaf[q[first][2]])
      BY <3>1 DEF Outcome
    <3> HIDE DEF about, first
    <3>6. first = i
      BY <3>1, <3>3, <3>4
    <3> QED BY <2>2, <2>4, <3>5, <3>6 DEF Version
  <2>5. CASE NoneQueued(q, p)
    <3>1. Outcome(s, p) = Version(last[s][p])
      BY <2>3, <2>5 DEF Outcome
    <3>2. CASE \E l \in Sets : /\ Newest(l, p) /\ last[s][p].ver = leaf[l].ver
                             /\ last[s][p].del = leaf[l].del
      BY <2>2, <3>1, <3>2 DEF Version
    <3>3. CASE last[s][p].del /\ tree["state"][p] = 0
      BY <3>1, <3>3 DEF Version, Current
    <3> QED BY <2>1, <2>4, <3>2, <3>3 DEF UpToDate
  <2> QED BY <2>1, <2>4, <2>5 DEF UpToDate
<1> QED BY <1>1, AllInStep, PTL

====
