------------------------ MODULE MetricServer_proofs ------------------------
(***************************************************************************)
(* Proofs about MetricServer: the goroutines of a scrape are a tree of     *)
(* which none is left when Collect returns, and what they send.            *)
(***************************************************************************)
EXTENDS MetricServer, FiniteSetTheorems, SequenceTheorems, TLAPS

USE ConstantsAssumption

MetricWays(t) == {<<t, m>> : m \in Metrics}
PathWays(t)   == {<<t, m, p>> : m \in Metrics, p \in SUBSET Leaves}
SampleWays(t) == {<<t, m, p, <<t, l>>>> :
                    m \in Metrics, p \in SUBSET Leaves, l \in Leaves}

(* The goroutines that one waits for.                                      *)
Below(n, r, w) == {x \in r \cup DOMAIN w : Len(x) > 1 /\ Parent(x) = n}

(* The goroutines of a target: those to do their first step, and those     *)
(* that wait, each for the ones below it that have not said Done.          *)
TreeOf(t, r, w) ==
    /\ r \subseteq MetricWays(t) \cup PathWays(t) \cup SampleWays(t)
    /\ DOMAIN w \subseteq {<<t>>} \cup MetricWays(t) \cup PathWays(t)
    /\ r \cap DOMAIN w = {}
    /\ <<t>> \in DOMAIN w
    /\ \A n \in r \cup DOMAIN w : Len(n) > 1 => Parent(n) \in DOMAIN w
    /\ \A n \in DOMAIN w : /\ IsFiniteSet(Below(n, r, w))
                           /\ w[n] = Cardinality(Below(n, r, w))

Typed ==
    /\ config \subseteq Metrics /\ mine \subseteq Metrics
    /\ listed \in Lists /\ list \in Lists /\ at \in Nat
    /\ present \subseteq Targets
    /\ samples \in [Targets -> SUBSET Leaves]
    /\ pc \in {"down", "idle", "targets", "next", "wait", "returned", "crashed"}
    /\ sent \subseteq Sample
    /\ changes \in 0 .. MaxChanges
    /\ kept \in [targets : SUBSET Targets,
                 samples : SUBSET (Targets \X Leaves)]

(* The tree grows while Collect waits, and only then.                      *)
Phases ==
    /\ pc \in {"down", "idle"} => mine = {}
    /\ pc \in {"down", "idle", "targets"} => at = 0
    /\ at = 0 => list = <<>>
    /\ at <= Len(list) + 1
    /\ pc = "next" => at # 0
    /\ IF pc \in {"wait", "crashed"}
       THEN at \in 1 .. Len(list) /\ TreeOf(Current, run, wg)
       ELSE run = {} /\ DOMAIN wg = {}

MInv == Typed /\ Phases /\ SampleOfItsTarget

(* What was there all along is there.                                      *)
KeptThere ==
    /\ kept.targets \subseteq present
    /\ \A x \in kept.samples : x[2] \in samples[x[1]]

(* A sample that the scrape should have of the i-th target.                *)
Due(i, m, p, l) ==
    /\ i \in DOMAIN list /\ m \in mine /\ p \in PathsOf[m] /\ l \in p
    /\ \A j \in 1 .. i : list[j] \in kept.targets
    /\ <<list[i], l>> \in kept.samples

SampleFor(t, m, l) == [label |-> t, metric |-> m, from |-> t, leaf |-> l]

(* A goroutine is on its way to a sample.                                  *)
Coming(t, m, p, l) ==
    <<t, m>> \in run \/ <<t, m, p>> \in run \/ <<t, m, p, <<t, l>>>> \in run

Paid ==
    \A i, m, p, l : Due(i, m, p, l) =>
        /\ i < at => SampleFor(list[i], m, l) \in sent
        /\ i = at /\ pc = "wait" =>
              SampleFor(list[i], m, l) \in sent \/ Coming(list[i], m, p, l)

(* Where Collect stopped short, a target had lost its cache.               *)
Stopped ==
    pc = "returned" /\ at <= Len(list) =>
        mine = {} \/ at = 0 \/ Current \notin kept.targets

CInv == KeptThere /\ Paid /\ Stopped

----------------------------------------------------------------------------
(* The names of the goroutines *)

(* A sequence without its last element, and with one more.                 *)
LEMMA ParentIs ==
  ASSUME NEW S, NEW s \in Seq(S), NEW r \in Seq(S), Len(s) = Len(r) + 1,
         \A i \in 1 .. Len(r) : r[i] = s[i]
  PROVE  Parent(s) = r
<1> DEFINE a == SubSeq(s, 1, Len(r))
<1>1. Len(r) \in Nat /\ \A i \in 1 .. Len(r) : s[i] \in S
  OBVIOUS
<1>2. /\ a \in Seq(S)
      /\ Len(a) = IF 1 <= Len(r) THEN Len(r) - 1 + 1 ELSE 0
      /\ \A i \in 1 .. Len(r) - 1 + 1 : a[i] = s[1 + i - 1]
  BY <1>1, SubSeqProperties
<1>3. Len(a) = Len(r) /\ \A i \in 1 .. Len(a) : a[i] = r[i]
  BY <1>1, <1>2
<1> HIDE DEF a
<1>4. a = r
  BY <1>2, <1>3, SeqEqual
<1>5. Parent(s) = a
  BY <1>1 DEF Parent, a
<1> QED BY <1>4, <1>5

LEMMA AppendIs ==
  ASSUME NEW S, NEW s \in Seq(S), NEW r \in Seq(S), Len(r) = Len(s) + 1,
         \A i \in 1 .. Len(s) : r[i] = s[i]
  PROVE  Append(s, r[Len(r)]) = r
<1> DEFINE e == r[Len(r)]
           a == Append(s, e)
<1>1. Len(s) \in Nat /\ e \in S
  OBVIOUS
<1>2. /\ a \in Seq(S) /\ Len(a) = Len(s) + 1
      /\ \A i \in 1 .. Len(s) : a[i] = s[i]
      /\ a[Len(s) + 1] = e
  BY <1>1, AppendProperties
<1> HIDE DEF a
<1>3. \A i \in 1 .. Len(a) : a[i] = r[i]
  BY <1>1, <1>2
<1>4. a = r
  BY <1>2, <1>3, SeqEqual
<1> QED BY <1>4 DEF a

LEMMA TupleParents ==
  /\ \A t, m : Parent(<<t, m>>) = <<t>>
  /\ \A t, m, p : Parent(<<t, m, p>>) = <<t, m>>
  /\ \A t, m, p, x : Parent(<<t, m, p, x>>) = <<t, m, p>>
<1>1. ASSUME NEW t, NEW m
      PROVE  Parent(<<t, m>>) = <<t>>
  <2> DEFINE S == {t, m}
             a == <<t>>
             b == <<t, m>>
  <2>1. a \in Seq(S) /\ b \in Seq(S)
    OBVIOUS
  <2>2. Len(a) = 1 /\ Len(b) = 2 /\ b[2] = m
    OBVIOUS
  <2>3. a[1] = b[1]
    OBVIOUS
  <2> HIDE DEF S, a, b
  <2>4. \A i \in 1 .. Len(a) : a[i] = b[i]
    <3> SUFFICES ASSUME NEW i \in 1 .. Len(a)
                 PROVE  a[i] = b[i]
      OBVIOUS
    <3>1. i = 1
      BY <2>2
    <3> QED BY <2>3, <3>1
  <2>5. Len(b) = Len(a) + 1
    BY <2>2
  <2>6. Parent(b) = a
    BY <2>1, <2>4, <2>5, ParentIs
  <2> QED BY <2>6 DEF a, b
<1>2. ASSUME NEW t, NEW m, NEW p
      PROVE  Parent(<<t, m, p>>) = <<t, m>>
  <2> DEFINE S == {t, m, p}
             a == <<t, m>>
             b == <<t, m, p>>
  <2>1. a \in Seq(S) /\ b \in Seq(S)
    OBVIOUS
  <2>2. Len(a) = 2 /\ Len(b) = 3 /\ b[3] = p
    OBVIOUS
  <2>3. a[1] = b[1] /\ a[2] = b[2]
    OBVIOUS
  <2> HIDE DEF S, a, b
  <2>4. \A i \in 1 .. Len(a) : a[i] = b[i]
    <3> SUFFICES ASSUME NEW i \in 1 .. Len(a)
                 PROVE  a[i] = b[i]
      OBVIOUS
    <3>1. i = 1 \/ i = 2
      BY <2>2
    <3> QED BY <2>3, <3>1
  <2>5. Len(b) = Len(a) + 1
    BY <2>2
  <2>6. Parent(b) = a
    BY <2>1, <2>4, <2>5, ParentIs
  <2> QED BY <2>6 DEF a, b
<1>3. ASSUME NEW t, NEW m, NEW p, NEW x
      PROVE  Parent(<<t, m, p, x>>) = <<t, m, p>>
  <2> DEFINE S == {t, m, p, x}
             a == <<t, m, p>>
             b == <<t, m, p, x>>
  <2>1. a \in Seq(S) /\ b \in Seq(S)
    OBVIOUS
  <2>2. Len(a) = 3 /\ Len(b) = 4 /\ b[4] = x
    OBVIOUS
  <2>3. a[1] = b[1] /\ a[2] = b[2] /\ a[3] = b[3]
    OBVIOUS
  <2> HIDE DEF S, a, b
  <2>4. \A i \in 1 .. Len(a) : a[i] = b[i]
    <3> SUFFICES ASSUME NEW i \in 1 .. Len(a)
                 PROVE  a[i] = b[i]
      OBVIOUS
    <3>1. i = 1 \/ i = 2 \/ i = 3
      BY <2>2
    <3> QED BY <2>3, <3>1
  <2>5. Len(b) = Len(a) + 1
    BY <2>2
  <2>6. Parent(b) = a
    BY <2>1, <2>4, <2>5, ParentIs
  <2> QED BY <2>6 DEF a, b
<1> QED BY <1>1, <1>2, <1>3

LEMMA TupleAppends ==
  /\ \A t, m : Append(<<t>>, m) = <<t, m>>
  /\ \A t, m, p : Append(<<t, m>>, p) = <<t, m, p>>
  /\ \A t, m, p, x : Append(<<t, m, p>>, x) = <<t, m, p, x>>
<1>1. ASSUME NEW t, NEW m
      PROVE  Append(<<t>>, m) = <<t, m>>
  <2> DEFINE S == {t, m}
             a == <<t>>
             b == <<t, m>>
  <2>1. a \in Seq(S) /\ b \in Seq(S)
    OBVIOUS
  <2>2. Len(a) = 1 /\ Len(b) = 2 /\ b[2] = m
    OBVIOUS
  <2>3. a[1] = b[1]
    OBVIOUS
  <2> HIDE DEF S, a, b
  <2>4. \A i \in 1 .. Len(a) : a[i] = b[i]
    <3> SUFFICES ASSUME NEW i \in 1 .. Len(a)
                 PROVE  a[i] = b[i]
      OBVIOUS
    <3>1. i = 1
      BY <2>2
    <3> QED BY <2>3, <3>1
  <2>5. Len(b) = Len(a) + 1
    BY <2>2
  <2>6. Append(a, b[Len(b)]) = b
    BY <2>1, <2>4, <2>5, AppendIs
  <2>7. Append(a, b[2]) = b
    BY <2>2, <2>6
  <2> QED BY <2>2, <2>7 DEF a, b
<1>2. ASSUME NEW t, NEW m, NEW p
      PROVE  Append(<<t, m>>, p) = <<t, m, p>>
  <2> DEFINE S == {t, m, p}
             a == <<t, m>>
             b == <<t, m, p>>
  <2>1. a \in Seq(S) /\ b \in Seq(S)
    OBVIOUS
  <2>2. Len(a) = 2 /\ Len(b) = 3 /\ b[3] = p
    OBVIOUS
  <2>3. a[1] = b[1] /\ a[2] = b[2]
    OBVIOUS
  <2> HIDE DEF S, a, b
  <2>4. \A i \in 1 .. Len(a) : a[i] = b[i]
    <3> SUFFICES ASSUME NEW i \in 1 .. Len(a)
                 PROVE  a[i] = b[i]
      OBVIOUS
    <3>1. i = 1 \/ i = 2
      BY <2>2
    <3> QED BY <2>3, <3>1
  <2>5. Len(b) = Len(a) + 1
    BY <2>2
  <2>6. Append(a, b[Len(b)]) = b
    BY <2>1, <2>4, <2>5, AppendIs
  <2>7. Append(a, b[3]) = b
    BY <2>2, <2>6
  <2> QED BY <2>2, <2>7 DEF a, b
<1>3. ASSUME NEW t, NEW m, NEW p, NEW x
      PROVE  Append(<<t, m, p>>, x) = <<t, m, p, x>>
  <2> DEFINE S == {t, m, p, x}
             a == <<t, m, p>>
             b == <<t, m, p, x>>
  <2>1. a \in Seq(S) /\ b \in Seq(S)
    OBVIOUS
  <2>2. Len(a) = 3 /\ Len(b) = 4 /\ b[4] = x
    OBVIOUS
  <2>3. a[1] = b[1] /\ a[2] = b[2] /\ a[3] = b[3]
    OBVIOUS
  <2> HIDE DEF S, a, b
  <2>4. \A i \in 1 .. Len(a) : a[i] = b[i]
    <3> SUFFICES ASSUME NEW i \in 1 .. Len(a)
                 PROVE  a[i] = b[i]
      OBVIOUS
    <3>1. i = 1 \/ i = 2 \/ i = 3
      BY <2>2
    <3> QED BY <2>3, <3>1
  <2>5. Len(b) = Len(a) + 1
    BY <2>2
  <2>6. Append(a, b[Len(b)]) = b
    BY <2>1, <2>4, <2>5, AppendIs
  <2>7. Append(a, b[4]) = b
    BY <2>2, <2>6
  <2> QED BY <2>2, <2>7 DEF a, b
<1> QED BY <1>1, <1>2, <1>3

(* The ways down from a target, and the way up from each.                  *)
LEMMA WayFacts ==
  ASSUME NEW t
  PROVE  /\ Len(<<t>>) = 1
         /\ \A n \in MetricWays(t) :
               /\ Len(n) = 2 /\ n = <<t, n[2]>> /\ n[1] = t
               /\ n[2] \in Metrics /\ Parent(n) = <<t>>
         /\ \A n \in PathWays(t) :
               /\ Len(n) = 3 /\ n = <<t, n[2], n[3]>> /\ n[1] = t
               /\ n[2] \in Metrics /\ n[3] \in SUBSET Leaves
               /\ Parent(n) = <<t, n[2]>> /\ Parent(n) \in MetricWays(t)
         /\ \A n \in SampleWays(t) :
               /\ Len(n) = 4 /\ n = <<t, n[2], n[3], <<t, n[4][2]>>>>
               /\ n[1] = t /\ n[2] \in Metrics /\ n[3] \in SUBSET Leaves
               /\ n[4][1] = t /\ n[4][2] \in Leaves
               /\ Parent(n) = <<t, n[2], n[3]>> /\ Parent(n) \in PathWays(t)
<1>1. ASSUME NEW n \in MetricWays(t)
      PROVE  /\ Len(n) = 2 /\ n = <<t, n[2]>> /\ n[1] = t
             /\ n[2] \in Metrics /\ Parent(n) = <<t>>
  <2> PICK m \in Metrics : n = <<t, m>>
    BY DEF MetricWays
  <2> QED BY TupleParents
<1>2. ASSUME NEW n \in PathWays(t)
      PROVE  /\ Len(n) = 3 /\ n = <<t, n[2], n[3]>> /\ n[1] = t
             /\ n[2] \in Metrics /\ n[3] \in SUBSET Leaves
             /\ Parent(n) = <<t, n[2]>> /\ Parent(n) \in MetricWays(t)
  <2> PICK m \in Metrics, p \in SUBSET Leaves : n = <<t, m, p>>
    BY DEF PathWays
  <2>1. Len(n) = 3 /\ n[1] = t /\ n[2] = m /\ n[3] = p
    OBVIOUS
  <2>2. Parent(n) = <<t, m>>
    BY TupleParents
  <2> QED BY <2>1, <2>2 DEF MetricWays
<1>3. ASSUME NEW n \in SampleWays(t)
      PROVE  /\ Len(n) = 4 /\ n = <<t, n[2], n[3], <<t, n[4][2]>>>>
             /\ n[1] = t /\ n[2] \in Metrics /\ n[3] \in SUBSET Leaves
             /\ n[4][1] = t /\ n[4][2] \in Leaves
             /\ Parent(n) = <<t, n[2], n[3]>> /\ Parent(n) \in PathWays(t)
  <2> PICK m \in Metrics, p \in SUBSET Leaves, l \in Leaves :
             n = <<t, m, p, <<t, l>>>>
    BY DEF SampleWays
  <2>1. /\ Len(n) = 4 /\ n[1] = t /\ n[2] = m /\ n[3] = p
        /\ n[4] = <<t, l>> /\ n[4][1] = t /\ n[4][2] = l
    OBVIOUS
  <2>2. Parent(n) = <<t, m, p>>
    BY TupleParents
  <2> QED BY <2>1, <2>2 DEF PathWays
<1>4. Len(<<t>>) = 1
  OBVIOUS
<1> QED BY <1>1, <1>2, <1>3, <1>4

LEMMA WaysDown ==
  ASSUME NEW t
  PROVE  /\ \A m \in Metrics :
               <<t, m>> \in MetricWays(t) /\ Parent(<<t, m>>) = <<t>>
         /\ \A n \in MetricWays(t), p \in SUBSET Leaves :
               /\ Append(n, p) = <<t, n[2], p>>
               /\ Append(n, p) \in PathWays(t) /\ Parent(Append(n, p)) = n
         /\ \A n \in PathWays(t), l \in Leaves :
               /\ Append(n, <<t, l>>) = <<t, n[2], n[3], <<t, l>>>>
               /\ Append(n, <<t, l>>) \in SampleWays(t)
               /\ Parent(Append(n, <<t, l>>)) = n
<1>0. ASSUME NEW m \in Metrics
      PROVE  <<t, m>> \in MetricWays(t) /\ Parent(<<t, m>>) = <<t>>
  BY TupleParents DEF MetricWays
<1>1. ASSUME NEW n \in MetricWays(t), NEW p \in SUBSET Leaves
      PROVE  /\ Append(n, p) = <<t, n[2], p>>
             /\ Append(n, p) \in PathWays(t) /\ Parent(Append(n, p)) = n
  <2>1. PICK m \in Metrics : n = <<t, m>>
    BY DEF MetricWays
  <2>6. n[2] = m
    BY <2>1
  <2>2. Append(<<t, m>>, p) = <<t, m, p>> /\ Parent(<<t, m, p>>) = <<t, m>>
    BY TupleAppends, TupleParents
  <2>3. <<t, m, p>> \in PathWays(t)
    BY <2>1 DEF PathWays
  <2>4. Append(n, p) = <<t, m, p>> /\ Parent(<<t, m, p>>) = n
    BY <2>1, <2>2, Zenon
  <2>5. Append(n, p) = <<t, m, p>> /\ Append(n, p) \in PathWays(t)
        /\ Parent(Append(n, p)) = n
    BY <2>3, <2>4, Zenon
  <2> QED BY <2>5, <2>6, Zenon
<1>2. ASSUME NEW n \in PathWays(t), NEW l \in Leaves
      PROVE  /\ Append(n, <<t, l>>) = <<t, n[2], n[3], <<t, l>>>>
             /\ Append(n, <<t, l>>) \in SampleWays(t)
             /\ Parent(Append(n, <<t, l>>)) = n
  <2>1. PICK m \in Metrics, p \in SUBSET Leaves : n = <<t, m, p>>
    BY DEF PathWays
  <2>6. n[2] = m /\ n[3] = p
    BY <2>1
  <2> DEFINE x == <<t, l>>
  <2>3. <<t, m, p, x>> \in SampleWays(t)
    BY <2>1 DEF SampleWays
  <2> HIDE DEF x
  <2>2. Append(<<t, m, p>>, x) = <<t, m, p, x>>
        /\ Parent(<<t, m, p, x>>) = <<t, m, p>>
    BY TupleAppends, TupleParents
  <2>4. Append(n, x) = <<t, m, p, x>> /\ Parent(<<t, m, p, x>>) = n
    BY <2>1, <2>2, Zenon
  <2>5. Append(n, x) = <<t, m, p, x>> /\ Append(n, x) \in SampleWays(t)
        /\ Parent(Append(n, x)) = n
    BY <2>3, <2>4, Zenon
  <2> QED BY <2>5, <2>6, Zenon DEF x
<1> QED BY <1>0, <1>1, <1>2

----------------------------------------------------------------------------
(* The tree of goroutines *)

(* One of them starts those below it and waits for them.                   *)
LEMMA SpawnTree ==
  ASSUME NEW t, NEW r, NEW w, TreeOf(t, r, w), NEW n \in r, NEW below,
         IsFiniteSet(below),
         \/ n \in MetricWays(t) /\ below \subseteq PathWays(t)
         \/ n \in PathWays(t) /\ below \subseteq SampleWays(t),
         \A x \in below : Parent(x) = n
  PROVE  TreeOf(t, (r \ {n}) \cup below,
                [x \in DOMAIN w \cup {n} |->
                    IF x = n THEN Cardinality(below) ELSE w[x]])
<1> DEFINE r2 == (r \ {n}) \cup below
           w2 == [x \in DOMAIN w \cup {n} |->
                    IF x = n THEN Cardinality(below) ELSE w[x]]
<1>1. /\ Len(n) > 1 /\ n \notin DOMAIN w /\ Parent(n) \in DOMAIN w
      /\ \A x \in below : Len(x) > 1
  BY WayFacts DEF TreeOf
<1>2. \A x \in r \cup DOMAIN w : Len(x) > 1 => Parent(x) # n
  BY <1>1 DEF TreeOf
<1>3. \A x \in below : x \notin r \cup DOMAIN w
  BY <1>1, <1>2
<1>4. DOMAIN w2 = DOMAIN w \cup {n} /\ r2 \cup DOMAIN w2 = r \cup DOMAIN w \cup below
  OBVIOUS
<1>5. Below(n, r2, w2) = below
  BY <1>1, <1>2, <1>4 DEF Below
<1>6. ASSUME NEW k \in DOMAIN w
      PROVE  Below(k, r2, w2) = Below(k, r, w) /\ w2[k] = w[k]
  <2>1. \A x \in below : Parent(x) # k
    BY <1>1
  <2>2. w2[k] = w[k]
    BY <1>1
  <2> HIDE DEF r2, w2
  <2>3. Below(k, r2, w2) = Below(k, r, w)
    BY <1>4, <2>1 DEF Below
  <2> QED BY <2>2, <2>3
<1>7. \A k \in DOMAIN w2 : /\ IsFiniteSet(Below(k, r2, w2))
                           /\ w2[k] = Cardinality(Below(k, r2, w2))
  <2> SUFFICES ASSUME NEW k \in DOMAIN w2
               PROVE  /\ IsFiniteSet(Below(k, r2, w2))
                      /\ w2[k] = Cardinality(Below(k, r2, w2))
    OBVIOUS
  <2>1. CASE k = n
    <3>1. w2[n] = Cardinality(below)
      OBVIOUS
    <3> HIDE DEF r2, w2
    <3> QED BY <1>5, <2>1, <3>1
  <2>2. CASE k \in DOMAIN w
    <3> HIDE DEF r2, w2
    <3> QED BY <1>6, <2>2 DEF TreeOf
  <2> QED BY <1>4, <2>1, <2>2
<1>8. r2 \cap DOMAIN w2 = {}
  BY <1>1, <1>3, <1>4 DEF TreeOf
<1>9. \A k \in r2 \cup DOMAIN w2 : Len(k) > 1 => Parent(k) \in DOMAIN w2
  BY <1>4 DEF TreeOf
<1>10. /\ r2 \subseteq MetricWays(t) \cup PathWays(t) \cup SampleWays(t)
       /\ DOMAIN w2 \subseteq {<<t>>} \cup MetricWays(t) \cup PathWays(t)
       /\ <<t>> \in DOMAIN w2
  BY <1>4 DEF TreeOf
<1> HIDE DEF r2, w2
<1>11. TreeOf(t, r2, w2)
  BY <1>7, <1>8, <1>9, <1>10 DEF TreeOf
<1> QED BY <1>11 DEF r2, w2

(* One that has nothing below it, or whose query failed, says Done.        *)
LEMMA LeaveTree ==
  ASSUME NEW t, NEW r, NEW w, TreeOf(t, r, w), NEW n \in r
  PROVE  TreeOf(t, r \ {n}, Released(n, w))
<1> DEFINE w2 == Released(n, w)
           r2 == r \ {n}
           q  == Parent(n)
<1>1. Len(n) > 1 /\ n \notin DOMAIN w /\ q \in DOMAIN w
  BY WayFacts DEF TreeOf
<1>2. DOMAIN w2 = DOMAIN w
  BY DEF Released
<1>3. w2[q] = w[q] - 1 /\ \A k \in DOMAIN w : k # q => w2[k] = w[k]
  BY <1>1 DEF Released
<1> HIDE DEF w2
<1>4. ASSUME NEW k \in DOMAIN w, k # q
      PROVE  Below(k, r2, w2) = Below(k, r, w)
  BY <1>1, <1>2, <1>4 DEF Below
<1>5. Below(q, r2, w2) = Below(q, r, w) \ {n} /\ n \in Below(q, r, w)
  BY <1>1, <1>2 DEF Below
<1>6. /\ IsFiniteSet(Below(q, r2, w2))
      /\ w2[q] = Cardinality(Below(q, r2, w2))
  <2>1. /\ IsFiniteSet(Below(q, r, w))
        /\ w[q] = Cardinality(Below(q, r, w))
    BY <1>1 DEF TreeOf
  <2> HIDE DEF r2, q
  <2> QED BY <1>3, <1>5, <2>1, FS_RemoveElement
<1>7. \A k \in DOMAIN w2 : /\ IsFiniteSet(Below(k, r2, w2))
                           /\ w2[k] = Cardinality(Below(k, r2, w2))
  <2> SUFFICES ASSUME NEW k \in DOMAIN w
               PROVE  /\ IsFiniteSet(Below(k, r2, w2))
                      /\ w2[k] = Cardinality(Below(k, r2, w2))
    BY <1>2
  <2>1. CASE k = q
    BY <1>6, <2>1
  <2>2. CASE k # q
    <3>1. Below(k, r2, w2) = Below(k, r, w) /\ w2[k] = w[k]
      BY <1>3, <1>4, <2>2
    <3> HIDE DEF r2
    <3> QED BY <3>1 DEF TreeOf
  <2> QED BY <2>1, <2>2
<1>8. TreeOf(t, r2, w2)
  BY <1>2, <1>7 DEF TreeOf
<1> QED BY <1>8 DEF w2

(* One whose wait is over says Done.                                       *)
LEMMA DoneTree ==
  ASSUME NEW t, NEW r, NEW w, TreeOf(t, r, w), NEW n \in DOMAIN w,
         Len(n) > 1, w[n] = 0
  PROVE  TreeOf(t, r, Forgotten(n, Released(n, w)))
<1> DEFINE w2 == Forgotten(n, Released(n, w))
           q  == Parent(n)
<1>1. n \notin r /\ q \in DOMAIN w
  BY DEF TreeOf
<1>2. Below(n, r, w) = {}
  BY FS_EmptySet DEF TreeOf
<1>3. \A x \in r \cup DOMAIN w : Len(x) > 1 => Parent(x) # n
  BY <1>2 DEF Below
<1>4. q # n
  BY <1>3
<1>5. DOMAIN w2 = DOMAIN w \ {n}
  BY DEF Forgotten, Released
<1>6. /\ w2[q] = w[q] - 1
      /\ \A k \in DOMAIN w \ {n} : k # q => w2[k] = w[k]
  BY <1>1, <1>4 DEF Forgotten, Released
<1> HIDE DEF w2
<1>7. ASSUME NEW k \in DOMAIN w, k # q
      PROVE  Below(k, r, w2) = Below(k, r, w)
  BY <1>1, <1>5, <1>7 DEF Below
<1>8. Below(q, r, w2) = Below(q, r, w) \ {n} /\ n \in Below(q, r, w)
  BY <1>1, <1>5 DEF Below
<1>9. /\ IsFiniteSet(Below(q, r, w2))
      /\ w2[q] = Cardinality(Below(q, r, w2))
  <2>1. /\ IsFiniteSet(Below(q, r, w))
        /\ w[q] = Cardinality(Below(q, r, w))
    BY <1>1 DEF TreeOf
  <2> QED BY <1>6, <1>8, <2>1, FS_RemoveElement
<1>10. \A k \in DOMAIN w2 : /\ IsFiniteSet(Below(k, r, w2))
                            /\ w2[k] = Cardinality(Below(k, r, w2))
  <2> SUFFICES ASSUME NEW k \in DOMAIN w \ {n}
               PROVE  /\ IsFiniteSet(Below(k, r, w2))
                      /\ w2[k] = Cardinality(Below(k, r, w2))
    BY <1>5
  <2>1. CASE k = q
    BY <1>9, <2>1
  <2>2. CASE k # q
    <3>1. Below(k, r, w2) = Below(k, r, w) /\ w2[k] = w[k]
      BY <1>6, <1>7, <2>2
    <3> QED BY <3>1 DEF TreeOf
  <2> QED BY <2>1, <2>2
<1>11. \A k \in r \cup DOMAIN w2 : Len(k) > 1 => Parent(k) \in DOMAIN w2
  BY <1>3, <1>5 DEF TreeOf
<1>12. n # <<t>>
  <2>1. Len(<<t>>) = 1
    BY WayFacts
  <2>2. n = <<t>> => Len(n) = 1
    BY <2>1, Zenon
  <2>3. ASSUME Len(n) = 1
        PROVE  FALSE
    <3>1. 1 > 1
      BY <2>3, Zenon
    <3> QED BY <3>1
  <2> QED BY <2>2, <2>3, Zenon
<1>13. TreeOf(t, r, w2)
  BY <1>5, <1>10, <1>11, <1>12 DEF TreeOf
<1> QED BY <1>13 DEF w2

(* When Collect's own wait is over no goroutine is left.                   *)
LEMMA TreeOver ==
  ASSUME NEW t, NEW r, NEW w, TreeOf(t, r, w), w[<<t>>] = 0
  PROVE  r = {} /\ DOMAIN w = {<<t>>}
<1>1. Below(<<t>>, r, w) = {}
  BY FS_EmptySet DEF TreeOf
<1>2. \A x \in r \cup DOMAIN w : x \notin MetricWays(t)
  BY <1>1, WayFacts DEF Below
<1>3. \A x \in r \cup DOMAIN w : x \notin PathWays(t)
  BY <1>2, WayFacts DEF TreeOf
<1>4. \A x \in r \cup DOMAIN w : x \notin SampleWays(t)
  BY <1>3, WayFacts DEF TreeOf
<1>5. r = {} /\ DOMAIN w \subseteq {<<t>>} /\ <<t>> \in DOMAIN w
  BY <1>2, <1>3, <1>4 DEF TreeOf
<1> QED BY <1>5

(* The same, of goroutines that Spawn starts.                              *)
LEMMA SpawnStep ==
  ASSUME NEW t, TreeOf(t, run, wg), NEW n \in run, NEW below,
         IsFiniteSet(below), Spawn(n, below),
         \/ n \in MetricWays(t) /\ below \subseteq PathWays(t)
         \/ n \in PathWays(t) /\ below \subseteq SampleWays(t),
         \A x \in below : Parent(x) = n
  PROVE  TreeOf(t, run', wg')
<1> DEFINE r2 == (run \ {n}) \cup below
           w2 == [x \in DOMAIN wg \cup {n} |->
                    IF x = n THEN Cardinality(below) ELSE wg[x]]
<1>1. TreeOf(t, r2, w2)
  BY SpawnTree
<1>2. run' = r2 /\ wg' = w2
  BY DEF Spawn
<1> QED BY <1>1, <1>2, Zenon

(* Collect starts the goroutines of a target's metrics.                    *)
LEMMA StartTree ==
  ASSUME NEW t, NEW w, DOMAIN w = {}, NEW below, IsFiniteSet(below),
         below \subseteq MetricWays(t)
  PROVE  TreeOf(t, ({} \ {<<t>>}) \cup below,
                [x \in DOMAIN w \cup {<<t>>} |->
                    IF x = <<t>> THEN Cardinality(below) ELSE w[x]])
<1> DEFINE r2 == ({} \ {<<t>>}) \cup below
           w2 == [x \in DOMAIN w \cup {<<t>>} |->
                    IF x = <<t>> THEN Cardinality(below) ELSE w[x]]
<1>1. /\ DOMAIN w2 = {<<t>>} /\ r2 = below
      /\ w2[<<t>>] = Cardinality(below)
  OBVIOUS
<1>2. \A x \in below : Len(x) = 2 /\ Parent(x) = <<t>>
  BY WayFacts
<1>3. Len(<<t>>) = 1 /\ <<t>> \notin below
  BY WayFacts
<1> HIDE DEF r2, w2
<1>4. Below(<<t>>, r2, w2) = below
  BY <1>1, <1>2, <1>3 DEF Below
<1>5. /\ r2 \subseteq MetricWays(t) /\ DOMAIN w2 = {<<t>>}
      /\ r2 \cap DOMAIN w2 = {}
  BY <1>1, <1>3
<1>6. \A n \in r2 \cup DOMAIN w2 : Len(n) > 1 => Parent(n) \in DOMAIN w2
  <2>1. \A n : n = <<t>> => Len(n) = 1
    BY <1>3, Zenon
  <2>2. \A n \in r2 \cup DOMAIN w2 : n \in below \/ n = <<t>>
    BY <1>1
  <2> QED BY <1>1, <1>2, <2>1, <2>2
<1>7. \A n \in DOMAIN w2 : /\ IsFiniteSet(Below(n, r2, w2))
                           /\ w2[n] = Cardinality(Below(n, r2, w2))
  BY <1>1, <1>4
<1>8. TreeOf(t, r2, w2)
  BY <1>5, <1>6, <1>7 DEF TreeOf
<1> QED BY <1>8 DEF r2, w2

----------------------------------------------------------------------------
(* The goroutines are as many as one can wait for *)

LEMMA FiniteImage ==
  ASSUME NEW S, IsFiniteSet(S), NEW f, DOMAIN f = S, NEW T,
         \A y \in T : \E x \in S : f[x] = y
  PROVE  IsFiniteSet(T)
<1> DEFINE U == {x \in S : f[x] \in T}
           g == [x \in U |-> f[x]]
<1>1. IsFiniteSet(U)
  BY FS_Subset
<1>2. g \in Surjection(U, T)
  BY DEF Surjection
<1> QED BY <1>1, <1>2, FS_Surjection

LEMMA BelowCollect ==
  ASSUME NEW t, NEW M \in SUBSET Metrics
  PROVE  /\ IsFiniteSet({<<t, m>> : m \in M})
         /\ {<<t, m>> : m \in M} \subseteq MetricWays(t)
<1> DEFINE T == {<<t, m>> : m \in M}
           f == [m \in M |-> <<t, m>>]
<1>1. IsFiniteSet(M)
  BY FS_Subset
<1>2. DOMAIN f = M /\ \A y \in T : \E m \in M : f[m] = y
  OBVIOUS
<1>3. T \subseteq MetricWays(t)
  BY DEF MetricWays
<1> HIDE DEF f, T
<1>4. IsFiniteSet(T)
  BY <1>1, <1>2, FiniteImage
<1> QED BY <1>3, <1>4 DEF T

LEMMA BelowMetric ==
  ASSUME NEW t, NEW n \in MetricWays(t)
  PROVE  /\ IsFiniteSet({Append(n, p) : p \in PathsOf[n[2]]})
         /\ {Append(n, p) : p \in PathsOf[n[2]]} \subseteq PathWays(t)
         /\ \A x \in {Append(n, p) : p \in PathsOf[n[2]]} : Parent(x) = n
<1> DEFINE P == PathsOf[n[2]]
           T == {Append(n, p) : p \in P}
           f == [p \in P |-> Append(n, p)]
<1>1. P \subseteq SUBSET Leaves
  BY WayFacts
<1>2. IsFiniteSet(P)
  <2>1. IsFiniteSet(SUBSET Leaves)
    BY FS_SUBSET
  <2> QED BY <1>1, <2>1, FS_Subset
<1> HIDE DEF P
<1>3. DOMAIN f = P /\ \A y \in T : \E p \in P : f[p] = y
  OBVIOUS
<1>4. T \subseteq PathWays(t) /\ \A x \in T : Parent(x) = n
  <2> SUFFICES ASSUME NEW x \in T
               PROVE  x \in PathWays(t) /\ Parent(x) = n
    OBVIOUS
  <2>1. PICK p \in SUBSET Leaves : x = Append(n, p)
    BY <1>1
  <2>2. Append(n, p) \in PathWays(t) /\ Parent(Append(n, p)) = n
    BY WaysDown
  <2> QED BY <2>1, <2>2, Zenon
<1> HIDE DEF f, T
<1>5. IsFiniteSet(T)
  BY <1>2, <1>3, FiniteImage
<1> QED BY <1>4, <1>5 DEF T, P

(* What Query starts, of the leaves L of target t.                         *)
OfLeaves(n, t, L) == {Append(n, <<t, l>>) : l \in n[3] \cap L}

LEMMA BelowPath ==
  ASSUME NEW t, NEW n \in PathWays(t), NEW L \in SUBSET Leaves
  PROVE  /\ IsFiniteSet(OfLeaves(n, t, L))
         /\ OfLeaves(n, t, L) \subseteq SampleWays(t)
         /\ \A x \in OfLeaves(n, t, L) : Parent(x) = n
<1> DEFINE P == n[3] \cap L
           T == OfLeaves(n, t, L)
           f == [l \in P |-> Append(n, <<t, l>>)]
<1>1. IsFiniteSet(P)
  BY FS_Subset
<1>2. DOMAIN f = P /\ \A y \in T : \E l \in P : f[l] = y
  BY DEF OfLeaves
<1>3. T \subseteq SampleWays(t) /\ \A x \in T : Parent(x) = n
  <2> SUFFICES ASSUME NEW x \in T
               PROVE  x \in SampleWays(t) /\ Parent(x) = n
    OBVIOUS
  <2>1. PICK l \in Leaves : x = Append(n, <<t, l>>)
    BY DEF OfLeaves
  <2>2. /\ Append(n, <<t, l>>) \in SampleWays(t)
        /\ Parent(Append(n, <<t, l>>)) = n
    BY WaysDown
  <2> QED BY <2>1, <2>2, Zenon
<1> HIDE DEF f, P, T
<1>4. IsFiniteSet(T)
  BY <1>1, <1>2, FiniteImage
<1> QED BY <1>3, <1>4 DEF T

----------------------------------------------------------------------------
(* The scrape *)

LEMMA ListFacts ==
  ASSUME NEW s \in Lists
  PROVE  /\ s \in Seq(Targets) /\ Len(s) \in Nat
         /\ \A i \in 1 .. Len(s) : s[i] \in Targets
<1>1. PICK k \in Nat : s \in [1 .. k -> Targets]
  BY FS_CardinalityType DEF Lists, SeqOf
<1>2. s \in Seq(Targets)
  BY <1>1, IsASeq
<1> QED BY <1>2

LEMMA EmptyList == <<>> \in Lists
<1>1. 0 \in 0 .. Cardinality(Targets)
  BY FS_CardinalityType
<1>2. <<>> \in [1 .. 0 -> Targets]
  OBVIOUS
<1>3. <<>> \in SeqOf(Targets, Cardinality(Targets))
  BY <1>1, <1>2 DEF SeqOf
<1> QED BY <1>3 DEF Lists, IsInjective

LEMMA InitMInv == Init => MInv
<1> SUFFICES ASSUME Init PROVE MInv
  OBVIOUS
<1>1. Typed
  BY EmptyList DEF Init, Typed, Nothing
<1>2. Phases
  BY DEF Init, Phases
<1>3. SampleOfItsTarget
  BY DEF Init, SampleOfItsTarget
<1> QED BY <1>1, <1>2, <1>3 DEF MInv

(* What the other users of the caches do, a scrape that runs does not see. *)
LEMMA ChangeMInv ==
  ASSUME MInv, Change, Typed'
  PROVE  MInv'
<1>1. /\ Phases' = Phases /\ SampleOfItsTarget' = SampleOfItsTarget
  BY DEF Change, scrapeVars, Phases, SampleOfItsTarget, Current
<1> QED BY <1>1 DEF MInv

(* A goroutine runs only while Collect waits for the target it is at.      *)
LEMMA Running ==
  ASSUME MInv, pc # "crashed", run # {} \/ DOMAIN wg # {}
  PROVE  /\ pc = "wait" /\ at \in 1 .. Len(list) /\ Current \in Targets
         /\ TreeOf(Current, run, wg)
<1>1. pc = "wait" /\ at \in 1 .. Len(list) /\ TreeOf(Current, run, wg)
  BY DEF MInv, Typed, Phases
<1>2. Current \in Targets
  BY <1>1, ListFacts DEF MInv, Typed, Current
<1> QED BY <1>1, <1>2

(* A step that leaves Collect where it is and keeps the tree keeps MInv.   *)
LEMMA TreeMInv ==
  ASSUME MInv, pc # "crashed", run # {} \/ DOMAIN wg # {},
         UNCHANGED <<cacheVars, mine, list, at, changes, kept>>,
         pc' \in {"wait", "crashed"}, sent' \subseteq Sample,
         SampleOfItsTarget', TreeOf(Current, run', wg')
  PROVE  MInv'
<1>1. pc = "wait" /\ at \in 1 .. Len(list)
  BY Running
<1>2. Typed'
  BY DEF MInv, Typed, cacheVars
<1>3. at' = at /\ Len(list') = Len(list) /\ Current' = Current
  BY DEF Current
<1>4. at # 0 /\ at <= Len(list) + 1
  BY <1>1, ListFacts DEF MInv, Typed
<1>5. TreeOf(Current, run, wg)'
  BY <1>3
<1>6. Phases'
  <2>1. pc' \in {"wait", "crashed"} => at' \in 1 .. Len(list') /\ TreeOf(Current, run, wg)'
    BY <1>1, <1>3, <1>5
  <2> QED BY <1>3, <1>4, <2>1 DEF Phases
<1> QED BY <1>2, <1>6 DEF MInv

LEMMA CollectMetricMInv == MInv /\ pc # "crashed" /\ CollectMetric => MInv'
<1> SUFFICES ASSUME MInv, pc # "crashed", CollectMetric PROVE MInv'
  OBVIOUS
<1>1. PICK n \in run : Len(n) = 2 /\ Spawn(n, {Append(n, p) : p \in PathsOf[n[2]]})
  BY DEF CollectMetric
<1>2. pc = "wait" /\ TreeOf(Current, run, wg)
  BY Running
<1> DEFINE t == Current
<1>3. n \in MetricWays(t)
  BY <1>1, <1>2, WayFacts DEF TreeOf
<1>4. TreeOf(t, run', wg')
  <2> DEFINE B == {Append(n, p) : p \in PathsOf[n[2]]}
  <2>1. /\ IsFiniteSet(B) /\ B \subseteq PathWays(t)
        /\ \A x \in B : Parent(x) = n
    BY <1>3, BelowMetric
  <2>2. TreeOf(t, run, wg) /\ Spawn(n, B)
    BY <1>1, <1>2
  <2> HIDE DEF t, B
  <2> QED BY <1>3, <2>1, <2>2, SpawnStep
<1>5. SampleOfItsTarget' /\ sent' \subseteq Sample
  BY DEF MInv, Typed, SampleOfItsTarget, CollectMetric
<1> QED BY <1>2, <1>4, <1>5, TreeMInv DEF CollectMetric

LEMMA QueryMInv == MInv /\ pc # "crashed" /\ Query => MInv'
<1> SUFFICES ASSUME MInv, pc # "crashed", Query PROVE MInv'
  OBVIOUS
<1>1. PICK n \in run :
         Len(n) = 3 /\ Spawn(n, OfLeaves(n, Current, samples[Current]))
  BY Zenon DEF Query, OfLeaves
<1> DEFINE t == Current
           below == OfLeaves(n, t, samples[t])
<1>2. pc = "wait" /\ t \in Targets /\ TreeOf(t, run, wg)
  BY Running
<1>3. n \in PathWays(t)
  BY SMTT(30), <1>1, <1>2, WayFacts DEF TreeOf
<1>4. Spawn(n, below) /\ samples[t] \in SUBSET Leaves
  BY <1>1, <1>2 DEF MInv, Typed
<1>5. /\ IsFiniteSet(below) /\ below \subseteq SampleWays(t)
      /\ \A x \in below : Parent(x) = n
  BY <1>3, <1>4, BelowPath
<1> HIDE DEF t, below
<1>6. TreeOf(t, run', wg')
  BY <1>2, <1>3, <1>4, <1>5, SpawnStep
<1>7. TreeOf(Current, run', wg')
  BY <1>6 DEF t
<1>8. SampleOfItsTarget' /\ sent' \subseteq Sample
  BY DEF MInv, Typed, SampleOfItsTarget, Query
<1> QED BY <1>2, <1>7, <1>8, TreeMInv DEF Query

LEMMA QueryFailsMInv == MInv /\ pc # "crashed" /\ QueryFails => MInv'
<1> SUFFICES ASSUME MInv, pc # "crashed", QueryFails PROVE MInv'
  OBVIOUS
<1>1. PICK n \in run : run' = run \ {n} /\ wg' = Released(n, wg)
  BY DEF QueryFails
<1>2. pc = "wait" /\ TreeOf(Current, run, wg)
  BY Running
<1>3. TreeOf(Current, run \ {n}, Released(n, wg))
  BY <1>2, LeaveTree
<1>4. TreeOf(Current, run', wg')
  BY <1>1, <1>3
<1>5. SampleOfItsTarget' /\ sent' \subseteq Sample
  BY DEF MInv, Typed, SampleOfItsTarget, QueryFails
<1> QED BY <1>2, <1>4, <1>5, TreeMInv DEF QueryFails

LEMMA DoneMInv == MInv /\ pc # "crashed" /\ Done => MInv'
<1> SUFFICES ASSUME MInv, pc # "crashed", Done PROVE MInv'
  OBVIOUS
<1>1. PICK n \in DOMAIN wg : /\ Len(n) > 1 /\ wg[n] = 0
                            /\ wg' = Forgotten(n, Released(n, wg))
  BY DEF Done, Joined
<1>2. pc = "wait" /\ TreeOf(Current, run, wg)
  BY Running
<1>3. TreeOf(Current, run, Forgotten(n, Released(n, wg)))
  BY <1>1, <1>2, DoneTree
<1>4. TreeOf(Current, run', wg')
  BY <1>1, <1>3 DEF Done
<1>5. SampleOfItsTarget' /\ sent' \subseteq Sample
  BY DEF MInv, Typed, SampleOfItsTarget, Done
<1> QED BY <1>2, <1>4, <1>5, TreeMInv DEF Done

(* The goroutine of a sample sends it with the label of its target.        *)
LEMMA SendMInv == MInv /\ pc # "crashed" /\ Send => MInv'
<1> SUFFICES ASSUME MInv, pc # "crashed", Send PROVE MInv'
  OBVIOUS
<1> DEFINE x(n) == [label |-> n[1], metric |-> n[2],
                    from |-> n[4][1], leaf |-> n[4][2]]
<1>1. PICK n \in run :
         /\ Len(n) = 4
         /\ IF n[2] \in Described
            THEN /\ sent' = sent \cup {x(n)}
                 /\ run' = run \ {n} /\ wg' = Released(n, wg)
                 /\ UNCHANGED pc
            ELSE pc' = "crashed" /\ UNCHANGED <<run, wg, sent>>
  BY DEF Send
<1>2. /\ pc = "wait" /\ Current \in Targets
      /\ TreeOf(Current, run, wg)
  BY Running
<1>3. n \in SampleWays(Current)
  BY <1>1, <1>2, WayFacts DEF TreeOf
<1>4. x(n) \in Sample /\ x(n).label = x(n).from
  BY <1>2, <1>3, WayFacts DEF Sample
<1> HIDE DEF x
<1>5. CASE n[2] \in Described
  <2>1. TreeOf(Current, run \ {n}, Released(n, wg))
    BY <1>2, LeaveTree
  <2>2. TreeOf(Current, run', wg')
    BY <1>1, <1>5, <2>1
  <2>3. SampleOfItsTarget' /\ sent' \subseteq Sample
    BY <1>1, <1>4, <1>5 DEF MInv, Typed, SampleOfItsTarget
  <2> QED BY <1>1, <1>2, <1>5, <2>2, <2>3, TreeMInv DEF Send
<1>6. CASE n[2] \notin Described
  <2>1. SampleOfItsTarget' /\ sent' \subseteq Sample
    BY <1>1, <1>6 DEF MInv, Typed, SampleOfItsTarget
  <2>2. TreeOf(Current, run', wg')
    BY <1>1, <1>2, <1>6
  <2> QED BY <1>1, <1>2, <1>6, <2>1, <2>2, TreeMInv DEF Send
<1> QED BY <1>5, <1>6

LEMMA CollectTargetMInv == MInv /\ CollectTarget => MInv'
<1> SUFFICES ASSUME MInv, CollectTarget PROVE MInv'
  OBVIOUS
<1> DEFINE t == Current
           below == {<<t, m>> : m \in mine}
           r2 == ({} \ {<<t>>}) \cup below
           w2 == [x \in DOMAIN wg \cup {<<t>>} |->
                    IF x = <<t>> THEN Cardinality(below) ELSE wg[x]]
<1>1. /\ pc = "next" /\ pc' = "wait" /\ at <= Len(list)
      /\ run = {} /\ DOMAIN wg = {}
      /\ UNCHANGED <<cacheVars, mine, list, at, sent, changes, kept>>
  BY DEF CollectTarget, MInv, Phases
<1>2. at \in 1 .. Len(list)
  BY <1>1, ListFacts DEF MInv, Typed, Phases
<1>3. mine \in SUBSET Metrics
  BY DEF MInv, Typed
<1>4. run' = r2 /\ wg' = w2
  BY <1>1 DEF CollectTarget, Spawn
<1>5. TreeOf(t, r2, w2)
  <2>1. IsFiniteSet(below) /\ below \subseteq MetricWays(t)
    <3> HIDE DEF t
    <3> QED BY <1>3, BelowCollect
  <2> HIDE DEF t, below
  <2> QED BY <1>1, <2>1, StartTree
<1>6. TreeOf(t, run', wg')
  <2> HIDE DEF t, r2, w2
  <2> QED BY <1>4, <1>5
<1>7. Typed' /\ SampleOfItsTarget'
  BY <1>1 DEF MInv, Typed, SampleOfItsTarget, cacheVars
<1>8. Current' = t
  BY <1>1 DEF Current
<1>9. TreeOf(Current, run, wg)'
  <2> HIDE DEF t
  <2> QED BY <1>6, <1>8
<1>10. at' \in 1 .. Len(list') /\ at' # 0 /\ at' <= Len(list') + 1
  BY <1>1, <1>2 DEF MInv, Phases
<1>11. Phases'
  BY <1>1, <1>9, <1>10 DEF Phases
<1> QED BY <1>7, <1>11 DEF MInv

(* Collect goes on to the next target when all goroutines are gone.        *)
LEMMA NextTargetMInv == MInv /\ NextTarget => MInv'
<1> SUFFICES ASSUME MInv, NextTarget PROVE MInv'
  OBVIOUS
<1>1. /\ pc = "wait" /\ wg[<<Current>>] = 0 /\ pc' = "next" /\ at' = at + 1
      /\ wg' = Forgotten(<<Current>>, wg)
      /\ UNCHANGED <<cacheVars, mine, list, run, sent, changes, kept>>
  BY DEF NextTarget, Joined
<1>2. at \in 1 .. Len(list) /\ TreeOf(Current, run, wg)
  BY <1>1 DEF MInv, Phases
<1>3. run = {} /\ DOMAIN wg = {<<Current>>}
  BY <1>1, <1>2, TreeOver
<1>4. DOMAIN wg' = {}
  BY <1>1, <1>3 DEF Forgotten
<1>5. Len(list) \in Nat
  BY ListFacts DEF MInv, Typed
<1>6. Typed' /\ SampleOfItsTarget'
  BY <1>1, <1>2, <1>5 DEF MInv, Typed, SampleOfItsTarget, cacheVars
<1>7. Phases'
  BY <1>1, <1>2, <1>3, <1>4, <1>5 DEF Phases
<1> QED BY <1>6, <1>7 DEF MInv

(* The steps of Start and of the registry, and the ends of Collect.        *)
LEMMA QuietMInv ==
  MInv /\ (Listen \/ Begin \/ ConfigFails \/ Answer \/ GetTargets \/ Return)
  => MInv'
<1> SUFFICES ASSUME MInv,
                    Listen \/ Begin \/ ConfigFails \/ Answer \/ GetTargets \/ Return
             PROVE  MInv'
  OBVIOUS
<1>0. Len(<<>>) = 0 /\ Len(listed) \in Nat /\ Len(list) \in Nat /\ at \in Nat
  BY ListFacts, EmptyList DEF MInv, Typed
<1>1. pc \in {"down", "idle", "returned", "targets", "next"}
  BY DEF Listen, Begin, ConfigFails, Answer, GetTargets, Return
<1>2. run = {} /\ DOMAIN wg = {} /\ run' = {} /\ DOMAIN wg' = {}
  BY <1>1 DEF MInv, Phases, Listen, Begin, ConfigFails, Answer, GetTargets, Return
<1>3. SampleOfItsTarget'
  BY DEF MInv, SampleOfItsTarget, Listen, Begin, ConfigFails, Answer, GetTargets,
         Return
<1>4. Typed'
  <2>1. CASE Listen
    BY <2>1 DEF MInv, Typed, Listen, cacheVars
  <2>2. CASE Begin
    BY <2>2 DEF MInv, Typed, Begin, cacheVars
  <2>3. CASE ConfigFails
    BY <2>3 DEF MInv, Typed, ConfigFails, cacheVars
  <2>4. CASE Answer
    BY <2>4, EmptyList DEF MInv, Typed, Answer, Nothing, cacheVars
  <2>5. CASE GetTargets
    BY <2>5 DEF MInv, Typed, GetTargets, cacheVars
  <2>6. CASE Return
    BY <2>6 DEF MInv, Typed, Return, cacheVars
  <2> QED BY <2>1, <2>2, <2>3, <2>4, <2>5, <2>6
<1>5. Phases'
  <2>1. CASE Listen
    BY <1>2, <2>1 DEF MInv, Phases, Listen
  <2>2. CASE Begin
    BY <1>2, <2>2 DEF MInv, Phases, Begin
  <2>3. CASE ConfigFails
    BY <1>2, <2>3 DEF MInv, Phases, ConfigFails
  <2>4. CASE Answer
    BY <1>0, <1>2, <2>4 DEF Phases, Answer
  <2>5. CASE GetTargets
    BY <1>0, <1>2, <2>5 DEF MInv, Phases, GetTargets
  <2>6. CASE Return
    BY <1>2, <2>6 DEF MInv, Phases, Return
  <2> QED BY <2>1, <2>2, <2>3, <2>4, <2>5, <2>6
<1> QED BY <1>3, <1>4, <1>5 DEF MInv

LEMMA CacheMInv ==
  MInv /\ (Configure \/ ListTargets \/ AddTarget \/ RemoveTarget \/ StoreSample)
  => MInv'
<1> SUFFICES ASSUME MInv, Configure \/ ListTargets \/ AddTarget \/ RemoveTarget
                          \/ StoreSample
             PROVE  MInv'
  OBVIOUS
<1>1. Change
  BY DEF Configure, ListTargets, AddTarget, RemoveTarget, StoreSample
<1>2. UNCHANGED <<mine, list, at, pc, sent>> /\ changes' \in 0 .. MaxChanges
  BY <1>1 DEF Change, scrapeVars, MInv, Typed
<1>3. CASE Configure
  BY <1>1, <1>2, <1>3, ChangeMInv DEF MInv, Typed, Configure
<1>4. CASE ListTargets
  BY <1>1, <1>2, <1>4, ChangeMInv DEF MInv, Typed, ListTargets
<1>5. CASE AddTarget
  BY <1>1, <1>2, <1>5, ChangeMInv DEF MInv, Typed, AddTarget
<1>6. CASE RemoveTarget
  <2>1. PICK t \in present :
          /\ present' = present \ {t}
          /\ samples' = [samples EXCEPT ![t] = {}]
          /\ kept' = [targets |-> kept.targets \ {t},
                     samples |-> kept.samples \ ({t} \X Leaves)]
    BY <1>6 DEF RemoveTarget
  <2>2. kept' \in [targets : SUBSET Targets,
                  samples : SUBSET (Targets \X Leaves)]
    BY <2>1 DEF MInv, Typed
  <2>3. Typed'
    BY <1>2, <1>6, <2>1, <2>2 DEF MInv, Typed, RemoveTarget
  <2> QED BY <1>1, <2>3, ChangeMInv
<1>7. CASE StoreSample
  <2>1. PICK t \in present : \E l \in Leaves \ samples[t] :
           samples' = [samples EXCEPT ![t] = @ \cup {l}]
    BY <1>7 DEF StoreSample
  <2>2. samples' \in [Targets -> SUBSET Leaves]
    BY <2>1 DEF MInv, Typed
  <2> QED BY <1>1, <1>2, <1>7, <2>2, ChangeMInv DEF MInv, Typed, StoreSample
<1> QED BY <1>3, <1>4, <1>5, <1>6, <1>7

LEMMA NextMInv == MInv /\ [Next]_vars => MInv'
<1> SUFFICES ASSUME MInv, [Next]_vars PROVE MInv'
  OBVIOUS
<1>1. CASE UNCHANGED vars
  BY <1>1 DEF vars, cacheVars, scrapeVars, MInv, Typed, Phases, Current,
              SampleOfItsTarget
<1>2. CASE Collect
  BY <1>2, QuietMInv, CollectTargetMInv, NextTargetMInv, CollectMetricMInv,
     QueryMInv, QueryFailsMInv, DoneMInv, SendMInv DEF Collect
<1> QED BY <1>1, <1>2, QuietMInv, CacheMInv DEF Next

LEMMA AlwaysMInv == Spec => []MInv
<1> QED BY InitMInv, NextMInv, PTL DEF Spec

----------------------------------------------------------------------------
(* What the scrape has *)

LEMMA InitCInv == Init => CInv
  BY DEF Init, CInv, KeptThere, Paid, Due, Stopped, Nothing

(* What was there all along only shrinks, but when a scrape begins.        *)
LEMMA KeptShrinks ==
  ASSUME MInv, KeptThere, [Next]_vars, ~Begin
  PROVE  /\ kept'.targets \subseteq kept.targets
         /\ kept'.samples \subseteq kept.samples
         /\ KeptThere'
<1>1. CASE RemoveTarget
  <2>1. PICK t \in present :
          /\ present' = present \ {t}
          /\ samples' = [samples EXCEPT ![t] = {}]
          /\ kept' = [targets |-> kept.targets \ {t},
                     samples |-> kept.samples \ ({t} \X Leaves)]
    BY <1>1 DEF RemoveTarget
  <2>2. /\ kept'.targets = kept.targets \ {t}
        /\ kept'.samples = kept.samples \ ({t} \X Leaves)
    BY <2>1
  <2>3. ASSUME NEW x \in kept'.samples
        PROVE  x[2] \in samples'[x[1]]
    <3>1. /\ x \in kept.samples /\ x \notin {t} \X Leaves
          /\ x \in Targets \X Leaves
      BY <2>2 DEF MInv, Typed
    <3>2. x[1] # t /\ x[1] \in Targets
      BY <3>1
    <3>3. samples'[x[1]] = samples[x[1]]
      BY <2>1, <3>2 DEF MInv, Typed
    <3> QED BY <3>1, <3>3 DEF KeptThere
  <2> QED BY <2>1, <2>2, <2>3 DEF KeptThere
<1>2. CASE AddTarget
  BY <1>2 DEF AddTarget, KeptThere
<1>3. CASE StoreSample
  <2>1. PICK t \in present : \E l \in Leaves \ samples[t] :
           samples' = [samples EXCEPT ![t] = @ \cup {l}]
    BY <1>3 DEF StoreSample
  <2>2. kept' = kept /\ present' = present
    BY <1>3 DEF StoreSample
  <2>3. \A x \in kept.samples : x \in Targets \X Leaves
    BY DEF MInv, Typed
  <2>4. \A x \in kept.samples : x[2] \in samples'[x[1]]
    BY <2>1, <2>3 DEF KeptThere, MInv, Typed
  <2> QED BY <2>2, <2>4 DEF KeptThere
<1>4. CASE Answer
  BY <1>4 DEF Answer, KeptThere, Nothing
<1>5. CASE UNCHANGED <<present, samples, kept>>
  BY <1>5 DEF KeptThere
<1> QED BY <1>1, <1>2, <1>3, <1>4, <1>5
    DEF Next, vars, cacheVars, Configure, ListTargets, Listen, ConfigFails,
        Collect, GetTargets, Return, CollectTarget, NextTarget, CollectMetric,
        Query, QueryFails, Done, Send

(* A step that loses no goroutine on its way to what the target is due.    *)
LEMMA KeepsPaid ==
  ASSUME Paid, UNCHANGED <<list, at, mine>>, sent \subseteq sent',
         kept'.targets \subseteq kept.targets,
         kept'.samples \subseteq kept.samples,
         pc' = "wait" => pc = "wait",
         \A m, p, l : Due(at, m, p, l) /\ pc = "wait" /\ pc' = "wait"
                       /\ Coming(list[at], m, p, l)
            => SampleFor(list[at], m, l) \in sent' \/ Coming(list[at], m, p, l)'
  PROVE  Paid'
<1> SUFFICES ASSUME NEW i, NEW m, NEW p, NEW l, Due(i, m, p, l)'
             PROVE  /\ i < at => SampleFor(list[i], m, l) \in sent'
                    /\ i = at /\ pc' = "wait" =>
                          \/ SampleFor(list[i], m, l) \in sent'
                          \/ Coming(list[i], m, p, l)'
  BY DEF Paid, SampleFor, Coming
<1>1. Due(i, m, p, l)
  BY DEF Due
<1>2. i < at => SampleFor(list[i], m, l) \in sent'
  BY <1>1 DEF Paid
<1>3. ASSUME i = at, pc' = "wait"
      PROVE  SampleFor(list[i], m, l) \in sent' \/ Coming(list[i], m, p, l)'
  <2>1. pc = "wait" /\ Due(at, m, p, l)
    BY <1>1, <1>3
  <2>2. SampleFor(list[at], m, l) \in sent \/ Coming(list[at], m, p, l)
    BY <2>1 DEF Paid
  <2>3. SampleFor(list[at], m, l) \in sent' \/ Coming(list[at], m, p, l)'
    BY <1>3, <2>1, <2>2
  <2> QED BY <1>3, <2>3
<1> QED BY <1>2, <1>3

LEMMA DueFacts ==
  ASSUME MInv, KeptThere, NEW m, NEW p, NEW l, Due(at, m, p, l)
  PROVE  /\ Current \in present /\ m \in mine /\ m \in Metrics
         /\ p \in PathsOf[m] /\ p \in SUBSET Leaves /\ l \in p
         /\ l \in samples[Current]
<1>1. at \in 1 .. at /\ list[at] = Current
  BY ListFacts DEF Due, MInv, Typed, Current
<1>2. Current \in present
  BY <1>1 DEF Due, KeptThere
<1>3. m \in mine /\ m \in Metrics /\ p \in PathsOf[m] /\ l \in p
  BY DEF Due, MInv, Typed
<1>4. p \in SUBSET Leaves
  BY <1>3
<1>5. <<Current, l>> \in kept.samples
  BY <1>1 DEF Due
<1>6. l \in samples[Current]
  BY <1>5 DEF KeptThere
<1> QED BY <1>2, <1>3, <1>4, <1>6

(* Of a goroutine that is there the length tells which it is.              *)
LEMMA WayLengths ==
  /\ \A t, m : Len(<<t, m>>) = 2
  /\ \A t, m, p : Len(<<t, m, p>>) = 3
  /\ \A t, m, p, x : Len(<<t, m, p, x>>) = 4
  OBVIOUS

LEMMA CollectMetricPaid ==
  ASSUME MInv, CInv, pc # "crashed", CollectMetric
  PROVE  Paid'
<1>1. PICK n \in run : Len(n) = 2 /\ Spawn(n, {Append(n, p) : p \in PathsOf[n[2]]})
  BY DEF CollectMetric
<1>2. pc = "wait" /\ TreeOf(Current, run, wg)
  BY Running
<1>3. n \in MetricWays(Current) /\ n = <<Current, n[2]>>
  BY <1>1, <1>2, WayFacts DEF TreeOf
<1>4. \A x \in run : x # n => x \in run'
  BY <1>1 DEF Spawn
<1>5. \A p \in PathsOf[n[2]] : Append(n, p) \in run'
  BY <1>1 DEF Spawn
<1>6. ASSUME NEW m, NEW p, NEW l, Due(at, m, p, l), Coming(list[at], m, p, l)
      PROVE  Coming(list[at], m, p, l)'
  <2>1. /\ m \in Metrics /\ p \in PathsOf[m] /\ p \in SUBSET Leaves
        /\ list[at] = Current
    BY <1>6, DueFacts DEF CInv, Current
  <2> DEFINE t == Current
  <2>2. UNCHANGED <<list, at>>
    BY DEF CollectMetric
  <2>3. CASE <<t, m>> \in run
    <3>1. CASE n = <<t, m>>
      <4>1. n[2] = m
        BY <3>1
      <4>2. Append(n, p) = <<t, m, p>>
        BY <1>3, <2>1, <4>1, WaysDown
      <4>3. <<t, m, p>> \in run'
        BY <1>5, <2>1, <4>1, <4>2
      <4> QED BY <2>1, <2>2, <4>3 DEF Coming
    <3>2. CASE n # <<t, m>>
      <4>1. <<t, m>> \in run'
        BY <1>4, <2>3, <3>2, Zenon
      <4> QED BY <2>1, <2>2, <4>1 DEF Coming
    <3> QED BY <3>1, <3>2
  <2>4. CASE <<t, m, p>> \in run
    <3>1. <<t, m, p>> \in run'
      <4>1. Len(<<t, m, p>>) # Len(n)
        BY <1>1, WayLengths
      <4> QED BY <1>4, <2>4, <4>1, Zenon
    <3> QED BY <2>1, <2>2, <3>1 DEF Coming
  <2>5. CASE <<t, m, p, <<t, l>>>> \in run
    <3>1. <<t, m, p, <<t, l>>>> \in run'
      <4>1. Len(<<t, m, p, <<t, l>>>>) # Len(n)
        BY <1>1, WayLengths
      <4> QED BY <1>4, <2>5, <4>1, Zenon
    <3> QED BY <2>1, <2>2, <3>1 DEF Coming
  <2> QED BY <1>6, <2>1, <2>3, <2>4, <2>5 DEF Coming
<1>7. /\ UNCHANGED <<list, at, mine, pc, sent, kept>>
  BY DEF CollectMetric
<1> QED BY <1>6, <1>7, KeepsPaid DEF CInv

LEMMA QueryPaid ==
  ASSUME MInv, CInv, pc # "crashed", Query
  PROVE  Paid'
<1>1. PICK n \in run :
         Len(n) = 3 /\ Spawn(n, OfLeaves(n, Current, samples[Current]))
  BY Zenon DEF Query, OfLeaves
<1>2. pc = "wait" /\ TreeOf(Current, run, wg)
  BY Running
<1>3. n \in PathWays(Current)
  BY SMTT(30), <1>1, <1>2, WayFacts DEF TreeOf
<1>4. /\ \A x \in run : x # n => x \in run'
      /\ OfLeaves(n, Current, samples[Current]) \subseteq run'
  BY <1>1 DEF Spawn
<1>5. UNCHANGED <<list, at, mine, pc, sent, kept>>
  BY Zenon DEF Query
<1>6. ASSUME NEW m, NEW p, NEW l, Due(at, m, p, l), Coming(list[at], m, p, l)
      PROVE  Coming(list[at], m, p, l)'
  <2>1. /\ m \in Metrics /\ p \in SUBSET Leaves /\ l \in p
        /\ l \in samples[Current] /\ list[at] = Current
    BY <1>6, DueFacts DEF CInv, Current
  <2> DEFINE t == Current
  <2>3. CASE <<t, m>> \in run
    <3>1. <<t, m>> \in run'
      <4>1. Len(<<t, m>>) # Len(n)
        BY <1>1, WayLengths
      <4> QED BY <1>4, <2>3, <4>1, Zenon
    <3> QED BY <1>5, <2>1, <3>1 DEF Coming
  <2>4. CASE <<t, m, p>> \in run
    <3>1. CASE n = <<t, m, p>>
      <4>1. n[2] = m /\ n[3] = p
        BY <3>1
      <4>2. Append(n, <<t, l>>) = <<t, m, p, <<t, l>>>>
        BY <1>3, <2>1, <4>1, WaysDown
      <4>3. l \in n[3] \cap samples[t]
        BY <2>1, <4>1
      <4>4. Append(n, <<t, l>>) \in OfLeaves(n, t, samples[t])
        BY <4>3, Zenon DEF OfLeaves
      <4>5. <<t, m, p, <<t, l>>>> \in run'
        BY <1>4, <4>2, <4>4, Zenon
      <4> QED BY <1>5, <2>1, <4>5 DEF Coming
    <3>2. CASE n # <<t, m, p>>
      <4>1. <<t, m, p>> \in run'
        BY <1>4, <2>4, <3>2, Zenon
      <4> QED BY <1>5, <2>1, <4>1 DEF Coming
    <3> QED BY <3>1, <3>2
  <2>5. CASE <<t, m, p, <<t, l>>>> \in run
    <3>1. <<t, m, p, <<t, l>>>> \in run'
      <4>1. Len(<<t, m, p, <<t, l>>>>) # Len(n)
        BY <1>1, WayLengths
      <4> QED BY <1>4, <2>5, <4>1, Zenon
    <3> QED BY <1>5, <2>1, <3>1 DEF Coming
  <2> QED BY <1>6, <2>1, <2>3, <2>4, <2>5 DEF Coming
<1> QED BY <1>5, <1>6, KeepsPaid DEF CInv

LEMMA SendPaid ==
  ASSUME MInv, CInv, pc # "crashed", Send
  PROVE  Paid'
<1> DEFINE x(n) == [label |-> n[1], metric |-> n[2],
                    from |-> n[4][1], leaf |-> n[4][2]]
<1>1. PICK n \in run :
         /\ Len(n) = 4
         /\ IF n[2] \in Described
            THEN /\ sent' = sent \cup {x(n)}
                 /\ run' = run \ {n} /\ wg' = Released(n, wg)
                 /\ UNCHANGED pc
            ELSE pc' = "crashed" /\ UNCHANGED <<run, wg, sent>>
  BY DEF Send
<1>2. UNCHANGED <<list, at, mine, kept>> /\ sent \subseteq sent'
  BY <1>1 DEF Send
<1>3. pc = "wait"
  BY Running
<1>4. ASSUME NEW m, NEW p, NEW l, pc' = "wait", Coming(list[at], m, p, l)
      PROVE  SampleFor(list[at], m, l) \in sent' \/ Coming(list[at], m, p, l)'
  <2> DEFINE t == list[at]
  <2>1. /\ sent' = sent \cup {x(n)} /\ run' = run \ {n}
    BY <1>1, <1>4
  <2>2. CASE n = <<t, m, p, <<t, l>>>>
    <3>1. n[1] = t /\ n[2] = m /\ n[4][1] = t /\ n[4][2] = l
      BY <2>2
    <3>2. x(n) = SampleFor(t, m, l)
      BY <3>1 DEF SampleFor
    <3> HIDE DEF x
    <3> QED BY <2>1, <3>2
  <2>3. CASE n # <<t, m, p, <<t, l>>>>
    <3>1. Len(<<t, m>>) # Len(n) /\ Len(<<t, m, p>>) # Len(n)
      BY <1>1, WayLengths
    <3>2. <<t, m>> # n /\ <<t, m, p>> # n
      BY <3>1, Zenon
    <3>3. \A y \in run : y # n => y \in run'
      BY <2>1
    <3>4. /\ <<t, m>> \in run => <<t, m>> \in run'
          /\ <<t, m, p>> \in run => <<t, m, p>> \in run'
          /\ <<t, m, p, <<t, l>>>> \in run => <<t, m, p, <<t, l>>>> \in run'
      BY <2>3, <3>2, <3>3, Zenon
    <3>5. t' = t
      BY <1>2
    <3> HIDE DEF x, t
    <3>6. Coming(t, m, p, l)'
      BY <1>4, <3>4, <3>5 DEF Coming, t
    <3> QED BY <3>6 DEF t
  <2> QED BY <2>2, <2>3
<1> QED BY <1>2, <1>3, <1>4, KeepsPaid DEF CInv

(* A query fails only when its target has lost the cache.                  *)
LEMMA QueryFailsPaid ==
  ASSUME MInv, CInv, pc # "crashed", QueryFails
  PROVE  Paid'
<1>1. Current \notin present
      /\ UNCHANGED <<list, at, mine, pc, sent, kept>>
  BY DEF QueryFails
<1>2. \A m, p, l : ~Due(at, m, p, l)
  BY <1>1, DueFacts DEF CInv
<1> QED BY <1>1, <1>2, KeepsPaid DEF CInv

LEMMA DonePaid ==
  ASSUME MInv, CInv, Done
  PROVE  Paid'
<1>1. UNCHANGED <<list, at, mine, pc, sent, run, kept>>
  BY DEF Done
<1>2. \A m, p, l : Coming(list[at], m, p, l) => Coming(list[at], m, p, l)'
  BY <1>1 DEF Coming
<1> QED BY <1>1, <1>2, KeepsPaid DEF CInv

LEMMA CollectTargetPaid ==
  ASSUME MInv, CInv, CollectTarget
  PROVE  Paid'
<1>1. /\ UNCHANGED <<list, at, mine, sent, kept>>
      /\ \A m \in mine : <<Current, m>> \in run'
  BY DEF CollectTarget, Spawn
<1> SUFFICES ASSUME NEW i, NEW m, NEW p, NEW l, Due(i, m, p, l)'
             PROVE  /\ i < at => SampleFor(list[i], m, l) \in sent'
                    /\ i = at => Coming(list[i], m, p, l)'
  BY <1>1 DEF Paid, SampleFor, Coming
<1>2. Due(i, m, p, l)
  BY <1>1 DEF Due
<1>3. i < at => SampleFor(list[i], m, l) \in sent'
  BY <1>1, <1>2 DEF CInv, Paid
<1>4. i = at => Coming(list[i], m, p, l)'
  BY <1>1, <1>2 DEF Due, Coming, Current
<1> QED BY <1>3, <1>4

(* When Collect goes on nothing is coming any more, so it is there.        *)
LEMMA NextTargetPaid ==
  ASSUME MInv, CInv, NextTarget
  PROVE  Paid'
<1>1. /\ pc = "wait" /\ wg[<<Current>>] = 0 /\ pc' = "next" /\ at' = at + 1
      /\ UNCHANGED <<list, mine, sent, kept>>
  BY DEF NextTarget, Joined
<1>2. at \in 1 .. Len(list) /\ TreeOf(Current, run, wg)
  BY <1>1 DEF MInv, Phases
<1>3. run = {}
  BY <1>1, <1>2, TreeOver
<1> SUFFICES ASSUME NEW i, NEW m, NEW p, NEW l, Due(i, m, p, l)', i < at + 1
             PROVE  SampleFor(list[i], m, l) \in sent
  BY <1>1 DEF Paid, SampleFor
<1>4. Due(i, m, p, l)
  BY <1>1 DEF Due
<1>5. i \in Nat /\ at \in Nat
  BY <1>4, ListFacts DEF Due, MInv, Typed
<1>6. ~Coming(list[i], m, p, l)
  BY <1>3 DEF Coming
<1>7. CASE i < at
  BY <1>4, <1>7 DEF CInv, Paid
<1>8. CASE i = at
  BY <1>1, <1>4, <1>6, <1>8 DEF CInv, Paid
<1> QED BY <1>5, <1>7, <1>8

(* Before the first target, and after the scrape, nothing is due.          *)
LEMMA NothingDue ==
  ASSUME MInv, CInv, Begin \/ Answer \/ GetTargets
  PROVE  Paid'
<1>0. DOMAIN <<>> = {}
  OBVIOUS
<1>1. CASE Begin
  <2>1. list' = <<>>
    BY <1>1 DEF Begin, MInv, Phases
  <2> QED BY <1>0, <2>1 DEF Paid, Due
<1>2. CASE Answer
  <2>1. list' = <<>>
    BY <1>2 DEF Answer
  <2> QED BY <1>0, <2>1 DEF Paid, Due
<1>3. CASE GetTargets
  <2>1. /\ at' = 1 /\ pc' = "next" /\ list' \in Lists
    BY <1>3 DEF GetTargets, MInv, Typed
  <2>2. \A i \in DOMAIN list' : i \in Nat /\ i >= 1
    BY <2>1, ListFacts
  <2> QED BY <2>1, <2>2 DEF Paid, Due
<1> QED BY <1>1, <1>2, <1>3

LEMMA NextPaid ==
  ASSUME MInv, CInv, [Next]_vars
  PROVE  Paid'
<1>1. CASE \/ Configure \/ ListTargets \/ AddTarget \/ RemoveTarget \/ StoreSample
           \/ UNCHANGED vars
  <2>1. UNCHANGED <<list, at, mine, pc, sent, run>>
    BY <1>1 DEF Configure, ListTargets, AddTarget, RemoveTarget, StoreSample,
                Change, scrapeVars, vars
  <2>2. ~Begin
    BY <2>1 DEF Begin
  <2>3. /\ kept'.targets \subseteq kept.targets
        /\ kept'.samples \subseteq kept.samples
    BY <2>2, KeptShrinks DEF CInv
  <2>4. \A m, p, l : Coming(list[at], m, p, l) => Coming(list[at], m, p, l)'
    BY <2>1 DEF Coming
  <2> QED BY <2>1, <2>3, <2>4, KeepsPaid DEF CInv
<1>2. CASE Listen \/ ConfigFails \/ Return
  <2>1. UNCHANGED <<list, at, mine, sent, kept>> /\ pc' # "wait"
    BY <1>2 DEF Listen, ConfigFails, Return
  <2> QED BY <2>1, KeepsPaid DEF CInv
<1> QED BY <1>1, <1>2, NothingDue, CollectTargetPaid, NextTargetPaid,
           CollectMetricPaid, QueryPaid, QueryFailsPaid, DonePaid, SendPaid
        DEF Next, Collect

LEMMA NextStopped ==
  ASSUME MInv, CInv, [Next]_vars
  PROVE  Stopped'
<1> SUFFICES ASSUME pc' = "returned", (at <= Len(list))'
             PROVE  (mine = {} \/ at = 0 \/ Current \notin kept.targets)'
  BY DEF Stopped
<1>1. CASE Return
  <2>1. /\ UNCHANGED <<mine, list, at, kept>>
        /\ mine = {} \/ Current \notin present
    BY <1>1 DEF Return
  <2> QED BY <2>1 DEF CInv, KeptThere, Current
<1>2. CASE ConfigFails
  BY <1>2 DEF ConfigFails, MInv, Phases
<1>3. CASE pc = "returned"
  <2>1. UNCHANGED <<mine, list, at>> /\ ~Begin
    BY <1>3 DEF Next, vars, cacheVars, scrapeVars, Configure, ListTargets,
        AddTarget, RemoveTarget, StoreSample, Change, Listen, Begin, ConfigFails,
        Answer, Collect, GetTargets, Return, CollectTarget, NextTarget,
        CollectMetric, Query, QueryFails, Done, Send
  <2>2. kept'.targets \subseteq kept.targets
    BY <2>1, KeptShrinks DEF CInv
  <2> QED BY <1>3, <2>1, <2>2 DEF CInv, Stopped, Current
<1> QED BY <1>1, <1>2, <1>3 DEF Next, vars, cacheVars, scrapeVars, Configure,
        ListTargets, AddTarget, RemoveTarget, StoreSample, Change, Listen, Begin,
        Answer, Collect, GetTargets, CollectTarget, NextTarget, CollectMetric,
        Query, QueryFails, Done, Send, MInv, Phases

LEMMA NextCInv == MInv /\ CInv /\ [Next]_vars => CInv'
<1> SUFFICES ASSUME MInv, CInv, [Next]_vars PROVE CInv'
  OBVIOUS
<1>1. KeptThere'
  <2>1. CASE Begin
    <3>1. kept' = [targets |-> present,
                   samples |-> {x \in Targets \X Leaves : x[2] \in samples[x[1]]}]
          /\ UNCHANGED cacheVars
      BY <2>1 DEF Begin
    <3>2. /\ kept'.targets = present
          /\ kept'.samples = {x \in Targets \X Leaves : x[2] \in samples[x[1]]}
      BY <3>1
    <3> QED BY <3>1, <3>2 DEF KeptThere, cacheVars
  <2> QED BY <2>1, KeptShrinks DEF CInv
<1> QED BY <1>1, NextPaid, NextStopped DEF CInv

LEMMA AlwaysCInv == Spec => [](MInv /\ CInv)
<1>1. Init => MInv /\ CInv
  BY InitMInv, InitCInv
<1>2. (MInv /\ CInv) /\ [Next]_vars => (MInv /\ CInv)'
  BY NextMInv, NextCInv
<1> QED BY <1>1, <1>2, PTL DEF Spec

----------------------------------------------------------------------------
(* The theorems *)

(* Every state of the metric server has the types it should have: a        *)
(* goroutine is named by its way down from a target, and no wait group     *)
(* counts below zero, where wg.Done would panic (server.go:199-279).       *)
THEOREM TypeCorrect == Spec => []TypeOK
<1>1. MInv => TypeOK
  <2> SUFFICES ASSUME MInv PROVE TypeOK
    OBVIOUS
  <2>1. /\ \A n \in run : Len(n) \in 2 .. 4
        /\ DOMAIN wg \subseteq Node
        /\ \A n \in DOMAIN wg : wg[n] \in Nat
    <3>1. CASE run = {} /\ DOMAIN wg = {}
      BY <3>1
    <3>2. CASE ~(run = {} /\ DOMAIN wg = {})
      <4>1. at \in 1 .. Len(list) /\ TreeOf(Current, run, wg)
        BY <3>2 DEF MInv, Phases
      <4>2. Current \in Targets
        BY <4>1, ListFacts DEF MInv, Typed, Current
      <4>3. \A n \in run : Len(n) \in 2 .. 4
        BY <4>1, WayFacts DEF TreeOf
      <4>4. DOMAIN wg \subseteq Node
        BY <4>1, <4>2 DEF TreeOf, Node, MetricWays, PathWays
      <4>5. \A n \in DOMAIN wg : wg[n] \in Nat
        BY <4>1, FS_CardinalityType DEF TreeOf
      <4> QED BY <4>3, <4>4, <4>5
    <3> QED BY <3>1, <3>2
  <2>2. at \in 0 .. Len(list) + 1
    BY ListFacts DEF MInv, Typed, Phases
  <2>3. kept.targets \subseteq Targets /\ kept.samples \subseteq Targets \X Leaves
    BY DEF MInv, Typed
  <2> QED BY <2>1, <2>2, <2>3 DEF MInv, Typed, TypeOK
<1> QED BY <1>1, AlwaysMInv, PTL

(* When Collect has returned none of its goroutines is left: the registry  *)
(* closes the channel then, and a send would panic (server.go:184-278).    *)
THEOREM NoSendAfterReturnHolds == Spec => []NoSendAfterReturn
<1>1. MInv => NoSendAfterReturn
  BY DEF MInv, Phases, NoSendAfterReturn
<1> QED BY <1>1, AlwaysMInv, PTL

(* A sample is labelled with the target whose cache it was read from,      *)
(* though the query uses the loop variable and the label a copy of it:     *)
(* Collect does not go on before the goroutines of a target are done       *)
(* (server.go:197-198, 222, 244).                                          *)
THEOREM SampleOfItsTargetHolds == Spec => []SampleOfItsTarget
<1>1. MInv => SampleOfItsTarget
  BY DEF MInv
<1> QED BY <1>1, AlwaysMInv, PTL

(* A scrape whose targets kept their caches, up to some target of the      *)
(* list, has of that target everything that was cached all along and that  *)
(* the configuration it read asks for (server.go:197-277).                 *)
THEOREM ScrapeIsCompleteHolds == Spec => []ScrapeIsComplete
<1>1. MInv /\ CInv => ScrapeIsComplete
  <2> SUFFICES ASSUME MInv, CInv, pc = "returned", NEW i \in DOMAIN list,
                      \A j \in 1 .. i : list[j] \in kept.targets,
                      NEW m \in mine, NEW p \in PathsOf[m], NEW l \in p,
                      <<list[i], l>> \in kept.samples
               PROVE  SampleFor(list[i], m, l) \in sent
    BY DEF ScrapeIsComplete, SampleFor
  <2>1. i \in 1 .. Len(list) /\ Len(list) \in Nat /\ at \in Nat
    BY ListFacts DEF MInv, Typed
  <2>2. Due(i, m, p, l)
    BY DEF Due
  <2>3. at # 0
    BY <2>1, EmptyList, ListFacts DEF MInv, Phases
  <2>4. ASSUME at <= i PROVE FALSE
    <3>1. Current \notin kept.targets
      BY <2>1, <2>3, <2>4 DEF CInv, Stopped
    <3>2. at \in 1 .. i
      BY <2>1, <2>3, <2>4
    <3> QED BY <3>1, <3>2 DEF Current
  <2>5. i < at
    BY <2>1, <2>4
  <2> QED BY <2>2, <2>5 DEF CInv, Paid
<1> QED BY <1>1, AlwaysCInv, PTL

----------------------------------------------------------------------------
(* A scrape comes to its end *)

Scraping == pc \in {"targets", "next", "wait"}

(* Half steps of Collect's loop that are still to come.                    *)
Rounds == IF pc = "targets" THEN 2 * Cardinality(Targets) + 2
          ELSE 2 * (Len(list) + 1 - at) + (IF pc = "next" THEN 1 ELSE 0)

(* Goroutines of a level that are to do their first step, and those of any *)
(* level that wait.                                                        *)
First(k) == {n \in run : Len(n) = k}
Starting(k) == Cardinality(First(k))
Waiting == Cardinality(DOMAIN wg)

(* The loop is further on; or it is not and fewer metrics are to be looked *)
(* at, or as many metrics and fewer paths, or as many of them and fewer    *)
(* samples, or nothing is different but that fewer goroutines wait.        *)
Nearer ==
    \/ Rounds' < Rounds
    \/ /\ Rounds' = Rounds
       /\ \/ Starting(2)' < Starting(2)
          \/ /\ Starting(2)' = Starting(2)
             /\ \/ Starting(3)' < Starting(3)
                \/ /\ Starting(3)' = Starting(3)
                   /\ \/ Starting(4)' < Starting(4)
                      \/ Starting(4)' = Starting(4) /\ Waiting' < Waiting

(* While Collect waits there is a goroutine to do its first step or one    *)
(* whose wait is over: no wait group waits for a Done that nobody will say *)
(* (server.go:199-279).                                                    *)
NobodyWaitsForNothing ==
    pc = "wait" => run # {} \/ \E n \in DOMAIN wg : Joined(n)

(* A step of a scrape ends it or brings it nearer to its end, and nobody   *)
(* else's step takes it back (server.go:184-279).                          *)
ScrapeAdvances ==
    [][Scraping => IF Collect THEN pc' \in {"returned", "crashed"} \/ Nearer
                   ELSE UNCHANGED scrapeVars]_vars

LEMMA TreeGoesOn ==
  ASSUME NEW t, NEW w, TreeOf(t, {}, w)
  PROVE  \E n \in DOMAIN w : w[n] = 0
<1> SUFFICES ASSUME \A n \in DOMAIN w : w[n] # 0 PROVE FALSE
  OBVIOUS
<1>1. ASSUME NEW n \in DOMAIN w
      PROVE  \E x \in DOMAIN w : Len(x) > 1 /\ Parent(x) = n
  <2>1. Below(n, {}, w) # {}
    BY FS_EmptySet DEF TreeOf
  <2> QED BY <2>1 DEF Below
<1>2. DOMAIN w \subseteq {<<t>>} \cup MetricWays(t) \cup PathWays(t)
  BY DEF TreeOf
<1>3. \A x \in DOMAIN w : Len(x) > 1 =>
         \/ x \in MetricWays(t) /\ Parent(x) = <<t>>
         \/ x \in PathWays(t) /\ Parent(x) \in MetricWays(t)
  <2>1. \A x : x = <<t>> => Len(x) = 1
    BY WayFacts, Zenon
  <2>2. \A x \in DOMAIN w : Len(x) > 1 => x # <<t>>
    <3> SUFFICES ASSUME NEW x \in DOMAIN w, x = <<t>>, Len(x) > 1
                 PROVE  FALSE
      OBVIOUS
    <3>1. Len(x) = 1
      BY <2>1, Zenon
    <3>2. 1 > 1
      BY <3>1, Zenon
    <3> QED BY <3>2
  <2>3. \A x \in DOMAIN w : Len(x) > 1 => x \in MetricWays(t) \cup PathWays(t)
    BY <1>2, <2>2
  <2> QED BY <2>3, WayFacts
<1>4. \A n \in MetricWays(t) : n # <<t>> /\ n \notin PathWays(t)
  BY WayFacts
<1>5. \A n \in PathWays(t) : n # <<t>>
  BY WayFacts
<1>6. \A n \in DOMAIN w : n \notin PathWays(t)
  BY <1>1, <1>3, <1>4, <1>5
<1>7. \A n \in DOMAIN w : n \notin MetricWays(t)
  BY <1>1, <1>3, <1>4, <1>6
<1>8. <<t>> \in DOMAIN w
  BY DEF TreeOf
<1> QED BY <1>1, <1>3, <1>6, <1>7, <1>8

(* While Collect waits there is always a goroutine of its that goes on, so *)
(* that a scrape hangs on nothing, whatever becomes of its targets         *)
(* (server.go:199-279).                                                    *)
THEOREM NobodyWaitsForNothingHolds == Spec => []NobodyWaitsForNothing
<1>1. MInv => NobodyWaitsForNothing
  <2> SUFFICES ASSUME MInv, pc = "wait", run = {}
               PROVE  \E n \in DOMAIN wg : wg[n] = 0
    BY DEF NobodyWaitsForNothing, Joined
  <2>1. TreeOf(Current, {}, wg)
    BY DEF MInv, Phases
  <2> QED BY <2>1, TreeGoesOn
<1> QED BY <1>1, AlwaysMInv, PTL

LEMMA WaysFinite ==
  ASSUME NEW t
  PROVE  /\ IsFiniteSet(MetricWays(t)) /\ IsFiniteSet(PathWays(t))
         /\ IsFiniteSet(SampleWays(t))
<1>1. IsFiniteSet(MetricWays(t))
  <2> DEFINE f == [m \in Metrics |-> <<t, m>>]
  <2>1. DOMAIN f = Metrics /\ \A y \in MetricWays(t) :
                               \E m \in Metrics : f[m] = y
    BY DEF MetricWays
  <2> HIDE DEF f
  <2> QED BY <2>1, FiniteImage
<1>2. IsFiniteSet(PathWays(t))
  <2> DEFINE S == Metrics \X SUBSET Leaves
             f == [x \in S |-> <<t, x[1], x[2]>>]
  <2>1. IsFiniteSet(S)
    <3>1. PICK U : U = SUBSET Leaves /\ IsFiniteSet(U)
      BY FS_SUBSET
    <3>2. IsFiniteSet(Metrics \X U)
      BY <3>1, FS_Product
    <3> QED BY <3>1, <3>2
  <2>2. \A y \in PathWays(t) : \E x \in S : f[x] = y
    <3> SUFFICES ASSUME NEW y \in PathWays(t) PROVE \E x \in S : f[x] = y
      OBVIOUS
    <3>0. PICK m \in Metrics, p \in SUBSET Leaves : y = <<t, m, p>>
      BY DEF PathWays
    <3>1. PICK x : x = <<m, p>>
      OBVIOUS
    <3>2. x \in S /\ x[1] = m /\ x[2] = p
      BY <3>1
    <3>3. f[x] = <<t, m, p>>
      BY <3>2
    <3> QED BY <3>0, <3>2, <3>3
  <2>3. DOMAIN f = S
    OBVIOUS
  <2> HIDE DEF S, f
  <2> QED BY <2>1, <2>2, <2>3, FiniteImage
<1>3. IsFiniteSet(SampleWays(t))
  <2> DEFINE S == PathWays(t) \X Leaves
             f == [x \in S |-> <<t, x[1][2], x[1][3], <<t, x[2]>>>>]
  <2>1. IsFiniteSet(S)
    <3>1. PICK U : U = PathWays(t) /\ IsFiniteSet(U)
      BY <1>2
    <3>2. IsFiniteSet(U \X Leaves)
      BY <3>1, FS_Product
    <3> QED BY <3>1, <3>2
  <2>2. \A y \in SampleWays(t) : \E x \in S : f[x] = y
    <3> SUFFICES ASSUME NEW y \in SampleWays(t) PROVE \E x \in S : f[x] = y
      OBVIOUS
    <3>0. PICK m \in Metrics, p \in SUBSET Leaves, l \in Leaves :
             y = <<t, m, p, <<t, l>>>>
      BY DEF SampleWays
    <3>1. <<t, m, p>> \in PathWays(t)
      BY DEF PathWays
    <3>2. PICK x : x = <<<<t, m, p>>, l>>
      OBVIOUS
    <3>3. x \in S
      BY <3>1, <3>2
    <3>4. x[1] = <<t, m, p>> /\ x[2] = l
      BY <3>2
    <3>5. x[1][2] = m /\ x[1][3] = p
      BY <3>4
    <3>6. f[x] = <<t, m, p, <<t, l>>>>
      BY <3>3, <3>4, <3>5
    <3> QED BY <3>0, <3>3, <3>6
  <2>3. DOMAIN f = S
    OBVIOUS
  <2> HIDE DEF S, f
  <2> QED BY <2>1, <2>2, <2>3, FiniteImage
<1> QED BY <1>1, <1>2, <1>3

LEMMA Counted ==
  ASSUME MInv, pc # "crashed"
  PROVE  /\ IsFiniteSet(run) /\ IsFiniteSet(DOMAIN wg) /\ Waiting \in Nat
         /\ \A k : IsFiniteSet(First(k)) /\ Starting(k) \in Nat
<1>1. IsFiniteSet(run) /\ IsFiniteSet(DOMAIN wg)
  <2>1. CASE run = {} /\ DOMAIN wg = {}
    BY <2>1, FS_EmptySet
  <2>2. CASE ~(run = {} /\ DOMAIN wg = {})
    <3>1. PICK t : TreeOf(t, run, wg)
      BY <2>2, Running
    <3>2. IsFiniteSet(MetricWays(t) \cup PathWays(t) \cup SampleWays(t))
      BY WaysFinite, FS_Union
    <3>3. IsFiniteSet({<<t>>} \cup MetricWays(t) \cup PathWays(t))
      BY WaysFinite, FS_Union, FS_Singleton
    <3> QED BY <3>1, <3>2, <3>3, FS_Subset DEF TreeOf
  <2> QED BY <2>1, <2>2
<1>2. ASSUME NEW k PROVE IsFiniteSet(First(k))
  <2>1. First(k) \in SUBSET run
    BY DEF First
  <2> QED BY <1>1, <2>1, FS_Subset
<1> QED BY <1>1, <1>2, FS_CardinalityType DEF Starting, Waiting

(* A set that loses an element has one element less.                       *)
LEMMA OneLess ==
  ASSUME NEW S, IsFiniteSet(S), NEW n \in S
  PROVE  Cardinality(S \ {n}) < Cardinality(S)
<1>1. Cardinality(S \ {n}) = Cardinality(S) - 1 /\ Cardinality(S) \in Nat
  BY FS_RemoveElement, FS_CardinalityType
<1> QED BY <1>1

(* The steps of the goroutines.                                            *)
LEMMA TreeNearer ==
  ASSUME MInv, pc # "crashed", CollectMetric \/ Query \/ QueryFails \/ Done \/ Send
  PROVE  pc' = "crashed" \/ Nearer
<1>1. pc = "wait" /\ TreeOf(Current, run, wg)
  BY Running DEF CollectMetric, Query, QueryFails, Done, Send
<1>2. pc' # "crashed" => pc' = pc
  BY DEF CollectMetric, Query, QueryFails, Done, Send
<1>3. pc' # "crashed" => Rounds' = Rounds
  BY <1>2 DEF CollectMetric, Query, QueryFails, Done, Send, Rounds
<1>4. CASE CollectMetric
  <2>1. PICK n \in run :
          Len(n) = 2 /\ Spawn(n, {Append(n, p) : p \in PathsOf[n[2]]})
    BY <1>4 DEF CollectMetric
  <2> DEFINE below == {Append(n, p) : p \in PathsOf[n[2]]}
  <2>2. n \in MetricWays(Current)
    BY <1>1, <2>1, WayFacts DEF TreeOf
  <2>3. \A x \in below : Len(x) = 3
    <3>1. \A x \in below : x \in PathWays(Current)
      BY <2>2, BelowMetric
    <3> HIDE DEF below
    <3> QED BY <3>1, WayFacts
  <2>4. run' = (run \ {n}) \cup below
    BY <2>1 DEF Spawn
  <2> HIDE DEF below
  <2>5. First(2)' = First(2) \ {n} /\ n \in First(2)
    BY <2>1, <2>3, <2>4 DEF First
  <2>6. Starting(2)' < Starting(2)
    BY <2>5, Counted, OneLess DEF Starting
  <2>7. pc' = pc
    BY <1>4 DEF CollectMetric
  <2> QED BY <1>1, <1>3, <2>6, <2>7 DEF Nearer
<1>5. CASE Query \/ QueryFails
  <2>1. PICK n \in run : \E below :
          /\ Len(n) = 3 /\ run' = (run \ {n}) \cup below
          /\ \A x \in below : Len(x) = 4
    <3>1. CASE QueryFails
      <4>1. PICK n \in run : Len(n) = 3 /\ run' = run \ {n}
        BY <3>1 DEF QueryFails
      <4>2. \E below : below = {}
        OBVIOUS
      <4>3. PICK below : below = {}
        BY <4>2
      <4>4. run' = (run \ {n}) \cup below /\ \A x \in below : Len(x) = 4
        BY <4>1, <4>3
      <4> QED BY <4>1, <4>4
    <3>2. CASE Query
      <4>1. PICK n \in run :
              Len(n) = 3 /\ Spawn(n, OfLeaves(n, Current, samples[Current]))
        BY Zenon, <3>2 DEF Query, OfLeaves
      <4> DEFINE below == OfLeaves(n, Current, samples[Current])
      <4>2. n \in PathWays(Current) /\ Current \in Targets
        <5>1. n \in MetricWays(Current) \cup PathWays(Current)
                      \cup SampleWays(Current)
          BY <1>1, <4>1 DEF TreeOf
        <5>2. Current \in Targets
          BY <4>1, Running
        <5> QED BY <4>1, <5>1, <5>2, WayFacts
      <4>3. samples[Current] \in SUBSET Leaves
        BY <4>2 DEF MInv, Typed
      <4>4. \A x \in below : x \in SampleWays(Current)
        BY <4>2, <4>3, BelowPath
      <4>5. \A x \in below : Len(x) = 4
        BY <4>4, WayFacts
      <4>6. run' = (run \ {n}) \cup below
        BY <4>1 DEF Spawn
      <4> HIDE DEF below
      <4> QED BY <4>1, <4>5, <4>6
    <3> QED BY <1>5, <3>1, <3>2
  <2>2. /\ First(2)' = First(2)
        /\ First(3)' = First(3) \ {n} /\ n \in First(3)
    BY <2>1 DEF First
  <2>3. Starting(2)' = Starting(2) /\ Starting(3)' < Starting(3)
    BY <2>2, Counted, OneLess DEF Starting
  <2>4. pc' = pc
    BY <1>5 DEF Query, QueryFails
  <2> QED BY <1>1, <1>3, <2>3, <2>4 DEF Nearer
<1>6. CASE Send /\ pc' # "crashed"
  <2>1. PICK n \in run : Len(n) = 4 /\ run' = run \ {n}
    BY <1>6 DEF Send
  <2>2. /\ First(2)' = First(2) /\ First(3)' = First(3)
        /\ First(4)' = First(4) \ {n} /\ n \in First(4)
    BY <2>1 DEF First
  <2>3. /\ Starting(2)' = Starting(2) /\ Starting(3)' = Starting(3)
        /\ Starting(4)' < Starting(4)
    BY <2>2, Counted, OneLess DEF Starting
  <2> QED BY <1>3, <1>6, <2>3 DEF Nearer
<1>7. CASE Done
  <2>1. PICK n \in DOMAIN wg : wg' = Forgotten(n, Released(n, wg))
    BY <1>7 DEF Done
  <2>2. DOMAIN wg' = DOMAIN wg \ {n}
    BY <2>1 DEF Forgotten, Released
  <2>3. Waiting' < Waiting
    BY <2>2, Counted, OneLess DEF Waiting
  <2>4. run' = run /\ pc' = pc
    BY <1>7 DEF Done
  <2>5. \A k : Starting(k)' = Starting(k)
    BY <2>4 DEF Starting, First
  <2> QED BY <1>1, <1>3, <2>3, <2>4, <2>5 DEF Nearer
<1> QED BY <1>4, <1>5, <1>6, <1>7

(* The steps of Collect's own loop.                                        *)
LEMMA LoopNearer ==
  ASSUME MInv, GetTargets \/ Return \/ CollectTarget \/ NextTarget
  PROVE  pc' = "returned" \/ Nearer
<1> DEFINE c == Cardinality(Targets)
           k == Len(list)
<1>0. c \in Nat /\ k \in Nat /\ at \in Nat
  <2>1. c \in Nat
    BY FS_CardinalityType
  <2>2. list \in Lists /\ at \in Nat
    BY DEF MInv, Typed
  <2> QED BY <2>1, <2>2, ListFacts
<1>1. CASE GetTargets
  <2>1. pc = "targets" /\ pc' = "next" /\ list' = listed /\ at' = 1
    BY <1>1 DEF GetTargets
  <2>2. Len(listed) \in Nat /\ Len(listed) <= c
    <3>1. listed \in SeqOf(Targets, c)
      BY DEF MInv, Typed, Lists
    <3>2. PICK i \in 0 .. c : listed \in [1 .. i -> Targets]
      BY <3>1 DEF SeqOf
    <3> QED BY <1>0, <3>2
  <2>3. Rounds = 2 * c + 2 /\ Rounds' = 2 * (Len(listed) + 1 - 1) + 1
    BY <2>1 DEF Rounds
  <2> HIDE DEF c
  <2>4. Rounds' < Rounds
    BY <1>0, <2>2, <2>3
  <2> QED BY <2>4 DEF Nearer
<1>2. CASE CollectTarget
  <2>1. pc = "next" /\ pc' = "wait" /\ list' = list /\ at' = at
    BY <1>2 DEF CollectTarget
  <2>2. Rounds = 2 * (k + 1 - at) + 1 /\ Rounds' = 2 * (k + 1 - at) + 0
    BY <2>1 DEF Rounds
  <2> HIDE DEF k
  <2>3. Rounds' < Rounds
    BY <1>0, <2>2
  <2> QED BY <2>3 DEF Nearer
<1>3. CASE NextTarget
  <2>1. pc = "wait" /\ pc' = "next" /\ list' = list /\ at' = at + 1
    BY <1>3 DEF NextTarget
  <2>2. /\ Rounds = 2 * (k + 1 - at) + 0
        /\ Rounds' = 2 * (k + 1 - (at + 1)) + 1
    BY <2>1 DEF Rounds
  <2> HIDE DEF k
  <2>3. Rounds' < Rounds
    BY <1>0, <2>2
  <2> QED BY <2>3 DEF Nearer
<1>4. CASE Return
  BY <1>4 DEF Return
<1> QED BY <1>1, <1>2, <1>3, <1>4

(* What is counted is a natural number as long as the scrape runs: it      *)
(* cannot get less for ever.                                               *)
LEMMA RoundsCounted ==
  ASSUME MInv, Scraping
  PROVE  Rounds \in Nat /\ \A k : Starting(k) \in Nat /\ Waiting \in Nat
<1>1. pc # "crashed"
  BY DEF Scraping
<1>2. /\ Cardinality(Targets) \in Nat /\ Len(list) \in Nat /\ at \in Nat
      /\ at <= Len(list) + 1
  <2>1. Cardinality(Targets) \in Nat
    BY FS_CardinalityType
  <2>2. list \in Lists /\ at \in Nat /\ at <= Len(list) + 1
    BY DEF MInv, Typed, Phases
  <2> QED BY <2>1, <2>2, ListFacts
<1>3. Rounds \in Nat
  BY <1>2 DEF Rounds
<1> QED BY <1>1, <1>3, Counted

(* Every step of a scrape ends it or brings it nearer to its end, in what  *)
(* RoundsCounted counts, and nobody else's step takes it back; with        *)
(* NobodyWaitsForNothing, a scrape whose goroutines run comes to its end   *)
(* (server.go:184-279).                                                    *)
THEOREM ScrapeAdvancesHolds == Spec => ScrapeAdvances
<1>1. ASSUME MInv, Next, Scraping
      PROVE  IF Collect THEN pc' \in {"returned", "crashed"} \/ Nearer
             ELSE UNCHANGED scrapeVars
  <2>1. CASE Collect
    <3>1. pc # "crashed"
      BY <2>1 DEF Collect
    <3>2. pc' \in {"returned", "crashed"} \/ Nearer
      BY <1>1, <2>1, <3>1, TreeNearer, LoopNearer DEF Collect
    <3> QED BY <2>1, <3>2
  <2>2. CASE ~Collect
    BY <1>1, <2>2
    DEF Scraping, Next, Configure, ListTargets, AddTarget, RemoveTarget,
        StoreSample, Change, Listen, Begin, ConfigFails, Answer
  <2> QED BY <2>1, <2>2
<1>2. MInv /\ [Next]_vars =>
        [Scraping => IF Collect THEN pc' \in {"returned", "crashed"} \/ Nearer
                     ELSE UNCHANGED scrapeVars]_vars
  BY <1>1
<1> QED BY <1>2, AlwaysMInv, PTL DEF Spec, ScrapeAdvances

====
