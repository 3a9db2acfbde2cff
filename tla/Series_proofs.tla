---------------------------- MODULE Series_proofs ----------------------------
(***************************************************************************)
(* Proofs about Series: the name and the labels of what is exported, for   *)
(* every set of paths and any number of goroutines.                        *)
(***************************************************************************)
EXTENDS Series, SequenceTheorems, WellFoundedInduction, TLAPS

Name == Seq(STRING \cup {"target", "name"})

Values ==
    {Target} \cup
    UNION {UNION {{l[i].keys[k] : k \in DOMAIN l[i].keys} : i \in 1 .. Len(l)}
           : l \in Leaves}

Sendable == {<<>>} \cup (Name \X SUBSET (Name \X Values))

SampleStates ==
    [at : Nat, left : SUBSET DOMAIN Words, name : Name, labels : Seq(Name),
     values : Seq(Values),
     series : Sendable]

Typed == /\ Cached \subseteq Leaves
         /\ up \in [Cached -> SampleStates]

(* The keys that getLabels has been through.                               *)
Seen(l, u) == {x \in Keys(l) : \/ x[1] < u.at
                               \/ x[1] = u.at /\ x[2] \notin u.left}

LabelAt(l, x) == Label(l[x[1]], x[2])
ValueAt(l, x) == l[x[1]].keys[x[2]]

(* The two slices hold the target first, then each key that has been seen, *)
(* once, f telling which one where.                                        *)
Holds(l, u, f) ==
    /\ \A i \in 2 .. Len(u.labels) :
          /\ f[i] \in Seen(l, u)
          /\ u.labels[i] = LabelAt(l, f[i])
          /\ u.values[i] = ValueAt(l, f[i])
          /\ \A j \in 2 .. Len(u.labels) : f[i] = f[j] => i = j
    /\ \A x \in Seen(l, u) : \E i \in 2 .. Len(u.labels) : f[i] = x

Collected(l, u) ==
    /\ Len(u.labels) \in Nat \ {0} /\ Len(u.values) = Len(u.labels)
    /\ u.labels[1] = TargetLabel /\ u.values[1] = Target
    /\ \E f \in [2 .. Len(u.labels) -> Seen(l, u)] : Holds(l, u, f)

(* Where a goroutine is in its path.                                       *)
Placed(l, u) ==
    /\ u.at \in 0 .. Len(l)
    /\ u.at = 0 => u.left = {}
    /\ u.at > 0 => u.left \subseteq DOMAIN l[u.at].keys

(* The words of the first n elements of a path.                            *)
WordsTo(l, n) == [i \in 1 .. n |-> Words[l[i].name]]

(* The name as far as it is joined: getLabels keeps the last element for   *)
(* vname, unless it is the only one.                                       *)
Reached(l, i) == IF i = Len(l) /\ i > 1 THEN i - 1 ELSE i

JoinedTo(l, i) == Prefix[l] \o FlattenSeq(WordsTo(l, Reached(l, i)))

Named(l, u) == u.at > 0 => u.name = JoinedTo(l, u.at)

(* What it sent, and when.                                                 *)
SentRight(l, u) ==
    u.series # <<>> => Exportable(l) /\ u.series = <<NameOf(l), LabelsOf(l)>>
Died == crashed => \E l \in Cached : up[l].at = Len(l) /\ ~Exportable(l)

SInv == /\ \A l \in Cached : /\ Placed(l, up[l])
                             /\ Collected(l, up[l])
                             /\ Named(l, up[l])
                             /\ SentRight(l, up[l])
        /\ Died

IInv == Typed /\ SInv

----------------------------------------------------------------------------
(* Paths and their keys *)

LEMMA Widen == ASSUME NEW n \in Seq(STRING) PROVE n \in Name
BY DEF Name

LEMMA JoinIs ==
    ASSUME NEW n \in Name, NEW m \in Name PROVE n \o m \in Name
BY DEF Name

LEMMA JoinThree ==
    ASSUME NEW n \in Name, NEW m \in Name, NEW k \in Name
    PROVE  (n \o m) \o k = n \o (m \o k)
<1>1. PICK S : S = STRING \cup {"target", "name"}
  OBVIOUS
<1>2. n \in Seq(S) /\ m \in Seq(S) /\ k \in Seq(S)
  BY <1>1 DEF Name
<1> QED BY <1>2, ConcatAssociative

LEMMA JoinNone == ASSUME NEW n \in Name PROVE <<>> \o n = n /\ n \o <<>> = n
BY ConcatEmptySeq, Zenon DEF Name

LEMMA PrefixType == ASSUME NEW l \in Leaves PROVE Prefix[l] \in Name
BY Widen, LeavesAssumption

LEMMA AppendIs ==
    ASSUME NEW S, NEW q \in Seq(S), NEW e \in S, NEW n \in Nat, n = Len(q)
    PROVE  /\ Append(q, e) \in Seq(S) /\ Len(Append(q, e)) = n + 1
           /\ Append(q, e)[n + 1] = e
           /\ \A j \in 1 .. n : Append(q, e)[j] = q[j]
OBVIOUS

LEMMA LeafFacts ==
    ASSUME NEW l \in Leaves
    PROVE  /\ Len(l) \in Nat \ {0} /\ DOMAIN l = 1 .. Len(l)
           /\ \A i \in 1 .. Len(l) :
                 /\ Words[l[i].name] \in Name
                 /\ DOMAIN l[i].keys \subseteq DOMAIN Words
                 /\ l[i] = [name |-> l[i].name, keys |-> l[i].keys]
                 /\ l[i].keys = [k \in DOMAIN l[i].keys |-> l[i].keys[k]]
           /\ l = [i \in 1 .. Len(l) |-> l[i]]
           /\ DOMAIN l[Len(l)].keys = {}
<1>1. /\ Len(l) \in Nat \ {0} /\ l = [i \in 1 .. Len(l) |-> l[i]]
      /\ \A i \in 1 .. Len(l) : IsElement(l[i])
      /\ DOMAIN l[Len(l)].keys = {}
  BY LeavesAssumption, Zenon
<1>2. DOMAIN l = 1 .. Len(l)
  BY <1>1
<1>3. ASSUME NEW i \in 1 .. Len(l)
      PROVE  /\ Words[l[i].name] \in Name
             /\ DOMAIN l[i].keys \subseteq DOMAIN Words
             /\ l[i] = [name |-> l[i].name, keys |-> l[i].keys]
             /\ l[i].keys = [k \in DOMAIN l[i].keys |-> l[i].keys[k]]
  <2>1. IsElement(l[i])
    BY <1>1
  <2>2. l[i].name \in DOMAIN Words
    BY <2>1 DEF IsElement
  <2>3. Words[l[i].name] \in Seq(STRING)
    BY <2>2, LeavesAssumption
  <2> QED BY <2>1, <2>3, Widen DEF IsElement
<1> QED BY <1>1, <1>2, <1>3

LEMMA KeyFacts ==
    ASSUME NEW l \in Leaves, NEW i, NEW k
    PROVE  <<i, k>> \in Keys(l) <=> i \in 1 .. Len(l) /\ k \in DOMAIN l[i].keys
BY LeafFacts DEF Keys

LEMMA KeyIsPair ==
    ASSUME NEW l \in Leaves, NEW x \in Keys(l)
    PROVE  /\ x = <<x[1], x[2]>> /\ x[1] \in 1 .. Len(l)
           /\ x[2] \in DOMAIN l[x[1]].keys
BY LeafFacts DEF Keys

LEMMA KeyTypes ==
    ASSUME NEW l \in Leaves, NEW i \in 1 .. Len(l), NEW k \in DOMAIN l[i].keys
    PROVE  Label(l[i], k) \in Name /\ l[i].keys[k] \in Values
<1>1. Words[k] \in Name /\ Words[l[i].name] \in Name
  BY LeafFacts, Widen, LeavesAssumption
<1>2. Label(l[i], k) \in Name
  BY <1>1, JoinIs DEF Label
<1>3. l[i].keys[k] \in Values
  <2>1. l[i].keys[k] \in {l[i].keys[x] : x \in DOMAIN l[i].keys}
    OBVIOUS
  <2>2. l[i].keys[k] \in
          UNION {{l[j].keys[x] : x \in DOMAIN l[j].keys} : j \in 1 .. Len(l)}
    BY <2>1
  <2> QED BY <2>2 DEF Values
<1> QED BY <1>2, <1>3

LEMMA TargetTypes == TargetLabel \in Name /\ Target \in Values
<1>1. TargetLabel \in Name
  BY DEF TargetLabel, Name
<1> QED BY <1>1 DEF Values

----------------------------------------------------------------------------
(* Names: induction over numbers, from the least element of a set, and     *)
(* what FlattenSeq does with one more sequence.                            *)

LEMMA Least ==
    ASSUME NEW T \in SUBSET Nat, T # {}
    PROVE  \E n \in T : \A m \in T : n <= m
<1> DEFINE R == OpToRel(<, Nat)
<1>1. IsWellFoundedOn(R, Nat)
  BY NatLessThanWellFounded
<1>2. \A x, y \in Nat : <<x, y>> \in R <=> x < y
  BY DEF OpToRel
<1> HIDE DEF R
<1>3. PICK n \in T : \A m \in T : <<m, n>> \notin R
  BY <1>1, WFMin
<1>4. ASSUME NEW m \in T PROVE n <= m
  <2>1. n \in Nat /\ m \in Nat
    OBVIOUS
  <2>2. ~(m < n)
    BY <1>2, <1>3, <2>1, Zenon
  <2> QED BY <2>1, <2>2
<1> QED BY <1>4, Zenon

LEMMA Induction ==
    ASSUME NEW S, 0 \in S, \A n \in Nat : n \in S => n + 1 \in S
    PROVE  Nat \subseteq S
<1> SUFFICES ASSUME Nat \ S # {} PROVE FALSE
  OBVIOUS
<1>1. PICK n \in Nat \ S : \A m \in Nat \ S : n <= m
  BY Least
<1>2. n - 1 \in Nat /\ n - 1 \in S
  BY <1>1
<1> QED BY <1>1, <1>2

(* The function that FlattenSeq defines, over the first n sequences.       *)
Flattens(f, s, n) ==
    f = [i \in 1 .. n |-> IF i = 1 THEN s[i] ELSE f[i - 1] \o s[i]]

LEMMA FlattenExtends ==
    ASSUME NEW n \in Nat, NEW f, NEW s, Flattens(f, s, n)
    PROVE  \E g : Flattens(g, s, n + 1)
<1>1. PICK e : e = IF n = 0 THEN s[1] ELSE f[n] \o s[n + 1]
  OBVIOUS
<1>2. PICK g : g = [i \in 1 .. n + 1 |-> IF i = n + 1 THEN e ELSE f[i]]
  OBVIOUS
<1>3. /\ \A i \in 1 .. n : f[i] = IF i = 1 THEN s[i] ELSE f[i - 1] \o s[i]
      /\ \A i \in 1 .. n : g[i] = f[i]
      /\ g[n + 1] = e
  <2>1. \A i \in 1 .. n : f[i] = IF i = 1 THEN s[i] ELSE f[i - 1] \o s[i]
    BY Zenon DEF Flattens
  <2>2. \A i \in 1 .. n : i \in 1 .. n + 1 /\ i # n + 1
    OBVIOUS
  <2>3. n + 1 \in 1 .. n + 1
    OBVIOUS
  <2> QED BY <1>2, <2>1, <2>2, <2>3, Zenon
<1>4. ASSUME NEW i \in 1 .. n + 1
      PROVE  g[i] = IF i = 1 THEN s[i] ELSE g[i - 1] \o s[i]
  <2>1. CASE i = n + 1
    <3>1. CASE n = 0
      BY <1>1, <1>3, <2>1, <3>1
    <3>2. CASE n # 0
      <4>1. n \in 1 .. n /\ i # 1 /\ i - 1 = n
        BY <2>1, <3>2
      <4>2. g[n] = f[n] /\ g[i] = f[n] \o s[n + 1]
        BY <1>1, <1>3, <2>1, <3>2, <4>1, Zenon
      <4> QED BY <2>1, <4>1, <4>2, Zenon
    <3> QED BY <3>1, <3>2
  <2>2. CASE i \in 1 .. n
    <3>1. CASE i = 1
      BY <1>3, <2>2, <3>1, Zenon
    <3>2. CASE i # 1
      <4>1. i - 1 \in 1 .. n
        BY <2>2, <3>2
      <4> QED BY <1>3, <2>2, <3>2, <4>1, Zenon
    <3> QED BY <3>1, <3>2
  <2> QED BY <2>1, <2>2
<1>5. Flattens(g, s, n + 1)
  <2>1. g = [i \in 1 .. n + 1 |-> g[i]]
    BY <1>2
  <2> QED BY <1>4, <2>1, Zenon DEF Flattens
<1> QED BY <1>5

LEMMA FlattenExists ==
    ASSUME NEW s, NEW n \in Nat PROVE \E f : Flattens(f, s, n)
<1> DEFINE S == {m \in Nat : \E f : Flattens(f, s, m)}
<1>1. 0 \in S
  <2>1. PICK f : f = [i \in {} |-> i]
    OBVIOUS
  <2>2. f = [i \in 1 .. 0 |-> IF i = 1 THEN s[i] ELSE f[i - 1] \o s[i]]
    BY <2>1
  <2> QED BY <2>2 DEF Flattens
<1>2. ASSUME NEW m \in Nat, m \in S PROVE m + 1 \in S
  BY <1>2, FlattenExtends
<1> HIDE DEF S
<1>3. n \in S
  BY <1>1, <1>2, Induction
<1> QED BY <1>3 DEF S

(* Two of them agree as far as their sequences do.                         *)
LEMMA FlattenAgrees ==
    ASSUME NEW n \in Nat, NEW m \in Nat, NEW f, NEW g, NEW s, NEW t,
           Flattens(f, s, n), Flattens(g, t, m), n <= m,
           \A i \in 1 .. n : s[i] = t[i]
    PROVE  \A i \in 1 .. n : f[i] = g[i]
<1> DEFINE S == {k \in Nat : k \in 1 .. n => f[k] = g[k]}
<1>1. /\ \A i \in 1 .. n : f[i] = IF i = 1 THEN s[i] ELSE f[i - 1] \o s[i]
      /\ \A i \in 1 .. m : g[i] = IF i = 1 THEN t[i] ELSE g[i - 1] \o t[i]
  BY Zenon DEF Flattens
<1>2. 1 .. n \subseteq 1 .. m
  OBVIOUS
<1>3. 0 \in S
  OBVIOUS
<1>4. ASSUME NEW k \in Nat, k \in S PROVE k + 1 \in S
  <2> SUFFICES ASSUME k + 1 \in 1 .. n PROVE f[k + 1] = g[k + 1]
    OBVIOUS
  <2>1. CASE k = 0
    <3>1. 1 \in 1 .. n /\ 1 \in 1 .. m /\ k + 1 = 1
      BY <1>2, <2>1
    <3> QED BY <1>1, <3>1, Zenon
  <2>2. CASE k # 0
    <3>1. k \in 1 .. n /\ k + 1 # 1 /\ (k + 1) - 1 = k
      BY <2>2
    <3>2. f[k] = g[k]
      BY <1>4, <3>1
    <3>3. k + 1 \in 1 .. m /\ s[k + 1] = t[k + 1]
      BY <1>2
    <3>4. f[k + 1] = f[k] \o s[k + 1]
      BY <1>1, <3>1, Zenon
    <3>5. g[k + 1] = g[k] \o t[k + 1]
      BY <1>1, <3>1, <3>3, Zenon
    <3> QED BY <3>2, <3>3, <3>4, <3>5, Zenon
  <2> QED BY <2>1, <2>2
<1> HIDE DEF S
<1>5. Nat \subseteq S
  BY <1>3, <1>4, Induction
<1> QED BY <1>5 DEF S

LEMMA FlattenIs ==
    ASSUME NEW s, NEW n \in Nat \ {0}, Len(s) = n
    PROVE  \E f : Flattens(f, s, n) /\ FlattenSeq(s) = f[n]
<1>1. PICK f : f = CHOOSE g : Flattens(g, s, n)
  OBVIOUS
<1>2. Flattens(f, s, n)
  BY <1>1, FlattenExists
<1>3. FlattenSeq(s) = f[n]
  BY <1>1 DEF FlattenSeq, Flattens
<1> QED BY <1>2, <1>3

(* One more sequence is appended to what the others make.                  *)
LEMMA FlattenOneMore ==
    ASSUME NEW n \in Nat, NEW s, NEW t, Len(s) = n, Len(t) = n + 1,
           \A i \in 1 .. n : s[i] = t[i]
    PROVE  /\ n = 0 => FlattenSeq(t) = t[1]
           /\ n # 0 => FlattenSeq(t) = FlattenSeq(s) \o t[n + 1]
<1>1. PICK g : Flattens(g, t, n + 1) /\ FlattenSeq(t) = g[n + 1]
  <2>1. n + 1 \in Nat \ {0}
    OBVIOUS
  <2> QED BY <2>1, FlattenIs, Zenon
<1>2. \A i \in 1 .. n + 1 : g[i] = IF i = 1 THEN t[i] ELSE g[i - 1] \o t[i]
  BY <1>1, Zenon DEF Flattens
<1>3. CASE n = 0
  BY <1>1, <1>2, <1>3
<1>4. CASE n # 0
  <2>1. PICK f : Flattens(f, s, n) /\ FlattenSeq(s) = f[n]
    BY <1>4, FlattenIs
  <2>2. f[n] = g[n]
    <3>1. n \in 1 .. n /\ n <= n + 1
      BY <1>4
    <3> QED BY <1>1, <2>1, <3>1, FlattenAgrees
  <2>3. n + 1 \in 1 .. n + 1 /\ n + 1 # 1 /\ (n + 1) - 1 = n
    BY <1>4
  <2>4. g[n + 1] = g[n] \o t[n + 1]
    BY <1>2, <2>3, Zenon
  <2> QED BY <1>1, <1>4, <2>1, <2>2, <2>4
<1> QED BY <1>3, <1>4

LEMMA NameType ==
    ASSUME NEW l \in Leaves, NEW i \in 1 .. Len(l)
    PROVE  Words[l[i].name] \in Name
BY LeafFacts

LEMMA WordsToNone ==
    ASSUME NEW l PROVE FlattenSeq(WordsTo(l, 0)) = <<>>
<1>1. WordsTo(l, 0) = <<>>
  BY DEF WordsTo
<1> QED BY <1>1 DEF FlattenSeq

LEMMA WordsToNext ==
    ASSUME NEW l \in Leaves, NEW n \in 1 .. Len(l)
    PROVE  FlattenSeq(WordsTo(l, n)) =
               FlattenSeq(WordsTo(l, n - 1)) \o Words[l[n].name]
<1>1. PICK s, t, m : /\ s = WordsTo(l, n - 1) /\ t = WordsTo(l, n)
                     /\ m = n - 1
  OBVIOUS
<1>2. m \in Nat /\ n = m + 1 /\ n \in 1 .. n
  BY <1>1, LeafFacts
<1>3. Len(s) = m /\ Len(t) = m + 1 /\ t[m + 1] = Words[l[n].name]
      /\ \A i \in 1 .. m : s[i] = t[i]
  BY <1>1, <1>2 DEF WordsTo
<1>4. /\ m = 0 => FlattenSeq(t) = t[1]
      /\ m # 0 => FlattenSeq(t) = FlattenSeq(s) \o t[m + 1]
  BY <1>2, <1>3, FlattenOneMore, ZenonT(30)
<1>5. CASE m = 0
  <2>1. FlattenSeq(s) = <<>>
    BY <1>1, <1>5, WordsToNone
  <2>2. t[m + 1] = t[1]
    BY <1>5
  <2> QED BY <1>1, <1>3, <1>4, <1>5, <2>1, <2>2, NameType, JoinNone
<1>6. CASE m # 0
  BY <1>1, <1>3, <1>4, <1>6
<1> QED BY <1>5, <1>6

LEMMA WordsToType ==
    ASSUME NEW l \in Leaves, NEW n \in 0 .. Len(l)
    PROVE  FlattenSeq(WordsTo(l, n)) \in Name
<1> DEFINE S == {m \in Nat : m <= Len(l) =>
                                 FlattenSeq(WordsTo(l, m)) \in Name}
<1>1. 0 \in S
  <2>1. <<>> \in Name
    BY DEF Name
  <2> QED BY <2>1, WordsToNone
<1>2. ASSUME NEW m \in Nat, m \in S PROVE m + 1 \in S
  <2> SUFFICES ASSUME m + 1 <= Len(l)
               PROVE  FlattenSeq(WordsTo(l, m + 1)) \in Name
    OBVIOUS
  <2>1. /\ m + 1 \in 1 .. Len(l) /\ (m + 1) - 1 = m
        /\ FlattenSeq(WordsTo(l, m)) \in Name
    BY <1>2, LeafFacts
  <2>2. FlattenSeq(WordsTo(l, m + 1)) =
          FlattenSeq(WordsTo(l, m)) \o Words[l[m + 1].name]
    BY <2>1, WordsToNext
  <2>3. Words[l[m + 1].name] \in Name
    BY <2>1, NameType
  <2> QED BY <2>1, <2>2, <2>3, JoinIs
<1> HIDE DEF S
<1>3. n \in S /\ n <= Len(l)
  BY <1>1, <1>2, Induction, LeafFacts
<1> QED BY <1>3 DEF S

LEMMA JoinedNext ==
    ASSUME NEW l \in Leaves, NEW i \in 1 .. Len(l), NEW name,
           i > 1 => name = JoinedTo(l, i - 1)
    PROVE  Joined(name, l, i) = JoinedTo(l, i)
<1>1. Len(l) \in Nat \ {0} /\ i \in Nat
  BY LeafFacts
<1>2. PICK w : w = Words[l[i].name] /\ w \in Name
  BY NameType
<1>3. PICK F : F = FlattenSeq(WordsTo(l, i - 1)) /\ F \in Name
  <2>1. i - 1 \in 0 .. Len(l)
    BY <1>1
  <2> QED BY <2>1, WordsToType
<1>4. FlattenSeq(WordsTo(l, i)) = F \o w
  BY <1>2, <1>3, WordsToNext
<1>5. CASE i = 1
  <2>1. F = <<>> /\ F \o w = w
    <3>1. i - 1 = 0
      BY <1>5
    <3> QED BY <1>2, <1>3, <3>1, WordsToNone, JoinNone
  <2>2. Reached(l, i) = i
    BY <1>5 DEF Reached
  <2> QED BY <1>2, <1>4, <1>5, <2>1, <2>2 DEF Joined, JoinedTo
<1>6. CASE i > 1
  <2>1. Reached(l, i - 1) = i - 1
    BY <1>1 DEF Reached
  <2>2. name = Prefix[l] \o F
    BY <1>3, <1>6, <2>1 DEF JoinedTo
  <2>3. CASE i < Len(l)
    <3>1. Joined(name, l, i) = (Prefix[l] \o F) \o w
      <4>1. i # 1
        BY <1>6
      <4> QED BY <1>2, <2>2, <2>3, <4>1, Zenon DEF Joined
    <3>2. Prefix[l] \in Name
      BY PrefixType
    <3>3. (Prefix[l] \o F) \o w = Prefix[l] \o (F \o w)
      BY <1>2, <1>3, <3>2, JoinThree
    <3>4. Reached(l, i) = i
      BY <1>1, <2>3 DEF Reached
    <3> QED BY <1>4, <3>1, <3>3, <3>4 DEF JoinedTo
  <2>4. CASE i = Len(l)
    <3>1. Joined(name, l, i) = name
      <4>1. i # 1 /\ ~(i < Len(l))
        BY <1>1, <1>6, <2>4
      <4> QED BY <4>1, Zenon DEF Joined
    <3>2. Reached(l, i) = i - 1
      BY <1>6, <2>4 DEF Reached
    <3> QED BY <1>3, <2>2, <3>1, <3>2 DEF JoinedTo
  <2> QED BY <1>1, <2>3, <2>4
<1> QED BY <1>1, <1>5, <1>6

(* At the end of the path it is the name of the leaf, but for vname.       *)
LEMMA JoinedAll ==
    ASSUME NEW l \in Leaves
    PROVE  Spelled(l) = JoinedTo(l, Len(l)) \o Words[l[Len(l)].name]
<1>1. PICK n : n = Len(l) /\ n \in Nat \ {0} /\ DOMAIN l = 1 .. n
  BY LeafFacts
<1>2. PICK F : F = FlattenSeq(WordsTo(l, n - 1)) /\ F \in Name
  <2>1. n - 1 \in 0 .. Len(l)
    BY <1>1
  <2> QED BY <2>1, WordsToType
<1>3. PICK w : w = Words[l[n].name] /\ w \in Name
  <2>1. n \in 1 .. Len(l)
    BY <1>1
  <2> QED BY <2>1, NameType
<1>4. [i \in DOMAIN Front(l) |-> Words[l[i].name]] = WordsTo(l, n - 1)
  <2>1. DOMAIN SubSeq(l, 1, n - 1) = 1 .. (n - 1)
    BY <1>1
  <2>2. DOMAIN Front(l) = 1 .. (n - 1)
    BY <1>1, <2>1 DEF Front
  <2> QED BY <2>2 DEF WordsTo
<1>5. Last(l) = l[n]
  BY <1>1 DEF Last
<1>6. Prefix[l] \in Name
  BY PrefixType
<1>7. Spelled(l) = Prefix[l] \o F \o (IF n = 1 THEN w ELSE <<>>) \o w
  <2>1. Spelled(l) = Prefix[l] \o F \o (IF n = 1 THEN Words[l[1].name] ELSE <<>>)
                           \o Words[l[n].name]
    BY <1>1, <1>2, <1>4, <1>5, Zenon DEF Spelled
  <2>2. CASE n = 1
    BY <1>3, <2>1, <2>2, Zenon
  <2>3. CASE n # 1
    BY <1>3, <2>1, <2>3, Zenon
  <2> QED BY <2>2, <2>3
<1>8. CASE n = 1
  <2>1. F = <<>> /\ F \o w = w
    <3>1. n - 1 = 0
      BY <1>8
    <3> QED BY <1>2, <1>3, <3>1, WordsToNone, JoinNone
  <2>2. JoinedTo(l, n) = Prefix[l] \o w
    <3>1. Reached(l, n) = n /\ n \in 1 .. Len(l)
      BY <1>1, <1>8 DEF Reached
    <3>2. FlattenSeq(WordsTo(l, n)) = F \o w
      BY <1>2, <1>3, <3>1, WordsToNext
    <3> QED BY <2>1, <3>1, <3>2 DEF JoinedTo
  <2>3. Prefix[l] \o F = Prefix[l]
    BY <1>6, <2>1, JoinNone
  <2> QED BY <1>1, <1>3, <1>7, <1>8, <2>2, <2>3
<1>9. CASE n # 1
  <2>1. Prefix[l] \o F \in Name
    BY <1>2, <1>6, JoinIs
  <2>2. (Prefix[l] \o F) \o <<>> = Prefix[l] \o F
    BY <2>1, JoinNone
  <2>3. Reached(l, n) = n - 1
    BY <1>1, <1>9 DEF Reached
  <2>4. JoinedTo(l, n) = Prefix[l] \o F
    BY <1>2, <2>3 DEF JoinedTo
  <2> QED BY <1>1, <1>3, <1>7, <1>9, <2>2, <2>4
<1> QED BY <1>8, <1>9

----------------------------------------------------------------------------
(* The steps *)

(* Nothing else moves.                                                     *)
LEMMA OneMoves ==
    ASSUME Typed, NEW l \in Cached, NEW u \in SampleStates,
           up' = [up EXCEPT ![l] = u]
    PROVE  /\ Cached' = Cached /\ Typed'
           /\ \A k \in Cached : up'[k] = IF k = l THEN u ELSE up[k]
BY DEF Typed, Cached

Right(l, u) ==
    Placed(l, u) /\ Collected(l, u) /\ Named(l, u) /\ SentRight(l, u)

LEMMA Moved ==
    ASSUME IInv, NEW l \in Cached, NEW u \in SampleStates,
           up' = [up EXCEPT ![l] = u], crashed' = crashed, ~crashed,
           Right(l, u)
    PROVE  IInv'
<1>1. /\ Cached' = Cached /\ Typed'
      /\ \A k \in Cached : up'[k] = IF k = l THEN u ELSE up[k]
  BY OneMoves DEF IInv
<1>2. \A k \in Cached : Right(k, up[k])
  BY DEF IInv, SInv, Right
<1>3. ASSUME NEW k \in Cached
      PROVE  Right(k, up'[k])
  BY <1>1, <1>2
<1>4. Died'
  BY DEF Died
<1> QED BY ZenonT(30), <1>1, <1>3, <1>4
        DEF IInv, SInv, Right, Placed, Collected, Holds, Seen, Named, SentRight

LEMMA NextElemInv == ASSUME IInv, NEW l \in Cached, NextElem(l) PROVE IInv'
<1>1. PICK u : u = up[l]
  OBVIOUS
<1>2. PICK i : i = u.at + 1
  OBVIOUS
<1>3. PICK d, nm : d = DOMAIN l[i].keys /\ nm = Joined(u.name, l, i)
  OBVIOUS
<1>4. PICK r : r = [u EXCEPT !.at = i, !.left = d, !.name = nm]
  OBVIOUS
<1>5. /\ up' = [up EXCEPT ![l] = r] /\ crashed' = crashed /\ ~crashed
      /\ u.left = {} /\ i <= Len(l) /\ u.series = <<>>
  BY ZenonT(30), <1>1, <1>2, <1>3, <1>4 DEF NextElem, Working
<1>6. l \in Leaves /\ u \in SampleStates
  BY <1>1 DEF IInv, Typed
<1>7. Placed(l, u) /\ Collected(l, u) /\ Named(l, u)
  BY <1>1 DEF IInv, SInv
<1>8. u.at \in Nat /\ i \in 1 .. Len(l) /\ Len(l) \in Nat
  BY <1>2, <1>5, <1>6, LeafFacts DEF SampleStates
<1>9. Joined(u.name, l, i) \in Name /\ DOMAIN l[i].keys \subseteq DOMAIN Words
  <2>1. Words[l[i].name] \in Name /\ u.name \in Name /\ Prefix[l] \in Name
    BY <1>6, <1>8, LeafFacts, PrefixType DEF SampleStates
  <2> QED BY <1>6, <1>8, <2>1, LeafFacts, JoinIs DEF Joined
<1>10. /\ r \in SampleStates /\ r.at = i /\ r.left = DOMAIN l[i].keys
      /\ r.name = nm
      /\ r.labels = u.labels /\ r.values = u.values /\ r.series = u.series
  <2>1. i \in Nat /\ d \in SUBSET DOMAIN Words /\ nm \in Name
    BY <1>8, <1>9, <1>3
  <2>2. u \in SampleStates
    BY <1>6
  <2>3. /\ r \in SampleStates /\ r.at = i /\ r.left = d
        /\ r.name = nm
        /\ r.labels = u.labels /\ r.values = u.values /\ r.series = u.series
    BY <1>4, <2>1, <2>2 DEF SampleStates
  <2> QED BY <1>3, <2>3
<1>11. Placed(l, r)
  BY <1>8, <1>10 DEF Placed
<1>12. Seen(l, r) = Seen(l, u)
  <2>1. ASSUME NEW x \in Keys(l)
        PROVE  x \in Seen(l, r) <=> x \in Seen(l, u)
    <3>1. x[1] \in 1 .. Len(l) /\ x[2] \in DOMAIN l[x[1]].keys
      BY <1>6, KeyIsPair
    <3>2. x[1] < i <=> x[1] < u.at \/ x[1] = u.at
      BY <1>2, <1>8, <3>1
    <3> QED BY <1>5, <1>10, <3>1, <3>2 DEF Seen
  <2> QED BY <2>1 DEF Seen
<1>13. Collected(l, r)
  BY <1>7, <1>10, <1>12 DEF Collected, Holds
<1>14. SentRight(l, r)
  BY <1>5, <1>10 DEF SentRight
<1>15. Named(l, r)
  <2>1. i > 1 => u.name = JoinedTo(l, i - 1)
    <3>1. i > 1 => u.at > 0 /\ u.at = i - 1
      BY <1>2, <1>8
    <3> QED BY <1>7, <3>1 DEF Named
  <2>2. nm = JoinedTo(l, i)
    BY <1>3, <1>6, <1>8, <2>1, JoinedNext
  <2> QED BY <1>10, <2>2 DEF Named
<1> QED BY <1>5, <1>10, <1>11, <1>13, <1>14, <1>15, Moved DEF Right

LEMMA NextKeyInv == ASSUME IInv, NEW l \in Cached, NextKey(l) PROVE IInv'
<1>1. PICK u : u = up[l]
  OBVIOUS
<1>2. PICK k \in u.left :
        up' = [up EXCEPT ![l].left = @ \ {k},
                         ![l].labels = Append(@, Label(l[u.at], k)),
                         ![l].values = Append(@, l[u.at].keys[k])]
  BY <1>1 DEF NextKey
<1>3. PICK i : i = u.at
  OBVIOUS
<1>4. PICK r : r = [u EXCEPT !.left = @ \ {k},
                             !.labels = Append(@, Label(l[i], k)),
                             !.values = Append(@, l[i].keys[k])]
  OBVIOUS
<1>5. /\ up' = [up EXCEPT ![l] = r] /\ crashed' = crashed /\ ~crashed
      /\ u.series = <<>>
  BY ZenonT(30), <1>1, <1>2, <1>3, <1>4 DEF NextKey, Working
<1>6. l \in Leaves /\ u \in SampleStates
  BY <1>1 DEF IInv, Typed
<1>7. Placed(l, u) /\ Collected(l, u) /\ Named(l, u)
  BY <1>1 DEF IInv, SInv
<1>8. i \in 1 .. Len(l) /\ k \in DOMAIN l[i].keys
  BY <1>3, <1>6, <1>7, LeafFacts DEF Placed, SampleStates
<1>9. Label(l[i], k) \in Name /\ l[i].keys[k] \in Values
  BY <1>6, <1>8, KeyTypes
<1>10. PICK n \in Nat \ {0} : n = Len(u.labels) /\ n = Len(u.values)
  BY <1>7 DEF Collected
<1>11. /\ u.labels \in Seq(Name) /\ u.values \in Seq(Values)
  BY <1>6 DEF SampleStates
<1>12. PICK la, va : la = Label(l[i], k) /\ va = l[i].keys[k]
  OBVIOUS
<1>13. PICK a, b : a = Append(u.labels, la) /\ b = Append(u.values, va)
  OBVIOUS
<1>14. /\ a \in Seq(Name) /\ Len(a) = n + 1 /\ a[n + 1] = la
       /\ \A j \in 1 .. n : a[j] = u.labels[j]
  <2>1. u.labels \in Seq(Name) /\ la \in Name /\ n = Len(u.labels)
    BY <1>9, <1>10, <1>11, <1>12
  <2> QED BY <1>13, <2>1, AppendIs
<1>15. /\ b \in Seq(Values) /\ Len(b) = n + 1 /\ b[n + 1] = va
       /\ \A j \in 1 .. n : b[j] = u.values[j]
  <2>1. u.values \in Seq(Values) /\ va \in Values /\ n = Len(u.values)
    BY <1>9, <1>10, <1>11, <1>12
  <2> QED BY <1>13, <2>1, AppendIs
<1>16. /\ r \in SampleStates /\ r.at = i /\ r.left = u.left \ {k}
       /\ r.name = u.name
       /\ r.labels = a /\ r.values = b /\ r.series = u.series
  <2>1. r = [u EXCEPT !.left = @ \ {k}, !.labels = a, !.values = b]
    BY <1>4, <1>13, <1>12
  <2> QED BY <1>3, <1>6, <1>14, <1>15, <2>1 DEF SampleStates
<1>17. /\ Len(r.labels) = n + 1 /\ Len(r.values) = n + 1
       /\ r.labels[n + 1] = Label(l[i], k) /\ r.values[n + 1] = l[i].keys[k]
       /\ \A j \in 1 .. n : r.labels[j] = u.labels[j]
                          /\ r.values[j] = u.values[j]
  BY <1>12, <1>14, <1>15, <1>16
<1>18. Placed(l, r)
  BY <1>3, <1>7, <1>8, <1>16 DEF Placed
<1>19. PICK y : y = <<i, k>>
  OBVIOUS
<1>20. y \in Keys(l) /\ y[1] = i /\ y[2] = k
  BY <1>6, <1>8, <1>19, KeyFacts
<1>21. \A x : x \in Seen(l, r) <=> x \in Seen(l, u) \/ x = y
  <2>1. ASSUME NEW x \in Keys(l)
        PROVE  x \in Seen(l, r) <=> x \in Seen(l, u) \/ x = y
    <3>1. x = <<x[1], x[2]>>
      BY <1>6, KeyIsPair
    <3>2. x = y <=> x[1] = i /\ x[2] = k
      BY <1>19, <1>20, <3>1
    <3> QED BY <1>3, <1>16, <3>2 DEF Seen
  <2>2. \A x : x \in Seen(l, r) \/ x \in Seen(l, u) \/ x = y => x \in Keys(l)
    BY <1>20 DEF Seen
  <2> QED BY <2>1, <2>2
<1>22. y \notin Seen(l, u)
  <2>1. i \in Nat
    BY <1>8
  <2> QED BY <1>2, <1>3, <1>20, <2>1 DEF Seen
<1>23. PICK f \in [2 .. n -> Seen(l, u)] : Holds(l, u, f)
  BY <1>7, <1>10 DEF Collected
<1>24. PICK g : g = [j \in 2 .. (n + 1) |-> IF j = n + 1 THEN y ELSE f[j]]
  OBVIOUS
<1>25. g \in [2 .. (n + 1) -> Seen(l, r)]
  BY <1>21, <1>23, <1>24
<1>26. Holds(l, r, g)
  <2>1. \A j \in 2 .. (n + 1) : j = n + 1 \/ j \in 2 .. n
    BY <1>10
  <2>2. g[n + 1] = y /\ \A j \in 2 .. n : g[j] = f[j]
    BY <1>10, <1>24
  <2>3. \A j \in 2 .. n : /\ f[j] \in Seen(l, u)
                          /\ u.labels[j] = LabelAt(l, f[j])
                          /\ u.values[j] = ValueAt(l, f[j])
                          /\ \A m \in 2 .. n : f[j] = f[m] => j = m
    BY <1>10, <1>23 DEF Holds
  <2>4. \A x \in Seen(l, u) : \E j \in 2 .. n : f[j] = x
    BY <1>10, <1>23 DEF Holds
  <2>5. LabelAt(l, y) = Label(l[i], k) /\ ValueAt(l, y) = l[i].keys[k]
    BY <1>20 DEF LabelAt, ValueAt
  <2>6. ASSUME NEW j \in 2 .. (n + 1)
        PROVE  /\ g[j] \in Seen(l, r)
               /\ r.labels[j] = LabelAt(l, g[j])
               /\ r.values[j] = ValueAt(l, g[j])
               /\ \A m \in 2 .. (n + 1) : g[j] = g[m] => j = m
    <3>1. CASE j = n + 1
      <4>1. \A m \in 2 .. n : g[m] # y
        BY <1>22, <2>2, <2>3
      <4> QED BY <1>17, <1>21, <2>1, <2>2, <2>5, <3>1, <4>1
    <3>2. CASE j \in 2 .. n
      <4>1. g[j] # y /\ g[j] = f[j] /\ f[j] \in Seen(l, u)
        BY <1>22, <2>2, <2>3, <3>2
      <4>2. r.labels[j] = u.labels[j] /\ r.values[j] = u.values[j]
        BY <1>10, <1>17, <3>2
      <4>3. \A m \in 2 .. (n + 1) : g[j] = g[m] => j = m
        BY <2>1, <2>2, <2>3, <3>2, <4>1
      <4> QED BY <1>21, <2>3, <3>2, <4>1, <4>2, <4>3
    <3> QED BY <2>1, <3>1, <3>2
  <2>7. ASSUME NEW x \in Seen(l, r) PROVE \E j \in 2 .. (n + 1) : g[j] = x
    <3>1. CASE x = y
      BY SMTT(30), <1>10, <2>2, <3>1
    <3>2. CASE x \in Seen(l, u)
      <4>1. PICK j \in 2 .. n : f[j] = x
        BY <2>4, <3>2
      <4> QED BY <1>10, <2>2, <4>1
    <3> QED BY <1>21, <3>1, <3>2
  <2> QED BY <1>17, <2>6, <2>7 DEF Holds
<1>27. Collected(l, r)
  <2>1. /\ u.labels[1] = TargetLabel /\ u.values[1] = Target
    BY <1>7 DEF Collected
  <2>2. 1 \in 1 .. n /\ n + 1 \in Nat \ {0}
    BY <1>10
  <2> QED BY <1>17, <1>25, <1>26, <2>1, <2>2 DEF Collected
<1>28. SentRight(l, r)
  BY <1>5, <1>16 DEF SentRight
<1>29. Named(l, r)
  BY <1>3, <1>7, <1>16 DEF Named
<1> QED BY <1>5, <1>16, <1>18, <1>27, <1>28, <1>29, Moved DEF Right

(* At the end of the path every key has been seen.                         *)
LEMMA AllSeen ==
    ASSUME NEW l \in Leaves, NEW u, u.at = Len(l), u.left = {}
    PROVE  Seen(l, u) = Keys(l)
<1>1. ASSUME NEW x \in Keys(l) PROVE x \in Seen(l, u)
  <2>1. x[1] \in 1 .. Len(l) /\ Len(l) \in Nat
    BY KeyIsPair, LeafFacts
  <2>2. x[1] < Len(l) \/ x[1] = Len(l)
    BY <2>1
  <2> QED BY <2>2 DEF Seen
<1> QED BY <1>1 DEF Seen

(* The position of a label: the target's, or that of one key.              *)
LEMMA LabelsTellApart ==
    ASSUME NEW l \in Leaves, NEW u \in SampleStates, Collected(l, u),
           Seen(l, u) = Keys(l)
    PROVE  IsInjective(u.labels) <=> ~Ambiguous(l)
<1>1. PICK n \in Nat \ {0} : n = Len(u.labels)
  BY DEF Collected
<1>2. u.labels \in Seq(Name) /\ DOMAIN u.labels = 1 .. n
  BY <1>1 DEF SampleStates
<1>3. PICK f \in [2 .. n -> Keys(l)] : Holds(l, u, f)
  BY <1>1 DEF Collected
<1>4. /\ u.labels[1] = TargetLabel
      /\ \A i \in 2 .. n : u.labels[i] = LabelAt(l, f[i]) /\ f[i] \in Keys(l)
      /\ \A i, j \in 2 .. n : f[i] = f[j] => i = j
      /\ \A x \in Keys(l) : \E i \in 2 .. n : f[i] = x
  BY <1>1, <1>3 DEF Collected, Holds
<1>5. 1 \in 1 .. n /\ \A i \in 1 .. n : i = 1 \/ i \in 2 .. n
  BY <1>1
<1>6. ASSUME Ambiguous(l) PROVE ~IsInjective(u.labels)
  <2>1. PICK x \in Keys(l) :
           \/ LabelAt(l, x) = TargetLabel
           \/ \E y \in Keys(l) \ {x} : LabelAt(l, x) = LabelAt(l, y)
    BY <1>6 DEF Ambiguous, LabelAt
  <2>2. PICK i \in 2 .. n : f[i] = x
    BY <1>4
  <2>3. i \in 1 .. n /\ i # 1
    BY <1>1
  <2>4. CASE LabelAt(l, x) = TargetLabel
    BY <1>2, <1>4, <1>5, <2>2, <2>3, <2>4 DEF IsInjective
  <2>5. ASSUME NEW y \in Keys(l) \ {x}, LabelAt(l, x) = LabelAt(l, y)
        PROVE  ~IsInjective(u.labels)
    <3>1. PICK j \in 2 .. n : f[j] = y
      BY <1>4
    <3>2. j \in 1 .. n /\ i # j
      BY <1>1, <2>2, <2>5, <3>1
    <3> QED BY <1>2, <1>4, <2>2, <2>3, <2>5, <3>1, <3>2 DEF IsInjective
  <2> QED BY <2>1, <2>4, <2>5
<1>7. ASSUME ~IsInjective(u.labels) PROVE Ambiguous(l)
  <2>1. PICK i \in 1 .. n, j \in 1 .. n :
           u.labels[i] = u.labels[j] /\ i # j
    BY <1>2, <1>7 DEF IsInjective
  <2>2. ASSUME NEW k \in 2 .. n, u.labels[k] = u.labels[1]
        PROVE  Ambiguous(l)
    BY <1>4, <2>2 DEF Ambiguous, LabelAt
  <2>3. CASE i \in 2 .. n /\ j \in 2 .. n
    <3>1. f[i] # f[j] /\ LabelAt(l, f[i]) = LabelAt(l, f[j])
          /\ f[i] \in Keys(l) /\ f[j] \in Keys(l)
      BY <1>4, <2>1, <2>3
    <3> QED BY <3>1 DEF Ambiguous, LabelAt
  <2> QED BY <1>5, <2>1, <2>2, <2>3
<1> QED BY <1>6, <1>7

(* What the two slices hold is what the path says.                         *)
LEMMA LabelsCollected ==
    ASSUME NEW l \in Leaves, NEW u \in SampleStates, Collected(l, u),
           Seen(l, u) = Keys(l)
    PROVE  /\ {<<u.labels[i], u.values[i]>> : i \in DOMAIN u.labels}
                 = LabelsOf(l)
           /\ {<<u.labels[i], u.values[i]>> : i \in DOMAIN u.labels}
                 \in SUBSET (Name \X Values)
<1>1. PICK n \in Nat \ {0} : n = Len(u.labels) /\ n = Len(u.values)
  BY DEF Collected
<1>2. /\ u.labels \in Seq(Name) /\ DOMAIN u.labels = 1 .. n
      /\ u.values \in Seq(Values)
  <2>1. u.labels \in Seq(Name) /\ u.values \in Seq(Values)
    BY DEF SampleStates
  <2>2. DOMAIN u.labels = 1 .. Len(u.labels)
    BY <2>1
  <2>3. Len(u.labels) = n
    BY <1>1
  <2> QED BY <2>1, <2>2, <2>3
<1>3. PICK f \in [2 .. n -> Keys(l)] : Holds(l, u, f)
  BY <1>1 DEF Collected
<1>4. /\ u.labels[1] = TargetLabel /\ u.values[1] = Target
      /\ \A i \in 2 .. n : /\ u.labels[i] = LabelAt(l, f[i])
                           /\ u.values[i] = ValueAt(l, f[i])
                           /\ f[i] \in Keys(l)
      /\ \A x \in Keys(l) : \E i \in 2 .. n : f[i] = x
  BY <1>1, <1>3 DEF Collected, Holds
<1>5. /\ 1 \in 1 .. n /\ 2 .. n \subseteq 1 .. n
      /\ \A i \in 1 .. n : i = 1 \/ i \in 2 .. n
  BY <1>1
<1> DEFINE S == {<<u.labels[i], u.values[i]>> : i \in DOMAIN u.labels}
<1>6. LabelsOf(l) = {<<TargetLabel, Target>>}
                       \cup {<<LabelAt(l, x), ValueAt(l, x)>> : x \in Keys(l)}
  BY DEF LabelsOf, LabelAt, ValueAt
<1>7. ASSUME NEW i \in 1 .. n
      PROVE  <<u.labels[i], u.values[i]>> \in LabelsOf(l)
  BY <1>4, <1>5, <1>6
<1>8. ASSUME NEW e \in LabelsOf(l)
      PROVE  \E i \in 1 .. n : e = <<u.labels[i], u.values[i]>>
  <2>1. CASE e = <<TargetLabel, Target>>
    BY <1>4, <1>5, <2>1
  <2>2. ASSUME NEW x \in Keys(l), e = <<LabelAt(l, x), ValueAt(l, x)>>
        PROVE  \E i \in 1 .. n : e = <<u.labels[i], u.values[i]>>
    <3>1. PICK i \in 2 .. n : f[i] = x
      BY <1>4
    <3>2. i \in 1 .. n /\ u.labels[i] = LabelAt(l, x)
          /\ u.values[i] = ValueAt(l, x)
      BY <1>4, <1>5, <3>1
    <3> QED BY <2>2, <3>2, Zenon
  <2> QED BY <1>6, <2>1, <2>2
<1>9. \A i \in 1 .. n : u.labels[i] \in Name /\ u.values[i] \in Values
  BY <1>1, <1>2
<1>10. S = {<<u.labels[i], u.values[i]>> : i \in 1 .. n}
  BY <1>2
<1>11. S \subseteq Name \X Values
  BY <1>9, <1>10
<1>12. S = LabelsOf(l)
  BY <1>7, <1>8, <1>10
<1> QED BY <1>11, <1>12

(* Names without the underscores in front are names.                       *)
LEMMA TrimmedType == ASSUME NEW n \in Name PROVE Trimmed(n) \in Name
<1>1. PICK full : full = {i \in DOMAIN n : n[i] # ""}
  OBVIOUS
<1>2. PICK S : S = STRING \cup {"target", "name"}
  OBVIOUS
<1>3. n \in Seq(S) /\ DOMAIN n = 1 .. Len(n) /\ Len(n) \in Nat
  BY <1>2 DEF Name
<1>4. CASE full = {}
  <2>1. Trimmed(n) = <<>>
    BY <1>1, <1>4, Zenon DEF Trimmed
  <2> QED BY <2>1 DEF Name
<1>5. CASE full # {}
  <2>1. full \in SUBSET Nat /\ full \subseteq 1 .. Len(n)
    <3>1. full \subseteq DOMAIN n
      BY <1>1, Zenon
    <3>2. 1 .. Len(n) \subseteq Nat
      BY <1>3
    <3> QED BY <1>3, <3>1, <3>2, Zenon
  <2>2. \E m \in full : \A k \in full : m <= k
    BY <1>5, <2>1, Least
  <2>3. Min(full) \in full
    BY <2>2, Zenon DEF Min
  <2>4. PICK m \in 1 .. Len(n) : m = Min(full)
    BY <2>1, <2>3
  <2>5. SubSeq(n, m, Len(n)) \in Seq(S)
    BY <1>3
  <2>6. Trimmed(n) = SubSeq(n, m, Len(n))
    BY <1>1, <1>5, <2>4, Zenon DEF Trimmed
  <2> QED BY <1>2, <2>5, <2>6 DEF Name
<1> QED BY <1>4, <1>5

LEMMA TargetIsLabel == IsLabel(TargetLabel)
<1>1. TargetLabel[1] = "target" /\ Len(TargetLabel) = 2
  BY DEF TargetLabel
<1>2. "target" \notin Digits
  BY LeavesAssumption
<1> QED BY <1>1, <1>2 DEF IsLabel

(* Prometheus takes exactly the leaves that can be exported.               *)
LEMMA AcceptsExportable ==
    ASSUME NEW l \in Leaves, NEW u \in SampleStates, Collected(l, u),
           Seen(l, u) = Keys(l)
    PROVE  Accepts(NameOf(l), u.labels, u.values) <=> Exportable(l)
<1>1. PICK n \in Nat \ {0} : n = Len(u.labels) /\ n = Len(u.values)
  BY DEF Collected
<1>2. DOMAIN u.labels = 1 .. n
  <2>1. u.labels \in Seq(Name)
    BY DEF SampleStates
  <2>2. DOMAIN u.labels = 1 .. Len(u.labels)
    BY <2>1
  <2> QED BY <1>1, <2>2
<1>3. PICK f \in [2 .. n -> Keys(l)] : Holds(l, u, f)
  BY <1>1 DEF Collected
<1>4. /\ u.labels[1] = TargetLabel
      /\ \A i \in 2 .. n : /\ u.labels[i] = LabelAt(l, f[i])
                           /\ f[i] \in Keys(l)
      /\ \A x \in Keys(l) : \E i \in 2 .. n : f[i] = x
  BY <1>1, <1>3 DEF Collected, Holds
<1>5. /\ 2 .. n \subseteq 1 .. n
      /\ \A i \in 1 .. n : i = 1 \/ i \in 2 .. n
  BY <1>1
<1>6. (\A i \in 1 .. n : IsLabel(u.labels[i]))
         <=> \A x \in Keys(l) : IsLabel(LabelAt(l, x))
  <2>1. ASSUME \A i \in 1 .. n : IsLabel(u.labels[i]), NEW x \in Keys(l)
        PROVE  IsLabel(LabelAt(l, x))
    <3>1. PICK i \in 2 .. n : f[i] = x
      BY <1>4
    <3>2. u.labels[i] = LabelAt(l, x) /\ i \in 1 .. n
      BY <1>4, <1>5, <3>1
    <3>3. IsLabel(u.labels[i])
      BY <2>1, <3>2
    <3> QED BY <3>2, <3>3
  <2>2. ASSUME \A x \in Keys(l) : IsLabel(LabelAt(l, x)), NEW i \in 1 .. n
        PROVE  IsLabel(u.labels[i])
    <3>1. CASE i = 1
      BY <1>4, <3>1, TargetIsLabel
    <3>2. CASE i \in 2 .. n
      <4>1. u.labels[i] = LabelAt(l, f[i]) /\ f[i] \in Keys(l)
        BY <1>4, <3>2
      <4>2. IsLabel(LabelAt(l, f[i]))
        BY <2>2, <4>1
      <4> QED BY <4>1, <4>2
    <3> QED BY <1>5, <3>1, <3>2
  <2> QED BY <2>1, <2>2
<1>7. IsInjective(u.labels) <=> ~Ambiguous(l)
  BY LabelsTellApart
<1>8. Len(u.labels) = Len(u.values)
  BY <1>1
<1>9. Accepts(NameOf(l), u.labels, u.values)
         <=> /\ IsName(NameOf(l))
             /\ \A i \in 1 .. n : IsLabel(u.labels[i])
             /\ IsInjective(u.labels)
  BY <1>2, <1>8, Zenon DEF Accepts
<1>10. Exportable(l)
         <=> /\ IsName(NameOf(l))
             /\ \A x \in Keys(l) : IsLabel(LabelAt(l, x))
             /\ ~Ambiguous(l)
  BY Zenon DEF Exportable, LabelAt
<1> QED BY <1>6, <1>7, <1>9, <1>10, Zenon

LEMMA MakeInv == ASSUME IInv, NEW l \in Cached, Make(l) PROVE IInv'
<1>1. PICK u : u = up[l]
  OBVIOUS
<1>2. /\ l \in Leaves /\ u \in SampleStates /\ ~crashed
      /\ u.at = Len(l) /\ u.left = {}
      /\ Placed(l, u) /\ Collected(l, u) /\ Named(l, u)
  BY <1>1 DEF IInv, Typed, SInv, Make, Working
<1>3. Seen(l, u) = Keys(l)
  BY <1>2, AllSeen
<1>4. MetricName(l) = NameOf(l)
  <2>1. u.at > 0
    BY <1>2, LeafFacts
  <2>2. u.name = JoinedTo(l, Len(l))
    BY <1>2, <2>1 DEF Named
  <2> QED BY <1>1, <1>2, <2>2, JoinedAll, Zenon DEF MetricName, NameOf
<1>5. Accepts(MetricName(l), u.labels, u.values) <=> Exportable(l)
  BY <1>2, <1>3, <1>4, AcceptsExportable
<1>6. CASE Accepts(MetricName(l), u.labels, u.values)
  <2>1. PICK s, S :
           /\ S = {<<u.labels[i], u.values[i]>> : i \in DOMAIN u.labels}
           /\ s = <<MetricName(l), S>>
    OBVIOUS
  <2>2. S = LabelsOf(l) /\ S \in SUBSET (Name \X Values)
    BY <1>2, <1>3, <2>1, LabelsCollected
  <2>3. MetricName(l) \in Name
    <3>1. Len(l) \in 1 .. Len(l)
      BY <1>2, LeafFacts
    <3>2. Words[l[Len(l)].name] \in Name /\ u.name \in Name
      BY <1>2, <3>1, LeafFacts DEF SampleStates
    <3>3. u.name \o Words[l[Len(l)].name] \in Name
      BY <3>2, JoinIs
    <3> QED BY <1>1, <3>3, TrimmedType DEF MetricName
  <2>4. s \in Sendable
    BY <2>1, <2>2, <2>3 DEF Sendable
  <2>5. PICK r : r = [u EXCEPT !.series = s]
    OBVIOUS
  <2>6. up' = [up EXCEPT ![l] = r] /\ crashed' = crashed
    BY <1>1, <1>6, <2>1, <2>5 DEF Make, Sent
  <2>7. /\ r \in SampleStates /\ r.at = u.at /\ r.left = u.left
        /\ r.name = u.name
        /\ r.labels = u.labels /\ r.values = u.values /\ r.series = s
    BY <1>2, <2>4, <2>5 DEF SampleStates
  <2>8. Placed(l, r)
    BY <1>2, <2>7 DEF Placed
  <2>9. Seen(l, r) = Seen(l, u)
    BY <2>7 DEF Seen
  <2>10. Collected(l, r)
    BY <1>2, <2>7, <2>9 DEF Collected, Holds
  <2>11. SentRight(l, r)
    BY <1>4, <1>5, <1>6, <2>1, <2>2, <2>7 DEF SentRight
  <2>12. Named(l, r)
    BY <1>2, <2>7 DEF Named
  <2> QED BY <1>2, <2>6, <2>7, <2>8, <2>10, <2>11, <2>12, Moved DEF Right
<1>7. CASE ~Accepts(MetricName(l), u.labels, u.values)
  <2>1. UNCHANGED up
    BY <1>1, <1>7 DEF Make
  <2>2. ~Exportable(l) /\ up[l].at = Len(l)
    BY <1>1, <1>2, <1>5, <1>7
  <2>3. Died'
    BY <2>1, <2>2 DEF Died, Cached
  <2>4. Cached' = Cached /\ Typed'
    BY <2>1 DEF Typed, Cached, IInv
  <2>5. \A k \in Cached : Right(k, up'[k])
    BY <2>1 DEF IInv, SInv, Right
  <2> QED BY <2>3, <2>4, <2>5
          DEF IInv, SInv, Right, Placed, Collected, Holds, Seen, Named,
              SentRight
<1> QED BY <1>6, <1>7

LEMMA InitIInv == Init => IInv
<1> SUFFICES ASSUME Init PROVE IInv
  OBVIOUS
<1>1. PICK s \in SUBSET Leaves : up = [l \in s |-> Begun]
  BY DEF Init
<1>2. Cached = s /\ \A l \in s : up[l] = Begun
  BY <1>1 DEF Cached
<1>3. PICK a, b : a = <<TargetLabel>> /\ b = <<Target>>
  OBVIOUS
<1>4. a \in Seq(Name) /\ b \in Seq(Values) /\ Len(a) = 1 /\ Len(b) = 1
  BY <1>3, TargetTypes
<1>5. <<>> \in Name /\ <<>> \in Sendable
  BY DEF Name, Sendable
<1>6. Begun \in SampleStates
  BY <1>3, <1>4, <1>5 DEF Begun, SampleStates
<1>7. Typed
  BY <1>1, <1>2, <1>6 DEF Typed
<1>8. /\ Begun.at = 0 /\ Begun.left = {} /\ Begun.labels = a
      /\ Begun.values = b /\ Begun.series = <<>>
  BY <1>3 DEF Begun
<1>9. ASSUME NEW l \in s PROVE Right(l, Begun)
  <2>1. Placed(l, Begun)
    BY <1>8, LeafFacts DEF Placed
  <2>2. Seen(l, Begun) = {}
    <3>1. \A x \in Keys(l) : x[1] \in Nat /\ x[1] > 0
      BY KeyIsPair, LeafFacts
    <3> QED BY <1>8, <3>1 DEF Seen
  <2>3. Collected(l, Begun)
    <3>0. 2 .. Len(Begun.labels) = {}
      <4>1. Begun.labels = a /\ Len(a) = 1
        BY <1>4, <1>8
      <4> QED BY <4>1
    <3>1. PICK f : f = [i \in {} |-> i]
      OBVIOUS
    <3>2. f \in [2 .. Len(Begun.labels) -> Seen(l, Begun)]
      BY <3>0, <3>1
    <3>3. Holds(l, Begun, f)
      BY <2>2, <3>0 DEF Holds
    <3>4. a[1] = TargetLabel /\ b[1] = Target
      BY <1>3
    <3>5. Len(Begun.labels) \in Nat \ {0}
      <4>1. Begun.labels = a /\ Len(a) = 1
        BY <1>4, <1>8
      <4> QED BY <4>1
    <3>6. Len(Begun.values) = Len(Begun.labels)
      BY <1>4, <1>8
    <3>7. Begun.labels[1] = TargetLabel /\ Begun.values[1] = Target
      BY <1>8, <3>4
    <3> QED BY <3>2, <3>3, <3>5, <3>6, <3>7 DEF Collected
  <2>4. SentRight(l, Begun) /\ Named(l, Begun)
    BY <1>8 DEF SentRight, Named
  <2> QED BY <2>1, <2>3, <2>4 DEF Right
<1>10. SInv
  BY <1>2, <1>9 DEF SInv, Right, Died, Init
<1> QED BY <1>7, <1>10 DEF IInv

LEMMA NextIInv == IInv /\ [Next]_vars => IInv'
<1> SUFFICES ASSUME IInv, [Next]_vars PROVE IInv'
  OBVIOUS
<1>1. CASE Next
  BY <1>1, NextElemInv, NextKeyInv, MakeInv DEF Next
<1>2. CASE UNCHANGED vars
  <2>1. up' = up /\ crashed' = crashed /\ Cached' = Cached
    BY <1>2 DEF vars, Cached
  <2>2. Typed' /\ Died'
    BY <2>1 DEF IInv, Typed, SInv, Died
  <2>3. ASSUME NEW l \in Cached PROVE Right(l, up[l])'
    <3>1. Right(l, up[l])
      BY DEF IInv, SInv, Right
    <3>2. Placed(l, up[l])'
      BY <2>1, <3>1 DEF Right, Placed
    <3>3. Collected(l, up[l])'
      <4>1. Collected(l, up'[l])
        BY <2>1, <3>1 DEF Right
      <4> QED BY <4>1, Zenon DEF Collected, Holds, Seen
    <3>4. Named(l, up[l])'
      BY <2>1, <3>1 DEF Right, Named
    <3>5. SentRight(l, up[l])'
      BY <2>1, <3>1 DEF Right, SentRight
    <3> QED BY <3>2, <3>3, <3>4, <3>5 DEF Right
  <2> QED BY <2>1, <2>2, <2>3 DEF IInv, SInv
<1> QED BY <1>1, <1>2

LEMMA SpecIInv == Spec => []IInv
BY InitIInv, NextIInv, PTL DEF Spec

(* In whatever order a Go map hands out the keys, what is sent for a leaf  *)
(* has the name of its path, carries each key of the path as the label     *)
(* that belongs to it and nothing else; and the process dies of nothing    *)
(* but a leaf whose labels cannot be told apart, or whose name, with the   *)
(* prefix of its entry, or label Prometheus does not allow (server.go,     *)
(* l. 244, 258-264, 280-284 and 310-346).                                  *)
THEOREM ExportedAsNamedHolds == Spec => []ExportedAsNamed
<1>1. IInv => ExportedAsNamed
  BY DEF IInv, SInv, SentRight, Died, ExportedAsNamed
<1> QED BY <1>1, SpecIInv, PTL

(* Paths of one schema with the same labels are the same.                  *)
LEMMA LabelsTell ==
    ASSUME NEW l \in Leaves, NEW k \in Leaves, SameSchema(l, k),
           ~Ambiguous(l), LabelsOf(l) = LabelsOf(k)
    PROVE  l = k
<1>1. /\ Len(l) \in Nat /\ DOMAIN l = 1 .. Len(l)
      /\ Len(k) \in Nat /\ DOMAIN k = 1 .. Len(k)
  BY LeafFacts
<1>2. DOMAIN l = DOMAIN k /\ Len(l) = Len(k)
  <2>1. Len(l) \in DOMAIN l /\ Len(k) \in DOMAIN k
    BY LeafFacts
  <2>2. DOMAIN l = DOMAIN k
    BY DEF SameSchema
  <2>3. PICK n, m : n = Len(l) /\ m = Len(k)
    OBVIOUS
  <2>4. n \in Nat /\ m \in Nat /\ n \in 1 .. m /\ m \in 1 .. n
    BY <1>1, <2>1, <2>2, <2>3
  <2>5. n = m
    BY <2>4
  <2> QED BY <2>2, <2>3, <2>5
<1>3. ASSUME NEW i \in 1 .. Len(l), NEW x \in DOMAIN l[i].keys
      PROVE  l[i].keys[x] = k[i].keys[x]
  <2>1. PICK a, b : a = Label(l[i], x) /\ b = k[i].keys[x]
    OBVIOUS
  <2>2. <<i, x>> \in Keys(l) /\ <<i, x>> \in Keys(k)
    BY <1>1, <1>2, <1>3, KeyFacts DEF SameSchema
  <2>3. Label(k[i], x) = a
    BY <1>1, <1>3, <2>1 DEF SameSchema, Label
  <2>4. <<a, b>> \in LabelsOf(k)
    <3>1. <<i, x>>[1] = i /\ <<i, x>>[2] = x
      OBVIOUS
    <3> QED BY <2>1, <2>2, <2>3, <3>1 DEF LabelsOf
  <2>5. a # TargetLabel
    <3>1. <<i, x>>[1] = i /\ <<i, x>>[2] = x
      OBVIOUS
    <3> QED BY <2>1, <2>2, <3>1 DEF Ambiguous
  <2>6. PICK y \in Keys(l) :
           <<a, b>> = <<Label(l[y[1]], y[2]), l[y[1]].keys[y[2]]>>
    <3>1. <<a, b>> \in LabelsOf(l)
      BY <2>4
    <3>2. <<a, b>> # <<TargetLabel, Target>>
      BY <2>5
    <3> QED BY <3>1, <3>2, Zenon DEF LabelsOf
  <2>7. a = Label(l[y[1]], y[2]) /\ b = l[y[1]].keys[y[2]]
    BY <2>6
  <2>8. y = <<i, x>>
    <3>1. <<i, x>>[1] = i /\ <<i, x>>[2] = x
      OBVIOUS
    <3> QED BY <2>1, <2>2, <2>7, <3>1 DEF Ambiguous
  <2>9. y[1] = i /\ y[2] = x
    BY <2>8
  <2> QED BY <2>1, <2>7, <2>9
<1>4. ASSUME NEW i \in 1 .. Len(l) PROVE l[i] = k[i]
  <2>1. l[i].name = k[i].name /\ DOMAIN l[i].keys = DOMAIN k[i].keys
    BY <1>1 DEF SameSchema
  <2>2. /\ l[i] = [name |-> l[i].name, keys |-> l[i].keys]
        /\ l[i].keys = [x \in DOMAIN l[i].keys |-> l[i].keys[x]]
    BY LeafFacts
  <2>3. /\ k[i] = [name |-> k[i].name, keys |-> k[i].keys]
        /\ k[i].keys = [x \in DOMAIN k[i].keys |-> k[i].keys[x]]
    BY <1>2, LeafFacts
  <2>4. l[i].keys = k[i].keys
    BY <1>3, <2>1, <2>2, <2>3
  <2> QED BY <2>1, <2>2, <2>3, <2>4
<1>5. /\ l = [i \in 1 .. Len(l) |-> l[i]]
      /\ k = [i \in 1 .. Len(k) |-> k[i]]
  BY LeafFacts
<1> QED BY <1>2, <1>4, <1>5

(* Two entries of the same lists never become one series, whatever names   *)
(* they and their keys have (server.go, l. 258-264).                       *)
THEOREM EntriesAreDistinctHolds == Spec => []EntriesAreDistinct
<1>1. ASSUME IInv, NEW l \in Cached, NEW k \in Cached, SameSchema(l, k),
             up[l].series # <<>>, up[l].series = up[k].series
      PROVE  l = k
  <2>1. l \in Leaves /\ k \in Leaves
    BY <1>1 DEF IInv, Typed
  <2>2. /\ ~Ambiguous(l) /\ up[l].series = <<NameOf(l), LabelsOf(l)>>
        /\ up[k].series = <<NameOf(k), LabelsOf(k)>>
    BY <1>1 DEF IInv, SInv, SentRight, Exportable
  <2>3. LabelsOf(l) = LabelsOf(k)
    <3>1. <<NameOf(l), LabelsOf(l)>> = <<NameOf(k), LabelsOf(k)>>
      BY <1>1, <2>2, Zenon
    <3> QED BY <3>1
  <2> QED BY <1>1, <2>1, <2>2, <2>3, LabelsTell
<1>2. IInv => EntriesAreDistinct
  BY <1>1 DEF EntriesAreDistinct
<1> QED BY <1>2, SpecIInv, PTL
==============================================================================
