------------------------------- MODULE Series -------------------------------
(***************************************************************************)
(* What a scrape makes of a cached leaf: the innermost goroutines of       *)
(* Collect (internal/metricserver/server.go), each with getLabels,         *)
(* metricName and the call of MustNewConstMetric.  Module MetricServer has *)
(* the goroutines around them, and leaves their names alone.               *)
(*                                                                         *)
(* A name is the sequence of its words: the regular expression turns what  *)
(* separates them into underscores, and joining two names with another     *)
(* underscore is joining their words.  So different names can become one.  *)
(* A name that begins or ends in an underscore, or has two in a row, has   *)
(* empty words.                                                            *)
(***************************************************************************)
EXTENDS Naturals, Sequences, FiniteSets, SequencesExt

CONSTANTS
    Words,        \* the words of the name of an element or a key
    Leaves,       \* paths: sequences of [name, keys], keys: name -> value
    Prefix,       \* of the entry a leaf is collected for, <<>>: none
    Digits,       \* the words that begin with a digit
    Target,       \* the target of the scrape
    MaxSamples    \* bound: leaves of one scrape

(* An element of a path: a name and a map of keys.                         *)
IsElement(e) ==
    /\ e = [name |-> e.name, keys |-> e.keys]
    /\ e.keys = [k \in DOMAIN e.keys |-> e.keys[k]]
    /\ {e.name} \cup DOMAIN e.keys \subseteq DOMAIN Words

ASSUME LeavesAssumption ==
    /\ \A l \in Leaves : Prefix[l] \in Seq(STRING)
    /\ \A w \in DOMAIN Words : Words[w] \in Seq(STRING) \ {<<>>}
    /\ {"", "target"} \cap Digits = {}
    /\ \A l \in Leaves : /\ Len(l) \in Nat \ {0}
                         /\ l = [i \in 1 .. Len(l) |-> l[i]]
                         /\ \A i \in 1 .. Len(l) : IsElement(l[i])
                         /\ DOMAIN l[Len(l)].keys = {}

VARIABLES
    up,           \* the goroutines: one for each leaf that is cached
    crashed       \* MustNewConstMetric has panicked

vars == <<up, crashed>>

Cached == DOMAIN up

(* The label of every sample, with the target as its value.                *)
TargetLabel == <<"target", "name">>

(* at: the element of the path; left: its keys that are still to come, in  *)
(* the order of a Go map; name: as far as it is joined; labels, values:    *)
(* the two slices; series: what was sent.                                  *)
Begun == [at |-> 0, left |-> {}, name |-> <<>>,
          labels |-> <<TargetLabel>>, values |-> <<Target>>,
          series |-> <<>>]

Init ==
    /\ \E s \in SUBSET Leaves :
          Cardinality(s) <= MaxSamples /\ up = [l \in s |-> Begun]
    /\ crashed = FALSE

----------------------------------------------------------------------------
(* getLabels *)

(* Seeded fault: the last element is joined like the ones before it.       *)
JoinedWithLast(name, l, i) ==
    IF i = 1 THEN Prefix[l] \o Words[l[i].name] ELSE name \o Words[l[i].name]

(* The first element joins the prefix, the last one is kept for vname.     *)
Joined(name, l, i) ==
    IF i = 1 THEN Prefix[l] \o Words[l[i].name]
    ELSE IF i < Len(l) THEN name \o Words[l[i].name] ELSE name

Working(l) == ~crashed /\ up[l].series = <<>>

NextElem(l) ==
    LET i == up[l].at + 1 IN
    /\ Working(l) /\ up[l].left = {} /\ i <= Len(l)
    /\ up' = [up EXCEPT ![l].at = i, ![l].left = DOMAIN l[i].keys,
                        ![l].name = Joined(@, l, i)]
    /\ UNCHANGED crashed

Label(e, k) == Words[e.name] \o Words[k]

(* Seeded fault: a label that is already there is not appended again.      *)
NextKeyOnce(l) ==
    LET e == l[up[l].at] IN
    /\ Working(l)
    /\ \E k \in up[l].left :
         LET new == Label(e, k) \notin ToSet(up[l].labels) IN
         up' = [up EXCEPT ![l].left = @ \ {k},
                    ![l].labels = IF new THEN Append(@, Label(e, k)) ELSE @,
                    ![l].values = IF new THEN Append(@, e.keys[k]) ELSE @]
    /\ UNCHANGED crashed

NextKey(l) ==
    LET e == l[up[l].at] IN
    /\ Working(l)
    /\ \E k \in up[l].left :
         up' = [up EXCEPT ![l].left = @ \ {k},
                          ![l].labels = Append(@, Label(e, k)),
                          ![l].values = Append(@, e.keys[k])]
    /\ UNCHANGED crashed

----------------------------------------------------------------------------
(* The goroutine of a sample *)

(* Without the underscores in front.                                       *)
Trimmed(name) ==
    LET full == {i \in DOMAIN name : name[i] # ""} IN
    IF full = {} THEN <<>> ELSE SubSeq(name, Min(full), Len(name))

(* metricName; the path ends in a leaf, which has no keys.                 *)
MetricName(l) == Trimmed(up[l].name \o Words[l[Len(l)].name])

(* What the registry compares: it sorts the labels.                        *)
Sent(l) ==
    <<MetricName(l),
      {<<up[l].labels[i], up[l].values[i]>> : i \in DOMAIN up[l].labels}>>

(* What Prometheus takes for a name and for a label that a user may have,  *)
(* of words without any other character than letters and digits.           *)
IsName(n) == n # <<>> /\ n[1] \notin Digits
IsLabel(n) == /\ n[1] \notin Digits
              /\ ~(Len(n) > 2 /\ n[1] = "" /\ n[2] = "")

(* NewDesc and NewConstMetric; the values of a gNMI message are UTF-8.     *)
Accepts(name, labels, values) ==
    /\ IsName(name)
    /\ \A i \in DOMAIN labels : IsLabel(labels[i])
    /\ IsInjective(labels)
    /\ Len(labels) = Len(values)

(* MustNewConstMetric panics on what they refuse.                          *)
Make(l) ==
    /\ Working(l) /\ up[l].at = Len(l) /\ up[l].left = {}
    /\ IF Accepts(MetricName(l), up[l].labels, up[l].values)
       THEN up' = [up EXCEPT ![l].series = Sent(l)] /\ UNCHANGED crashed
       ELSE crashed' = TRUE /\ UNCHANGED up

Next == \E l \in Cached : NextElem(l) \/ NextKey(l) \/ Make(l)

Spec == Init /\ [][Next]_vars

----------------------------------------------------------------------------
(* Properties *)

(* The keys of a path, with the element they belong to, and what a reader  *)
(* of the exported series expects of it.                                   *)
Keys(l) == {x \in (DOMAIN l) \X (DOMAIN Words) : x[2] \in DOMAIN l[x[1]].keys}

Spelled(l) ==
    Prefix[l] \o FlattenSeq([i \in DOMAIN Front(l) |-> Words[l[i].name]])
              \o (IF Len(l) = 1 THEN Words[l[1].name] ELSE <<>>)
              \o Words[Last(l).name]

NameOf(l) == Trimmed(Spelled(l))

LabelsOf(l) ==
    {<<TargetLabel, Target>>}
        \cup {<<Label(l[x[1]], x[2]), l[x[1]].keys[x[2]]>> : x \in Keys(l)}

(* Two keys share a label, or one of them has the label of the target.     *)
Ambiguous(l) ==
    \E x \in Keys(l) :
        \/ Label(l[x[1]], x[2]) = TargetLabel
        \/ \E y \in Keys(l) \ {x} : Label(l[x[1]], x[2]) = Label(l[y[1]], y[2])

(* The name and the labels that a leaf should have are such as can be had. *)
Exportable(l) ==
    /\ IsName(NameOf(l))
    /\ \A x \in Keys(l) : IsLabel(Label(l[x[1]], x[2]))
    /\ ~Ambiguous(l)

(* Whatever the order in which a Go map hands out the keys, a leaf is      *)
(* exported under the name of its path with each key as the label that     *)
(* belongs to it, and the process dies only of a leaf that cannot be       *)
(* exported so: one whose labels cannot be told apart, or whose name,      *)
(* prefix included, or label Prometheus does not allow (server.go:244,     *)
(* 258-264, 280-284, 310-346).                                             *)
ExportedAsNamed ==
    /\ \A l \in Cached : up[l].series # <<>> =>
          Exportable(l) /\ up[l].series = <<NameOf(l), LabelsOf(l)>>
    /\ crashed => \E l \in Cached : up[l].at = Len(l) /\ ~Exportable(l)

SameSchema(l, k) ==
    /\ DOMAIN l = DOMAIN k
    /\ \A i \in DOMAIN l : /\ l[i].name = k[i].name
                           /\ DOMAIN l[i].keys = DOMAIN k[i].keys

(* Two entries of the same lists never become one series: what the         *)
(* registry would take for a duplicate and drop (server.go:258-264, with   *)
(* ContinueOnError at l. 153).                                             *)
EntriesAreDistinct ==
    \A l, k \in Cached :
        l # k /\ SameSchema(l, k) /\ up[l].series # <<>> =>
            up[l].series # up[k].series

----------------------------------------------------------------------------
(* What comments of the source say and the code does not do *)

(* "prometheus names should all be _ based" (server.go:320): this is what  *)
(* makes leaves of different schemas one series, as a-b/c and a/b-c.       *)
LeavesAreDistinct ==
    \A l, k \in Cached :
        l # k /\ up[l].series # <<>> => up[l].series # up[k].series

(* A leaf that can be cached can be exported (server.go:258).              *)
NoPanic == ~crashed
=============================================================================
