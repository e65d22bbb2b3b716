---------------------------- MODULE OrderedDict ----------------------------
(***************************************************************************)
(* A Python dict as appliance/entity_map.py uses one: a finite map that    *)
(* remembers the order its keys were inserted in.  The code relies on that *)
(* order (next(iter(d)) is the oldest entry), so a dict is a sequence of   *)
(* [key, val] entries, oldest first, with at most one entry per key.       *)
(***************************************************************************)
EXTENDS Naturals, Sequences

Entry(K, V) == [key : K, val : V]

\* The dicts with keys in K and values in V.
Dict(K, V) == Seq(Entry(K, V))

Items(d) == {d[i] : i \in DOMAIN d}

DictKeys(d) == {d[i].key : i \in DOMAIN d}

\* A dict has one entry for each of its keys.
OnePerKey(d) == \A i, j \in DOMAIN d : d[i].key = d[j].key => i = j

HasKey(d, k) == \E i \in DOMAIN d : d[i].key = k

IndexOf(d, k) == CHOOSE i \in DOMAIN d : d[i].key = k

\* d[k], for a key that is in d.
Lookup(d, k) == d[IndexOf(d, k)].val

DropAt(d, i) == SubSeq(d, 1, i - 1) \o SubSeq(d, i + 1, Len(d))

\* d.pop(k, None)
Pop(d, k) == IF HasKey(d, k) THEN DropAt(d, IndexOf(d, k)) ELSE d

\* d[k] = v for a key that is not in d: it becomes the youngest entry.
Insert(d, k, v) == Append(d, [key |-> k, val |-> v])

\* d.pop(k, None); d[k] = v -- the key moves to the young end.
PopAndSet(d, k, v) == Insert(Pop(d, k), k, v)

\* d with the entries of the keys in K only, in the order they had: a set with
\* one element.  A relation, not SelectSeq, whose recursion no prover unfolds.
Restrictions(d, K) ==
  {e \in UNION {[1 .. n -> Items(d)] : n \in 0 .. Len(d)} :
     /\ DictKeys(e) = DictKeys(d) \cap K
     /\ \A i, j \in DOMAIN e :
          i < j => IndexOf(d, e[i].key) < IndexOf(d, e[j].key)}
=============================================================================
