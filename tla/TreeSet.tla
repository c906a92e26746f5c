------------------------------- MODULE TreeSet -------------------------------
(***************************************************************************)
(* g.TreeSet: the keys of a TreeMap whose values are empty structs (0).    *)
(* A set is its tree, elements come as sequences.                          *)
(***************************************************************************)
EXTENDS TreeMap

Seqs == INSTANCE SequencesExt

Empty == 0
Elements(t) == Keys(t)                  \* Slice, Join, String, MarshalJSON
Descending(t) == KeysOf(ForEachDesc(t))

(* The first or last element, as a set of at most one. *)
First(t) == IF LeftNode(t) = Nil THEN {} ELSE {t.node[LeftNode(t)].key}
Last1(t) == IF RightNode(t) = Nil THEN {} ELSE {t.node[RightNode(t)].key}
Found(t, x) == IF x = Nil THEN {} ELSE {t.node[x].key}
Ceiling(t, e) == Found(t, CeilingEntry(t, e))
Floor(t, e) == Found(t, FloorEntry(t, e))
Higher(t, e) == Found(t, HigherEntry(t, e))
Lower(t, e) == Found(t, LowerEntry(t, e))

(* Add, AddAll: the tree, and whether it has changed. *)
Add(t, es) ==
    LET One(r, e) == [t |-> PutIfAbsent(r.t, e, Empty),
                      changed |-> r.changed \/ ~ContainsKey(r.t, e)]
    IN Seqs!FoldLeft(One, [t |-> t, changed |-> FALSE], es)

(* Remove, RemoveAll. *)
RemoveAll(t, es) ==
    LET One(r, e) == [t |-> Remove(r.t, e),
                      changed |-> r.changed \/ ContainsKey(r.t, e)]
    IN Seqs!FoldLeft(One, [t |-> t, changed |-> FALSE], es)

NewTreeSetFrom(es, order) == Add(NewTreeMap(order), es).t
DeepCopy(t) == NewTreeSetFrom(Elements(t), t.order)
UnmarshalSet(t, es) == Puts(t, [i \in DOMAIN es |-> <<es[i], Empty>>])
ContainsAll(t, es) == \A i \in DOMAIN es : ContainsKey(t, es[i])
Equals(t, u) == t.size = u.size /\ Seqs!ToSet(ForEachAsc(t)) = Seqs!ToSet(ForEachAsc(u))

HeadSet(t, to, inclusive) ==
    NewTreeSetFrom(KeysOf(IteratorDescFrom(t, to, inclusive)), t.order)
TailSet(t, from, inclusive) ==
    NewTreeSetFrom(KeysOf(IteratorAscFrom(t, from, inclusive)), t.order)
SubSet(t, from, fromInclusive, to, toInclusive) ==
    NewTreeSetFrom(Elements(SubMap(t, from, fromInclusive, to, toInclusive)),
                   t.order)

(* What is left in the set when its head or its tail is polled; the result *)
(* is the set of the keys that go.  This is a set without a lock: a safe   *)
(* one does not return, as it asks for its comparator, under the read      *)
(* lock, while it holds the write lock.                                    *)
PollHeadSet(t, to, inclusive) ==
    Removes(t, Elements(HeadMap(t, to, inclusive)))
PollTailSet(t, from, inclusive) ==
    Removes(t, Elements(TailMap(t, from, inclusive)))
=============================================================================
