-------------------------------- MODULE HashSet --------------------------------
(***************************************************************************)
(* g.HashSet: a Go map, here the set of its keys.  `others' are the sets   *)
(* the code is given, in their order; each is read under its own lock.     *)
(***************************************************************************)
EXTENDS Integers, Sequences, FiniteSets

Seqs == INSTANCE SequencesExt

(* Add, AddAll; Remove, RemoveAll: the set, and the answer. *)
Add(set, items) == set \cup Seqs!ToSet(items)
AddChanged(set, items) == ~(Seqs!ToSet(items) \subseteq set)
Remove(set, items) == set \ Seqs!ToSet(items)
RemoveChanged(set, items) == items # <<>>

Contains(set, item) == item \in set
Clear(set) == {}
Clone(set) == set
DeepCopy(set) == set
UnmarshalJSON(set, items) == set \cup Seqs!ToSet(items)
Sum(set) == Seqs!FoldSet(LAMBDA v, n : v + n, 0, set)
(* Slice, MarshalJSON: in the order in which Go takes the keys. *)
Slices(set) == Seqs!SetToSeqs(set)
Join(slice, glue) == Seqs!FlattenSeq([i \in DOMAIN slice |->
                         IF i = Len(slice) THEN <<slice[i]>> ELSE <<slice[i], glue>>])

(* Pop, Pops: any elements, `size' of them or all. *)
HowMany(set, size) == IF size > Cardinality(set) \/ size = -1
                      THEN Cardinality(set) ELSE size
Pops(set, size) == {set \ gone : gone \in
                       {s \in SUBSET set : Cardinality(s) = HowMany(set, size)}}
Walk(set, F(_)) == {F(v) : v \in set}
Merge(set, others) == Seqs!FoldLeft(LAMBDA s, o : s \cup o, set, others)

(* The loops of the functions that make a new set: one round per other.    *)
(* (A set given to itself is skipped, or read under one lock.)             *)
UnionRound(set, new, other) == new \cup set \cup other
DiffRound(set, new, other) == new \cup (set \ other)
IntersectRound(set, new, other) == new \cup (set \cap other)
Union(set, others) == Seqs!FoldLeft(LAMBDA n, o : UnionRound(set, n, o), {}, others)
Diff(set, others) == Seqs!FoldLeft(LAMBDA n, o : DiffRound(set, n, o), {}, others)
Intersect(set, others) ==
    Seqs!FoldLeft(LAMBDA n, o : IntersectRound(set, n, o), {}, others)
Complement(set, full) == full \ set
Equals(set, other) == Cardinality(set) = Cardinality(other) /\ set \subseteq other
IsSubsetOf(set, other) == \A k \in set : k \in other

(* ContainsAll: what the loop finds out does not leave its callback. *)
ContainsAll(set, items) == TRUE
=============================================================================
