---------------------------- MODULE LinkedHashMap ----------------------------
(***************************************************************************)
(* g.LinkedHashMap: a Go map, m.data, from keys to elements of a linked    *)
(* list, m.list, whose values are key-value pairs.  Each call holds the    *)
(* map's lock.  (A pair stands for the pointer to its node: no two nodes   *)
(* of a list have the same key.)                                           *)
(***************************************************************************)
EXTENDS Integers, Sequences, FiniteSets, TLC

L == INSTANCE LinkedList
Seqs == INSTANCE SequencesExt
Nil == L!Nil

NewListMap == [data |-> <<>>, list |-> L!NewLinkedList]

ContainsKey(m, k) == k \in DOMAIN m.data
PairAt(m, k) == m.list.value[m.data[k]]
Get(m, k) == IF ContainsKey(m, k) THEN PairAt(m, k)[2] ELSE 0

Put(m, k, v) ==
    IF ContainsKey(m, k) THEN [m EXCEPT !.list.value[m.data[k]] = <<k, v>>]
    ELSE [data |-> (k :> Len(m.list.value) + 1) @@ m.data,
          list |-> L!PushBack(m.list, <<k, v>>)]

(* doSetWithLockCheck, for GetOrPut and PutIfAbsent. *)
PutIfAbsent(m, k, v) == IF ContainsKey(m, k) THEN m ELSE Put(m, k, v)

(* Puts, Replace: the pairs in the order Go takes them from a map. *)
Puts(m, pairs) == Seqs!FoldLeft(LAMBDA n, p : Put(n, p[1], p[2]), m, pairs)
Clear(m) == NewListMap
Replace(m, pairs) == Puts(NewListMap, pairs)

(* m.list.Remove(e.Value) looks for the element by its value. *)
Remove(m, k) ==
    IF ContainsKey(m, k)
    THEN [data |-> [j \in DOMAIN m.data \ {k} |-> m.data[j]],
          list |-> L!RemoveValues(m.list, <<PairAt(m, k)>>)]
    ELSE m
Removes(m, ks) == Seqs!FoldLeft(Remove, m, ks)

(* Pop, Pops: ks in the order Go takes keys from m.data. *)
Size(m) == Cardinality(DOMAIN m.data)
HowMany(m, size) == IF size = -1 \/ size > Size(m) THEN Size(m) ELSE size
Pops(m, ks) == Removes(m, ks)

(* The keys of empty values are collected first, then removed. *)
ForEachAsc(m) == L!FrontAll(m.list)
ForEachDesc(m) == L!BackAll(m.list)
FilterEmpty(m) ==
    Removes(m, [i \in DOMAIN SelectSeq(ForEachAsc(m), LAMBDA p : p[2] = 0) |->
                   SelectSeq(ForEachAsc(m), LAMBDA p : p[2] = 0)[i][1]])

Merge(m, other) == Puts(m, ForEachAsc(other))
Keys(m) == [i \in DOMAIN ForEachAsc(m) |-> ForEachAsc(m)[i][1]]
Values(m) == [i \in DOMAIN ForEachAsc(m) |-> ForEachAsc(m)[i][2]]

(* A Go map of the pairs, which has no order; `pairs' are its pairs in the *)
(* order Go takes them, for Clone, DeepCopy and UnmarshalJSON.             *)
Map(m) == [k \in DOMAIN m.data |-> Get(m, k)]
OfMap(pairs, f) == {pairs[i] : i \in DOMAIN pairs} = {<<k, f[k]>> : k \in DOMAIN f}
NewListMapFrom(pairs) == Puts(NewListMap, pairs)
Clone(m, pairs) == NewListMapFrom(pairs)
DeepCopy(m, pairs) == NewListMapFrom(pairs)
MarshalJSON(m) == ForEachAsc(m)
UnmarshalJSON(m, pairs) == Puts(m, pairs)

(* Addresses by their place, in the list and in the index. *)
RenumberedMap(m) ==
    LET es == L!Forward(m.list)
    IN [list |-> L!Renumbered(m.list),
        data |-> [k \in DOMAIN m.data |->
                     IF \E i \in DOMAIN es : es[i] = m.data[k]
                     THEN CHOOSE i \in DOMAIN es : es[i] = m.data[k] ELSE Nil]]

(* The index and the list have the same keys. *)
IndexIntact(m) ==
    /\ L!Intact(m.list)
    /\ {m.data[k] : k \in DOMAIN m.data} = m.list.owned
    /\ \A k \in DOMAIN m.data : m.data[k] # Nil /\ PairAt(m, k)[1] = k
=============================================================================
