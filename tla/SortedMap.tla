------------------------------ MODULE SortedMap ------------------------------
(***************************************************************************)
(* What the interfaces g.Map and g.SortedMap promise: dict, a map from the *)
(* keys that are in it to their values, and what its queries answer in the *)
(* order of the comparator: order is 1 for ascending keys, -1 for          *)
(* descending ones.                                                        *)
(***************************************************************************)
EXTENDS Integers, Sequences, FiniteSetsExt, SequencesExt

VARIABLE dict

Present == DOMAIN dict

Init == dict = <<>>

Extended(d, pair) ==
    [k \in DOMAIN d \cup {pair[1]} |-> IF k = pair[1] THEN pair[2] ELSE d[k]]

Put(pair) == dict' = Extended(dict, pair)
PutIfAbsent(pair) == IF pair[1] \in Present THEN UNCHANGED dict ELSE Put(pair)
PutAll(pairs) == dict' = FoldLeft(Extended, dict, pairs)
Replace(pairs) == dict' = FoldLeft(Extended, <<>>, pairs)
RemoveAll(ks) == dict' = [k \in Present \ ks |-> dict[k]]
Clear == dict' = <<>>

(* The queries: the keys in order, those on one side of k (k itself only   *)
(* if inclusive), and the nearest of them, if there is one.                *)
InOrder(ks, order) ==
    [i \in 1..Cardinality(ks) |->
        CHOOSE k \in ks : Cardinality({j \in ks : order * j < order * k}) = i - 1]
Listing(ks, order) ==
    [i \in 1..Cardinality(ks) |->
        LET k == InOrder(ks, order)[i] IN <<k, dict[k]>>]
Beyond(k, order, inclusive) ==
    {j \in Present : order * j > order * k \/ (inclusive /\ j = k)}
Nearest(k, order, inclusive) ==
    {j \in Beyond(k, order, inclusive) :
        \A i \in Beyond(k, order, inclusive) : order * j <= order * i}
Ends(order) == {j \in Present : \A i \in Present : order * j <= order * i}
Between(from, fromInclusive, to, toInclusive, order) ==
    Beyond(from, order, fromInclusive) \cap Beyond(to, -order, toInclusive)
=============================================================================
