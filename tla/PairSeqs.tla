------------------------------- MODULE PairSeqs -------------------------------
(***************************************************************************)
(* What the maps make of the key-value pairs their iteration gives: the    *)
(* keys, the values, a Go map.                                             *)
(***************************************************************************)
EXTENDS Integers, Sequences

KeysOf(pairs) == [i \in DOMAIN pairs |-> pairs[i][1]]
ValuesOf(pairs) == [i \in DOMAIN pairs |-> pairs[i][2]]
MapOf(pairs) ==
    [k \in {pairs[i][1] : i \in DOMAIN pairs} |->
        pairs[CHOOSE i \in DOMAIN pairs : pairs[i][1] = k][2]]
=============================================================================
