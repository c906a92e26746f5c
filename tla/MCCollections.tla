---------------------------- MODULE MCCollections ----------------------------
EXTENDS Collections

MCOrders == {1, -1}
MCTreePairs == {<<k, 0>> : k \in 1..7} \cup {<<3, 1>>}
MCAvlPairs == {<<k, 0>> : k \in 1..5}
MCBTreePairs == {<<k, 0>> : k \in 1..9} \cup {<<3, 1>>}
MCBatches == {<< <<2, 0>>, <<4, 0>>, <<1, 0>> >>, << <<5, 0>>, <<3, 0>> >>}
MCProbes == {0, 3, 6, 8}
MCArguments == {<<>>, <<1>>, <<2, 1>>, <<0, 2, 0>>}
MCRingCaps == {<<2, 1>>, <<3, 0>>, <<0, 1>>}
MCRingTurns == {-1, 1, 2}
MCMapPairs == {<< <<1, 1>>, <<2, 0>> >>, << <<3, 1>>, <<1, 0>> >>}
MCLoopOrders == {-1}
MCLoopPairs == {<<k, k>> : k \in 1..6} \cup {<<3, 0>>}
MCMerges == {<<"m1", "m2">>, <<"m2", "m2">>}
=============================================================================
