------------------------------ MODULE Collections ------------------------------
(***************************************************************************)
(* One collection of the library, of any kind, under any sequence of its   *)
(* calls: a tree (Trees), a red-black tree again, loop by loop             *)
(* (TreeLoops), a list, an ordered or array list or a set (Lists), rings   *)
(* (Ring), or two hash maps that several users share (HashMaps).  The      *)
(* invariants of TreeLoops, Ring and HashMaps are checked here as they     *)
(* are.  The collections have no state in common, so that what the kind    *)
(* does not use keeps its initial value.                                   *)
(***************************************************************************)
EXTENDS Sequences, HashMaps, Ring, TreeLoops

CONSTANTS Kinds,                                                 \* the kinds to make
          Orders, Degrees, TreePairs, AvlPairs, BTreePairs,
          Batches, Probes, Resorts,                              \* of Trees
          ListValues, Arguments, MaxLen, MapKeys, MapPairs,
          UsesCleared                                            \* of Lists

VARIABLES kind, tree, dict, removed, obj, seq     \* and those of the modules above

T == INSTANCE Trees
L == INSTANCE Lists

treeVars == <<tree, dict, removed>>
listVars == <<obj, seq>>
vars == <<kind, treeVars, listVars, ringVars, mapVars, loopVars>>

Init ==
    /\ kind \in Kinds
    /\ T!TreesInit /\ L!ListsInit /\ MapsInit
    /\ IF kind = "ring" THEN RingInit
       ELSE NoRings
    /\ LoopsInit /\ (kind # "treeloops" => order = CHOOSE o \in LoopOrders : TRUE)

TreeStep == T!TreesNext /\ UNCHANGED <<kind, listVars, ringVars, mapVars, loopVars>>
ListStep == L!ListsNext /\ UNCHANGED <<kind, treeVars, ringVars, mapVars, loopVars>>
RingStep ==
    /\ kind = "ring" /\ RingNext
    /\ UNCHANGED <<kind, treeVars, listVars, mapVars, loopVars>>
MapStep ==
    /\ kind = "hashmap" /\ MapsNext
    /\ UNCHANGED <<kind, treeVars, listVars, ringVars, loopVars>>
LoopsTreeStep ==
    /\ kind = "treeloops" /\ LoopsNext
    /\ UNCHANGED <<kind, treeVars, listVars, ringVars, mapVars>>

Next == TreeStep \/ ListStep \/ RingStep \/ MapStep \/ LoopsTreeStep

(* A goroutine that has what it waits for goes on. *)
Spec ==
    /\ Init /\ [][Next]_vars
    /\ \A u \in Users : WF_mapVars(Section(u))
    /\ WF_loopVars(LoopStep)
-----------------------------------------------------------------------------
(* A tree map or a tree set is a red-black search tree after every call,   *)
(* deletions by key, from the ends and of whole heads and tails included.  *)
RedBlackShape == T!RedBlackShape

(* An AVL tree keeps its order, its parents and its size until a call      *)
(* panics, and its balance as long as nothing was removed from it.         *)
AvlShape == T!AvlShape

(* In a B-tree borrowing, merging and splitting leave every node full      *)
(* enough, the leaves equally deep and the entries in order.               *)
BTreeShape == T!BTreeShape

(* A tree holds exactly what the calls put in it and did not remove, and   *)
(* iterating it either way gives that in order, as long as SetComparator   *)
(* gives no tree with entries another order (Resorts).  What FirstEntry    *)
(* and LastEntry answer for an empty tree is not compared.                 *)
SameMap == T!SameMap

(* Floor, ceiling, lower, higher, and the iterations, maps and sets that   *)
(* begin or end at a key are what they are of the abstract map.            *)
SameNeighbours == T!SameNeighbours

(* A list, an ordered map, an array list is the sequence that its calls    *)
(* make, where Remove takes the first of each of its values only, and a    *)
(* hash set answers like a set.  Left out are ContainsAll (of a linked     *)
(* list it is claimed in one direction), slices that an array list has     *)
(* handed out, and callers that use elements of before a Clear.            *)
SameCollection == L!SameCollection

(* A call that has begun returns: a user of shared maps does not wait for  *)
(* ever, and the loops of a tree, up and down again, come to an end.       *)
EveryCallReturns == CallsReturn /\ LoopsEnd

(* An AVL tree's calls dereference no nil pointer.                         *)
NoPanic == T!NoPanic
=============================================================================
