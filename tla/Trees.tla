-------------------------------- MODULE Trees --------------------------------
(***************************************************************************)
(* The sorted maps of the library under any sequence of calls, each beside *)
(* the map that SortedMap says it should be: TreeMap and TreeSet, AVLTree, *)
(* BTree.  A call holds its tree's lock and is one step.                   *)
(***************************************************************************)
EXTENDS Integers, Sequences, FiniteSets

CONSTANTS Orders,       \* TreeMap's comparators: 1 ascending, -1 descending
          Degrees,      \* the orders m of a BTree
          TreePairs,    \* the pairs that are put in a tree map
          AvlPairs,     \* the pairs that are put in an AVL tree
          BTreePairs,   \* the pairs that are put in a B-tree
          Batches,      \* sequences of pairs: the arguments of Puts and Replace
          Probes,       \* the keys the queries ask about
          Resorts       \* whether a tree with entries is given another order

VARIABLES kind,         \* which collection this is
          tree,         \* the tree
          dict,         \* what SortedMap says of it
          removed       \* history: a key was removed since the tree was empty

treeVars == <<tree, dict, removed>>

RB == INSTANCE TreeMap
TS == INSTANCE TreeSet
AVL == INSTANCE AVLTree
B == INSTANCE BTree
Abs == INSTANCE SortedMap
LOCAL INSTANCE SequencesExt

NoTree == <<>>
KeysNow == {pair[1] : pair \in TreePairs}

TreesInit ==
    /\ Abs!Init /\ removed = FALSE
    /\ CASE kind \in {"treemap", "treeset"} ->
               tree \in {RB!NewTreeMap(order) : order \in Orders}
         [] kind = "avl" -> tree = AVL!NewAVLTree
         [] kind = "btree" -> tree \in {B!NewBTree(m) : m \in Degrees}
         [] OTHER -> tree = NoTree

(* A call that puts, one that removes, one that empties the tree first. *)
Puts(t) == tree' = t /\ UNCHANGED removed
Removes(t) == tree' = t /\ removed' = TRUE
Renews(t) == tree' = t /\ removed' = FALSE
-----------------------------------------------------------------------------
PutsRB(t) == Puts(RB!Renumbered(t))
RemovesRB(t) == Removes(RB!Renumbered(t))

(* What tree maps and tree sets share. *)
PollCall ==
    \/ RemovesRB(RB!PollFirstEntry(tree)) /\ Abs!RemoveAll(Abs!Ends(tree.order))
    \/ RemovesRB(RB!PollLastEntry(tree)) /\ Abs!RemoveAll(Abs!Ends(-tree.order))
    \/ Renews(RB!Clear(tree)) /\ Abs!Clear

TreeMapCall ==
    \/ \E pair \in TreePairs :
          \/ PutsRB(RB!InsertEntry(tree, pair[1], pair[2])) /\ Abs!Put(pair)
          \/ PutsRB(RB!PutIfAbsent(tree, pair[1], pair[2])) /\ Abs!PutIfAbsent(pair)
          \/ RemovesRB(RB!Remove(tree, pair[1])) /\ Abs!RemoveAll({pair[1]})
    \/ \E batch \in Batches :
          \/ PutsRB(RB!Puts(tree, batch)) /\ Abs!PutAll(batch)
          \/ /\ RemovesRB(RB!Removes(tree, TS!KeysOf(batch)))
             /\ Abs!RemoveAll(ToSet(TS!KeysOf(batch)))
          \/ Renews(RB!Renumbered(RB!Replace(tree, batch))) /\ Abs!Replace(batch)
    \* without Resorts a tree with entries keeps its order
    \/ \E order \in Orders :
          /\ Resorts \/ tree.size = 0 \/ order = tree.order
          /\ PutsRB(RB!SetComparator(tree, order)) /\ UNCHANGED dict
    \/ PollCall

AddsAll(es) == Abs!PutAll([i \in DOMAIN es |-> <<es[i], TS!Empty>>])
TreeSetCall ==
    \/ \E batch \in Batches :
          LET es == TS!KeysOf(batch)
          IN \/ PutsRB(TS!Add(tree, es).t) /\ AddsAll(es)
             \/ RemovesRB(TS!RemoveAll(tree, es).t) /\ Abs!RemoveAll(ToSet(es))
    \/ \E e \in KeysNow :
          \/ PutsRB(TS!Add(tree, <<e>>).t) /\ AddsAll(<<e>>)
          \/ \E inclusive \in BOOLEAN :
                \/ /\ RemovesRB(TS!PollHeadSet(tree, e, inclusive))
                   /\ Abs!RemoveAll(Abs!Beyond(e, -tree.order, inclusive))
                \/ /\ RemovesRB(TS!PollTailSet(tree, e, inclusive))
                   /\ Abs!RemoveAll(Abs!Beyond(e, tree.order, inclusive))
    \/ PollCall
-----------------------------------------------------------------------------
PutsAvl(t) == Puts(AVL!Renumbered(t))
RemovesAvl(t) == Removes(AVL!Renumbered(t))
RenewsAvl(t) == Renews(AVL!Renumbered(t))

AvlCall ==
    /\ ~tree.panicked
    /\ \/ \E pair \in AvlPairs :
             \/ PutsAvl(AVL!Put(tree, pair[1], pair[2])) /\ Abs!Put(pair)
             \/ PutsAvl(AVL!PutIfAbsent(tree, pair[1], pair[2])) /\ Abs!PutIfAbsent(pair)
             \/ RemovesAvl(AVL!Remove(tree, pair[1])) /\ Abs!RemoveAll({pair[1]})
       \/ \E batch \in Batches :
             \/ PutsAvl(AVL!Puts(tree, batch)) /\ Abs!PutAll(batch)
             \/ /\ RemovesAvl(AVL!Removes(tree, TS!KeysOf(batch)))
                /\ Abs!RemoveAll(ToSet(TS!KeysOf(batch)))
             \/ RenewsAvl(AVL!Replace(tree, batch)) /\ Abs!Replace(batch)
       \/ RenewsAvl(AVL!Clear(tree)) /\ Abs!Clear
-----------------------------------------------------------------------------
PutsB(t) == Puts(B!Renumbered(t))
RemovesB(t) == Removes(B!Renumbered(t))
RenewsB(t) == Renews(B!Renumbered(t))

BTreeCall ==
    \/ \E pair \in BTreePairs :
          \/ PutsB(B!DoSet(tree, pair[1], pair[2])) /\ Abs!Put(pair)
          \/ PutsB(B!PutIfAbsent(tree, pair[1], pair[2])) /\ Abs!PutIfAbsent(pair)
          \/ RemovesB(B!Remove(tree, pair[1])) /\ Abs!RemoveAll({pair[1]})
    \/ \E batch \in Batches :
          \/ PutsB(B!Puts(tree, batch)) /\ Abs!PutAll(batch)
          \/ /\ RemovesB(B!Removes(tree, TS!KeysOf(batch)))
             /\ Abs!RemoveAll(ToSet(TS!KeysOf(batch)))
          \/ RenewsB(B!Replace(tree, batch)) /\ Abs!Replace(batch)
    \/ RenewsB(B!Clear(tree)) /\ Abs!Clear

TreesNext ==
    \/ kind = "treemap" /\ TreeMapCall
    \/ kind = "treeset" /\ TreeSetCall
    \/ kind = "avl" /\ AvlCall
    \/ kind = "btree" /\ BTreeCall
-----------------------------------------------------------------------------
RedBlackKinds == {"treemap", "treeset"}
Works == kind = "avl" => ~tree.panicked     \* no call has panicked

(* Whatever the calls, a TreeMap or TreeSet is a red-black search tree.    *)
RedBlackShape == kind \in RedBlackKinds => RB!RedBlack(tree)

(* An AVLTree is a search tree with right parents until a call panics, and *)
(* balanced as its nodes say as long as nothing is removed from it.        *)
AvlShape ==
    kind = "avl" /\ Works => AVL!Ordered(tree) /\ (removed \/ AVL!Balanced(tree))

(* A BTree has full enough nodes, equally deep leaves and ordered entries. *)
BTreeShape == kind = "btree" => B!Shape(tree)

(* Each tree holds what its specification says, finds it, and gives it in  *)
(* both directions, as keys, values and a Go map; a tree made from what it *)
(* gives, by cloning or through JSON, holds the same.  Two cases are left  *)
(* out: a tree that was given another order while it had entries, which    *)
(* can lose them (the calls make it only if Resorts), and FirstEntry and   *)
(* LastEntry of an empty tree, which are NilInside and not nil.            *)
Content(order) == Abs!Listing(Abs!Present, order)
Find(k) == IF k \in Abs!Present THEN <<dict[k]>> ELSE <<>>

SameTreeMap ==
    LET order == tree.order
    IN /\ RB!ForEachAsc(tree) = Content(order)
       /\ RB!ForEachDesc(tree) = Content(-order)
       /\ Abs!Present # {} =>
             /\ RB!FirstEntry(tree) = Abs!Listing(Abs!Ends(order), order)
             /\ RB!LastEntry(tree) = Abs!Listing(Abs!Ends(-order), order)
       /\ RB!Keys(tree) = Abs!InOrder(Abs!Present, order)
       /\ Len(RB!Values(tree)) = tree.size
       /\ RB!Map(tree) = dict
       /\ \A k \in Probes : RB!Search(tree, k) = Find(k)
       /\ RB!Map(RB!Clone(tree)) = dict
       /\ RB!UnmarshalJSON(RB!NewTreeMap(order), RB!MarshalJSON(tree)) =
              RB!NewTreeMapFrom(order, Content(order))

SameTreeSet ==
    LET order == tree.order
    IN /\ TS!Elements(tree) = Abs!InOrder(Abs!Present, order)
       /\ TS!Descending(tree) = Abs!InOrder(Abs!Present, -order)
       /\ TS!Equals(tree, TS!DeepCopy(tree))
       /\ TS!ContainsAll(tree, TS!Elements(tree))
       /\ TS!Elements(TS!UnmarshalSet(TS!NewTreeMap(-order), TS!Elements(tree))) =
              TS!Descending(tree)

SameAvl ==
    /\ AVL!ForEachAsc(tree) = Content(1)
    /\ AVL!ForEachDesc(tree) = Content(-1)
    /\ AVL!Keys(tree) = Abs!InOrder(Abs!Present, 1)
    /\ Len(AVL!Values(tree)) = tree.size
    /\ AVL!Map(tree) = dict /\ AVL!Map(AVL!Clone(tree)) = dict
    /\ AVL!MarshalJSON(AVL!NewAVLTreeFrom(Content(-1))) = Content(1)
    /\ \A k \in Probes : AVL!Search(tree, k) = Find(k)
    /\ Abs!Present # {} =>
          Abs!Ends(1) = {AVL!Left(tree)} /\ Abs!Ends(-1) = {AVL!Right(tree)}

SameBTree ==
    /\ B!ForEachAsc(tree) = Content(1)
    /\ B!ForEachDesc(tree) = Content(-1)
    /\ B!Keys(tree) = Abs!InOrder(Abs!Present, 1)
    /\ Len(B!Values(tree)) = tree.size
    /\ B!Map(tree) = dict /\ B!Map(B!Clone(tree)) = dict
    /\ B!MarshalJSON(B!NewBTreeFrom(tree.m, Content(-1))) = Content(1)
    /\ \A k \in Probes : B!SearchValue(tree, k) = Find(k)
    /\ Abs!Present # {} => /\ B!Left(tree) = Content(1)[1]
                           /\ B!Right(tree) = Content(-1)[1]

SameMap ==
    /\ kind = "treemap" => tree # RB!Hung /\ SameTreeMap
    /\ kind = "treeset" => SameTreeSet
    /\ kind = "avl" /\ Works => SameAvl
    /\ kind = "btree" => SameBTree

(* The neighbours of a key, in the tree or not, and the maps and sets made *)
(* of the entries on its sides or between two keys, are what their names   *)
(* say.  (A B-tree and an AVL tree can only be iterated from a key that is *)
(* in them: see the README.)                                               *)
FromHere(k, order, inclusive) == Abs!Listing(Abs!Beyond(k, order, inclusive), order)

RedBlackAnswers(k, order) ==
    /\ TS!Floor(tree, k) = Abs!Nearest(k, -order, TRUE)
    /\ TS!Lower(tree, k) = Abs!Nearest(k, -order, FALSE)
    /\ TS!Ceiling(tree, k) = Abs!Nearest(k, order, TRUE)
    /\ TS!Higher(tree, k) = Abs!Nearest(k, order, FALSE)
    /\ \A inclusive \in BOOLEAN :
          /\ RB!IteratorAscFrom(tree, k, inclusive) = FromHere(k, order, inclusive)
          /\ RB!IteratorDescFrom(tree, k, inclusive) = FromHere(k, -order, inclusive)
          /\ RB!ForEachAsc(RB!HeadMap(tree, k, inclusive)) =
                Abs!Listing(Abs!Beyond(k, -order, inclusive), order)
          /\ TS!Elements(TS!TailSet(tree, k, inclusive)) =
                Abs!InOrder(Abs!Beyond(k, order, inclusive), order)
    /\ \A to \in Probes, toInclusive \in BOOLEAN :
          order * k <= order * to =>
             RB!ForEachAsc(RB!SubMap(tree, k, TRUE, to, toInclusive)) =
             Abs!Listing(Abs!Between(k, TRUE, to, toInclusive, order), order)

SameNeighbours ==
    /\ kind \in RedBlackKinds =>
          LET order == tree.order
          IN /\ \A k \in Probes : RedBlackAnswers(k, order)
             /\ TS!First(tree) = Abs!Ends(order)
             /\ TS!Last1(tree) = Abs!Ends(-order)
             /\ RB!ForEachAsc(RB!Reverse(tree)) = Content(-order)
             /\ TS!Elements(RB!DescendingKeySet(tree)) =
                   Abs!InOrder(Abs!Present, -order)
    /\ kind = "avl" /\ Works =>
          \A k \in Probes :
             /\ TS!Found(tree, AVL!Floor(tree, k)) = Abs!Nearest(k, -1, TRUE)
             /\ TS!Found(tree, AVL!Ceiling(tree, k)) = Abs!Nearest(k, 1, TRUE)
             /\ k \in Abs!Present =>
                   /\ AVL!IteratorAscFrom(tree, k) = FromHere(k, 1, TRUE)
                   /\ AVL!IteratorDescFrom(tree, k) = FromHere(k, -1, TRUE)
    /\ kind = "btree" =>
          \A k \in Abs!Present, match \in BOOLEAN :
             /\ B!IteratorAscFrom(tree, k, match) = FromHere(k, 1, TRUE)
             /\ B!IteratorDescFrom(tree, k, match) = FromHere(k, -1, TRUE)

(* No call of an AVLTree dereferences a nil pointer. *)
NoPanic == kind = "avl" => ~tree.panicked
=============================================================================
