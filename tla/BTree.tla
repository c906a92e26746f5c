-------------------------------- MODULE BTree --------------------------------
(***************************************************************************)
(* g.BTree of order m.  t.node[x] is the node at address x, with its       *)
(* parent, its entries (key-value pairs) and its children.  Indexes count  *)
(* from 1 here, so that child i is left of entry i.                        *)
(***************************************************************************)
EXTENDS PairSeqs

Seqs == INSTANCE SequencesExt

Nil == 0

NewBTree(m) == [root |-> Nil, size |-> 0, m |-> m, node |-> <<>>]

MaxEntries(t) == t.m - 1
MinEntries(t) == (t.m + 1) \div 2 - 1
Middle(t) == (t.m - 1) \div 2

Node(parent, entries, children) ==
    [parent |-> parent, entries |-> entries, children |-> children]
Entries(t, x) == t.node[x].entries
Children(t, x) == t.node[x].children
Parent(t, x) == t.node[x].parent
IsLeaf(t, x) == Children(t, x) = <<>>
LastOf(seq) == seq[Len(seq)]
Part(seq, i, j) == IF seq = <<>> THEN <<>> ELSE SubSeq(seq, i, j)
AllBut(seq, i) == Seqs!RemoveAt(seq, i)

SetParent(t, xs, p) ==
    [t EXCEPT !.node = SubSeq(
        [x \in DOMAIN @ |-> IF \E i \in DOMAIN xs : xs[i] = x
                            THEN [@[x] EXCEPT !.parent = p] ELSE @[x]],
        1, Len(@))]
-----------------------------------------------------------------------------
(* search: the first entry whose key is not smaller. *)
RECURSIVE BinarySearch(_, _, _, _)
BinarySearch(entries, k, low, high) ==
    LET mid == low + (high - low) \div 2
    IN IF low > high THEN low
       ELSE IF k > entries[mid][1] THEN BinarySearch(entries, k, mid + 1, high)
       ELSE IF k < entries[mid][1] THEN BinarySearch(entries, k, low, mid - 1)
       ELSE mid
Search(t, x, k) == BinarySearch(Entries(t, x), k, 1, Len(Entries(t, x)))
FoundAt(t, x, i, k) == i <= Len(Entries(t, x)) /\ Entries(t, x)[i][1] = k

(* searchRecursively: the node and the index where k is or would be. *)
RECURSIVE SearchBelow(_, _, _)
SearchBelow(t, x, k) ==
    LET i == Search(t, x, k)
    IN IF FoundAt(t, x, i, k) THEN [node |-> x, index |-> i, found |-> TRUE]
       ELSE IF IsLeaf(t, x) THEN [node |-> x, index |-> i, found |-> FALSE]
       ELSE SearchBelow(t, Children(t, x)[i], k)
SearchRecursively(t, k) ==
    IF t.size = 0 THEN [node |-> Nil, index |-> 0, found |-> FALSE]
    ELSE SearchBelow(t, t.root, k)
ContainsKey(t, k) == SearchRecursively(t, k).found
ValueAt(t, at) == IF at.found THEN <<Entries(t, at.node)[at.index][2]>> ELSE <<>>
SearchValue(t, k) == ValueAt(t, SearchRecursively(t, k))

RECURSIVE LeftFrom(_, _)
LeftFrom(t, x) == IF IsLeaf(t, x) THEN x ELSE LeftFrom(t, Children(t, x)[1])
RECURSIVE RightFrom(_, _)
RightFrom(t, x) == IF IsLeaf(t, x) THEN x
                   ELSE RightFrom(t, LastOf(Children(t, x)))
-----------------------------------------------------------------------------
(* Inserting, and splitting a node that has become too full. *)
SplitRoot(t) ==
    LET mid == Middle(t)
        e == Entries(t, t.root)
        c == Children(t, t.root)
        left == Len(t.node) + 1
        right == left + 1
        root == left + 2
        cl == Part(c, 1, mid + 1)
        cr == Part(c, mid + 2, Len(c))
        t1 == [t EXCEPT !.root = root,
                  !.node = @ \o <<Node(root, SubSeq(e, 1, mid), cl),
                                  Node(root, SubSeq(e, mid + 2, Len(e)), cr),
                                  Node(Nil, <<e[mid + 1]>>, <<left, right>>)>>]
    IN SetParent(SetParent(t1, cl, left), cr, right)

RECURSIVE Split(_, _)
SplitNonRoot(t, x) ==
    LET mid == Middle(t)
        p == Parent(t, x)
        e == Entries(t, x)
        c == Children(t, x)
        left == Len(t.node) + 1
        right == left + 1
        cl == Part(c, 1, mid + 1)
        cr == Part(c, mid + 2, Len(c))
        i == Search(t, p, e[mid + 1][1])
        t1 == [t EXCEPT
                 !.node = [@ EXCEPT
                     ![p].entries = Seqs!InsertAt(@, i, e[mid + 1]),
                     ![p].children = Seqs!InsertAt([@ EXCEPT ![i] = left],
                                                   i + 1, right)]
                          \o <<Node(p, SubSeq(e, 1, mid), cl),
                               Node(p, SubSeq(e, mid + 2, Len(e)), cr)>>]
    IN SetParent(SetParent(t1, cl, left), cr, right)
Split(t, x) ==
    IF Len(Entries(t, x)) <= MaxEntries(t) THEN t
    ELSE IF x = t.root THEN SplitRoot(t)
    ELSE Split(SplitNonRoot(t, x), Parent(t, x))

(* insert: into the leaf, or over the entry that has the key. *)
DoSet(t, k, v) ==
    LET at == SearchBelow(t, t.root, k)
        t1 == [t EXCEPT !.node[at.node].entries =
                   IF at.found THEN [@ EXCEPT ![at.index] = <<k, v>>]
                   ELSE Seqs!InsertAt(@, at.index, <<k, v>>)]
        t2 == Split(t1, at.node)
    IN IF t.root = Nil
       THEN [t EXCEPT !.root = Len(t.node) + 1, !.size = @ + 1,
                      !.node = Append(@, Node(Nil, << <<k, v>> >>, <<>>))]
       ELSE IF at.found THEN t1 ELSE [t2 EXCEPT !.size = @ + 1]

PutIfAbsent(t, k, v) == IF ContainsKey(t, k) THEN t ELSE DoSet(t, k, v)
RECURSIVE Puts(_, _)
Puts(t, pairs) == IF pairs = <<>> THEN t
                  ELSE Puts(DoSet(t, pairs[1][1], pairs[1][2]), Tail(pairs))
NewBTreeFrom(m, pairs) == Puts(NewBTree(m), pairs)
Clear(t) == [t EXCEPT !.root = Nil, !.size = 0]
Replace(t, pairs) == Puts(Clear(t), pairs)
-----------------------------------------------------------------------------
(* Deleting.  The siblings are found by the deleted key. *)
SiblingAt(t, x, i) ==
    IF i \in DOMAIN Children(t, Parent(t, x)) THEN Children(t, Parent(t, x))[i]
    ELSE Nil
LeftSiblingIndex(t, x, k) == Search(t, Parent(t, x), k) - 1
RightSiblingIndex(t, x, k) == Search(t, Parent(t, x), k) + 1
LeftSibling(t, x, k) == IF Parent(t, x) = Nil THEN Nil
                        ELSE SiblingAt(t, x, LeftSiblingIndex(t, x, k))
RightSibling(t, x, k) == IF Parent(t, x) = Nil THEN Nil
                         ELSE SiblingAt(t, x, RightSiblingIndex(t, x, k))

(* rotate right: over the separator from the left sibling s; the separator *)
(* left of child i + 1 is entry i.                                         *)
BorrowLeft(t, x, s, i) ==
    LET p == Parent(t, x)
        child == LastOf(Children(t, s))
        t1 == [t EXCEPT !.node[x].entries = <<Entries(t, p)[i]>> \o @,
                        !.node[p].entries[i] = LastOf(Entries(t, s)),
                        !.node[s].entries = Seqs!Front(@)]
    IN IF IsLeaf(t, s) THEN t1
       ELSE SetParent([t1 EXCEPT !.node[x].children = <<child>> \o @,
                                 !.node[s].children = Seqs!Front(@)],
                      <<child>>, x)

BorrowRight_NoParent(t, x, s, i) ==
    LET p == Parent(t, x)
        t1 == [t EXCEPT !.node[x].entries = Append(@, Entries(t, p)[i - 1]),
                        !.node[p].entries[i - 1] = Entries(t, s)[1],
                        !.node[s].entries = Tail(@)]
    IN IF IsLeaf(t, s) THEN t1
       ELSE [t1 EXCEPT !.node[x].children = Append(@, Children(t, s)[1]),
                       !.node[s].children = Tail(@)]
BorrowRight(t, x, s, i) ==
    LET p == Parent(t, x)
        child == Children(t, s)[1]
        t1 == [t EXCEPT !.node[x].entries = Append(@, Entries(t, p)[i - 1]),
                        !.node[p].entries[i - 1] = Entries(t, s)[1],
                        !.node[s].entries = Tail(@)]
    IN IF IsLeaf(t, s) THEN t1
       ELSE SetParent([t1 EXCEPT !.node[x].children = Append(@, child),
                                 !.node[s].children = Tail(@)],
                      <<child>>, x)

MergeRight(t, x, s, i) ==
    LET p == Parent(t, x)
        t1 == [t EXCEPT
                 !.node[x].entries = Append(@, Entries(t, p)[i - 1])
                                     \o Entries(t, s),
                 !.node[x].children = @ \o Children(t, s),
                 !.node[p].entries = AllBut(@, i - 1),
                 !.node[p].children = AllBut(@, i)]
    IN SetParent(t1, Children(t, s), x)

MergeLeft_NoSeparator(t, x, s, i) ==
    LET p == Parent(t, x)
        t1 == [t EXCEPT !.node[x].entries = Entries(t, s) \o @,
                        !.node[x].children = Children(t, s) \o @,
                        !.node[p].entries = AllBut(@, i),
                        !.node[p].children = AllBut(@, i)]
    IN SetParent(t1, Children(t, s), x)
MergeLeft(t, x, s, i) ==
    LET p == Parent(t, x)
        t1 == [t EXCEPT
                 !.node[x].entries = Append(Entries(t, s), Entries(t, p)[i]) \o @,
                 !.node[x].children = Children(t, s) \o @,
                 !.node[p].entries = AllBut(@, i),
                 !.node[p].children = AllBut(@, i)]
    IN SetParent(t1, Children(t, s), x)

RECURSIVE ReBalance(_, _, _)
ReBalance(t, x, k) ==
    LET p == Parent(t, x)
        l == LeftSibling(t, x, k)
        r == RightSibling(t, x, k)
        il == LeftSiblingIndex(t, x, k)
        ir == RightSiblingIndex(t, x, k)
        merged == IF r # Nil THEN MergeRight(t, x, r, ir)
                  ELSE IF l # Nil THEN MergeLeft(t, x, l, il) ELSE t
        k1 == IF r # Nil THEN Entries(t, p)[ir - 1][1]
              ELSE IF l # Nil THEN Entries(t, p)[il][1] ELSE k
    IN IF x = Nil \/ Len(Entries(t, x)) >= MinEntries(t) THEN t
       ELSE IF l # Nil /\ Len(Entries(t, l)) > MinEntries(t)
       THEN BorrowLeft(t, x, l, il)
       ELSE IF r # Nil /\ Len(Entries(t, r)) > MinEntries(t)
       THEN BorrowRight(t, x, r, ir)
       ELSE IF p # Nil /\ p = t.root /\ Entries(merged, t.root) = <<>>
       THEN [merged EXCEPT !.root = x, !.node[x].parent = Nil]
       ELSE ReBalance(merged, p, k1)

(* delete: from a leaf; an inner entry is replaced by the largest entry    *)
(* before it, which is deleted from its leaf.                              *)
RootDropped(t) == IF Entries(t, t.root) = <<>> THEN [t EXCEPT !.root = Nil] ELSE t
Delete(t, x, i) ==
    LET leaf == RightFrom(t, Children(t, x)[i])
        last == LastOf(Entries(t, leaf))
    IN IF IsLeaf(t, x)
       THEN RootDropped(ReBalance([t EXCEPT !.node[x].entries = AllBut(@, i)],
                                  x, Entries(t, x)[i][1]))
       ELSE ReBalance([t EXCEPT !.node[x].entries[i] = last,
                                !.node[leaf].entries = Seqs!Front(@)],
                      leaf, last[1])

Remove(t, k) ==
    LET at == SearchRecursively(t, k)
    IN IF at.found THEN [Delete(t, at.node, at.index) EXCEPT !.size = @ - 1]
       ELSE t
RECURSIVE Removes(_, _)
Removes(t, ks) == IF ks = <<>> THEN t ELSE Removes(Remove(t, Head(ks)), Tail(ks))
-----------------------------------------------------------------------------
(* Iterating: from entry i of node x.  The position is looked up again by  *)
(* the entry's key in the node and in the ancestors.                       *)
RECURSIVE UpRight(_, _, _)
UpRight(t, x, k) ==
    LET p == Parent(t, x)
        i == Search(t, p, k)
    IN IF p = Nil THEN <<Nil, 0>>
       ELSE IF i <= Len(Entries(t, p)) THEN <<p, i>> ELSE UpRight(t, p, k)

RECURSIVE Ascend(_, _, _)
Ascend(t, x, i) ==
    LET up == UpRight(t, x, Entries(t, x)[i][1])
    IN IF x = Nil THEN <<>>
       ELSE <<Entries(t, x)[i]>> \o
            (IF i + 1 <= Len(Children(t, x))
             THEN Ascend(t, LeftFrom(t, Children(t, x)[i + 1]), 1)
             ELSE IF i + 1 <= Len(Entries(t, x)) THEN Ascend(t, x, i + 1)
             ELSE Ascend(t, up[1], up[2]))

RECURSIVE UpLeft(_, _, _)
UpLeft(t, x, k) ==
    LET p == Parent(t, x)
        i == Search(t, p, k)
    IN IF p = Nil THEN <<Nil, 0>>
       ELSE IF i > 1 THEN <<p, i - 1>> ELSE UpLeft(t, p, k)

RECURSIVE Descend(_, _, _)
Descend(t, x, i) ==
    LET up == UpLeft(t, x, Entries(t, x)[i][1])
        leaf == RightFrom(t, Children(t, x)[i])
    IN IF x = Nil THEN <<>>
       ELSE <<Entries(t, x)[i]>> \o
            (IF i <= Len(Children(t, x))
             THEN Descend(t, leaf, Len(Entries(t, leaf)))
             ELSE IF i > 1 THEN Descend(t, x, i - 1)
             ELSE Descend(t, up[1], up[2]))

ForEachAsc(t) == IF t.size = 0 THEN <<>>
                 ELSE Ascend(t, LeftFrom(t, t.root), 1)
ForEachDesc(t) ==
    LET x == RightFrom(t, t.root)
    IN IF t.size = 0 THEN <<>> ELSE Descend(t, x, Len(Entries(t, x)))

Keys(t) == KeysOf(ForEachAsc(t))
Values(t) == ValuesOf(ForEachAsc(t))
Map(t) == MapOf(ForEachAsc(t))
MarshalJSON(t) == ForEachAsc(t)         \* pairs in order, as a JSON object
Clone(t) == Puts(NewBTree(t.m), ForEachAsc(t))

(* With `match' from the key only; without it also from the place in the   *)
(* leaf where the key would be, if there is an entry at that place.        *)
IteratorFrom(t, k, match, Walk(_, _, _)) ==
    LET at == SearchRecursively(t, k)
    IN IF at.found \/ (/\ ~match /\ at.node # Nil
                       /\ at.index <= Len(Entries(t, at.node)))
       THEN Walk(t, at.node, at.index) ELSE <<>>
IteratorAscFrom(t, k, match) == IteratorFrom(t, k, match, Ascend)
IteratorDescFrom(t, k, match) == IteratorFrom(t, k, match, Descend)

Left(t) == Entries(t, LeftFrom(t, t.root))[1]
Right(t) == LastOf(Entries(t, RightFrom(t, t.root)))
RECURSIVE HeightOf(_, _)
HeightOf(t, x) == IF x = Nil THEN 0
                  ELSE IF IsLeaf(t, x) THEN 1
                  ELSE 1 + HeightOf(t, Children(t, x)[1])
-----------------------------------------------------------------------------
(* As in TreeNodes: nodes numbered by their place, garbage dropped.        *)
RECURSIVE Below(_, _)
Below(t, x) ==
    LET c == Children(t, x)
        Deeper(seen, y) == seen \o Below(t, y)
    IN IF x = Nil THEN <<>> ELSE Seqs!FoldLeft(Deeper, <<x>>, c)

Renumbered(t) ==
    LET order == Below(t, t.root)
        Place(x) == IF x = Nil THEN Nil
                    ELSE IF \E i \in DOMAIN order : order[i] = x
                         THEN CHOOSE i \in DOMAIN order : order[i] = x
                         ELSE -1
    IN [t EXCEPT !.root = Place(t.root),
                 !.node = [i \in DOMAIN order |->
                     LET n == t.node[order[i]]
                     IN Node(Place(n.parent), n.entries,
                             [j \in DOMAIN n.children |-> Place(n.children[j])])]]

(* The pairs from left to right, by the children. *)
RECURSIVE PairsBelow(_, _)
PairsBelow(t, x) ==
    LET Step(pairs, i) == pairs \o <<Entries(t, x)[i]>>
                          \o PairsBelow(t, Children(t, x)[i + 1])
    IN IF x = Nil THEN <<>>
       ELSE IF IsLeaf(t, x) THEN Entries(t, x)
       ELSE Seqs!FoldLeftDomain(Step, PairsBelow(t, Children(t, x)[1]),
                                Entries(t, x))
PairsOf(t) == PairsBelow(t, t.root)

(* The shape: every node between half full and full, all leaves equally    *)
(* deep, one child more than entries, parents right, keys in order.        *)
RECURSIVE LeafDepths(_, _)
LeafDepths(t, x) ==
    IF IsLeaf(t, x) THEN {1}
    ELSE {1 + d : d \in UNION {LeafDepths(t, Children(t, x)[i]) :
                                   i \in DOMAIN Children(t, x)}}

Shape(t) ==
    /\ \A x \in DOMAIN t.node :
          /\ Len(Entries(t, x)) <= MaxEntries(t)
          /\ Len(Entries(t, x)) >= IF x = t.root THEN 1 ELSE MinEntries(t)
          /\ IsLeaf(t, x) \/ Len(Children(t, x)) = Len(Entries(t, x)) + 1
          /\ \A i \in DOMAIN Children(t, x) : Parent(t, Children(t, x)[i]) = x
    /\ t.root # Nil => /\ Parent(t, t.root) = Nil
                       /\ \A d, e \in LeafDepths(t, t.root) : d = e
    /\ LET pairs == PairsOf(t)
       IN /\ t.size = Len(pairs)
          /\ \A i \in 1..Len(pairs) - 1 : pairs[i][1] < pairs[i + 1][1]
=============================================================================
