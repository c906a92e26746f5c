------------------------------- MODULE TreeMap -------------------------------
(***************************************************************************)
(* g.TreeMap: a red-black tree.  Each public operation holds the tree's    *)
(* lock; the operators below are what it does.  t.order is the comparator: *)
(* 1 for ascending, -1 for descending keys.                                *)
(***************************************************************************)
EXTENDS TreeNodes

NewTreeMap(order) == [root |-> Nil, size |-> 0, order |-> order, node |-> <<>>]

Compare(t, a, b) == t.order * (a - b)

ColorOf(t, x) == IF x = Nil THEN "black" ELSE t.node[x].color
SetColor(t, x, c) == IF x = Nil THEN t ELSE [t EXCEPT !.node[x].color = c]
ParentOf(t, x) == Of(t, x, "parent")

-----------------------------------------------------------------------------
(* Looking: from p down; with the last node on the way for an absent key.  *)
RECURSIVE EntryBelow(_, _, _)
EntryBelow(t, p, k) ==
    IF p = Nil THEN Nil
    ELSE LET cmp == Compare(t, k, t.node[p].key)
         IN IF cmp = 0 THEN p
            ELSE EntryBelow(t, Of(t, p, IF cmp < 0 THEN "left" ELSE "right"), k)
GetEntry(t, k) == EntryBelow(t, t.root, k)
ContainsKey(t, k) == GetEntry(t, k) # Nil
Search(t, k) == LET e == GetEntry(t, k)
                IN IF e = Nil THEN <<>> ELSE <<t.node[e].value>>

RECURSIVE LeafFor(_, _, _)
LeafFor(t, p, k) ==
    LET child == Of(t, p, IF Compare(t, k, t.node[p].key) < 0
                          THEN "left" ELSE "right")
    IN IF child = Nil THEN p ELSE LeafFor(t, child, k)

(* The last node in a direction; leftNode, rightNode. *)
RECURSIVE Last(_, _, _)
Last(t, x, side) == IF Of(t, x, side) = Nil THEN x
                    ELSE Last(t, Of(t, x, side), side)
LeftNode(t) == Last(t, t.root, "left")
RightNode(t) == Last(t, t.root, "right")

(* The first ancestor that is not reached from its child on that side. *)
RECURSIVE UpFrom(_, _, _)
UpFrom(t, x, side) ==
    LET p == ParentOf(t, x)
    IN IF p # Nil /\ x = Of(t, p, side) THEN UpFrom(t, p, side) ELSE p

Successor(t, x) == IF x = Nil THEN Nil
                   ELSE IF Of(t, x, "right") # Nil
                   THEN Last(t, Of(t, x, "right"), "left")
                   ELSE UpFrom(t, x, "right")
Predecessor(t, x) == IF x = Nil THEN Nil
                     ELSE IF Of(t, x, "left") # Nil
                     THEN Last(t, Of(t, x, "left"), "right")
                     ELSE UpFrom(t, x, "left")

(* The nearest entry on one side of k: left of it or right of it, k itself *)
(* counted or not.                                                         *)
RECURSIVE Nearest(_, _, _, _, _)
Nearest(t, p, k, side, inclusive) ==
    LET cmp == Compare(t, k, t.node[p].key)
        beyond == IF side = "left" THEN cmp > 0 ELSE cmp < 0
        child == Of(t, p, IF beyond THEN Other(side) ELSE side)
    IN IF p = Nil \/ (inclusive /\ cmp = 0) THEN p
       ELSE IF child # Nil THEN Nearest(t, child, k, side, inclusive)
       ELSE IF beyond THEN p ELSE UpFrom(t, p, side)

FloorEntry(t, k) == Nearest(t, t.root, k, "left", TRUE)
LowerEntry_Inclusive(t, k) == Nearest(t, t.root, k, "left", TRUE)
LowerEntry(t, k) == Nearest(t, t.root, k, "left", FALSE)
CeilingEntry(t, k) == Nearest(t, t.root, k, "right", TRUE)
HigherEntry(t, k) == Nearest(t, t.root, k, "right", FALSE)

(* doIteratorAsc (side "right"), doIteratorDesc ("left"): the nodes from x *)
(* on.  It climbs by comparing keys, not addresses.                        *)
RECURSIVE Climb(_, _, _, _)
Climb(t, k, x, side) ==
    LET p == ParentOf(t, x)
        cmp == Compare(t, k, t.node[p].key)
    IN IF p = Nil THEN Nil
       ELSE IF (IF side = "right" THEN cmp <= 0 ELSE cmp >= 0) THEN p
       ELSE Climb(t, k, p, side)

Onward(t, x, side) == IF Of(t, x, side) # Nil
                      THEN Last(t, Of(t, x, side), Other(side))
                      ELSE Climb(t, t.node[x].key, x, side)
RECURSIVE Iterate(_, _, _)
Iterate(t, x, side) ==
    IF x = Nil THEN <<>> ELSE <<x>> \o Iterate(t, Onward(t, x, side), side)

Pairs(t, xs) == [i \in DOMAIN xs |-> <<t.node[xs[i]].key, t.node[xs[i]].value>>]
ForEachAsc(t) == Pairs(t, Iterate(t, LeftNode(t), "right"))
ForEachDesc(t) == Pairs(t, Iterate(t, RightNode(t), "left"))
Keys(t) == KeysOf(ForEachAsc(t))
Values(t) == ValuesOf(ForEachAsc(t))
Map(t) == MapOf(ForEachAsc(t))
MarshalJSON(t) == ForEachAsc(t)         \* pairs in order, as a JSON object
(* leftNode and rightNode of an empty tree are nil pointers, and the entry *)
(* that is returned has one inside: it is not nil, as no entry would be.   *)
NilInside == <<Nil>>
FirstEntry(t) == IF t.root = Nil THEN NilInside ELSE Pairs(t, <<LeftNode(t)>>)
LastEntry(t) == IF t.root = Nil THEN NilInside ELSE Pairs(t, <<RightNode(t)>>)
IteratorAscFrom(t, k, inclusive) ==
    Pairs(t, Iterate(t, IF inclusive THEN CeilingEntry(t, k)
                        ELSE HigherEntry(t, k), "right"))
IteratorDescFrom(t, k, inclusive) ==
    Pairs(t, Iterate(t, IF inclusive THEN FloorEntry(t, k)
                        ELSE LowerEntry(t, k), "left"))
-----------------------------------------------------------------------------
(* Putting.  Swap: p's place below its parent goes to r. *)
Swap(t, p, r) ==
    LET up == ParentOf(t, p)
    IN IF up = Nil THEN [t EXCEPT !.root = r]
       ELSE Link(t, up, IF Of(t, up, "left") = p THEN "left" ELSE "right", r)

(* rotateLeft, rotateRight: p goes down on that side. *)
Rotate(t, p, side) ==
    LET r == Of(t, p, Other(side))
        inner == Of(t, r, side)
        t1 == Link(t, p, Other(side), inner)
        t2 == IF inner = Nil THEN t1 ELSE Link(t1, inner, "parent", p)
        t3 == Swap(Link(t2, r, "parent", ParentOf(t, p)), p, r)
    IN IF p = Nil THEN t ELSE Link(Link(t3, r, side, p), p, "parent", r)

(* x is red below a red parent that is on that side of its own, and its    *)
(* uncle is black: the grandparent goes down on the other side.            *)
Straightened(t, x, side) ==
    IF x = Of(t, ParentOf(t, x), side) THEN t
    ELSE Rotate(t, ParentOf(t, x), side)
Raised(t, p, side) ==
    LET g == ParentOf(t, p)
    IN Rotate(SetColor(SetColor(t, p, "black"), g, "red"), g, Other(side))

RECURSIVE FixAfterInsertion(_, _)
FixAfterInsertion(t, x) ==
    LET p == ParentOf(t, x)
        g == ParentOf(t, p)
        side == IF p = Of(t, g, "left") THEN "left" ELSE "right"
        y == Of(t, g, Other(side))
        top == IF x = Of(t, p, side) THEN p ELSE x
        low == IF x = Of(t, p, side) THEN x ELSE p
    IN IF x = Nil \/ x = t.root \/ ColorOf(t, p) # "red"
       THEN SetColor(t, t.root, "black")
       ELSE IF ColorOf(t, y) = "red"
       THEN FixAfterInsertion(SetColor(SetColor(SetColor(t,
                p, "black"), y, "black"), g, "red"), g)
       ELSE FixAfterInsertion(Raised(Straightened(t, x, side), top, side), low)

Insert(t, k, v) ==
    LET p == IF t.root = Nil THEN Nil ELSE LeafFor(t, t.root, k)
        e == Len(t.node) + 1
        t1 == [t EXCEPT !.size = @ + 1,
                  !.node = Append(@, [key |-> k, value |-> v, color |-> "red",
                                      left |-> Nil, right |-> Nil,
                                      parent |-> p])]
    IN IF p = Nil THEN SetColor([t1 EXCEPT !.root = e], e, "black")
       ELSE FixAfterInsertion(Link(t1, p, IF Compare(t, k, t.node[p].key) < 0
                                          THEN "left" ELSE "right", e), e)

InsertEntry(t, k, v) ==
    IF ContainsKey(t, k) THEN [t EXCEPT !.node[GetEntry(t, k)].value = v]
    ELSE Insert(t, k, v)

PutIfAbsent(t, k, v) == IF ContainsKey(t, k) THEN t ELSE InsertEntry(t, k, v)

(* Puts, Replace: the pairs in any order (Go's order of a map's keys). *)
RECURSIVE Puts(_, _)
Puts(t, pairs) == IF pairs = <<>> THEN t
                  ELSE Puts(InsertEntry(t, pairs[1][1], pairs[1][2]),
                            Tail(pairs))
NewTreeMapFrom(order, pairs) == Puts(NewTreeMap(order), pairs)
UnmarshalJSON(t, pairs) == Puts(t, pairs)
Clear(t) == NewTreeMap(t.order)
Replace(t, pairs) == Puts(Clear(t), pairs)
-----------------------------------------------------------------------------
(* Deleting.  *)
(* Below x's parent, on x's side, a black node is missing.  Sibling: x's;  *)
(* a red one goes up; of a black one at least the far child is made red;   *)
(* and then that one pays for the missing black.                           *)
Sibling(t, x, side) == Of(t, ParentOf(t, x), Other(side))
WithBlackSibling(t, x, side) ==
    LET p == ParentOf(t, x)
        sib == Sibling(t, x, side)
    IN IF ColorOf(t, sib) # "red" THEN t
       ELSE Rotate(SetColor(SetColor(t, sib, "black"), p, "red"), p, side)
WithRedNephew(t, sib, side) ==
    IF ColorOf(t, Of(t, sib, Other(side))) # "black" THEN t
    ELSE Rotate(SetColor(SetColor(t, Of(t, sib, side), "black"), sib, "red"),
                sib, Other(side))
Paid(t, x, side) ==
    LET p == ParentOf(t, x)
        sib == Sibling(t, x, side)
    IN Rotate(SetColor(SetColor(SetColor(t, sib, ColorOf(t, p)), p, "black"),
                       Of(t, sib, Other(side)), "black"), p, side)
RootBlack(t) == SetColor(t, t.root, "black")

RECURSIVE FixAfterDeletion(_, _)
FixBelow(t, x, side) ==     \* x has a black sibling
    LET sib == Sibling(t, x, side)
    IN IF \A s \in {"left", "right"} : ColorOf(t, Of(t, sib, s)) = "black"
       THEN FixAfterDeletion(SetColor(t, sib, "red"), ParentOf(t, x))
       ELSE RootBlack(Paid(WithRedNephew(t, sib, side), x, side))
FixAfterDeletion(t, x) ==
    LET side == IF x = Of(t, ParentOf(t, x), "left") THEN "left" ELSE "right"
    IN IF x = t.root \/ ColorOf(t, x) # "black" THEN SetColor(t, x, "black")
       ELSE FixBelow(WithBlackSibling(t, x, side), x, side)

(* p has at most one child, which takes its place; a leaf is taken off     *)
(* after the fix, which looks at its place.                                *)
ChildOf(t, p) == IF Of(t, p, "left") # Nil THEN Of(t, p, "left")
                 ELSE Of(t, p, "right")
Spliced(t, p) ==
    IF ChildOf(t, p) = Nil THEN t
    ELSE Swap(Link(t, ChildOf(t, p), "parent", ParentOf(t, p)), p, ChildOf(t, p))
FixAfter(color, t, x) == IF color = "black" THEN FixAfterDeletion(t, x) ELSE t
TakenOff(t, p) == Link(Swap(t, p, Nil), p, "parent", Nil)
TakenOffIf(leaf, t, p) ==
    IF leaf /\ ParentOf(t, p) # Nil THEN TakenOff(t, p) ELSE t

Unlinked_Unfixed(t, p) == IF ChildOf(t, p) = Nil THEN TakenOff(t, p) ELSE Spliced(t, p)
Unlinked(t, p) ==
    LET leaf == ChildOf(t, p) = Nil
    IN IF leaf /\ ParentOf(t, p) = Nil THEN [t EXCEPT !.root = Nil]
       ELSE TakenOffIf(leaf, FixAfter(ColorOf(t, p), Spliced(t, p),
                                      IF leaf THEN p ELSE ChildOf(t, p)), p)

(* A node with two children takes its successor's pair, and the successor  *)
(* is unlinked instead.                                                    *)
DeleteEntry(t, p) ==
    LET s == Successor(t, p)
        both == Of(t, p, "left") # Nil /\ Of(t, p, "right") # Nil
        smaller == [t EXCEPT !.size = @ - 1]
    IN Unlinked(IF both THEN [smaller EXCEPT !.node[p].key = t.node[s].key,
                                             !.node[p].value = t.node[s].value]
                ELSE smaller,
                IF both THEN s ELSE p)

Remove(t, k) == IF ContainsKey(t, k) THEN DeleteEntry(t, GetEntry(t, k)) ELSE t
RECURSIVE Removes(_, _)
Removes(t, ks) == IF ks = <<>> THEN t ELSE Removes(Remove(t, Head(ks)), Tail(ks))

PollFirstEntry(t) == IF LeftNode(t) = Nil THEN t ELSE DeleteEntry(t, LeftNode(t))
PollLastEntry(t) == IF RightNode(t) = Nil THEN t ELSE DeleteEntry(t, RightNode(t))
-----------------------------------------------------------------------------
(* Maps and sets made from this one. *)
HeadMap(t, k, inclusive) ==
    Puts(NewTreeMap(t.order), IteratorDescFrom(t, k, inclusive))
TailMap(t, k, inclusive) ==
    Puts(NewTreeMap(t.order), IteratorAscFrom(t, k, inclusive))

SubMap(t, from, fromInclusive, to, toInclusive) ==
    LET start == IF fromInclusive THEN CeilingEntry(t, from)
                 ELSE HigherEntry(t, from)
        end == IF toInclusive THEN FloorEntry(t, to) ELSE LowerEntry(t, to)
        InRange(pair) == Compare(t, pair[1], t.node[end].key) <= 0
        pairs == Pairs(t, Iterate(t, start, "right"))
        n == IF \A i \in DOMAIN pairs : InRange(pairs[i]) THEN Len(pairs)
             ELSE (CHOOSE i \in DOMAIN pairs :
                      /\ ~InRange(pairs[i])
                      /\ \A j \in 1..i - 1 : InRange(pairs[j])) - 1
    IN IF start = Nil \/ end = Nil THEN NewTreeMap(t.order)
       ELSE Puts(NewTreeMap(t.order), SubSeq(pairs, 1, n))

Clone(t) == Puts(NewTreeMap(t.order), ForEachAsc(t))
Reverse(t) == Puts(NewTreeMap(-t.order), ForEachAsc(t))
AscendingKeySet(t) == Puts(NewTreeMap(t.order), ForEachAsc(t))
DescendingKeySet(t) == Puts(NewTreeMap(-t.order), ForEachDesc(t))

(* SetComparator: the new comparator is set before the tree is read.  The  *)
(* iteration climbs by it: it can end early, or come back to a node and    *)
(* never end, with the lock held (a tree of order 0 stands for that).      *)
RECURSIVE Ends(_, _, _)
Ends(t, x, n) == x = Nil \/ (n > 0 /\ Ends(t, Onward(t, x, "right"), n - 1))
Hung == NewTreeMap(0)
SetComparator(t, order) ==
    LET t1 == [t EXCEPT !.order = order]
    IN IF t.size = 0 THEN t1
       ELSE IF Ends(t1, LeftNode(t1), t.size)
       THEN Puts(NewTreeMap(order), ForEachAsc(t1)) ELSE Hung
-----------------------------------------------------------------------------
(* The shape: a search tree, whose root is black, where a red node has no  *)
(* red child, and with as many black nodes on every path down.             *)
RECURSIVE BlackHeight(_, _)
BlackHeight(t, x) ==
    LET l == BlackHeight(t, t.node[x].left)
        r == BlackHeight(t, t.node[x].right)
    IN IF x = Nil THEN 0
       ELSE IF l = -1 \/ l # r THEN -1
       ELSE l + (IF ColorOf(t, x) = "black" THEN 1 ELSE 0)

RedBlack(t) ==
    /\ ParentsRight(t) /\ t.size = Len(t.node)
    /\ ColorOf(t, t.root) = "black"
    /\ \A x \in DOMAIN t.node : ColorOf(t, x) = "red" =>
          \A side \in {"left", "right"} : ColorOf(t, Of(t, x, side)) = "black"
    /\ BlackHeight(t, t.root) # -1
    /\ \A i \in 1..Len(t.node) - 1 :
          Compare(t, t.node[i].key, t.node[i + 1].key) < 0
=============================================================================
