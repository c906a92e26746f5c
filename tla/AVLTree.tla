------------------------------- MODULE AVLTree -------------------------------
(***************************************************************************)
(* g.AVLTree.  children[0] and children[1] are the fields left and right;  *)
(* b is the balance the node believes in.  The code's **AVLTreeNode, the   *)
(* place a subtree hangs on, is the q of the result: the caller stores it. *)
(***************************************************************************)
EXTENDS TreeNodes

(* panicked: a nil pointer was dereferenced; no operation comes after it. *)
NewAVLTree == [root |-> Nil, size |-> 0, node |-> <<>>, panicked |-> FALSE]

Side(c) == IF c < 0 THEN "left" ELSE "right"
SetB(t, x, b) == [t EXCEPT !.node[x].b = b]
Done(t, q, fix) == [t |-> t, q |-> q, fix |-> fix]
Panic(t, q) == Done([t EXCEPT !.panicked = TRUE], q, FALSE)

(* rotate: the child r on side c comes up over s. *)
RotateTree(t, c, s) ==
    LET r == Of(t, s, Side(c))
        inner == Of(t, r, Side(-c))
        t1 == Link(t, s, Side(c), inner)
        t2 == IF inner = Nil THEN t1 ELSE Link(t1, inner, "parent", s)
        t3 == Link(Link(t2, r, Side(-c), s), r, "parent", Of(t, s, "parent"))
    IN Link(t3, s, "parent", r)

SingleRotate_KeepsB(t, c, s) ==
    LET r == Of(t, s, Side(c))
    IN Done(RotateTree(SetB(t, s, 0), c, s), r, FALSE)
SingleRotate(t, c, s) ==
    LET r == Of(t, s, Side(c))
    IN Done(SetB(RotateTree(SetB(t, s, 0), c, s), r, 0), r, FALSE)

DoubleRotate(t, c, s) ==
    LET r == Of(t, s, Side(c))
        p == Of(t, r, Side(-c))
        t1 == RotateTree(Link(RotateTree(t, -c, r), s, Side(c), p), c, s)
        b == t.node[p].b
        t2 == SetB(SetB(t1, s, IF b = c THEN -c ELSE 0),
                   r, IF b = -c THEN c ELSE 0)
    IN IF p = Nil THEN Panic(t, s) ELSE Done(SetB(t2, p, 0), p, FALSE)

(* After a subtree on side c has grown: the new top, and whether it too    *)
(* has grown.                                                              *)
PutFix(t, c, s) ==
    IF t.node[s].b = 0 THEN Done(SetB(t, s, c), s, TRUE)
    ELSE IF t.node[s].b = -c THEN Done(SetB(t, s, 0), s, FALSE)
    ELSE IF t.node[Of(t, s, Side(c))].b = c THEN SingleRotate(t, c, s)
    ELSE DoubleRotate(t, c, s)

(* After a subtree on the side away from c has shrunk. *)
RemoveFix(t, c, s) ==
    LET r == Of(t, s, Side(c))
        single == SingleRotate(t, c, s)
        double == DoubleRotate(t, c, s)
    IN IF t.panicked THEN Panic(t, s)
       ELSE IF t.node[s].b = 0 THEN Done(SetB(t, s, c), s, FALSE)
       ELSE IF t.node[s].b = -c THEN Done(SetB(t, s, 0), s, TRUE)
       ELSE IF r = Nil THEN Panic(t, s)
       ELSE IF t.node[r].b = 0
       THEN Done(SetB(RotateTree(t, c, s), r, -c), r, FALSE)
       ELSE IF t.node[r].b = c THEN [single EXCEPT !.fix = TRUE]
       ELSE [double EXCEPT !.fix = TRUE]

Sign(k, other) == IF k < other THEN -1 ELSE IF k > other THEN 1 ELSE 0

RECURSIVE PutAt(_, _, _, _, _)
PutAt(t, k, v, p, q) ==
    LET c == Sign(k, t.node[q].key)
        below == PutAt(t, k, v, q, Of(t, q, Side(c)))
        t1 == Link(below.t, q, Side(c), below.q)
    IN IF q = Nil
       THEN Done([t EXCEPT !.size = @ + 1,
                     !.node = Append(@, [key |-> k, value |-> v, b |-> 0,
                                         left |-> Nil, right |-> Nil,
                                         parent |-> p])],
                 Len(t.node) + 1, TRUE)
       ELSE IF c = 0 THEN Done([t EXCEPT !.node[q].value = v], q, FALSE)
       ELSE IF below.fix THEN PutFix(t1, c, q)
       ELSE Done(t1, q, FALSE)

RECURSIVE Bottom(_, _, _)
Bottom(t, n, side) == IF Of(t, n, side) = Nil THEN n
                      ELSE Bottom(t, Of(t, n, side), side)

RECURSIVE RemoveMin(_, _)
RemoveMin(t, q) ==
    LET right == Of(t, q, "right")
        below == RemoveMin(t, Of(t, q, "left"))
        t1 == Link(below.t, q, "left", below.q)
    IN IF Of(t, q, "left") = Nil
       THEN Done(IF right = Nil THEN t
                 ELSE Link(t, right, "parent", Of(t, q, "parent")), right, TRUE)
       ELSE IF below.fix THEN RemoveFix(t1, 1, q) ELSE Done(t1, q, FALSE)

(* remove tells its caller that the key was there with the flag that asks  *)
(* for rebalancing: what removeFix itself answers is not handed on.        *)
HandedOn(fixed) == [fixed EXCEPT !.fix = TRUE]

RECURSIVE RemoveAt(_, _, _)
RemoveAt(t, k, q) ==
    LET c == Sign(k, t.node[q].key)
        left == Of(t, q, "left")
        right == Of(t, q, "right")
        smaller == [t EXCEPT !.size = @ - 1]
        min == Bottom(t, right, "left")
        least == RemoveMin(smaller, right)
        t1 == Link([least.t EXCEPT !.node[q].key = t.node[min].key,
                                   !.node[q].value = t.node[min].value],
                   q, "right", least.q)
        below == RemoveAt(t, k, Of(t, q, Side(c)))
        t2 == Link(below.t, q, Side(c), below.q)
    IN IF q = Nil THEN Done(t, q, FALSE)
       ELSE IF c # 0
       THEN IF below.fix THEN HandedOn(RemoveFix(t2, -c, q))
            ELSE Done(t2, q, FALSE)
       ELSE IF right = Nil
       THEN Done(IF left = Nil THEN smaller
                 ELSE Link(smaller, left, "parent", Of(t, q, "parent")),
                 left, TRUE)
       ELSE IF least.fix THEN HandedOn(RemoveFix(t1, -1, q))
       ELSE Done(t1, q, TRUE)
-----------------------------------------------------------------------------
(* The operations, each under the tree's lock. *)
Rooted(done) == [done.t EXCEPT !.root = done.q]
Put(t, k, v) == Rooted(PutAt(t, k, v, Nil, t.root))
Remove(t, k) == Rooted(RemoveAt(t, k, t.root))

RECURSIVE Puts(_, _)
Puts(t, pairs) == IF pairs = <<>> \/ t.panicked THEN t
                  ELSE Puts(Put(t, pairs[1][1], pairs[1][2]), Tail(pairs))
RECURSIVE Removes(_, _)
Removes(t, ks) == IF ks = <<>> \/ t.panicked THEN t
                  ELSE Removes(Remove(t, Head(ks)), Tail(ks))
Clear(t) == [t EXCEPT !.root = Nil, !.size = 0]
Replace(t, pairs) == Puts(Clear(t), pairs)

RECURSIVE NodeBelow(_, _, _)
NodeBelow(t, n, k) ==
    IF n = Nil \/ t.node[n].key = k THEN n
    ELSE NodeBelow(t, Of(t, n, Side(Sign(k, t.node[n].key))), k)
DoSearch(t, k) == NodeBelow(t, t.root, k)
ContainsKey(t, k) == DoSearch(t, k) # Nil
Search(t, k) == LET n == DoSearch(t, k)
                IN IF n = Nil THEN <<>> ELSE <<t.node[n].value>>
NewAVLTreeFrom(pairs) == Puts(NewAVLTree, pairs)
PutIfAbsent(t, k, v) == IF ContainsKey(t, k) THEN t ELSE Put(t, k, v)

(* Floor and Ceiling: the last node on the way at which the walk turned.   *)
RECURSIVE Nearest(_, _, _, _, _)
Nearest(t, n, k, side, found) ==
    LET c == Sign(k, t.node[n].key)
    IN IF n = Nil THEN found
       ELSE IF c = 0 THEN n
       ELSE Nearest(t, Of(t, n, Side(c)), k, side,
                    IF Side(c) = side THEN found ELSE n)
Floor(t, k) == Nearest(t, t.root, k, "left", Nil)
Ceiling(t, k) == Nearest(t, t.root, k, "right", Nil)

(* walk1: Next on the right, Prev on the left. *)
RECURSIVE UpFrom(_, _, _)
UpFrom(t, n, side) ==
    LET p == Of(t, n, "parent")
    IN IF p # Nil /\ Of(t, p, side) = n THEN UpFrom(t, p, side) ELSE p
Walk1(t, n, side) == IF Of(t, n, side) # Nil
                     THEN Bottom(t, Of(t, n, side), Other(side))
                     ELSE UpFrom(t, n, side)

RECURSIVE Iterate(_, _, _)
Iterate(t, n, side) ==
    IF n = Nil THEN <<>>
    ELSE << <<t.node[n].key, t.node[n].value>> >>
         \o Iterate(t, Walk1(t, n, side), side)
ForEachAsc(t) == Iterate(t, Bottom(t, t.root, "left"), "right")
ForEachDesc(t) == Iterate(t, Bottom(t, t.root, "right"), "left")

Keys(t) == KeysOf(ForEachAsc(t))
Values(t) == ValuesOf(ForEachAsc(t))
Map(t) == MapOf(ForEachAsc(t))
MarshalJSON(t) == ForEachAsc(t)         \* pairs in order, as a JSON object
Clone(t) == Puts(NewAVLTree, ForEachAsc(t))
Left(t) == t.node[Bottom(t, t.root, "left")].key
Right(t) == t.node[Bottom(t, t.root, "right")].key

(* With or without `match', from a key in the tree only. *)
IteratorAscFrom(t, k) == Iterate(t, DoSearch(t, k), "right")
IteratorDescFrom(t, k) == Iterate(t, DoSearch(t, k), "left")
-----------------------------------------------------------------------------
(* The shape: a search tree whose subtrees' heights differ by at most one, *)
(* as b says.                                                              *)
RECURSIVE Height(_, _)
Height(t, x) ==
    LET l == Height(t, t.node[x].left)
        r == Height(t, t.node[x].right)
    IN IF x = Nil THEN 0 ELSE 1 + (IF l > r THEN l ELSE r)

Ordered(t) ==
    /\ ParentsRight(t) /\ t.size = Len(t.node)
    /\ \A i \in 1..Len(t.node) - 1 : t.node[i].key < t.node[i + 1].key

Balanced(t) ==
    \A x \in DOMAIN t.node :
       LET d == Height(t, t.node[x].right) - Height(t, t.node[x].left)
       IN d \in {-1, 0, 1} /\ t.node[x].b = d
=============================================================================
