------------------------------ MODULE TreeNodes ------------------------------
(***************************************************************************)
(* The heap of a binary search tree: t.node[x] is the node at address x,   *)
(* with its key, value, left, right and parent; t.root its root.  A tree   *)
(* is a value t, an operation of the tree an operator that returns the     *)
(* changed tree.                                                           *)
(***************************************************************************)
EXTENDS PairSeqs

Nil == 0

Other(side) == IF side = "left" THEN "right" ELSE "left"

(* Reading a field of a node that may be nil, and writing one. *)
Of(t, x, field) == IF x = Nil THEN Nil ELSE t.node[x][field]
Link(t, x, field, y) == [t EXCEPT !.node[x][field] = y]

(* Which address a node has is of no consequence once a call is over: the  *)
(* nodes are numbered by their place in the tree, and what the root does   *)
(* not reach is dropped.  A parent that was dropped becomes -1.            *)
RECURSIVE InOrder(_, _)
InOrder(t, x) ==
    IF x = Nil THEN <<>>
    ELSE InOrder(t, t.node[x].left) \o <<x>> \o InOrder(t, t.node[x].right)

Renumbered(t) ==
    LET order == InOrder(t, t.root)
        Place(x) == IF x = Nil THEN Nil
                    ELSE IF \E i \in DOMAIN order : order[i] = x
                         THEN CHOOSE i \in DOMAIN order : order[i] = x
                         ELSE -1
    IN [t EXCEPT !.root = Place(t.root),
                 !.node = [i \in DOMAIN order |->
                             [t.node[order[i]] EXCEPT
                                !.left = Place(@), !.right = Place(@),
                                !.parent = Place(@)]]]

(* The key-value pairs from left to right, by the child pointers. *)
PairsOf(t) == LET order == InOrder(t, t.root)
              IN [i \in DOMAIN order |-> <<t.node[order[i]].key,
                                           t.node[order[i]].value>>]

(* The parent pointers are the inverse of the child pointers. *)
ParentsRight(t) ==
    /\ Of(t, t.root, "parent") = Nil
    /\ \A x \in DOMAIN t.node, side \in {"left", "right"} :
          t.node[x][side] # Nil => t.node[t.node[x][side]].parent = x
=============================================================================
