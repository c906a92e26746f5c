------------------------------ MODULE LinkedList ------------------------------
(***************************************************************************)
(* g.LinkedList, call by call (QueueOnList has two calls at once).  l.next *)
(* and l.prev are the pointers of the root, 0, and of the elements; an     *)
(* element is in l.owned while its field list is l.  A list is a value l,  *)
(* an operation an operator that returns the changed list.                 *)
(***************************************************************************)
EXTENDS Integers, Sequences, TLC

Seqs == INSTANCE SequencesExt

Root == 0
Nil == -1

NewLinkedList == [next |-> (Root :> Root), prev |-> (Root :> Root),
                  owned |-> {}, value |-> <<>>, len |-> 0]

(* insert, remove and move: the pointers are written one after the other.  *)
Insert(l, v, at) ==
    LET e == Len(l.value) + 1
        after == l.next[at]
    IN [l EXCEPT !.next = (e :> after) @@ (at :> e) @@ @,
                 !.prev = (after :> e) @@ (e :> at) @@ @,
                 !.owned = @ \cup {e}, !.value = Append(@, v), !.len = @ + 1]

Unlink(l, e) == [l EXCEPT !.next[l.prev[e]] = l.next[e],
                          !.prev[l.next[e]] = l.prev[e]]

RemoveElement(l, e) ==
    [Unlink(l, e) EXCEPT !.next[e] = Nil, !.prev[e] = Nil,
                         !.owned = @ \ {e}, !.len = @ - 1]

Move(l, e, at) ==
    LET l1 == Unlink(l, e)
        after == l1.next[at]
        l2 == [l1 EXCEPT !.prev[e] = at, !.next[e] = after]
    IN IF e = at THEN l
       ELSE [l2 EXCEPT !.next[at] = e, !.prev[after] = e]

(* Element.Next and Element.Prev; side is "next" or "prev". *)
Beside(l, e, side) == IF e \in l.owned /\ l[side][e] # Root THEN l[side][e]
                      ELSE Nil

(* The walk of every loop: n elements from e on. *)
RECURSIVE Walk(_, _, _, _)
Walk(l, e, side, n) ==
    IF n = 0 \/ e = Nil THEN <<>>
    ELSE <<e>> \o Walk(l, Beside(l, e, side), side, n - 1)
Front(l) == IF l.len = 0 THEN Nil ELSE l.next[Root]
Back(l) == IF l.len = 0 THEN Nil ELSE l.prev[Root]
Forward(l) == Walk(l, l.next[Root], "next", l.len)
Backward(l) == Walk(l, l.prev[Root], "prev", l.len)
ValuesAt(l, es) == [i \in DOMAIN es |-> l.value[es[i]]]
FrontAll(l) == ValuesAt(l, Forward(l))
BackAll(l) == ValuesAt(l, Backward(l))

Search(l, v) == LET es == SelectSeq(Forward(l), LAMBDA e : l.value[e] = v)
                IN IF es = <<>> THEN Nil ELSE es[1]
Contains(l, v) == Search(l, v) # Nil
(* The loop leaves after the first element that is one of the values.      *)
ContainsAll(l, vs) ==
    LET es == SelectSeq(Forward(l), LAMBDA e : l.value[e] \in vs)
        found == IF es = <<>> THEN {} ELSE {l.value[es[1]]}
    IN vs \subseteq found

(* The callback answers whether to go on: the values up to the first that  *)
(* it stops at.                                                            *)
UpTo(vs, Stops(_)) ==
    LET i == Seqs!SelectInSeq(vs, Stops)
    IN IF i = 0 THEN vs ELSE SubSeq(vs, 1, i)
ForEachAsc(l, Stops(_)) == UpTo(FrontAll(l), Stops)
ForEachDesc(l, Stops(_)) == UpTo(BackAll(l), Stops)

(* The root has the zero value. *)
FrontValue(l) == IF l.next[Root] = Root THEN 0 ELSE l.value[l.next[Root]]
BackValue(l) == IF l.prev[Root] = Root THEN 0 ELSE l.value[l.prev[Root]]
Sum(l) == Seqs!FoldLeft(LAMBDA n, v : n + v, 0, FrontAll(l))
(* With a glue between two values: <<v, glue, w, ...>>. *)
Join(l, glue) ==
    LET vs == FrontAll(l)
    IN [i \in 1..2 * Len(vs) - 1 |->
           IF i % 2 = 1 THEN vs[(i + 1) \div 2] ELSE glue]
MarshalJSON(l) == FrontAll(l)
Equals(l, m) == l.len = m.len /\ FrontAll(l) = FrontAll(m)
-----------------------------------------------------------------------------
(* The operations. *)
(* Clear empties the ring; the elements keep their list and their pointers. *)
Clear(l) == [l EXCEPT !.next[Root] = Root, !.prev[Root] = Root, !.len = 0]
PushBack(l, v) == Insert(l, v, l.prev[Root])
PushFront(l, v) == Insert(l, v, Root)
PushBacks(l, vs) == Seqs!FoldLeft(PushBack, l, vs)
PushFronts(l, vs) == Seqs!FoldLeft(PushFront, l, vs)
NewLinkedListFrom(vs) == PushBacks(NewLinkedList, vs)
Clone(l) == NewLinkedListFrom(FrontAll(l))
DeepCopy(l) == NewLinkedListFrom(FrontAll(l))
(* What was in the list stays. *)
UnmarshalJSON(l, vs) == Seqs!FoldLeft(PushBack, l, vs)

(* The end's element, when it is the list's own. *)
PopAt(l, e) == IF e \in l.owned THEN RemoveElement(l, e) ELSE l
PopBack(l) == PopAt(l, l.prev[Root])
PopFront(l) == PopAt(l, l.next[Root])
Times(l, max) == IF max > 0 /\ max < l.len THEN max ELSE l.len
PopBacks(l, max) == Seqs!FoldLeft(LAMBDA m, i : PopBack(m), l,
                             [i \in 1..Times(l, max) |-> i])
PopFronts(l, max) == Seqs!FoldLeft(LAMBDA m, i : PopFront(m), l,
                              [i \in 1..Times(l, max) |-> i])
PopBackAll(l) == PopBacks(l, -1)
PopFrontAll(l) == PopFronts(l, -1)

(* Remove, RemoveAll: of each value the first element that has it. *)
RemoveValues(l, vs) ==
    Seqs!FoldLeft(LAMBDA m, v : IF Contains(m, v) THEN RemoveElement(m, Search(m, v))
                           ELSE m, l, vs)

(* With elements the caller holds, which may be of no list any more. *)
InsertBefore(l, mark, v) ==
    IF mark \in l.owned THEN Insert(l, v, l.prev[mark]) ELSE l
InsertAfter(l, mark, v) == IF mark \in l.owned THEN Insert(l, v, mark) ELSE l
MoveToFront(l, e) ==
    IF e \in l.owned /\ l.next[Root] # e THEN Move(l, e, Root) ELSE l
MoveToBack(l, e) ==
    IF e \in l.owned /\ l.prev[Root] # e THEN Move(l, e, l.prev[Root]) ELSE l
Both(l, e, mark) == e \in l.owned /\ mark \in l.owned /\ e # mark
MoveBefore(l, e, mark) ==
    IF Both(l, e, mark) THEN Move(l, e, l.prev[mark]) ELSE l
MoveAfter(l, e, mark) == IF Both(l, e, mark) THEN Move(l, e, mark) ELSE l

(* A list pushed on itself grows while it is walked: the walk takes the    *)
(* elements that were there, by their count.                               *)
RECURSIVE PushSelf(_, _, _, _)
PushSelf(l, e, side, n) ==
    LET l1 == Insert(l, l.value[e], IF side = "next" THEN l.prev[Root] ELSE Root)
    IN IF n = 0 THEN l ELSE PushSelf(l1, Beside(l1, e, side), side, n - 1)
PushBackSelf(l) == PushSelf(l, l.next[Root], "next", l.len)
PushFrontSelf(l) == PushSelf(l, l.prev[Root], "prev", l.len)
PushBackList(l, other) == PushBacks(l, FrontAll(other))
PushFrontList(l, other) == PushFronts(l, BackAll(other))
-----------------------------------------------------------------------------
(* Addresses are of no consequence once a call is over: elements are       *)
(* numbered by their place, and removed ones are dropped (a caller that    *)
(* uses them still takes lists as they are).                               *)
Renumbered(l) ==
    LET es == Forward(l)
        Place(e) == IF e = Root THEN Root
                    ELSE IF \E i \in DOMAIN es : es[i] = e
                         THEN CHOOSE i \in DOMAIN es : es[i] = e ELSE Nil
        New(f) == [i \in {Root} \cup DOMAIN es |->
                      Place(f[IF i = Root THEN Root ELSE es[i]])]
    IN [next |-> New(l.next), prev |-> New(l.prev),
        owned |-> {i \in DOMAIN es : es[i] \in l.owned},
        value |-> ValuesAt(l, es), len |-> l.len]

(* The ring: as many elements as len says, next and prev inverse. *)
Intact(l) ==
    /\ l.len = Len(Forward(l)) /\ l.owned = 1..l.len
    /\ \A e \in {Root} \cup l.owned :
          /\ l.next[e] \in {Root} \cup l.owned /\ l.prev[l.next[e]] = e
          /\ l.prev[e] \in {Root} \cup l.owned /\ l.next[l.prev[e]] = e
=============================================================================
