------------------------------- MODULE TornList -------------------------------
(***************************************************************************)
(* A safe g.LinkedList, as its users see it when pushes overlap.           *)
(* PushBack and PushFront hold the list's lock for reading only, so that   *)
(* several can be in the middle of their pointer assignments at the same   *)
(* time; PopFront and Clear have the lock for themselves.  A push is then  *)
(* two steps, its beginning and its end.  Once two have overlapped, the    *)
(* list is torn: elements may be unlinked, the pushed one may stand        *)
(* anywhere between the others, and a later push may link its element to   *)
(* one that is unlinked.  (QueueOnList has every pointer assignment of     *)
(* it.)  None is linked twice, some are linked, those linked before keep   *)
(* their order, and what is unlinked when no push is under way does not    *)
(* come back; popping the last that is linked makes the list whole again.  *)
(***************************************************************************)
EXTENDS Naturals, Sequences

(* The increasing ways to pick n of a sequence's places, and what they     *)
(* leave of it.                                                            *)
Picks(n, items) == {p \in [1..n -> DOMAIN items] :
                       \A i, j \in 1..n : i < j => p[i] < p[j]}
Parts(items) == UNION {{[i \in 1..n |-> items[p[i]]] : p \in Picks(n, items)} :
                       n \in 0..Len(items)}

(* The ways to put an element into a sequence. *)
Inserted(items, e) ==
    {[i \in 1..Len(items) + 1 |-> IF i < at THEN items[i]
                                  ELSE IF i = at THEN e ELSE items[i - 1]] :
     at \in 1..Len(items) + 1}

(* What a push of e may leave of the elements that were linked and of e. *)
Survivors(items, e) ==
    UNION {{part} \cup Inserted(part, e) : part \in Parts(items)} \ {<<>>}

(* The list after a push of e; pushed is what it is if nothing is torn. *)
Linked(items, e, pushed, torn) ==
    IF torn THEN Survivors(items, e) ELSE {pushed}
===============================================================================
