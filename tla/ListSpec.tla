------------------------------- MODULE ListSpec -------------------------------
(***************************************************************************)
(* What the interface g.List and the list operations of g.LinkedList       *)
(* promise: a sequence, seq.  Positions count from 1; a position that is   *)
(* not in the sequence changes nothing.                                    *)
(***************************************************************************)
EXTENDS Integers, Sequences, SequencesExt

VARIABLE seq

Init == seq = <<>>

Becomes(s) == seq' = s
First(n) == SubSeq(seq, 1, n)
After(n) == SubSeq(seq, n + 1, Len(seq))
Without(i) == First(i - 1) \o After(i)
AtMost(n) == IF n < Len(seq) THEN n ELSE Len(seq)
If(condition, s) == Becomes(IF condition THEN s ELSE seq)

AddLast(vs) == Becomes(seq \o vs)
AddFirst(vs) == Becomes(vs \o seq)
AddBefore(i, vs) == If(i \in DOMAIN seq, First(i - 1) \o vs \o After(i - 1))
AddAfter(i, vs) == If(i \in DOMAIN seq, First(i) \o vs \o After(i))
Overwrite(i, v) == If(i \in DOMAIN seq, [seq EXCEPT ![i] = v])
RemovePlace(i) == If(i \in DOMAIN seq, Without(i))
(* Of each value, where it occurs first.  The comments of Remove and       *)
(* RemoveAll promise all the elements that are in vs, but no list does it. *)
RemoveFirstOfEach(vs) == Becomes(FoldLeft(RemoveFirst, seq, vs))
RemoveFirstN(n) == Becomes(After(AtMost(n)))
RemoveLastN(n) == Becomes(First(Len(seq) - AtMost(n)))
Empty == Becomes(<<>>)

MoveFirst(i) == If(i \in DOMAIN seq, <<seq[i]>> \o Without(i))
MoveLast(i) == If(i \in DOMAIN seq, Without(i) \o <<seq[i]>>)
(* The element at i goes before, or after, the one at j. *)
MoveBeside(i, j, offset) ==
    LET at == (IF i < j THEN j - 1 ELSE j) + offset
    IN If({i, j} \subseteq DOMAIN seq /\ i # j,
          SubSeq(Without(i), 1, at - 1) \o <<seq[i]>>
              \o SubSeq(Without(i), at, Len(seq) - 1))
MoveBefore(i, j) == MoveBeside(i, j, 0)
MoveAfter(i, j) == MoveBeside(i, j, 1)

Reversed == Becomes(Reverse(seq))
Keep(Test(_)) == Becomes(SelectSeq(seq, Test))
(* Each value where it occurs first. *)
Distinct ==
    Becomes(FoldLeft(LAMBDA s, i : IF seq[i] \in ToSet(First(i - 1)) THEN s
                                   ELSE Append(s, seq[i]),
                     <<>>, [i \in DOMAIN seq |-> i]))
Sorted == Becomes(SortSeq(seq, <))
Mapped(F(_)) == Becomes([i \in DOMAIN seq |-> F(seq[i])])
Filled(i, n, v) ==
    If(i \in 1..Len(seq) + 1,
       [j \in 1..(IF i + n - 1 > Len(seq) THEN i + n - 1 ELSE Len(seq)) |->
           IF j \in i..i + n - 1 THEN v ELSE seq[j]])
Padded(size, v) ==
    LET n == IF size < 0 THEN -size ELSE size
        pad == [i \in 1..n - Len(seq) |-> v]
    IN If(n > Len(seq), IF size > 0 THEN seq \o pad ELSE pad \o seq)

(* An insertion-ordered map: a sequence of pairs with different keys. *)
PlaceOf(k) == SelectInSeq(seq, LAMBDA pair : pair[1] = k)
PutPair(k, v) == IF PlaceOf(k) = 0 THEN AddLast(<< <<k, v>> >>)
                 ELSE Overwrite(PlaceOf(k), <<k, v>>)
PutPairIfAbsent(k, v) ==
    If(PlaceOf(k) = 0, Append(seq, <<k, v>>))
RemoveKeys(ks) == Keep(LAMBDA pair : pair[1] \notin ks)
PutPairs(s, pairs) ==
    Becomes(FoldLeft(LAMBDA t, p :
                LET i == SelectInSeq(t, LAMBDA q : q[1] = p[1])
                IN IF i = 0 THEN Append(t, p) ELSE [t EXCEPT ![i] = p],
                s, pairs))
=============================================================================
