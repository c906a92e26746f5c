------------------------------ MODULE ArrayList ------------------------------
(***************************************************************************)
(* g.ArrayList: a slice, here its elements, a.cells, and its capacity      *)
(* a.cap, under a lock that each call holds.  An append within the         *)
(* capacity writes over what the array holds after the slice.  Indexes     *)
(* count from 0, as in the code.  An operation is an operator that returns *)
(* the changed list.                                                       *)
(***************************************************************************)
EXTENDS Integers, Sequences

Seqs == INSTANCE SequencesExt

NewArrayListFrom(vs) == [cells |-> vs, cap |-> Len(vs)]
NewArrayListSize(size, cap) == [cells |-> [i \in 1..size |-> 0], cap |-> cap]
NewArrayListRange(start, end, step) ==
    NewArrayListFrom([i \in 1..(end - start) \div step + 1 |->
                         start + (i - 1) * step])

(* Slicing: a[from:], a[:to]. *)
From(a, i) == [cells |-> SubSeq(a.cells, i + 1, Len(a.cells)), cap |-> a.cap - i]
UpTo(a, i) == [a EXCEPT !.cells = SubSeq(@, 1, i)]

(* append: in place, or into a larger array. *)
InPlace(a, vs) == Len(a.cells) + Len(vs) <= a.cap
AppendTo(a, vs) ==
    LET n == Len(a.cells) + Len(vs)
    IN [cells |-> a.cells \o vs,
        cap |-> IF InPlace(a, vs) THEN a.cap
                ELSE IF n > 2 * a.cap THEN n ELSE 2 * a.cap]
(* What an older slice of the array shows after such an append to a[:i]. *)
Overwritten(a, i, vs) ==
    [j \in DOMAIN a.cells |->
        IF InPlace(UpTo(a, i), vs) /\ j - i \in DOMAIN vs THEN vs[j - i]
        ELSE a.cells[j]]

Inside(a, i) == i >= 0 /\ i < Len(a.cells)
At(a, i) == a.cells[i + 1]
Put(a, i, v) == [a EXCEPT !.cells[i + 1] = v]
Swap(a, i, j) == Put(Put(a, i, At(a, j)), j, At(a, i))
Set(a, i, v) == IF Inside(a, i) THEN Put(a, i, v) ELSE a

(* The rear is copied before the values are appended in its place. *)
Rear_Shared(a, i, vs) == SubSeq(Overwritten(a, i, vs), i + 1, Len(a.cells))
Rear(a, i, vs) == SubSeq(a.cells, i + 1, Len(a.cells))
InsertAt(a, i, vs) == AppendTo(AppendTo(UpTo(a, i), vs), Rear(a, i, vs))
InsertBefore(a, i, vs) == IF Inside(a, i) THEN InsertAt(a, i, vs) ELSE a
InsertAfter(a, i, vs) == IF Inside(a, i) THEN InsertAt(a, i + 1, vs) ELSE a

(* doRemoveWithoutLock: by the first, by the last, or in between. *)
DoRemove(a, i) ==
    IF ~Inside(a, i) THEN a
    ELSE IF i = 0 THEN From(a, 1)
    ELSE IF i = Len(a.cells) - 1 THEN UpTo(a, i)
    ELSE AppendTo(UpTo(a, i), SubSeq(a.cells, i + 2, Len(a.cells)))

RECURSIVE SearchFrom(_, _, _)
SearchFrom(a, v, i) == IF ~Inside(a, i) THEN -1
                       ELSE IF At(a, i) = v THEN i ELSE SearchFrom(a, v, i + 1)
Search(a, v) == SearchFrom(a, v, 0)
Contains(a, v) == Search(a, v) # -1
(* What the callback finds out is lost. *)
ContainsAll(a, vs) == TRUE
RemoveValue(a, v) == IF Contains(a, v) THEN DoRemove(a, Search(a, v)) ELSE a
Remove(a, vs) == Seqs!FoldLeft(RemoveValue, a, vs)

PushLeft(a, vs) == AppendTo(NewArrayListFrom(vs), a.cells)
PushRight(a, vs) == AppendTo(a, vs)

(* The random indexes are the caller's choice here. *)
PopRand(a, i) == DoRemove(a, i)
PopRands(a, is) == Seqs!FoldLeft(DoRemove, a, is)
RandsSize(a, size) == IF size <= 0 \/ a.cells = <<>> THEN 0
                      ELSE IF size >= Len(a.cells) THEN Len(a.cells) ELSE size
PopLeft(a) == IF a.cells = <<>> THEN a ELSE From(a, 1)
PopRight(a) == IF a.cells = <<>> THEN a ELSE UpTo(a, Len(a.cells) - 1)
PopLefts(a, size) == IF size <= 0 \/ a.cells = <<>> THEN a
                     ELSE IF size >= Len(a.cells) THEN UpTo(a, 0)
                     ELSE From(a, size)
PopRights(a, size) == LET i == Len(a.cells) - size
                      IN IF size <= 0 \/ a.cells = <<>> THEN a
                         ELSE IF i <= 0 THEN UpTo(a, 0) ELSE UpTo(a, i)
Clear(a) == IF a.cells = <<>> THEN a ELSE NewArrayListFrom(<<>>)
-----------------------------------------------------------------------------
(* Loops over the whole array. *)
Unique(a) ==
    LET Step(vs, v) == IF v \in Seqs!ToSet(vs) THEN vs ELSE Append(vs, v)
    IN IF a.cells = <<>> THEN a
       ELSE [cells |-> Seqs!FoldLeft(Step, <<>>, a.cells), cap |-> a.cap]

FillOne(a, i, v) == IF i > Len(a.cells) - 1 THEN AppendTo(a, <<v>>)
                    ELSE Put(a, i, v)
Fill(a, start, num, v) ==
    IF start < 0 \/ start > Len(a.cells) THEN a
    ELSE Seqs!FoldLeft(LAMBDA b, i : FillOne(b, start + i - 1, v), a,
                  [i \in 1..num |-> i])

(* A pad that is not longer than the array is no pad; the new cells come   *)
(* after the array, or before it for a negative size.                      *)
Abs(n) == IF n < 0 THEN -n ELSE n
Pad(a, size, v) ==
    LET filler == [i \in 1..Abs(size) - Len(a.cells) |-> v]
    IN IF size = 0 \/ Abs(size) < Len(a.cells) THEN a
       ELSE IF size > 0 THEN AppendTo(a, filler)
       ELSE AppendTo(NewArrayListFrom(filler), a.cells)

(* Shuffle, by a permutation p of the indexes; Reverse. *)
Shuffle(a, p) == Seqs!FoldLeft(LAMBDA b, i : Swap(b, i - 1, p[i]), a,
                          [i \in DOMAIN p |-> i])
Reverse(a) ==
    LET n == Len(a.cells)
    IN Seqs!FoldLeft(LAMBDA b, i : Swap(b, i - 1, n - i), a,
                [i \in 1..n \div 2 |-> i])

(* Filter, FilterEmpty: the values in `drop' go, one at a time. *)
RECURSIVE FilterFrom(_, _, _)
FilterFrom(a, i, drop) ==
    IF ~Inside(a, i) THEN a
    ELSE IF At(a, i) \in drop
    THEN FilterFrom(AppendTo(UpTo(a, i), SubSeq(a.cells, i + 2, Len(a.cells))),
                    i, drop)
    ELSE FilterFrom(a, i + 1, drop)
Filter(a, drop) == FilterFrom(a, 0, drop)
FilterEmpty(a) == Filter(a, {0})
Walk(a, F(_)) == [a EXCEPT !.cells = [i \in DOMAIN @ |-> F(@[i])]]
Sort(a) == [a EXCEPT !.cells = Seqs!SortSeq(@, <)]
-----------------------------------------------------------------------------
(* Reading. *)
Get(a, i) == IF Inside(a, i) THEN <<At(a, i)>> ELSE <<>>
Between(a, from, to) == SubSeq(a.cells, from + 1, to)

(* Range(start, end); without `end', end is the length. *)
Range(a, start, end) ==
    LET to == IF end < Len(a.cells) THEN end ELSE Len(a.cells)
        from == IF start < 0 THEN 0 ELSE start
    IN IF start > to THEN <<>> ELSE Between(a, from, to)

(* SubSlice(offset, length): a negative length takes the elements before   *)
(* the offset.                                                             *)
SubSlice(a, offset, length) ==
    LET n == Len(a.cells)
        o1 == IF offset < 0 THEN n + offset ELSE offset
        o == IF length < 0 THEN o1 + length ELSE o1
        end == o + Abs(length)
    IN IF offset > n \/ o1 < 0 \/ o < 0 THEN <<>>
       ELSE Between(a, o, IF end > n THEN n ELSE end)

Chunk(a, size) ==
    LET n == Len(a.cells)
        chunks == IF size < 1 THEN 0 ELSE (n + size - 1) \div size
    IN [i \in 1..chunks |->
           Between(a, (i - 1) * size, IF i * size > n THEN n ELSE i * size)]
CountValues(a) ==
    [v \in Seqs!ToSet(a.cells) |->
        Seqs!FoldLeft(LAMBDA n, w : IF w = v THEN n + 1 ELSE n, 0, a.cells)]

(* Each loop stops where its callback says so. *)
Stop(vs, Stops(_)) == LET i == Seqs!SelectInSeq(vs, Stops)
                      IN IF i = 0 THEN vs ELSE SubSeq(vs, 1, i)
ForEachAsc(a, Stops(_)) == Stop(a.cells, Stops)
ForEachDesc(a, Stops(_)) == Stop(Seqs!Reverse(a.cells), Stops)
Equals(a, b) == Len(a.cells) = Len(b.cells)
                /\ \A i \in DOMAIN a.cells : a.cells[i] = b.cells[i]
Sum(a) == Seqs!FoldLeft(LAMBDA n, v : n + v, 0, a.cells)
Join(a, glue) ==
    Seqs!FoldLeft(LAMBDA out, i : out \o <<At(a, i - 1)>> \o
                      (IF i # Len(a.cells) THEN <<glue>> ELSE <<>>),
                  <<>>, [i \in DOMAIN a.cells |-> i])
(* A copy has an array of its own; so has a safe list's Slice. *)
Clone(a) == NewArrayListFrom(a.cells)
DeepCopy(a) == NewArrayListFrom(a.cells)
Slice(a) == a.cells
MarshalJSON(a) == a.cells
(* json.Unmarshal fills the array from its beginning. *)
UnmarshalJSON(a, vs) == AppendTo(UpTo(a, 0), vs)
=============================================================================
