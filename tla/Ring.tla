--------------------------------- MODULE Ring ---------------------------------
(***************************************************************************)
(* gring.Ring: container/ring with the length (the elements that have a    *)
(* value) and the capacity remembered until dirty.  A ring object stands   *)
(* at an element of a circle of them; Link leaves two ring objects on the  *)
(* same circle, and so can Unlink.  The model has two objects, 1 and 2,    *)
(* and the circles they are on.                                            *)
(***************************************************************************)
EXTENDS Integers, Sequences, FiniteSets

CONSTANTS RingValues,   \* the values that are set
          RingCaps,     \* the capacities the two rings are made with
          RingTurns     \* bound: what Move and Unlink are given

VARIABLES circle,   \* circle[c]: the values of its elements in order, 0 for none
          ring,     \* ring[h]: its circle and place, and what it remembers
          linking,  \* a Link has unlocked, its rings are not dirty yet
          behind    \* history: objects that are not dirty, and whose elements
                    \* another object has changed since they counted

ringVars == <<circle, ring, linking, behind>>

Seqs == INSTANCE SequencesExt

None == 0
Handles == {1, 2}
Peer(h) == 3 - h

(* Set wraps a value, so that none of them is the nil of an empty element. *)
ASSUME RingAssumption ==
    /\ RingCaps \subseteq [Handles -> Nat]
    /\ RingTurns \subseteq Int
    /\ None \notin RingValues

New(c, cap) == [on |-> c, at |-> 1, len |-> 0, cap |-> cap, dirty |-> FALSE]
EmptyCells(cap) == [i \in 1..cap |-> None]

Cells(h) == circle[ring[h].on]
Gone(h) == Cells(h) = <<>>              \* an object without elements
Shared == ring[1].on = ring[2].on

Used(cells) == Cardinality({i \in DOMAIN cells : cells[i] # None})

(* container/ring: the elements from a place on, and the place n further.  *)
From(cells, at) == SubSeq(cells, at, Len(cells)) \o SubSeq(cells, 1, at - 1)
Here(h) == From(Cells(h), ring[h].at)
Turned(h, n) == ((ring[h].at - 1 + n) % Len(Cells(h))) + 1

(* checkAndUpdateLenAndCap, for Len and Cap. *)
CheckAndUpdate(h) ==
    /\ ring' = IF ring[h].dirty
               THEN [ring EXCEPT ![h].len = Used(Cells(h)),
                                 ![h].cap = Len(Cells(h)), ![h].dirty = FALSE]
               ELSE ring
    /\ UNCHANGED <<circle, linking, behind>>

(* Who remembers the counts of elements that h changes. *)
Unaware(h) == {p \in {Peer(h)} : Shared /\ ~ring[p].dirty}

(* Set, and Put, which moves on by n = 1: the length goes up in the object *)
(* that is asked, not in another on the same elements.  The counts of a    *)
(* dirty object are made again before anybody reads them: they are 0 here. *)
SetAndMove(h, v, n) ==
    LET empty == Cells(h)[ring[h].at] = None
    IN /\ circle' = [circle EXCEPT ![ring[h].on][ring[h].at] = v]
       /\ ring' = [ring EXCEPT ![h].len = IF empty /\ ~ring[h].dirty THEN @ + 1 ELSE @,
                               ![h].at = Turned(h, n)]
       /\ behind' = IF empty THEN behind \cup Unaware(h) ELSE behind
       /\ UNCHANGED linking
Set(h, v) == SetAndMove(h, v, 0)
Put(h, v) == SetAndMove(h, v, 1)
Move(h, n) ==
    /\ ring' = [ring EXCEPT ![h].at = Turned(h, n)]
    /\ UNCHANGED <<circle, linking, behind>>

(* SliceNext and SlicePrev stop at the first element without a value,      *)
(* which the first one may be.                                             *)
UpToNone(cells) ==
    LET n == Seqs!SelectInSeq(cells, LAMBDA v : v = None)
    IN IF n = 0 THEN cells ELSE SubSeq(cells, 1, n - 1)
SliceFrom(first, rest) == (IF first = None THEN <<>> ELSE <<first>>)
                          \o UpToNone(rest)
SliceNext(h) == SliceFrom(Head(Here(h)), Tail(Here(h)))
SlicePrev(h) == SliceFrom(Head(Here(h)), Seqs!Reverse(Tail(Here(h))))
-----------------------------------------------------------------------------
MarkDirty(rs, hs) ==
    [h \in Handles |->
        IF h \in hs THEN [rs[h] EXCEPT !.len = 0, !.cap = 0, !.dirty = TRUE]
        ELSE rs[h]]

(* h.Link(p) of two circles: p's elements come after h's first one. *)
JoinedCells(h) ==
    [c \in Handles |->
        IF c = ring[h].on
        THEN SubSeq(Cells(h), 1, ring[h].at) \o Here(Peer(h))
             \o SubSeq(Cells(h), ring[h].at + 1, Len(Cells(h)))
        ELSE <<>>]
JoinedRings(h) ==
    [ring EXCEPT ![Peer(h)].on = ring[h].on, ![Peer(h)].at = ring[h].at + 1]

(* The k elements after h's leave the circle: to form the other one when   *)
(* somebody stands on them or gets them (keep).                            *)
Distance(h) == (ring[Peer(h)].at - ring[h].at) % Len(Cells(h))
CutOff(h, k) == Shared /\ Distance(h) \in 1..k
CutCells(h, k, keep) ==
    [c \in Handles |->
        IF c = ring[h].on
        THEN <<Head(Here(h))>> \o SubSeq(Here(h), k + 2, Len(Cells(h)))
        ELSE IF keep \/ CutOff(h, k) THEN SubSeq(Here(h), 2, k + 1)
        ELSE circle[c]]
CutRings(h, k) ==
    [ring EXCEPT ![h].at = 1,
                 ![Peer(h)].on = IF CutOff(h, k) THEN 3 - @ ELSE @,
                 ![Peer(h)].at = IF ~Shared THEN @
                                 ELSE IF CutOff(h, k) THEN Distance(h)
                                 ELSE IF Distance(h) = 0 THEN 1
                                 ELSE Distance(h) - k + 1]
AfterCut(h, k) == (IF k > 0 THEN behind \cup Unaware(h) ELSE behind) \ {h}
-----------------------------------------------------------------------------
RingInit ==
    /\ \E caps \in RingCaps :
          /\ circle = [h \in Handles |-> EmptyCells(caps[h])]
          /\ ring = [h \in Handles |-> New(h, caps[h])]
    /\ linking = FALSE /\ behind = {}

(* No ring is made. *)
NoRings ==
    /\ circle = [h \in Handles |-> <<>>]
    /\ ring = [h \in Handles |-> New(h, 0)]
    /\ linking = FALSE /\ behind = {}

RingCall(h) ==
    /\ ~Gone(h)
    /\ \/ \E v \in RingValues : Set(h, v) \/ Put(h, v)
       \/ \E n \in RingTurns : Move(h, n)
       \/ CheckAndUpdate(h)

(* Link: under both locks; both are marked dirty after the unlock.  When   *)
(* they are on one circle, the elements between them are cut out.          *)
LinkCall(h) ==
    /\ ~linking /\ ~Gone(h) /\ ~Gone(Peer(h))
    /\ IF Shared
       THEN LET k == (Distance(h) - 1) % Len(Cells(h))
            IN circle' = CutCells(h, k, FALSE) /\ ring' = CutRings(h, k)
       ELSE circle' = JoinedCells(h) /\ ring' = JoinedRings(h)
    /\ linking' = TRUE /\ UNCHANGED behind

LinkMarks_One == {1}
LinkMarks == Handles
LinkReturn ==
    /\ linking
    /\ ring' = MarkDirty(ring, LinkMarks) /\ behind' = {}
    /\ linking' = FALSE /\ UNCHANGED circle

(* h.Link(h) cuts out all elements but one. *)
LinkSelfCall(h) ==
    /\ ~linking /\ ~Gone(h)
    /\ LET k == Len(Cells(h)) - 1
       IN /\ circle' = CutCells(h, k, FALSE)
          /\ ring' = MarkDirty(CutRings(h, k), {h})
          /\ behind' = AfterCut(h, k)
    /\ UNCHANGED linking

(* Unlink(n).  An object without elements is given the ring it returns: of *)
(* the elements cut out, or, when there are none, h's own from the second  *)
(* on.  Without such an object the caller drops the result.                *)
Unlink(h, n) ==
    LET p == Peer(h)
        k == n % Len(Cells(h))
        keep == n > 0 /\ Gone(p)
        result == [on |-> IF k > 0 THEN ring[p].on ELSE ring[h].on,
                   at |-> IF k > 0 \/ Len(Cells(h)) = 1 THEN 1 ELSE 2,
                   len |-> 0, cap |-> 0, dirty |-> TRUE]
    IN IF n <= 0
       THEN /\ ring' = MarkDirty(ring, {h}) /\ behind' = behind \ {h}
            /\ UNCHANGED circle
       ELSE /\ circle' = CutCells(h, k, keep /\ k > 0)
            /\ ring' = [MarkDirty(CutRings(h, k), {h}) EXCEPT
                           ![p] = IF keep THEN result ELSE @]
            /\ behind' = AfterCut(h, k) \ (IF keep THEN {p} ELSE {})
UnlinkCall(h) ==
    /\ ~Gone(h)
    /\ \E n \in RingTurns : Unlink(h, n)
    /\ UNCHANGED linking

(* The caller drops an object; the elements only it has are gone. *)
Forget(h) ==
    /\ ~linking /\ ~Gone(h) /\ ~Gone(Peer(h))
    /\ LET c == Peer(ring[Peer(h)].on)
       IN /\ ring' = [ring EXCEPT ![h] = New(c, 0)]
          /\ circle' = [circle EXCEPT ![c] = <<>>]
    /\ behind' = behind \ {h} /\ UNCHANGED linking

RingNext ==
    \/ \E h \in Handles : \/ RingCall(h) \/ LinkCall(h) \/ LinkSelfCall(h)
                          \/ UnlinkCall(h) \/ Forget(h)
    \/ LinkReturn

(* The rings by themselves; Collections has them beside the others. *)
RingSpec == RingInit /\ [][RingNext]_ringVars
-----------------------------------------------------------------------------
(* A ring object that is not dirty knows how many elements it has and how  *)
(* many of them have a value, except between the two halves of a Link, and *)
(* except where another object on the same elements has set an empty one   *)
(* or cut some out since it counted: each object counts for itself.  And a *)
(* ring without a hole gives all its values in both directions.            *)
Counted(h) ==
    /\ \/ linking \/ ring[h].dirty \/ h \in behind
       \/ ring[h].len = Used(Cells(h)) /\ ring[h].cap = Len(Cells(h))
    /\ (~Gone(h) /\ Used(Cells(h)) = Len(Cells(h))) =>
          /\ SliceNext(h) = Here(h)
          /\ SlicePrev(h) = <<Head(Here(h))>> \o Seqs!Reverse(Tail(Here(h)))
RingCounts == \A h \in Handles : Counted(h)
=============================================================================
