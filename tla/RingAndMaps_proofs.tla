--------------------------- MODULE RingAndMaps_proofs ---------------------------
(***************************************************************************)
(* Two of the parts of Collections.                                        *)
(*                                                                         *)
(* The hash maps, for any users, maps, keys, values and numbers of calls,  *)
(* also when maps are merged into each other: a function gives a key's     *)
(* value at most once between two times the key leaves the map.            *)
(*                                                                         *)
(* The rings, of any capacities and values, moved, linked and unlinked by  *)
(* any numbers, two objects apart or on the same elements: one that is not *)
(* dirty knows how many elements and how many values it has, unless the    *)
(* other has changed them since, and gives all values of a ring without a  *)
(* hole in both directions.                                                *)
(***************************************************************************)
EXTENDS HashMaps, Ring, FiniteSetTheorems, SequenceTheorems, TLAPS

(* The invariant needs no more than that the books have an entry for each  *)
(* map and key: whatever call a user is in, the section that runs its      *)
(* function looks at the map itself.                                       *)
Books == /\ maps = [m \in Maps |-> maps[m]]
         /\ runs \in [Maps -> [HashKeys -> Nat]]
         /\ gone \in [Maps -> [HashKeys -> Nat]]
Inv == Books /\ RunsOnce

(* A count goes up, if it is one of the counts. *)
LEMMA CountUp ==
    ASSUME NEW g \in [HashKeys -> Nat], NEW k
    PROVE  [g EXCEPT ![k] = @ + 1] \in [HashKeys -> Nat]
<1>1. CASE k \in HashKeys
  BY <1>1
<1>2. CASE k \notin HashKeys
  <2>1. [g EXCEPT ![k] = @ + 1] = g
    BY <1>2
  <2> QED
    BY <2>1
<1> QED
  BY <1>1, <1>2

LEMMA InitInv == MapsInit => Inv
  BY DEF MapsInit, Inv, Books, RunsOnce, Has

LEMMA NextInv == Inv /\ [MapsNext]_mapVars => Inv'
<1> SUFFICES ASSUME Inv, [MapsNext]_mapVars PROVE Inv'
  OBVIOUS
<1> USE DEF Inv, Books, RunsOnce, Has
<1>1. CASE UNCHANGED mapVars
  BY <1>1 DEF mapVars
<1>2. ASSUME UNCHANGED <<maps, runs, gone>> PROVE Inv'
  BY <1>2
<1>3. ASSUME NEW u \in Users, Begin(u) PROVE Inv'
  BY <1>2, <1>3 DEF Begin, Call
<1>4. ASSUME NEW u \in Users, Search(u) \/ MergeLock(u) PROVE Inv'
  BY <1>2, <1>4 DEF Search, MergeLock
(* What is put over the keys of a map takes none of them away. *)
<1>5. ASSUME NEW n, NEW f, maps' = [maps EXCEPT ![n] = Over(@, f)],
             UNCHANGED <<runs, gone>>
      PROVE  Inv'
  <2>1. maps' = [m \in Maps |-> IF m = n THEN Over(maps[m], f) ELSE maps[m]]
    BY <1>5
  <2>2. \A m \in Maps : DOMAIN maps[m] \subseteq DOMAIN maps'[m]
    BY <2>1 DEF Over
  <2>3. Books'
    BY <1>5, <2>1
  <2>4. ASSUME NEW m \in Maps, NEW k \in HashKeys
        PROVE  (runs[m][k] <= gone[m][k] + IF Has(m, k) THEN 1 ELSE 0)'
    BY <1>5, <2>2
  <2> QED
    BY <2>3, <2>4
<1>6. ASSUME NEW u \in Users, MergeDo(u) PROVE Inv'
  BY <1>5, <1>6 DEF MergeDo
(* The keys that leave a map are counted as gone. *)
<1>7. ASSUME NEW n, NEW ks, NEW f, maps' = [maps EXCEPT ![n] = f],
             DOMAIN maps[n] \subseteq DOMAIN f \cup ks,
             gone' = Left(n, ks), UNCHANGED runs
      PROVE  Inv'
  <2>1. maps' = [m \in Maps |-> IF m = n THEN f ELSE maps[m]]
    BY <1>7
  <2>2. gone' = [m \in Maps |-> IF m = n
                    THEN [k \in HashKeys |-> gone[m][k] + IF k \in ks THEN 1 ELSE 0]
                    ELSE gone[m]]
    BY <1>7 DEF Left
  <2>3. Books'
    BY <1>7, <2>1, <2>2
  <2>4. ASSUME NEW m \in Maps, NEW k \in HashKeys
        PROVE  (runs[m][k] <= gone[m][k] + IF Has(m, k) THEN 1 ELSE 0)'
    <3>1. runs[m][k] \in Nat /\ gone[m][k] \in Nat
      OBVIOUS
    <3>2. CASE m = n
      BY <1>7, <2>1, <2>2, <3>1, <3>2
    <3>3. CASE m # n
      BY <1>7, <2>1, <2>2, <3>1, <3>3
    <3> QED
      BY <3>2, <3>3
  <2> QED
    BY <2>3, <2>4
<1>8. ASSUME NEW u \in Users, DoRemove(u) PROVE Inv'
  BY <1>7, <1>8 DEF DoRemove, Without
<1>9. ASSUME NEW u \in Users, DoPut(u) PROVE Inv'
  BY <1>5, <1>7, <1>9 DEF DoPut, With, Replaced
<1>10. ASSUME NEW u \in Users, DoSetWithLockCheck(u) PROVE Inv'
  <2> DEFINE c == user[u]
  <2>1. CASE UNCHANGED <<maps, runs>>
    BY <1>2, <1>10, <2>1 DEF DoSetWithLockCheck
  <2>2. CASE maps' = With(c.m, c.k, c.v) /\ UNCHANGED runs
    BY <1>5, <1>10, <2>2 DEF DoSetWithLockCheck, With
  (* f runs: the key was absent, and is present now. *)
  <2>3. CASE /\ maps' = With(c.m, c.k, c.v) /\ ~Has(c.m, c.k)
             /\ runs' = [runs EXCEPT ![c.m][c.k] = @ + 1]
    <3>1. maps' = [m \in Maps |-> IF m = c.m THEN Over(maps[m], Pair(c.k, c.v))
                                  ELSE maps[m]]
      BY <2>3 DEF With
    <3>2. \A m \in Maps : DOMAIN maps'[m] =
             IF m = c.m THEN DOMAIN maps[m] \cup {c.k} ELSE DOMAIN maps[m]
      <4>1. ASSUME NEW f PROVE DOMAIN Over(f, Pair(c.k, c.v)) = DOMAIN f \cup {c.k}
        BY DEF Over, Pair
      <4> QED
        BY <3>1, <4>1
    <3>3. Books'
      <4>1. maps' = [m \in Maps |-> maps'[m]]
        BY <3>1
      <4>2. \A m \in Maps : runs[m] \in [HashKeys -> Nat]
        OBVIOUS
      <4>3. ASSUME c.m \in Maps PROVE runs' \in [Maps -> [HashKeys -> Nat]]
        <5>1. [runs[c.m] EXCEPT ![c.k] = @ + 1] \in [HashKeys -> Nat]
          <6> HIDE DEF c
          <6> QED
            BY <4>2, <4>3, CountUp
        <5>2. runs' = [runs EXCEPT ![c.m] = [runs[c.m] EXCEPT ![c.k] = @ + 1]]
          BY <2>3, Zenon
        <5> HIDE DEF c
        <5> QED
          BY <4>3, <5>1, <5>2
      <4>4. ASSUME c.m \notin Maps PROVE runs' = runs
        BY <2>3, <4>4
      <4> QED
        BY <1>10, <4>1, <4>3, <4>4 DEF DoSetWithLockCheck
    <3>4. ASSUME NEW m \in Maps, NEW k \in HashKeys
          PROVE  (runs[m][k] <= gone[m][k] + IF Has(m, k) THEN 1 ELSE 0)'
      <4>1. runs[m][k] \in Nat /\ gone[m][k] \in Nat /\ gone' = gone
        BY <1>10 DEF DoSetWithLockCheck
      <4>2. CASE m = c.m /\ k = c.k
        <5>1. k \notin DOMAIN maps[m] /\ k \in DOMAIN maps'[m]
          BY <2>3, <3>2, <4>2
        <5>2. runs[m][k] <= gone[m][k] /\ runs'[m][k] = runs[m][k] + 1
          BY <2>3, <4>1, <4>2, <5>1
        <5> QED
          BY <4>1, <5>1, <5>2
      <4>3. CASE ~(m = c.m /\ k = c.k)
        <5>1. k \in DOMAIN maps[m] => k \in DOMAIN maps'[m]
          BY <3>2
        <5>2. runs'[m][k] = runs[m][k]
          BY <2>3, <4>3
        <5> QED
          BY <4>1, <5>1, <5>2
      <4> QED
        BY <4>2, <4>3
    <3> QED
      BY <3>3, <3>4
  <2> QED
    BY <1>10, <2>1, <2>2, <2>3 DEF DoSetWithLockCheck, Keeps
<1> QED
  BY <1>1, <1>3, <1>4, <1>6, <1>8, <1>9, <1>10 DEF MapsNext, Section

(* A function given to GetOrPutFunc or PutIfAbsentFunc provides a key's    *)
(* value at most once between two times the key leaves the map, however    *)
(* many users call at once (RunsOnce).                                     *)
THEOREM MapsRunsOnce == MapsSpec => []RunsOnce
<1>1. Inv => RunsOnce
  BY DEF Inv
<1> QED
  BY InitInv, NextInv, <1>1, PTL DEF MapsSpec
-----------------------------------------------------------------------------
Values == RingValues \cup {None}
Objects == [on : Handles, at : Nat, len : Nat, cap : Nat, dirty : BOOLEAN]

Typed ==
    /\ circle \in [Handles -> Seq(Values)] /\ ring \in [Handles -> Objects]
    /\ linking \in BOOLEAN

(* An object is at an element of its circle, or has none. *)
Stands(h) == Gone(h) \/ ring[h].at \in 1..Len(Cells(h))

Knows(h) ==
    \/ ring[h].dirty \/ h \in behind
    \/ ring[h].len = Used(Cells(h)) /\ ring[h].cap = Len(Cells(h))

RingInv == Typed /\ \A h \in Handles : Stands(h) /\ (linking \/ Knows(h))
-----------------------------------------------------------------------------
(* How many of a ring's elements have a value. *)
LEMMA UsedBounds ==
    ASSUME NEW s \in Seq(Values)
    PROVE  /\ IsFiniteSet({i \in DOMAIN s : s[i] # None})
           /\ Used(s) \in Nat
           /\ Used(s) = Len(s) => \A i \in 1..Len(s) : s[i] # None
<1> DEFINE F == {i \in DOMAIN s : s[i] # None}
<1>1. Len(s) \in Nat /\ DOMAIN s = 1..Len(s)
  BY LenProperties
<1>2. IsFiniteSet(1..Len(s)) /\ Cardinality(1..Len(s)) = Len(s)
  BY <1>1, FS_Interval
<1>3. F \in SUBSET (1..Len(s))
  BY <1>1
<1>4. Used(s) = Cardinality(F)
  BY DEF Used
<1> HIDE DEF F
<1>5. /\ IsFiniteSet(F) /\ Cardinality(F) <= Len(s)
      /\ Len(s) = Cardinality(F) => 1..Len(s) = F
  BY <1>2, <1>3, FS_Subset
<1>6. Cardinality(F) \in Nat
  BY <1>5, FS_CardinalityType
<1>7. 1..Len(s) = F => \A i \in 1..Len(s) : s[i] # None
  BY DEF F
<1>8. Used(s) \in Nat
  BY <1>4, <1>6
<1>9. IsFiniteSet({i \in DOMAIN s : s[i] # None})
  BY <1>5 DEF F
<1> QED  BY <1>4, <1>5, <1>7, <1>8, <1>9

LEMMA UsedConcat ==
    ASSUME NEW s \in Seq(Values), NEW t \in Seq(Values)
    PROVE  Used(s \o t) = Used(s) + Used(t)
<1> DEFINE A == {i \in DOMAIN s : s[i] # None}
           B == {i \in DOMAIN t : t[i] # None}
           C == {i \in DOMAIN (s \o t) : (s \o t)[i] # None}
           D == {i \in C : i > Len(s)}
           f == [i \in B |-> i + Len(s)]
<1>1. /\ Len(s) \in Nat /\ DOMAIN s = 1..Len(s)
      /\ Len(t) \in Nat /\ DOMAIN t = 1..Len(t)
  BY LenProperties
<1>2. /\ s \o t \in Seq(Values) /\ Len(s \o t) = Len(s) + Len(t)
      /\ \A i \in 1..Len(s) + Len(t) :
            (s \o t)[i] = IF i <= Len(s) THEN s[i] ELSE t[i - Len(s)]
  BY ConcatProperties
<1>3. DOMAIN (s \o t) = 1..Len(s) + Len(t)
  BY <1>2, LenProperties
<1>4. IsFiniteSet(A) /\ IsFiniteSet(B)
  BY UsedBounds
<1>5. Used(s) = Cardinality(A) /\ Used(t) = Cardinality(B) /\ Used(s \o t) = Cardinality(C)
  BY DEF Used
<1>6. C = A \cup D /\ A \cap D = {}
  BY <1>1, <1>2, <1>3
<1>7. f \in [B -> D]
  BY <1>1, <1>2, <1>3
<1>8. \A i, j \in B : f[i] = f[j] => i = j
  BY <1>1
<1>9. \A d \in D : \E i \in B : f[i] = d
  <2> SUFFICES ASSUME NEW d \in D PROVE \E i \in B : f[i] = d
    OBVIOUS
  <2>1. d \in 1..Len(s) + Len(t) /\ d > Len(s) /\ (s \o t)[d] # None
    BY <1>3
  <2>2. d - Len(s) \in 1..Len(t) /\ t[d - Len(s)] # None
    BY <1>1, <1>2, <2>1
  <2>3. d - Len(s) \in B /\ f[d - Len(s)] = d
    BY <1>1, <2>1, <2>2
  <2> QED  BY <2>3
<1> HIDE DEF A, B, C, D, f
<1>10. ExistsBijection(B, D)
  <2>1. f \in Bijection(B, D)
    BY <1>7, <1>8, <1>9 DEF Bijection, Injection, Surjection, IsInjective
  <2> QED  BY <2>1 DEF ExistsBijection
<1>11. IsFiniteSet(D) /\ Cardinality(D) = Cardinality(B)
  BY <1>4, <1>10, FS_Bijection
<1>12. Cardinality(C) = Cardinality(A) + Cardinality(D) - Cardinality(A \cap D)
  BY <1>4, <1>6, <1>11, FS_Union
<1>13. Cardinality(A \cap D) = 0
  BY <1>6, FS_EmptySet
<1>14. Cardinality(A) \in Nat /\ Cardinality(B) \in Nat
  BY <1>4, FS_CardinalityType
<1> QED  BY <1>5, <1>11, <1>12, <1>13, <1>14

LEMMA UsedOne ==
    ASSUME NEW v \in Values
    PROVE  <<v>> \in Seq(Values) /\ Used(<<v>>) = IF v = None THEN 0 ELSE 1
<1>1. {i \in DOMAIN <<v>> : <<v>>[i] # None} = IF v = None THEN {} ELSE {1}
  OBVIOUS
<1>2. Cardinality({}) = 0 /\ Cardinality({1}) = 1
  BY FS_EmptySet, FS_Singleton
<1> QED  BY <1>1, <1>2 DEF Used

(* Another value in an element. *)
LEMMA SetAt ==
    ASSUME NEW s \in Seq(Values), NEW at \in 1..Len(s), NEW v \in Values, v # None
    PROVE  LET t == [s EXCEPT ![at] = v]
           IN  /\ t \in Seq(Values) /\ Len(t) = Len(s)
               /\ Used(t) = IF s[at] = None THEN Used(s) + 1 ELSE Used(s)
<1> DEFINE t == [s EXCEPT ![at] = v]
           F == {i \in DOMAIN s : s[i] # None}
           G == {i \in DOMAIN t : t[i] # None}
<1>1. Len(s) \in Nat /\ DOMAIN s = 1..Len(s)
  BY LenProperties
<1>2. t \in Seq(Values) /\ Len(t) = Len(s)
  BY ExceptSeq
<1>3. DOMAIN t = 1..Len(s) /\ \A i \in 1..Len(s) : t[i] = IF i = at THEN v ELSE s[i]
  BY <1>1
<1>4. IsFiniteSet(F)
  BY UsedBounds
<1>5. Used(s) = Cardinality(F) /\ Used(t) = Cardinality(G)
  BY DEF Used
<1>6. G = F \cup {at}
  BY <1>1, <1>3
<1>7. at \in F <=> s[at] # None
  BY <1>1
<1> HIDE DEF t, F, G
<1>8. Cardinality(G) = IF at \in F THEN Cardinality(F) ELSE Cardinality(F) + 1
  BY <1>4, <1>6, FS_AddElement
<1>9. Used(t) = IF s[at] = None THEN Used(s) + 1 ELSE Used(s)
  BY <1>5, <1>7, <1>8
<1> QED  BY <1>2, <1>9 DEF t

(* A part of a circle. *)
LEMMA Part ==
    ASSUME NEW s \in Seq(Values), NEW i \in Nat, NEW j \in Nat, i >= 1, j <= Len(s)
    PROVE  /\ SubSeq(s, i, j) \in Seq(Values)
           /\ Len(SubSeq(s, i, j)) = IF i <= j THEN (j - i) + 1 ELSE 0
<1>1. Len(s) \in Nat /\ \A m \in 1..Len(s) : s[m] \in Values
  BY LenProperties, ElementOfSeq
<1>2. \A m \in i..j : s[m] \in Values
  BY <1>1
<1> QED  BY <1>2, SubSeqProperties

(* The circle from another element on. *)
LEMMA Rotation ==
    ASSUME NEW s \in Seq(Values), NEW at \in 1..Len(s)
    PROVE  /\ From(s, at) \in Seq(Values)
           /\ Len(From(s, at)) = Len(s) /\ Used(From(s, at)) = Used(s)
<1> DEFINE p == SubSeq(s, 1, at - 1)
           q == SubSeq(s, at, Len(s))
<1>1. Len(s) \in Nat /\ at \in Nat /\ at - 1 \in Nat /\ at >= 1 /\ at <= Len(s)
  BY LenProperties
<1>2. p \in Seq(Values) /\ q \in Seq(Values)
  BY <1>1, Part
<1>3. p \o q = s
  <2>1. 1 \in 1..Len(s) + 1 /\ at - 1 \in 1 - 1..Len(s) /\ Len(s) \in at - 1..Len(s)
    BY <1>1
  <2>2. p \o SubSeq(s, (at - 1) + 1, Len(s)) = SubSeq(s, 1, Len(s))
    BY <2>1, ConcatAdjacentSubSeq
  <2> QED  BY <1>1, <2>2, SubSeqFull
<1>4. From(s, at) = q \o p
  BY DEF From
<1> HIDE DEF p, q
<1>5. Used(s) = Used(p) + Used(q) /\ Used(q \o p) = Used(q) + Used(p)
  BY <1>2, <1>3, UsedConcat
<1>6. Used(p) \in Nat /\ Used(q) \in Nat
  BY <1>2, UsedBounds
<1>7. Len(s) = Len(p) + Len(q) /\ Len(q \o p) = Len(q) + Len(p) /\ q \o p \in Seq(Values)
  BY <1>2, <1>3, ConcatProperties
<1>8. Len(p) \in Nat /\ Len(q) \in Nat
  BY <1>2, LenProperties
<1> QED  BY <1>4, <1>5, <1>6, <1>7, <1>8

LEMMA ModRange ==
    ASSUME NEW n \in Int, NEW l \in Nat, l > 0
    PROVE  n % l \in 0..l - 1
OBVIOUS

(* The first element and the rest. *)
LEMMA Split ==
    ASSUME NEW s \in Seq(Values), Len(s) > 0
    PROVE  /\ Head(s) \in Values /\ Tail(s) \in Seq(Values)
           /\ Head(s) = s[1] /\ Tail(s) = SubSeq(s, 2, Len(s))
           /\ s = <<Head(s)>> \o Tail(s)
           /\ Len(Tail(s)) = Len(s) - 1
           /\ \A i \in 1..Len(Tail(s)) : Tail(s)[i] = s[i + 1]
<1>1. Len(s) \in Nat /\ s # <<>>
  BY EmptySeq
<1>2. /\ Head(s) \in Values /\ Tail(s) \in Seq(Values) /\ Len(Tail(s)) = Len(s) - 1
      /\ \A i \in 1..Len(Tail(s)) : Tail(s)[i] = s[i + 1]
  BY <1>1, HeadTailProperties
<1>3. 1 \in 1..Len(s) /\ Len(s) \in 1..Len(s)
  BY <1>1
<1>4. SubSeq(s, 1, Len(s)) = <<s[1]>> \o SubSeq(s, 1 + 1, Len(s))
  BY <1>3, SubSeqRecursiveFirst
<1>5. SubSeq(s, 1, Len(s)) = s /\ Tail(s) = SubSeq(s, 2, Len(s)) /\ Head(s) = s[1]
  BY <1>1, SubSeqFull, TailIsSubSeq
<1> QED  BY <1>2, <1>4, <1>5
-----------------------------------------------------------------------------
(* What is known of an object and its elements. *)
LEMMA AnObject ==
    ASSUME Typed, NEW h \in Handles
    PROVE  /\ Peer(h) \in Handles /\ Peer(h) # h /\ 3 - Peer(h) = h
           /\ \A p \in Handles : p = h \/ p = Peer(h)
           /\ ring[h] \in Objects /\ ring[h].on \in Handles /\ ring[h].at \in Nat
           /\ ring[h].len \in Nat /\ ring[h].cap \in Nat /\ ring[h].dirty \in BOOLEAN
           /\ Cells(h) \in Seq(Values) /\ Len(Cells(h)) \in Nat
           /\ Gone(h) <=> Len(Cells(h)) = 0
           /\ Used(Cells(h)) \in Nat
<1>1. Peer(h) \in Handles /\ Peer(h) # h /\ 3 - Peer(h) = h /\ \A p \in Handles : p = h \/ p = Peer(h)
  BY DEF Handles, Peer
<1>2. /\ ring[h] \in Objects /\ ring[h].on \in Handles /\ ring[h].at \in Nat
      /\ ring[h].len \in Nat /\ ring[h].cap \in Nat /\ ring[h].dirty \in BOOLEAN
  BY DEF Typed, Objects
<1>3. Cells(h) \in Seq(Values)
  BY <1>2 DEF Typed, Cells
<1>4. Len(Cells(h)) \in Nat /\ (Gone(h) <=> Len(Cells(h)) = 0)
  BY <1>3, EmptySeq DEF Gone
<1>5. Used(Cells(h)) \in Nat
  BY <1>3, UsedBounds
<1> QED  BY <1>1, <1>2, <1>3, <1>4, <1>5

LEMMA FromHere ==
    ASSUME Typed, NEW h \in Handles, ~Gone(h), Stands(h)
    PROVE  /\ Len(Cells(h)) > 0 /\ ring[h].at \in 1..Len(Cells(h))
           /\ Here(h) \in Seq(Values)
           /\ Len(Here(h)) = Len(Cells(h)) /\ Used(Here(h)) = Used(Cells(h))
<1>1. /\ Cells(h) \in Seq(Values) /\ Len(Cells(h)) > 0
      /\ ring[h].at \in 1..Len(Cells(h))
  BY AnObject DEF Stands
<1> QED  BY <1>1, Rotation DEF Here

LEMMA TurnedInside ==
    ASSUME Typed, NEW h \in Handles, ~Gone(h), Stands(h), NEW n \in Int
    PROVE  Turned(h, n) \in 1..Len(Cells(h))
<1> DEFINE m == ring[h].at - 1 + n
<1>1. m \in Int /\ Len(Cells(h)) \in Nat /\ Len(Cells(h)) > 0
  BY AnObject, FromHere
<1> HIDE DEF m
<1>2. m % Len(Cells(h)) \in 0..Len(Cells(h)) - 1
  BY <1>1, ModRange
<1>3. Turned(h, n) = (m % Len(Cells(h))) + 1
  BY DEF Turned, m
<1> QED  BY <1>1, <1>2, <1>3

(* No elements, and none of them used. *)
LEMMA NoneUsed ==
    ASSUME NEW cap \in Nat
    PROVE  /\ EmptyCells(cap) \in Seq(Values) /\ Len(EmptyCells(cap)) = cap
           /\ Used(EmptyCells(cap)) = 0
           /\ <<>> \in Seq(Values) /\ Len(<<>>) = 0 /\ Used(<<>>) = 0
<1>1. EmptyCells(cap) \in Seq(Values) /\ Len(EmptyCells(cap)) = cap
  BY DEF EmptyCells, Values
<1>2. Used(EmptyCells(cap)) = 0
  <2>1. {i \in DOMAIN EmptyCells(cap) : EmptyCells(cap)[i] # None} = {}
    BY DEF EmptyCells
  <2> QED  BY <2>1, FS_EmptySet DEF Used
<1>3. <<>> \in Seq(Values) /\ Len(<<>>) = 0
  BY EmptySeq
<1>4. Used(<<>>) = 0
  <2>1. {i \in DOMAIN <<>> : <<>>[i] # None} = {}
    OBVIOUS
  <2> QED  BY <2>1, FS_EmptySet DEF Used
<1> QED  BY <1>1, <1>2, <1>3, <1>4

LEMMA InitRing ==
    ASSUME RingInit
    PROVE  RingInv
<1>1. PICK caps \in RingCaps : /\ circle = [h \in Handles |-> EmptyCells(caps[h])]
                               /\ ring = [h \in Handles |-> New(h, caps[h])]
  BY DEF RingInit
<1>2. caps \in [Handles -> Nat]
  BY RingAssumption
<1>3. ASSUME NEW h \in Handles
      PROVE  /\ caps[h] \in Nat
             /\ EmptyCells(caps[h]) \in Seq(Values) /\ Len(EmptyCells(caps[h])) = caps[h]
             /\ Used(EmptyCells(caps[h])) = 0
             /\ ring[h] = New(h, caps[h]) /\ circle[h] = EmptyCells(caps[h])
  BY <1>1, <1>2, NoneUsed
<1>4. Typed
  BY <1>1, <1>2, <1>3 DEF RingInit, Typed, Objects, New
<1>5. ASSUME NEW h \in Handles PROVE Stands(h) /\ Knows(h)
  <2> DEFINE x == New(h, caps[h])
  <2>1. ring[h].at = 1 /\ ring[h].on = h /\ ring[h].len = 0 /\ ring[h].cap = caps[h]
    <3>1. x.at = 1 /\ x.on = h /\ x.len = 0 /\ x.cap = caps[h]
      BY DEF New
    <3>2. ring[h] = x
      BY <1>3
    <3> HIDE DEF x
    <3> QED  BY <3>1, <3>2
  <2>2. Cells(h) = EmptyCells(caps[h])
    BY <1>3, <2>1 DEF Cells
  <2>3. Gone(h) <=> caps[h] = 0
    BY <1>3, <1>4, <2>2, AnObject
  <2> QED  BY <1>3, <2>1, <2>2, <2>3 DEF Stands, Knows
<1> QED  BY <1>4, <1>5 DEF RingInv

(* Set and Put: the object counts what it sets, and another one on the     *)
(* same elements is noted as behind.                                       *)
LEMMA SetStep ==
    ASSUME RingInv, NEW h \in Handles, ~Gone(h), NEW v \in RingValues,
           NEW n \in Int, SetAndMove(h, v, n)
    PROVE  RingInv'
<1> DEFINE c == ring[h].on
           at == ring[h].at
           t == [Cells(h) EXCEPT ![at] = v]
           empty == Cells(h)[at] = None
           p == Peer(h)
<1>1. Typed /\ Stands(h) /\ Stands(p) /\ (linking \/ Knows(h)) /\ (linking \/ Knows(p))
  BY AnObject DEF RingInv
<1>2. at \in 1..Len(Cells(h)) /\ Cells(h) \in Seq(Values) /\ c \in Handles
      /\ Len(Cells(h)) \in Nat /\ Len(Cells(h)) > 0 /\ Used(Cells(h)) \in Nat
  BY <1>1, AnObject, FromHere
<1>3. v \in Values /\ v # None
  BY RingAssumption DEF Values
<1>4. /\ t \in Seq(Values) /\ Len(t) = Len(Cells(h))
      /\ Used(t) = IF empty THEN Used(Cells(h)) + 1 ELSE Used(Cells(h))
  BY <1>2, <1>3, SetAt
<1>5. /\ circle' = [circle EXCEPT ![c] = t]
      /\ linking' = linking
      /\ behind' = IF empty THEN behind \cup Unaware(h) ELSE behind
  BY <1>1 DEF SetAndMove, Cells, Typed
<1>6. circle'[c] = t /\ \A d \in Handles : d # c => circle'[d] = circle[d]
  BY <1>1, <1>2, <1>5 DEF Typed
<1>7. Turned(h, n) \in 1..Len(Cells(h))
  BY <1>1, TurnedInside
<1>8. /\ ring' = [ring EXCEPT
                    ![h] = [ring[h] EXCEPT !.len = IF empty /\ ~ring[h].dirty THEN @ + 1 ELSE @,
                                           !.at = Turned(h, n)]]
  BY <1>1 DEF SetAndMove, Cells, Typed, Objects
<1>9. /\ ring'[h] = [on |-> c, at |-> Turned(h, n), cap |-> ring[h].cap, dirty |-> ring[h].dirty,
                     len |-> IF empty /\ ~ring[h].dirty THEN ring[h].len + 1 ELSE ring[h].len]
      /\ ring'[p] = ring[p]
  <2>1. p # h /\ p \in Handles /\ ring[h] \in Objects
    BY <1>1, AnObject
  <2> HIDE DEF empty, c, p
  <2> QED  BY <1>1, <1>8, <2>1 DEF Typed, Objects, c
<1>10. p \in Handles /\ p # h /\ ring[p].on \in Handles
       /\ \A q \in Handles : q = h \/ q = p
  BY <1>1, AnObject
<1> HIDE DEF t, empty, p
<1>11. Typed'
  <2>1. circle' \in [Handles -> Seq(Values)]
    BY <1>1, <1>2, <1>4, <1>5 DEF Typed
  <2>2. ring'[h] \in Objects
    <3>1. ring[h].len \in Nat /\ ring[h].cap \in Nat /\ ring[h].dirty \in BOOLEAN
      BY <1>1, AnObject
    <3> QED  BY <1>2, <1>7, <1>9, <3>1 DEF Objects
  <2>3. ring' \in [Handles -> Objects]
    BY <1>1, <1>8, <1>9, <1>10, <2>2 DEF Typed
  <2> QED  BY <1>1, <1>5, <2>1, <2>3 DEF Typed
<1>12. Stands(h)' /\ (linking' \/ Knows(h)')
  <2>1. Cells(h)' = t
    BY <1>6, <1>9 DEF Cells
  <2>2. Stands(h)'
    BY <1>4, <1>7, <1>9, <2>1 DEF Stands
  <2>3. ASSUME Knows(h) PROVE Knows(h)'
    <3>1. h \in behind => h \in behind'
      BY <1>5
    <3> QED  BY <1>2, <1>4, <1>9, <2>1, <2>3, <3>1 DEF Knows
  <2> QED  BY <1>1, <1>5, <2>2, <2>3
<1>13. Stands(p)' /\ (linking' \/ Knows(p)')
  <2>1. CASE ring[p].on # c
    <3>1. Cells(p)' = Cells(p) /\ (p \in behind => p \in behind')
      BY <1>5, <1>6, <1>9, <1>10, <2>1 DEF Cells
    <3> QED  BY <1>1, <1>5, <1>9, <3>1 DEF Stands, Knows, Gone
  <2>2. CASE ring[p].on = c
    <3>1. Cells(p)' = t /\ Cells(p) = Cells(h)
      BY <1>6, <1>9, <2>2 DEF Cells
    <3>2. Stands(p)'
      <4>1. ring[p].at \in 1..Len(Cells(h))
        BY <1>1, <1>2, <3>1, AnObject, EmptySeq DEF Stands, Gone
      <4> QED  BY <1>4, <1>9, <3>1, <4>1 DEF Stands
    <3>3. ASSUME Knows(p) PROVE Knows(p)'
      <4>1. p \in behind => p \in behind'
        BY <1>5
      <4>2. CASE empty /\ ~ring[p].dirty
        <5>1. Shared
          BY <2>2 DEF Shared, Handles, p, Peer
        <5>2. p \in Unaware(h)
          BY <4>2, <5>1 DEF Unaware, p
        <5> QED  BY <1>5, <4>2, <5>2 DEF Knows
      <4>3. CASE ring[p].dirty
        BY <1>9, <4>3 DEF Knows
      <4>4. CASE ~empty
        BY <1>4, <1>9, <3>1, <3>3, <4>1, <4>4 DEF Knows
      <4> QED  BY <4>2, <4>3, <4>4
    <3> QED  BY <1>1, <1>5, <3>2, <3>3
  <2> QED  BY <2>1, <2>2
<1> QED  BY <1>10, <1>11, <1>12, <1>13 DEF RingInv

LEMMA MoveStep ==
    ASSUME RingInv, NEW h \in Handles, ~Gone(h), NEW n \in Int, Move(h, n)
    PROVE  RingInv'
<1>1. Typed /\ \A q \in Handles : Stands(q) /\ (linking \/ Knows(q))
  BY DEF RingInv
<1>2. Turned(h, n) \in 1..Len(Cells(h)) /\ ring[h] \in Objects /\ Len(Cells(h)) \in Nat
  BY <1>1, TurnedInside, AnObject
<1>3. /\ ring' = [ring EXCEPT ![h] = [ring[h] EXCEPT !.at = Turned(h, n)]]
      /\ circle' = circle /\ linking' = linking /\ behind' = behind
  BY <1>1 DEF Move, Typed, Objects
<1>4. [ring[h] EXCEPT !.at = Turned(h, n)] \in Objects
  BY <1>2 DEF Objects
<1>5. Typed'
  BY <1>1, <1>3, <1>4 DEF Typed
<1>6. ASSUME NEW q \in Handles
      PROVE  /\ ring'[q].on = ring[q].on /\ ring'[q].len = ring[q].len
             /\ ring'[q].cap = ring[q].cap /\ ring'[q].dirty = ring[q].dirty
             /\ ring'[q].at = IF q = h THEN Turned(h, n) ELSE ring[q].at
  BY <1>1, <1>2, <1>3 DEF Typed, Objects
<1>7. ASSUME NEW q \in Handles PROVE Stands(q)' /\ (linking' \/ Knows(q)')
  <2>1. Cells(q)' = Cells(q)
    BY <1>3, <1>6 DEF Cells
  <2>2. Stands(q)'
    BY <1>1, <1>2, <1>6, <2>1 DEF Stands, Gone
  <2> QED  BY <1>1, <1>3, <1>6, <2>1, <2>2 DEF Knows
<1> QED  BY <1>5, <1>7 DEF RingInv

(* A record with other counts, field by field. *)
LEMMA Counting ==
    ASSUME NEW x \in Objects, NEW u \in Nat, NEW l \in Nat, NEW b \in BOOLEAN
    PROVE  [x EXCEPT !.len = u, !.cap = l, !.dirty = b]
           = [on |-> x.on, at |-> x.at, len |-> u, cap |-> l, dirty |-> b]
<1> DEFINE y == [x EXCEPT !.len = u]
           z == [y EXCEPT !.cap = l]
           w == [z EXCEPT !.dirty = b]
<1>1. [x EXCEPT !.len = u, !.cap = l, !.dirty = b] = w
  OBVIOUS
<1>2. y \in Objects /\ y.on = x.on /\ y.at = x.at /\ y.len = u
  <2>1. y = [on |-> x.on, at |-> x.at, len |-> u, cap |-> x.cap, dirty |-> x.dirty]
    BY DEF Objects
  <2>2. y \in Objects
    BY DEF Objects
  <2> QED  BY <2>1, <2>2
<1> HIDE DEF y
<1>3. z \in Objects /\ z.on = x.on /\ z.at = x.at /\ z.len = u /\ z.cap = l
  <2>1. z = [on |-> y.on, at |-> y.at, len |-> y.len, cap |-> l, dirty |-> y.dirty]
    BY <1>2 DEF Objects
  <2>2. z \in Objects
    BY <1>2 DEF Objects
  <2> QED  BY <1>2, <2>1, <2>2
<1> HIDE DEF z
<1>4. w = [on |-> z.on, at |-> z.at, len |-> z.len, cap |-> z.cap, dirty |-> b]
  BY <1>3 DEF Objects
<1> QED  BY <1>1, <1>3, <1>4

LEMMA CountStep ==
    ASSUME RingInv, NEW h \in Handles, CheckAndUpdate(h)
    PROVE  RingInv'
<1>1. Typed /\ \A q \in Handles : Stands(q) /\ (linking \/ Knows(q))
  BY DEF RingInv
<1>2. circle' = circle /\ linking' = linking /\ behind' = behind
  BY DEF CheckAndUpdate
<1>3. CASE ~ring[h].dirty
  <2>1. ring' = ring
    BY <1>3 DEF CheckAndUpdate
  <2> QED  BY <1>1, <1>2, <2>1
              DEF RingInv, Typed, Stands, Knows, Gone, Cells
<1>4. CASE ring[h].dirty
  <2> DEFINE y == [on |-> ring[h].on, at |-> ring[h].at, len |-> Used(Cells(h)),
                   cap |-> Len(Cells(h)), dirty |-> FALSE]
  <2>1. ring' = [ring EXCEPT ![h] = y]
    <3>1. ring[h] = [on |-> ring[h].on, at |-> ring[h].at, len |-> ring[h].len,
                     cap |-> ring[h].cap, dirty |-> ring[h].dirty]
      BY <1>1, AnObject DEF Objects
    <3>2. ring' = [ring EXCEPT ![h] = [ring[h] EXCEPT !.len = Used(Cells(h)),
                                          !.cap = Len(Cells(h)), !.dirty = FALSE]]
      BY <1>1, <1>4 DEF CheckAndUpdate, Typed, Objects
    <3> DEFINE u == Used(Cells(h))
               l == Len(Cells(h))
               x == ring[h]
    <3>3. [x EXCEPT !.len = u, !.cap = l, !.dirty = FALSE]
          = [on |-> x.on, at |-> x.at, len |-> u, cap |-> l, dirty |-> FALSE]
      <4>1. x \in Objects
        BY <1>1, AnObject
      <4>2. u \in Nat /\ l \in Nat /\ FALSE \in BOOLEAN
        BY <1>1, AnObject
      <4> HIDE DEF x, u, l
      <4> QED  BY <4>1, <4>2, Counting
    <3> QED  BY <3>2, <3>3
  <2>2. y \in Objects
    BY <1>1, AnObject DEF Objects
  <2>3. ASSUME NEW q \in Handles PROVE ring'[q] = IF q = h THEN y ELSE ring[q]
    BY <1>1, <2>1 DEF Typed
  <2>4. Typed'
    BY <1>1, <1>2, <2>1, <2>2 DEF Typed
  <2>5. ASSUME NEW q \in Handles PROVE Stands(q)' /\ (linking' \/ Knows(q)')
    <3>1. ring'[q].on = ring[q].on /\ ring'[q].at = ring[q].at
      BY <2>3
    <3>2. Cells(q)' = Cells(q)
      BY <1>2, <3>1 DEF Cells
    <3>3. Stands(q)'
      BY <1>1, <3>1, <3>2 DEF Stands, Gone
    <3>4. q # h => ring'[q] = ring[q]
      BY <2>3
    <3>5. q = h => ring'[q].len = Used(Cells(q)) /\ ring'[q].cap = Len(Cells(q))
      BY <2>3
    <3> QED  BY <1>1, <1>2, <3>2, <3>3, <3>4, <3>5 DEF Knows
  <2> QED  BY <2>4, <2>5 DEF RingInv
<1> QED  BY <1>3, <1>4

(* What leaves and what stays when the k elements after h's are cut out:   *)
(* everybody who has elements stands on one of them, and nobody's counts   *)
(* are touched.                                                            *)
LEMMA Cut ==
    ASSUME Typed, NEW h \in Handles, ~Gone(h), Stands(h), Stands(Peer(h)),
           NEW k \in 0..Len(Cells(h)) - 1, NEW keep \in BOOLEAN,
           keep => Gone(Peer(h)) /\ k > 0
    PROVE  LET c == CutCells(h, k, keep)
               r == CutRings(h, k)
               p == Peer(h)
           IN  /\ c \in [Handles -> Seq(Values)] /\ r \in [Handles -> Objects]
               /\ r[h].on = ring[h].on /\ r[h].at = 1
               /\ Len(c[ring[h].on]) = Len(Cells(h)) - k
               /\ keep => Len(c[ring[p].on]) = k /\ ring[p].on # ring[h].on
               /\ r[p].len = ring[p].len /\ r[p].cap = ring[p].cap
               /\ r[p].dirty = ring[p].dirty
               /\ ~keep => \/ c[r[p].on] = <<>>
                           \/ r[p].at \in 1..Len(c[r[p].on])
               /\ ~keep /\ (~Shared \/ k = 0) =>
                     /\ Used(c[r[p].on]) = Used(Cells(p))
                     /\ Len(c[r[p].on]) = Len(Cells(p))
<1> DEFINE c == CutCells(h, k, keep)
           r == CutRings(h, k)
           p == Peer(h)
           on == ring[h].on
           s == Here(h)
           n == Len(Cells(h))
           rest == <<Head(s)>> \o SubSeq(s, k + 2, n)
           out == SubSeq(s, 2, k + 1)
           d == Distance(h)
<1>1. /\ p \in Handles /\ p # h /\ \A q \in Handles : q = h \/ q = p
      /\ on \in Handles /\ ring[p].on \in Handles /\ ring[p].at \in Nat
      /\ ring[h] \in Objects /\ ring[p] \in Objects
      /\ n \in Nat /\ Cells(p) \in Seq(Values)
      /\ Gone(p) <=> Len(Cells(p)) = 0
  BY AnObject
<1>2. /\ n > 0 /\ ring[h].at \in 1..n /\ s \in Seq(Values)
      /\ Len(s) = n /\ Used(s) = Used(Cells(h))
  BY FromHere
<1>3. /\ rest \in Seq(Values) /\ Len(rest) = n - k
      /\ k = 0 => rest = s
  <2>1. /\ Head(s) \in Values /\ Tail(s) = SubSeq(s, 2, Len(s))
        /\ s = <<Head(s)>> \o Tail(s)
    BY <1>1, <1>2, Split
  <2>2. <<Head(s)>> \in Seq(Values) /\ Len(<<Head(s)>>) = 1
    BY <2>1
  <2>3. k + 2 \in Nat /\ k \in Nat /\ k <= n - 1
    BY <1>1
  <2>4. /\ SubSeq(s, k + 2, n) \in Seq(Values)
        /\ Len(SubSeq(s, k + 2, n)) = IF k + 2 <= n THEN (n - (k + 2)) + 1 ELSE 0
    BY <1>1, <1>2, <2>3, Part
  <2> DEFINE u == SubSeq(s, k + 2, n)
  <2>5. k = 0 => u = Tail(s)
    BY <1>2, <2>1
  <2>6. Len(u) = n - k - 1
    BY <1>1, <2>3, <2>4
  <2> HIDE DEF u, s, n
  <2>7. <<Head(s)>> \o u \in Seq(Values) /\ Len(<<Head(s)>> \o u) = 1 + Len(u)
    BY <2>2, <2>4, ConcatProperties DEF u
  <2>8. 1 + (n - k - 1) = n - k
    BY <1>1, <2>3
  <2> QED  BY <2>1, <2>5, <2>6, <2>7, <2>8 DEF u
<1>4. out \in Seq(Values) /\ Len(out) = k
  <2>1. k \in Nat /\ k + 1 \in Nat /\ k + 1 <= Len(s)
    BY <1>1, <1>2
  <2>2. /\ SubSeq(s, 2, k + 1) \in Seq(Values)
        /\ Len(SubSeq(s, 2, k + 1)) = IF 2 <= k + 1 THEN ((k + 1) - 2) + 1 ELSE 0
    BY <1>2, <2>1, Part
  <2> QED  BY <2>1, <2>2
<1>5. d \in 0..n - 1
  <2>1. ring[p].at - ring[h].at \in Int
    BY <1>1, <1>2
  <2> QED  BY <1>1, <1>2, <2>1, ModRange DEF Distance
<1>6. CutOff(h, k) <=> ring[p].on = on /\ d \in 1..k
  <2>1. Shared <=> ring[p].on = on
    BY DEF Shared, Handles, Peer
  <2> QED  BY <2>1 DEF CutOff
<1>7. /\ c[on] = rest
      /\ \A e \in Handles : e # on => c[e] = IF keep \/ CutOff(h, k) THEN out ELSE circle[e]
  BY <1>1 DEF CutCells
<1>8. c \in [Handles -> Seq(Values)]
  BY <1>1, <1>3, <1>4 DEF CutCells, Typed
<1> DEFINE at == IF ring[p].on # on THEN ring[p].at
                 ELSE IF CutOff(h, k) THEN d
                 ELSE IF d = 0 THEN 1 ELSE d - k + 1
           po == IF CutOff(h, k) THEN 3 - ring[p].on ELSE ring[p].on
<1>9. r = [ring EXCEPT ![h] = [ring[h] EXCEPT !.at = 1],
                       ![p] = [ring[p] EXCEPT !.on = po, !.at = at]]
  <2>1. Shared <=> ring[p].on = on
    BY DEF Shared, Handles, Peer
  <2> QED  BY <1>1, <2>1 DEF CutRings, Typed, Objects
<1>10. at \in Nat /\ po \in Handles
  <2>1. at \in Nat
    BY <1>1, <1>5, <1>6
  <2>2. po \in Handles
    BY <1>1 DEF Handles
  <2> QED  BY <2>1, <2>2
<1> HIDE DEF p, s, n, rest, out, d, at, po, c, on
<1>11. [ring[h] EXCEPT !.at = 1] \in Objects /\ [ring[p] EXCEPT !.on = po, !.at = at] \in Objects
  BY <1>1, <1>10 DEF Objects
<1>12. r \in [Handles -> Objects]
  BY <1>1, <1>9, <1>11 DEF Typed
<1>13. r[h] = [ring[h] EXCEPT !.at = 1] /\ r[p] = [ring[p] EXCEPT !.on = po, !.at = at]
  BY <1>1, <1>9 DEF Typed
<1> HIDE DEF r
<1>14. /\ r[h].on = on /\ r[h].at = 1
       /\ r[p].on = po /\ r[p].at = at /\ r[p].len = ring[p].len
       /\ r[p].cap = ring[p].cap /\ r[p].dirty = ring[p].dirty
  BY <1>1, <1>13 DEF Objects, on
<1>15. keep => Len(c[ring[p].on]) = k /\ ring[p].on # on
  <2>1. ring[p].on = on => Cells(p) = Cells(h)
    BY DEF Cells, on
  <2>2. keep => ring[p].on # on
    BY <1>1, <1>2, <2>1 DEF p, n
  <2> QED  BY <1>1, <1>4, <1>7, <2>2
<1>16. ASSUME ~keep PROVE c[po] = <<>> \/ at \in 1..Len(c[po])
  <2>1. CASE CutOff(h, k)
    <3>1. po # on /\ at = d /\ d \in 1..k
      BY <1>1, <1>6, <2>1 DEF po, at, Handles
    <3>2. c[po] = out
      BY <1>7, <1>10, <2>1, <3>1
    <3> QED  BY <1>4, <3>1, <3>2
  <2>2. CASE ~CutOff(h, k) /\ ring[p].on = on
    <3>1. po = on /\ c[po] = rest
      BY <1>7, <2>2 DEF po
    <3>2. d = 0 \/ d > k
      BY <1>1, <1>5, <1>6, <2>2
    <3>3. at = IF d = 0 THEN 1 ELSE d - k + 1
      BY <2>2 DEF at
    <3>4. at \in 1..n - k
      BY <1>1, <1>2, <1>5, <3>2, <3>3 DEF n
    <3> QED  BY <1>3, <3>1, <3>4
  <2>3. CASE ring[p].on # on
    <3>1. ~CutOff(h, k)
      BY <1>6, <2>3
    <3>2. po = ring[p].on /\ at = ring[p].at
      BY <2>3, <3>1 DEF po, at
    <3>3. c[po] = Cells(p)
      BY <1>1, <1>7, <1>16, <2>3, <3>1, <3>2 DEF Cells
    <3>4. Cells(p) = <<>> \/ ring[p].at \in 1..Len(Cells(p))
      BY DEF Stands, Gone, p
    <3> QED  BY <3>2, <3>3, <3>4
  <2> QED  BY <2>1, <2>2, <2>3
<1>17. ASSUME ~keep, ~Shared \/ k = 0
       PROVE  Used(c[po]) = Used(Cells(p)) /\ Len(c[po]) = Len(Cells(p))
  <2>1. ~CutOff(h, k)
    BY <1>5, <1>6, <1>17 DEF CutOff
  <2>2. po = ring[p].on
    BY <2>1 DEF po
  <2>3. CASE ring[p].on = on
    <3>1. Shared
      BY <2>3 DEF Shared, Handles, Peer, p, on
    <3>2. c[po] = s /\ Cells(p) = Cells(h)
      BY <1>3, <1>7, <1>17, <2>2, <2>3, <3>1 DEF Cells, on
    <3> QED  BY <1>2, <3>2 DEF n
  <2>4. CASE ring[p].on # on
    BY <1>1, <1>7, <1>17, <2>1, <2>2, <2>4 DEF Cells
  <2> QED  BY <2>3, <2>4
<1>18. Len(c[on]) = n - k
  BY <1>3, <1>7
<1> QED  BY <1>8, <1>12, <1>14, <1>15, <1>16, <1>17, <1>18 DEF c, r, p, n, on

LEMMA LinkStep ==
    ASSUME RingInv, NEW h \in Handles, LinkCall(h)
    PROVE  RingInv'
<1> DEFINE p == Peer(h)
<1>1. /\ Typed /\ Stands(h) /\ Stands(p) /\ ~Gone(h) /\ ~Gone(p)
      /\ p \in Handles /\ p # h /\ \A q \in Handles : q = h \/ q = p
  BY AnObject DEF RingInv, LinkCall
<1>2. linking' = TRUE
  BY DEF LinkCall
<1>3. /\ Cells(h) \in Seq(Values) /\ Len(Cells(h)) \in Nat /\ Len(Cells(h)) > 0
      /\ ring[h].at \in 1..Len(Cells(h))
      /\ Here(p) \in Seq(Values) /\ Len(Here(p)) \in Nat /\ Len(Here(p)) > 0
      /\ ring[h] \in Objects /\ ring[p] \in Objects
      /\ ring[h].on \in Handles /\ ring[h].at \in Nat /\ ring[p].at \in Nat
  BY <1>1, AnObject, FromHere
<1>4. CASE Shared
  <2> DEFINE k == (Distance(h) - 1) % Len(Cells(h))
             c == CutCells(h, k, FALSE)
             r == CutRings(h, k)
  <2>1. circle' = c /\ ring' = r
    BY <1>4 DEF LinkCall
  <2>2. k \in 0..Len(Cells(h)) - 1
    <3>1. Distance(h) \in Int
      <4>1. ring[p].at - ring[h].at \in Int
        BY <1>3
      <4>2. (ring[p].at - ring[h].at) % Len(Cells(h)) \in 0..Len(Cells(h)) - 1
        BY <1>3, <4>1, ModRange
      <4> QED  BY <4>2 DEF Distance
    <3>2. Distance(h) - 1 \in Int
      BY <3>1
    <3> QED  BY <1>3, <3>2, ModRange
  <2> HIDE DEF k
  <2>3. /\ c \in [Handles -> Seq(Values)] /\ r \in [Handles -> Objects]
        /\ r[h].on = ring[h].on /\ r[h].at = 1
        /\ Len(c[ring[h].on]) = Len(Cells(h)) - k
        /\ c[r[p].on] = <<>> \/ r[p].at \in 1..Len(c[r[p].on])
    BY <1>1, <2>2, Cut
  <2> HIDE DEF c, r, p
  <2>4. Typed'
    BY <1>2, <2>1, <2>3 DEF Typed
  <2>5. Stands(h)' /\ Stands(p)'
    BY <1>3, <2>1, <2>2, <2>3 DEF Stands, Gone, Cells
  <2> QED  BY <1>1, <1>2, <2>4, <2>5 DEF RingInv
<1>5. CASE ~Shared
  <2> DEFINE s == Cells(h)
             at == ring[h].at
             a == SubSeq(s, 1, at)
             b == SubSeq(s, at + 1, Len(s))
             j == a \o Here(p) \o b
             on == ring[h].on
  <2>1. circle' = [c \in Handles |-> IF c = on THEN j ELSE <<>>]
    BY <1>5 DEF LinkCall, JoinedCells
  <2>2. ring' = [ring EXCEPT ![p] = [ring[p] EXCEPT !.on = on, !.at = at + 1]]
    BY <1>1, <1>5 DEF LinkCall, JoinedRings, Typed, Objects
  <2>3. a \in Seq(Values) /\ Len(a) = at /\ b \in Seq(Values) /\ Len(b) = Len(s) - at
    <3>1. /\ a \in Seq(Values) /\ Len(a) = IF 1 <= at THEN (at - 1) + 1 ELSE 0
      BY <1>3, Part
    <3>2. /\ b \in Seq(Values)
          /\ Len(b) = IF at + 1 <= Len(s) THEN (Len(s) - (at + 1)) + 1 ELSE 0
      BY <1>3, Part
    <3>3. Len(s) \in Nat /\ at \in 1..Len(s)
      BY <1>3
    <3> HIDE DEF a, b, s, at
    <3> QED  BY <3>1, <3>2, <3>3
  <2> HIDE DEF a, b, p
  <2>4. a \o Here(p) \in Seq(Values) /\ Len(a \o Here(p)) = at + Len(Here(p))
    <3>1. Here(p) \in Seq(Values)
      BY <1>3
    <3>2. a \in Seq(Values) /\ Len(a) = at
      BY <2>3
    <3> HIDE DEF at
    <3> QED  BY <3>1, <3>2, ConcatProperties
  <2>5. j \in Seq(Values) /\ Len(j) = at + Len(Here(p)) + (Len(s) - at)
    <3> DEFINE i == a \o Here(p)
    <3>1. i \in Seq(Values) /\ Len(i) = at + Len(Here(p))
      BY <2>4
    <3> HIDE DEF i, at
    <3>2. i \o b \in Seq(Values) /\ Len(i \o b) = Len(i) + Len(b)
      BY <2>3, <3>1, ConcatProperties
    <3>3. j = i \o b
      BY DEF i
    <3> QED  BY <2>3, <3>1, <3>2, <3>3
  <2> HIDE DEF j
  <2>6. at \in 1..Len(j) /\ at + 1 \in 1..Len(j)
    BY <1>3, <2>5
  <2>7. <<>> \in Seq(Values)
    BY EmptySeq
  <2>8. circle' \in [Handles -> Seq(Values)] /\ circle'[on] = j
    BY <1>3, <2>1, <2>5, <2>7
  <2>9. [ring[p] EXCEPT !.on = on, !.at = at + 1] \in Objects
    <3>1. at + 1 \in Nat /\ on \in Handles
      BY <1>3
    <3> HIDE DEF on, at
    <3> QED  BY <1>3, <3>1 DEF Objects
  <2>10. ring' \in [Handles -> Objects] /\ ring'[h] = ring[h]
         /\ ring'[p].on = on /\ ring'[p].at = at + 1
    <3>1. ring'[p] = [ring[p] EXCEPT !.on = on, !.at = at + 1] /\ ring'[h] = ring[h]
          /\ ring' \in [Handles -> Objects]
      BY <1>1, <2>2, <2>9 DEF Typed
    <3> HIDE DEF on, at
    <3> QED  BY <1>3, <3>1 DEF Objects
  <2>11. Typed'
    BY <1>2, <2>8, <2>10 DEF Typed
  <2>12. Stands(h)' /\ Stands(p)'
    BY <2>6, <2>8, <2>10 DEF Stands, Cells
  <2> QED  BY <1>1, <1>2, <2>11, <2>12 DEF RingInv
<1> QED  BY <1>4, <1>5

(* The other object is only marked, here; what is dirty knows nothing.     *)
LEMMA Marked ==
    ASSUME NEW rs \in [Handles -> Objects], NEW hs, NEW q \in Handles
    PROVE  LET m == MarkDirty(rs, hs)
           IN  /\ m \in [Handles -> Objects]
               /\ m[q].on = rs[q].on /\ m[q].at = rs[q].at
               /\ q \in hs => m[q].dirty
               /\ q \notin hs => m[q] = rs[q]
<1> DEFINE m == MarkDirty(rs, hs)
<1>1. ASSUME NEW x \in Handles
      PROVE  /\ rs[x] \in Objects
             /\ [rs[x] EXCEPT !.len = 0, !.cap = 0, !.dirty = TRUE]
                = [on |-> rs[x].on, at |-> rs[x].at, len |-> 0, cap |-> 0, dirty |-> TRUE]
             /\ rs[x].on \in Handles /\ rs[x].at \in Nat
  <2>1. rs[x] \in Objects
    OBVIOUS
  <2>2. rs[x].on \in Handles /\ rs[x].at \in Nat
    BY <2>1 DEF Objects
  <2>3. 0 \in Nat /\ TRUE \in BOOLEAN
    OBVIOUS
  <2> DEFINE o == rs[x]
  <2>4. [o EXCEPT !.len = 0, !.cap = 0, !.dirty = TRUE]
        = [on |-> o.on, at |-> o.at, len |-> 0, cap |-> 0, dirty |-> TRUE]
    <3>1. o \in Objects
      BY <2>1
    <3> HIDE DEF o
    <3> QED  BY <2>3, <3>1, Counting
  <2> QED  BY <2>1, <2>2, <2>4
<1>2. m = [x \in Handles |->
             IF x \in hs
             THEN [on |-> rs[x].on, at |-> rs[x].at, len |-> 0, cap |-> 0, dirty |-> TRUE]
             ELSE rs[x]]
  BY <1>1 DEF MarkDirty
<1> HIDE DEF m
<1>3. m \in [Handles -> Objects]
  <2>1. ASSUME NEW x \in Handles PROVE m[x] \in Objects
    <3>1. CASE x \in hs
      <4>1. m[x] = [on |-> rs[x].on, at |-> rs[x].at, len |-> 0, cap |-> 0, dirty |-> TRUE]
        BY <1>2, <3>1
      <4>2. rs[x].on \in Handles /\ rs[x].at \in Nat /\ 0 \in Nat /\ TRUE \in BOOLEAN
        BY <1>1
      <4> QED  BY <4>1, <4>2 DEF Objects
    <3>2. CASE x \notin hs
      BY <1>1, <1>2, <3>2
    <3> QED  BY <3>1, <3>2
  <2> QED  BY <1>2, <2>1
<1>4. /\ q \in hs => m[q] = [on |-> rs[q].on, at |-> rs[q].at, len |-> 0, cap |-> 0, dirty |-> TRUE]
      /\ q \notin hs => m[q] = rs[q]
  BY <1>2
<1>5. m[q].on = rs[q].on /\ m[q].at = rs[q].at /\ (q \in hs => m[q].dirty)
  <2>1. CASE q \in hs
    BY <1>4, <2>1
  <2>2. CASE q \notin hs
    BY <1>4, <2>2
  <2> QED  BY <2>1, <2>2
<1> QED  BY <1>3, <1>4, <1>5 DEF m

LEMMA LinkReturnStep ==
    ASSUME RingInv, LinkReturn
    PROVE  RingInv'
<1>1. Typed /\ \A q \in Handles : Stands(q)
  BY DEF RingInv
<1>2. /\ ring' = MarkDirty(ring, Handles) /\ circle' = circle /\ linking' = FALSE
  BY DEF LinkReturn, LinkMarks
<1>3. ring \in [Handles -> Objects]
  BY <1>1 DEF Typed
<1>4. ASSUME NEW q \in Handles
      PROVE  /\ ring' \in [Handles -> Objects]
             /\ ring'[q].on = ring[q].on /\ ring'[q].at = ring[q].at /\ ring'[q].dirty
  BY <1>2, <1>3, Marked
<1>5. Typed'
  <2>1. 1 \in Handles
    BY DEF Handles
  <2> QED  BY <1>1, <1>2, <1>4, <2>1 DEF Typed
<1>6. ASSUME NEW q \in Handles PROVE Stands(q)' /\ Knows(q)'
  <2>1. Cells(q)' = Cells(q)
    BY <1>2, <1>4 DEF Cells
  <2> QED  BY <1>1, <1>4, <2>1 DEF Stands, Gone, Knows
<1> QED  BY <1>5, <1>6 DEF RingInv

(* The object cuts elements out and is dirty; who else remembers them is   *)
(* noted as behind.                                                        *)
LEMMA CutStep ==
    ASSUME RingInv, NEW h \in Handles, ~Gone(h), NEW k \in 0..Len(Cells(h)) - 1,
           circle' = CutCells(h, k, FALSE),
           ring' = MarkDirty(CutRings(h, k), {h}),
           behind' = AfterCut(h, k), linking' = linking
    PROVE  RingInv'
<1> DEFINE p == Peer(h)
           c == CutCells(h, k, FALSE)
           r == CutRings(h, k)
<1>1. /\ Typed /\ Stands(h) /\ Stands(p) /\ (linking \/ Knows(p))
      /\ p \in Handles /\ p # h /\ \A q \in Handles : q = h \/ q = p
      /\ Len(Cells(h)) \in Nat
  BY AnObject DEF RingInv
<1>2. /\ c \in [Handles -> Seq(Values)] /\ r \in [Handles -> Objects]
      /\ r[h].on = ring[h].on /\ r[h].at = 1
      /\ Len(c[ring[h].on]) = Len(Cells(h)) - k
      /\ r[p].len = ring[p].len /\ r[p].cap = ring[p].cap
      /\ r[p].dirty = ring[p].dirty
      /\ c[r[p].on] = <<>> \/ r[p].at \in 1..Len(c[r[p].on])
      /\ (~Shared \/ k = 0) => /\ Used(c[r[p].on]) = Used(Cells(p))
                               /\ Len(c[r[p].on]) = Len(Cells(p))
  BY <1>1, Cut
<1> HIDE DEF c, r, p
<1>3. /\ ring' \in [Handles -> Objects]
      /\ ring'[h].on = ring[h].on /\ ring'[h].at = 1 /\ ring'[h].dirty
      /\ ring'[p] = r[p]
  <2>1. ring' = MarkDirty(r, {h}) /\ h \in {h} /\ p \notin {h}
    BY <1>1 DEF r
  <2>2. r \in [Handles -> Objects]
    BY <1>2
  <2> DEFINE m == MarkDirty(r, {h})
  <2>3. /\ m \in [Handles -> Objects]
        /\ m[h].on = r[h].on /\ m[h].at = r[h].at /\ m[h].dirty
    BY <2>1, <2>2, Marked
  <2>4. m[p] = r[p]
    BY <1>1, <2>1, <2>2, Marked
  <2> HIDE DEF m
  <2>5. r[h].on = ring[h].on /\ r[h].at = 1
    BY <1>2
  <2>6. ring' = m
    BY <2>1 DEF m
  <2> QED  BY <2>3, <2>4, <2>5, <2>6
<1>4. ring'[p] = r[p]
  BY <1>3
<1>5. Typed'
  BY <1>1, <1>2, <1>3 DEF Typed, c
<1>6. circle' = c
  BY DEF c
<1>7. Stands(h)' /\ Knows(h)'
  <2>1. Knows(h)'
    BY <1>3 DEF Knows
  <2>2. Cells(h)' = c[ring[h].on]
    BY <1>3, <1>6 DEF Cells
  <2>3. 1 \in 1..Len(Cells(h)) - k
    BY <1>1
  <2>4. Stands(h)'
    BY <1>2, <1>3, <2>2, <2>3 DEF Stands
  <2> QED  BY <2>1, <2>4
<1>8. Stands(p)'
  BY <1>2, <1>4, <1>6 DEF Stands, Gone, Cells
<1>9. ASSUME Knows(p) PROVE Knows(p)'
  <2>1. p \in behind => p \in behind'
    BY <1>1 DEF AfterCut
  <2>2. CASE ring[p].dirty
    BY <1>2, <1>4, <2>2 DEF Knows
  <2>3. CASE ~Shared \/ k = 0
    BY <1>2, <1>4, <1>6, <1>9, <2>1, <2>3 DEF Knows, Cells
  <2>4. CASE Shared /\ k # 0 /\ ~ring[p].dirty
    <3>1. k > 0
      BY <1>1, <2>4
    <3>2. p \in Unaware(h)
      BY <2>4 DEF Unaware, p
    <3>3. p \in behind'
      BY <1>1, <3>1, <3>2 DEF AfterCut
    <3> QED  BY <3>3 DEF Knows
  <2> QED  BY <2>2, <2>3, <2>4
<1> QED  BY <1>1, <1>5, <1>7, <1>8, <1>9 DEF RingInv

LEMMA LinkSelfStep ==
    ASSUME RingInv, NEW h \in Handles, LinkSelfCall(h)
    PROVE  RingInv'
<1> DEFINE k == Len(Cells(h)) - 1
<1>1. ~Gone(h) /\ Typed /\ Stands(h)
  BY DEF RingInv, LinkSelfCall
<1>2. k \in 0..Len(Cells(h)) - 1
  BY <1>1, AnObject
<1>3. /\ circle' = CutCells(h, k, FALSE) /\ ring' = MarkDirty(CutRings(h, k), {h})
      /\ behind' = AfterCut(h, k) /\ linking' = linking
  BY DEF LinkSelfCall
<1> HIDE DEF k
<1> QED  BY <1>1, <1>2, <1>3, CutStep

(* Unlink, and the object that is given the ring it returns. *)
LEMMA UnlinkStep ==
    ASSUME RingInv, NEW h \in Handles, ~Gone(h), NEW n \in Int, Unlink(h, n),
           linking' = linking
    PROVE  RingInv'
<1> DEFINE p == Peer(h)
           k == n % Len(Cells(h))
<1>1. /\ Typed /\ Stands(h) /\ Stands(p) /\ (linking \/ Knows(p))
      /\ p \in Handles /\ p # h /\ \A q \in Handles : q = h \/ q = p
      /\ Len(Cells(h)) \in Nat /\ Len(Cells(h)) > 0
      /\ ring[h].on \in Handles /\ ring[p].on \in Handles
  BY AnObject DEF RingInv
<1>2. k \in 0..Len(Cells(h)) - 1
  BY <1>1, ModRange
<1>3. CASE n <= 0
  <2>1. /\ ring' = MarkDirty(ring, {h}) /\ circle' = circle /\ behind' = behind \ {h}
    BY <1>3 DEF Unlink
  <2>2. ring \in [Handles -> Objects] /\ h \in {h} /\ p \notin {h}
    BY <1>1 DEF Typed
  <2>3. /\ ring' \in [Handles -> Objects]
        /\ ring'[h].on = ring[h].on /\ ring'[h].at = ring[h].at /\ ring'[h].dirty
    BY <2>1, <2>2, Marked
  <2>4. ring'[p] = ring[p]
    BY <1>1, <2>1, <2>2, Marked
  <2>5. Cells(h)' = Cells(h) /\ Cells(p)' = Cells(p)
    BY <2>1, <2>3, <2>4 DEF Cells
  <2>6. Typed'
    BY <1>1, <2>1, <2>3 DEF Typed
  <2>7. Stands(h)' /\ Knows(h)' /\ Stands(p)'
    BY <1>1, <2>3, <2>4, <2>5 DEF Stands, Gone, Knows
  <2>8. Knows(p) => Knows(p)'
    BY <1>1, <2>1, <2>4, <2>5 DEF Knows
  <2> QED  BY <1>1, <2>6, <2>7, <2>8 DEF RingInv
<1>4. CASE n > 0 /\ ~Gone(p)
  <2> DEFINE r == MarkDirty(CutRings(h, k), {h})
  <2>1. /\ circle' = CutCells(h, k, FALSE)
        /\ ring' = [r EXCEPT ![p] = @] /\ behind' = AfterCut(h, k) \ {}
    <3> DEFINE b == (n > 0 /\ Gone(p)) /\ k > 0
    <3>1. ~(n <= 0)
      BY <1>4
    <3>2. /\ circle' = CutCells(h, k, b)
          /\ ring' = [r EXCEPT ![p] = @] /\ behind' = AfterCut(h, k) \ {}
      BY <1>4, <3>1 DEF Unlink
    <3>3. CutCells(h, k, b) = CutCells(h, k, FALSE)
      BY <1>4 DEF CutCells
    <3> QED  BY <3>2, <3>3
  <2>2. r = [r EXCEPT ![p] = r[p]]
    <3>1. r = [q \in Handles |-> r[q]]
      BY DEF MarkDirty
    <3> HIDE DEF r
    <3> QED  BY <3>1
  <2>3. ring' = r /\ behind' = AfterCut(h, k)
    BY <2>1, <2>2
  <2> HIDE DEF k
  <2> QED  BY <1>2, <2>1, <2>3, CutStep
<1>5. CASE n > 0 /\ Gone(p)
  <2> DEFINE keep == (n > 0 /\ Gone(p)) /\ k > 0
             c == CutCells(h, k, keep)
             r == CutRings(h, k)
             m == MarkDirty(r, {h})
             x == [on |-> IF k > 0 THEN ring[p].on ELSE ring[h].on,
                   at |-> IF k > 0 \/ Len(Cells(h)) = 1 THEN 1 ELSE 2,
                   len |-> 0, cap |-> 0, dirty |-> TRUE]
  <2>1. circle' = c /\ ring' = [m EXCEPT ![p] = x]
    <3>1. ~(n <= 0)
      BY <1>5
    <3> QED  BY <1>5, <3>1 DEF Unlink
  <2>2. keep \in BOOLEAN /\ (keep => Gone(p) /\ k > 0)
    BY <1>5
  <2> HIDE DEF k
  <2>3. /\ c \in [Handles -> Seq(Values)] /\ r \in [Handles -> Objects]
        /\ r[h].on = ring[h].on /\ r[h].at = 1
        /\ Len(c[ring[h].on]) = Len(Cells(h)) - k
        /\ keep => Len(c[ring[p].on]) = k
    BY <1>1, <1>2, <2>2, Cut
  <2> HIDE DEF c, r, m, keep, p
  <2>4. /\ m \in [Handles -> Objects]
        /\ m[h].on = ring[h].on /\ m[h].at = 1 /\ m[h].dirty
    <3>1. r \in [Handles -> Objects] /\ r[h].on = ring[h].on /\ r[h].at = 1
      BY <2>3
    <3>2. /\ m \in [Handles -> Objects] /\ m[h].on = r[h].on /\ m[h].at = r[h].at
          /\ m[h].dirty
      <4> DEFINE y == MarkDirty(r, {h})
      <4>1. h \in {h} /\ y = m
        BY DEF m
      <4>2. /\ y \in [Handles -> Objects] /\ y[h].on = r[h].on /\ y[h].at = r[h].at
            /\ y[h].dirty
        BY <3>1, <4>1, Marked
      <4> QED  BY <4>1, <4>2
    <3> QED  BY <3>1, <3>2
  <2>5. x \in Objects /\ x.dirty
    <3>1. TRUE \in BOOLEAN /\ 0 \in Nat /\ 1 \in Nat /\ 2 \in Nat
      OBVIOUS
    <3> QED  BY <1>1, <3>1 DEF Objects
  <2>6. x.at \in 1..Len(c[x.on])
    <3>1. CASE k > 0
      <4>1. Len(c[ring[p].on]) = k
        BY <1>5, <2>3, <3>1 DEF keep
      <4>2. x.on = ring[p].on /\ x.at = 1
        BY <3>1
      <4> HIDE DEF x
      <4> QED  BY <1>1, <1>2, <3>1, <4>1, <4>2
    <3>2. CASE ~(k > 0)
      <4>1. k = 0
        BY <1>1, <1>2, <3>2
      <4>2. x.on = ring[h].on /\ x.at = IF Len(Cells(h)) = 1 THEN 1 ELSE 2
        BY <3>2
      <4>3. Len(c[ring[h].on]) = Len(Cells(h))
        BY <1>1, <2>3, <4>1
      <4> HIDE DEF x
      <4>4. x.at \in 1..Len(Cells(h))
        BY <1>1, <4>2
      <4> QED  BY <4>2, <4>3, <4>4
    <3> QED  BY <3>1, <3>2
  <2> HIDE DEF x
  <2>7. ring' \in [Handles -> Objects] /\ ring'[h] = m[h] /\ ring'[p] = x
    BY <1>1, <2>1, <2>4, <2>5
  <2>8. Typed'
    BY <1>1, <2>1, <2>3, <2>7 DEF Typed
  <2>9. Knows(h)' /\ Knows(p)'
    BY <2>4, <2>5, <2>7 DEF Knows
  <2>10. Stands(p)'
    BY <2>1, <2>6, <2>7 DEF Stands, Cells
  <2>11. Stands(h)'
    <3>1. Cells(h)' = c[ring[h].on] /\ ring'[h].at = 1
      BY <2>1, <2>4, <2>7 DEF Cells
    <3>2. 1 \in 1..Len(Cells(h)) - k
      BY <1>1, <1>2
    <3> QED  BY <2>3, <3>1, <3>2 DEF Stands
  <2> QED  BY <1>1, <2>8, <2>9, <2>10, <2>11 DEF RingInv
<1> QED  BY <1>3, <1>4, <1>5

LEMMA ForgetStep ==
    ASSUME RingInv, NEW h \in Handles, Forget(h)
    PROVE  RingInv'
<1> DEFINE p == Peer(h)
           c == Peer(ring[p].on)
           x == New(c, 0)
<1>1. /\ Typed /\ Stands(p) /\ (linking \/ Knows(p))
      /\ p \in Handles /\ p # h /\ \A q \in Handles : q = h \/ q = p
      /\ ring[p].on \in Handles
  BY AnObject DEF RingInv
<1>2. c \in Handles /\ c # ring[p].on
  BY <1>1 DEF Handles, Peer
<1>3. /\ ring' = [ring EXCEPT ![h] = x] /\ circle' = [circle EXCEPT ![c] = <<>>]
      /\ behind' = behind \ {h} /\ linking' = linking
  BY DEF Forget
<1> HIDE DEF c, p
<1>4. x \in Objects /\ x.on = c /\ x.len = 0 /\ x.cap = 0
  BY <1>2 DEF New, Objects
<1> HIDE DEF x
<1>5. <<>> \in Seq(Values) /\ Len(<<>>) = 0 /\ Used(<<>>) = 0
  BY NoneUsed
<1>6. /\ ring' \in [Handles -> Objects] /\ ring'[h] = x /\ ring'[p] = ring[p]
      /\ circle' \in [Handles -> Seq(Values)] /\ circle'[c] = <<>>
      /\ circle'[ring[p].on] = circle[ring[p].on]
  BY <1>1, <1>2, <1>3, <1>4, <1>5 DEF Typed
<1>7. Typed'
  BY <1>1, <1>3, <1>6 DEF Typed
<1>8. Stands(h)' /\ Knows(h)'
  BY <1>4, <1>5, <1>6 DEF Stands, Gone, Knows, Cells
<1>9. Cells(p)' = Cells(p) /\ (p \in behind => p \in behind')
  BY <1>1, <1>3, <1>6 DEF Cells
<1>10. Stands(p)' /\ (Knows(p) => Knows(p)')
  BY <1>1, <1>6, <1>9 DEF Stands, Gone, Knows
<1> QED  BY <1>1, <1>3, <1>7, <1>8, <1>10 DEF RingInv

LEMMA RingStep ==
    ASSUME RingInv, RingNext
    PROVE  RingInv'
<1>1. ASSUME NEW h \in Handles, RingCall(h) PROVE RingInv'
  <2>1. ~Gone(h)
    BY <1>1 DEF RingCall
  <2>2. RingTurns \subseteq Int /\ 0 \in Int /\ 1 \in Int
    BY RingAssumption
  <2>3. CASE \E v \in RingValues : Set(h, v)
    BY <2>1, <2>2, <2>3, SetStep DEF Set
  <2>4. CASE \E v \in RingValues : Put(h, v)
    BY <2>1, <2>2, <2>4, SetStep DEF Put
  <2>5. CASE \E n \in RingTurns : Move(h, n)
    BY <2>1, <2>2, <2>5, MoveStep
  <2>6. CASE CheckAndUpdate(h)
    BY <2>6, CountStep
  <2> QED  BY <1>1, <2>3, <2>4, <2>5, <2>6 DEF RingCall
<1>2. ASSUME NEW h \in Handles, UnlinkCall(h) PROVE RingInv'
  <2>1. RingTurns \subseteq Int
    BY RingAssumption
  <2> QED  BY <1>2, <2>1, UnlinkStep DEF UnlinkCall
<1> QED  BY <1>1, <1>2, LinkStep, LinkSelfStep, ForgetStep, LinkReturnStep DEF RingNext
-----------------------------------------------------------------------------
LEMMA UpToNoneAll ==
    ASSUME NEW s \in Seq(Values), \A i \in 1..Len(s) : s[i] # None
    PROVE  UpToNone(s) = s
<1>1. {i \in 1..Len(s) : s[i] = None} = {}
  OBVIOUS
<1>2. Seqs!SelectInSeq(s, LAMBDA v : v = None) = 0
  BY <1>1 DEF Seqs!SelectInSeq
<1> QED  BY <1>2 DEF UpToNone

(* A ring without a hole is given whole, in both directions. *)
LEMMA Sliced ==
    ASSUME Typed, NEW h \in Handles, ~Gone(h), Stands(h),
           Used(Cells(h)) = Len(Cells(h))
    PROVE  /\ SliceNext(h) = Here(h)
           /\ SlicePrev(h) = <<Head(Here(h))>> \o Seqs!Reverse(Tail(Here(h)))
<1> DEFINE s == Here(h)
           t == Tail(s)
           r == Seqs!Reverse(t)
<1>1. s \in Seq(Values) /\ Len(s) \in Nat /\ Len(s) > 0 /\ Used(s) = Len(s)
  BY FromHere, AnObject
<1>2. \A i \in 1..Len(s) : s[i] # None
  BY <1>1, UsedBounds
<1>3. /\ Head(s) \in Values /\ t \in Seq(Values) /\ Len(t) = Len(s) - 1
      /\ Head(s) = s[1] /\ s = <<Head(s)>> \o t
      /\ \A i \in 1..Len(t) : t[i] = s[i + 1]
  BY <1>1, Split
<1>4. \A i \in 1..Len(t) : t[i] # None /\ t[i] \in Values
  BY <1>1, <1>2, <1>3, ElementOfSeq
<1>5. Head(s) # None
  BY <1>1, <1>2, <1>3
<1> HIDE DEF t
<1>6. r \in Seq(Values) /\ \A i \in 1..Len(r) : r[i] # None
  <2>1. r = [i \in 1..Len(t) |-> t[(Len(t) - i) + 1]]
    BY DEF Seqs!Reverse
  <2> HIDE DEF r
  <2>2. Len(t) \in Nat
    BY <1>3, LenProperties
  <2>3. \A i \in 1..Len(t) : (Len(t) - i) + 1 \in 1..Len(t)
    BY <2>2
  <2>4. \A i \in 1..Len(t) : r[i] \in Values /\ r[i] # None
    BY <1>4, <2>1, <2>3
  <2>5. r \in [1..Len(t) -> Values]
    BY <2>1, <2>4
  <2>6. r \in Seq(Values) /\ Len(r) = Len(t)
    BY <2>2, <2>5
  <2> QED  BY <2>4, <2>6
<1>7. SliceFrom(Head(s), t) = <<Head(s)>> \o t
  BY <1>3, <1>4, <1>5, UpToNoneAll DEF SliceFrom
<1> HIDE DEF r
<1>8. SliceFrom(Head(s), r) = <<Head(s)>> \o r
  BY <1>5, <1>6, UpToNoneAll DEF SliceFrom
<1> QED  BY <1>3, <1>7, <1>8 DEF SliceNext, SlicePrev, t, r

(* gring's remembered counts and its slices, through Set, Put, Move, Link, *)
(* Unlink and the calls that recount, in any order on two ring objects,    *)
(* apart or on the same elements: except between the two halves of a Link, *)
(* and except where another object has changed the elements since the      *)
(* count, what is not dirty is right.                                      *)
THEOREM RingKnowsItsCounts == RingSpec => []RingCounts
<1>1. RingInit => RingInv
  BY InitRing
<1>2. RingInv /\ [RingNext]_ringVars => RingInv'
  <2>1. RingInv /\ UNCHANGED ringVars => RingInv'
    BY DEF RingInv, ringVars, Typed, Stands, Knows, Gone, Cells
  <2> QED  BY <2>1, RingStep
<1>3. RingInv => RingCounts
  <2>1. ASSUME RingInv, NEW h \in Handles PROVE Counted(h)
    <3>1. Typed /\ Stands(h) /\ (linking \/ Knows(h))
      BY <2>1 DEF RingInv
    <3>2. ~Gone(h) /\ Used(Cells(h)) = Len(Cells(h)) =>
             /\ SliceNext(h) = Here(h)
             /\ SlicePrev(h) = <<Head(Here(h))>> \o Seqs!Reverse(Tail(Here(h)))
      BY <3>1, Sliced
    <3> QED  BY <3>1, <3>2 DEF Counted, Knows
  <2> QED  BY <2>1 DEF RingCounts
<1> QED  BY <1>1, <1>2, <1>3, PTL DEF RingSpec
=============================================================================
