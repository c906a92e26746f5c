-------------------------- MODULE QueueOnList_proofs --------------------------
(***************************************************************************)
(* With Pushes that do not overlap, for any number of values, consumers    *)
(* and closers and any batch and queue size: the linked list is intact     *)
(* whenever nobody is inside PushBack, and the queue on the linked list    *)
(* implements BlockingQueue.                                               *)
(*                                                                         *)
(* The argument: one producer allocates its elements in the order in which *)
(* they are linked, and the loop takes them from the front, so the list is *)
(* always the run of elements Front..Len(pushed), plus, in the middle of a *)
(* PushBack, a new element of which no more than next or prev is linked.   *)
(***************************************************************************)
EXTENDS QueueOnList, SequenceTheorems, WellFoundedInduction, TLAPS

(* Push calls do not overlap, because at most one goroutine makes them. *)
OneProducer == \A p, q \in Producers : p = q

Last == Len(pushed)
Front == Last - len + 1

(* How far next and prev reach: to the new element, once it is linked. *)
At(steps) == \E p \in Producers : push[p].step \in steps
Fwd == IF At({"linkNext", "readLen", "writeLen"}) THEN Last + 1 ELSE Last
Bwd == IF At({"readLen", "writeLen"}) THEN Last + 1 ELSE Last

(* The neighbours of e in a ring of the root and the elements a..b. *)
NextIn(e, a, b) ==
    IF e = b \/ (e = Root /\ b < a) THEN Root
    ELSE IF e = Root THEN a ELSE e + 1
PrevIn(e, a, b) ==
    IF e = a \/ (e = Root /\ b < a) THEN Root
    ELSE IF e = Root THEN b ELSE e - 1

Nodes == {Root} \cup Elements
Places ==
    [at : Nodes \cup {Nil}, elem : Elements \cup {Nil}, seen : Nat,
     step : {"out", "aim", "linkPrev", "linkNext", "readLen", "writeLen"}]
TypeInv ==
    /\ limit = 0
    /\ next \in [Nodes -> Nodes \cup {Nil}]
    /\ prev \in [Nodes -> Nodes \cup {Nil}]
    /\ made \in 0..MaxPushes
    /\ len \in Nat
    /\ pushed \in Seq(Nat)
    /\ todo \in Nat
    /\ push \in [Producers -> Places]

(* A PushBack has allocated the element after the last one, aims at the    *)
(* end of the list, and nobody changes the length while it counts.         *)
PushInv ==
    \A p \in Producers :
        LET e == push[p].elem IN
        IF push[p].step = "out" THEN push[p] = Idle /\ made = Last
        ELSE /\ prod[p] = "idle"
             /\ made = Last + 1 /\ e = made
             /\ push[p].at = PrevIn(Root, Front, Last)
             /\ push[p].step \in {"linkPrev", "linkNext"} =>
                    /\ prev[e] = push[p].at
                    /\ next[e] = Root
             /\ push[p].step = "writeLen" => push[p].seen = len

RingInv ==
    /\ len <= Last /\ Last <= made
    /\ owned = Front..Bwd
    /\ \A e \in {Root} \cup (Front..Fwd) : next[e] = NextIn(e, Front, Fwd)
    /\ \A e \in {Root} \cup (Front..Bwd) : prev[e] = PrevIn(e, Front, Bwd)

(* The batch never asks for more than the list holds: only the loop takes. *)
BatchInv ==
    /\ loop = "batch" => todo <= len
    /\ loop = "send" => todo > 0 /\ todo - 1 <= len

ListInv == TypeInv /\ PushInv /\ RingInv /\ BatchInv
-----------------------------------------------------------------------------
(* With one producer, where the PushBack is is where this producer is. *)
LEMMA OnlyOne ==
    ASSUME OneProducer, NEW p \in Producers
    PROVE  /\ \A S : At(S) <=> push[p].step \in S
           /\ \A S : At(S)' <=> push'[p].step \in S
           /\ \A q \in Producers : q = p
BY DEF OneProducer, At

LEMMA InitListInv ==
    ASSUME Init
    PROVE  ListInv
<1> USE DEF Init, Queue!Init, Root, Nil, Nodes, Elements, Idle
<1>0. MaxPushes \in Nat /\ Limits = {0}
  BY ListAssumption DEF Queue!QueueAssumption
<1>1. ~ At({"linkNext", "readLen", "writeLen"}) /\ ~ At({"readLen", "writeLen"})
  BY DEF At
<1>2. Last = 0 /\ Front = 1 /\ Fwd = 0 /\ Bwd = 0
  BY <1>1 DEF Last, Front, Fwd, Bwd
<1>3. TypeInv
  BY <1>0 DEF TypeInv, Places
<1>4. PushInv
  BY <1>2 DEF PushInv
<1>5. RingInv
  BY <1>2 DEF RingInv, NextIn, PrevIn
<1>6. BatchInv
  BY DEF BatchInv
<1> QED  BY <1>3, <1>4, <1>5, <1>6 DEF ListInv

LEMMA EnterStep ==
    ASSUME ListInv, OneProducer, NEW p \in Producers, PushEnter(p)
    PROVE  ListInv'
<1> USE DEF PushEnter, queueVars
<1>0. MaxPushes \in Nat
  BY ListAssumption DEF Queue!QueueAssumption
<1>1. /\ push[p].step = "out" /\ push'[p].step = "aim"
      /\ push'[p].at = prev[Root] /\ push'[p].elem = made + 1
      /\ made = Last /\ made + 1 \in Elements /\ Last \in Nat
  BY <1>0 DEF ListInv, TypeInv, Places, PushInv, Last, Idle, Elements
<1>2. Fwd = Last /\ Bwd = Last /\ Fwd' = Last' /\ Bwd' = Last' /\ Last' = Last
  BY <1>1, OnlyOne DEF Fwd, Bwd, Last
<1>3. Front' = Front
  BY <1>2 DEF Front
<1>4. prev[Root] = PrevIn(Root, Front, Last) /\ prev[Root] \in Nodes \cup {Nil}
  BY <1>2 DEF ListInv, RingInv, TypeInv, Nodes
<1>5. TypeInv'
  BY <1>0, <1>1, <1>4 DEF ListInv, TypeInv, Places, Nodes, Elements
<1>6. PushInv'
  BY <1>1, <1>2, <1>3, <1>4, OnlyOne DEF PushInv
<1>7. RingInv'
  BY <1>1, <1>2, <1>3 DEF ListInv, RingInv
<1>8. BatchInv'
  BY DEF ListInv, BatchInv
<1> QED  BY <1>5, <1>6, <1>7, <1>8 DEF ListInv

LEMMA AimStep ==
    ASSUME ListInv, OneProducer, NEW p \in Producers, PushAim(p)
    PROVE  ListInv'
<1> USE DEF PushAim, queueVars
<1> DEFINE e == push[p].elem
           at == push[p].at
<1>0. MaxPushes \in Nat
  BY ListAssumption DEF Queue!QueueAssumption
<1>1. /\ push[p].step = "aim" /\ push'[p].step = "linkPrev"
      /\ push'[p].at = at /\ push'[p].elem = e
      /\ made = Last + 1 /\ e = made /\ e \in Elements /\ Last \in Nat
      /\ prod[p] = "idle" /\ at = PrevIn(Root, Front, Last)
  BY <1>0 DEF ListInv, TypeInv, Places, PushInv, Last, Elements
<1>2. Fwd = Last /\ Bwd = Last /\ Fwd' = Last' /\ Bwd' = Last' /\ Last' = Last
  BY <1>1, OnlyOne DEF Fwd, Bwd, Last
<1>3. Front' = Front /\ Front \in 1..Last + 1
  BY <1>1, <1>2 DEF Front, ListInv, TypeInv, RingInv
<1>4. next[at] = Root /\ at \in {Root} \cup Front..Last /\ at # e
  BY <1>1, <1>2, <1>3 DEF ListInv, RingInv, PrevIn, NextIn, Root
<1>5. /\ prev' = [prev EXCEPT ![e] = at] /\ next' = [next EXCEPT ![e] = Root]
      /\ e \in Nodes /\ at \in Nodes /\ Root \in Nodes
  BY <1>0, <1>1, <1>3, <1>4 DEF Nodes, Elements
<1> HIDE DEF e, at
<1>6. TypeInv'
  <2>1. push' \in [Producers -> Places]
    <3>1. push \in [Producers -> Places] /\ push[p] \in Places
      BY DEF ListInv, TypeInv
    <3>2. [push[p] EXCEPT !.step = "linkPrev"] \in Places
      BY <3>1 DEF Places
    <3>3. push' = [push EXCEPT ![p] = [push[p] EXCEPT !.step = "linkPrev"]]
      OBVIOUS
    <3> QED  BY <3>1, <3>2, <3>3
  <2>2. next' \in [Nodes -> Nodes \cup {Nil}] /\ prev' \in [Nodes -> Nodes \cup {Nil}]
    <3>1. /\ next \in [Nodes -> Nodes \cup {Nil}] /\ prev \in [Nodes -> Nodes \cup {Nil}]
      BY DEF ListInv, TypeInv
    <3>2. next' \in [Nodes -> Nodes \cup {Nil}]
      BY <1>5, <3>1
    <3>3. prev' \in [Nodes -> Nodes \cup {Nil}]
      BY <1>5, <3>1
    <3> QED  BY <3>2, <3>3
  <2> QED  BY <2>1, <2>2 DEF ListInv, TypeInv
<1>7. prev'[e] = at /\ next'[e] = Root
  BY <1>5 DEF ListInv, TypeInv
<1>8. PushInv'
  BY <1>1, <1>2, <1>3, <1>7, OnlyOne DEF PushInv
<1>9. RingInv'
  <2>1. \A n \in {Root} \cup Front..Last : n # e /\ n \in Nodes
    BY <1>0, <1>1, <1>3 DEF Root, Nodes, Elements
  <2>2. \A n \in {Root} \cup Front..Last : next'[n] = next[n] /\ prev'[n] = prev[n]
    BY <1>5, <2>1 DEF ListInv, TypeInv
  <2> QED  BY <1>2, <1>3, <2>2 DEF ListInv, RingInv
<1>10. BatchInv'
  BY DEF ListInv, BatchInv
<1> QED  BY <1>6, <1>8, <1>9, <1>10 DEF ListInv

LEMMA LinkPrevStep ==
    ASSUME ListInv, OneProducer, NEW p \in Producers, PushLinkPrev(p)
    PROVE  ListInv'
<1> USE DEF PushLinkPrev, queueVars
<1> DEFINE e == push[p].elem
           at == push[p].at
<1>0. MaxPushes \in Nat
  BY ListAssumption DEF Queue!QueueAssumption
<1>1. /\ push[p].step = "linkPrev" /\ push'[p].step = "linkNext"
      /\ push'[p].at = at /\ push'[p].elem = e
      /\ made = Last + 1 /\ e = made /\ e \in Elements /\ Last \in Nat
      /\ prod[p] = "idle" /\ at = PrevIn(Root, Front, Last)
      /\ prev[e] = at /\ next[e] = Root
  BY <1>0 DEF ListInv, TypeInv, Places, PushInv, Last, Elements
<1>2. /\ Fwd = Last /\ Bwd = Last /\ Fwd' = Last' + 1 /\ Bwd' = Last'
      /\ Last' = Last
  BY <1>1, OnlyOne DEF Fwd, Bwd, Last
<1>3. Front' = Front /\ Front \in 1..Last + 1
  BY <1>1, <1>2 DEF Front, ListInv, TypeInv, RingInv
<1>4. at \in {Root} \cup Front..Last /\ at # e
  BY <1>1, <1>3 DEF PrevIn, Root
<1>5. next' = [next EXCEPT ![at] = e] /\ e \in Nodes /\ at \in Nodes
  BY <1>0, <1>1, <1>3, <1>4 DEF Nodes, Elements
<1> HIDE DEF e, at
<1>6. TypeInv'
  <2>1. push' \in [Producers -> Places]
    <3>1. push \in [Producers -> Places] /\ push[p] \in Places
      BY DEF ListInv, TypeInv
    <3>2. [push[p] EXCEPT !.step = "linkNext"] \in Places
      BY <3>1 DEF Places
    <3>3. push' = [push EXCEPT ![p] = [push[p] EXCEPT !.step = "linkNext"]]
      OBVIOUS
    <3> QED  BY <3>1, <3>2, <3>3
  <2>2. next' \in [Nodes -> Nodes \cup {Nil}] /\ prev' \in [Nodes -> Nodes \cup {Nil}]
    BY <1>5 DEF ListInv, TypeInv
  <2> QED  BY <2>1, <2>2 DEF ListInv, TypeInv
<1>7. next'[e] = Root /\ next'[at] = e
  BY <1>1, <1>4, <1>5 DEF ListInv, TypeInv
<1>8. PushInv'
  BY <1>1, <1>2, <1>3, <1>7, OnlyOne DEF PushInv
<1>9. RingInv'
  <2>1. \A n \in {Root} \cup Front..Last : n \in Nodes
    BY <1>0, <1>1, <1>3 DEF Root, Nodes, Elements
  <2>2. ASSUME NEW n \in {Root} \cup Front..Last + 1
        PROVE  next'[n] = NextIn(n, Front, Last + 1)
    <3>1. CASE n = e
      BY <1>1, <1>7, <3>1 DEF NextIn
    <3>2. CASE n = at
      BY <1>1, <1>3, <1>7, <3>2 DEF NextIn, PrevIn, Root
    <3>3. CASE n # e /\ n # at
      <4>1. n \in {Root} \cup Front..Last /\ next'[n] = next[n]
        BY <1>1, <1>3, <1>5, <2>1, <3>3 DEF ListInv, TypeInv
      <4>2. next[n] = NextIn(n, Front, Last)
        BY <1>2, <4>1 DEF ListInv, RingInv
      <4> QED  BY <1>1, <1>3, <3>3, <4>1, <4>2 DEF NextIn, PrevIn, Root
    <3> QED  BY <3>1, <3>2, <3>3
  <2> QED  BY <1>2, <1>3, <2>2 DEF ListInv, RingInv
<1>10. BatchInv'
  BY DEF ListInv, BatchInv
<1> QED  BY <1>6, <1>8, <1>9, <1>10 DEF ListInv

LEMMA LinkNextStep ==
    ASSUME ListInv, OneProducer, NEW p \in Producers, PushLinkNext(p)
    PROVE  ListInv'
<1> USE DEF PushLinkNext, queueVars
<1> DEFINE e == push[p].elem
<1>0. MaxPushes \in Nat
  BY ListAssumption DEF Queue!QueueAssumption
<1>1. /\ push[p].step = "linkNext" /\ push'[p].step = "readLen"
      /\ push'[p].at = push[p].at /\ push'[p].elem = e
      /\ made = Last + 1 /\ e = made /\ e \in Elements /\ Last \in Nat
      /\ prod[p] = "idle" /\ push[p].at = PrevIn(Root, Front, Last)
      /\ prev[e] = push[p].at /\ next[e] = Root
  BY <1>0 DEF ListInv, TypeInv, Places, PushInv, Last, Elements
<1>2. /\ Fwd = Last + 1 /\ Bwd = Last /\ Fwd' = Last' + 1 /\ Bwd' = Last' + 1
      /\ Last' = Last
  BY <1>1, OnlyOne DEF Fwd, Bwd, Last
<1>3. Front' = Front /\ Front \in 1..Last + 1
  BY <1>1, <1>2 DEF Front, ListInv, TypeInv, RingInv
<1>4. prev' = [prev EXCEPT ![Root] = e] /\ e \in Nodes /\ Root \in Nodes
  BY <1>1 DEF Nodes, Elements
<1> HIDE DEF e
<1>5. TypeInv'
  <2>1. push' \in [Producers -> Places]
    <3>1. push \in [Producers -> Places] /\ push[p] \in Places
      BY DEF ListInv, TypeInv
    <3>2. [push[p] EXCEPT !.step = "readLen"] \in Places
      BY <3>1 DEF Places
    <3>3. push' = [push EXCEPT ![p] = [push[p] EXCEPT !.step = "readLen"]]
      OBVIOUS
    <3> QED  BY <3>1, <3>2, <3>3
  <2>2. prev' \in [Nodes -> Nodes \cup {Nil}]
    BY <1>4 DEF ListInv, TypeInv
  <2> QED  BY <2>1, <2>2 DEF ListInv, TypeInv
<1>6. PushInv'
  BY <1>1, <1>2, <1>3, OnlyOne DEF PushInv
<1>7. RingInv'
  <2>1. \A n \in Front..Last : n \in Nodes /\ n # Root
    BY <1>0, <1>1, <1>3 DEF Root, Nodes, Elements
  <2>2. ASSUME NEW n \in {Root} \cup Front..Last + 1
        PROVE  prev'[n] = PrevIn(n, Front, Last + 1)
    <3>1. CASE n = e
      <4>1. prev'[e] = prev[e] /\ e # Root
        BY <1>1, <1>4 DEF ListInv, TypeInv, Root, Elements
      <4> QED  BY <1>1, <1>3, <3>1, <4>1 DEF PrevIn, Root
    <3>2. CASE n = Root
      BY <1>1, <1>3, <1>4, <3>2 DEF ListInv, TypeInv, PrevIn, Root
    <3>3. CASE n # e /\ n # Root
      <4>1. n \in Front..Last /\ prev'[n] = prev[n]
        BY <1>1, <1>3, <1>4, <2>1, <3>3 DEF ListInv, TypeInv
      <4>2. prev[n] = PrevIn(n, Front, Last)
        BY <1>2, <4>1 DEF ListInv, RingInv
      <4> QED  BY <1>1, <1>3, <3>3, <4>1, <4>2 DEF PrevIn, Root
    <3> QED  BY <3>1, <3>2, <3>3
  <2>3. owned' = Front..Last + 1
    BY <1>1, <1>2, <1>3 DEF ListInv, RingInv
  <2> QED  BY <1>2, <1>3, <2>2, <2>3 DEF ListInv, RingInv
<1>8. BatchInv'
  BY DEF ListInv, BatchInv
<1> QED  BY <1>5, <1>6, <1>7, <1>8 DEF ListInv

LEMMA ReadLenStep ==
    ASSUME ListInv, OneProducer, NEW p \in Producers, PushReadLen(p)
    PROVE  ListInv'
<1> USE DEF PushReadLen, queueVars, listVars
<1>1. /\ push[p].step = "readLen" /\ push'[p].step = "writeLen"
      /\ push'[p].at = push[p].at /\ push'[p].elem = push[p].elem
      /\ push'[p].seen = len
      /\ made = Last + 1 /\ push[p].elem = made
      /\ prod[p] = "idle" /\ push[p].at = PrevIn(Root, Front, Last)
  BY DEF ListInv, TypeInv, Places, PushInv, Last
<1>2. /\ Fwd = Last + 1 /\ Bwd = Last + 1
      /\ Fwd' = Last' + 1 /\ Bwd' = Last' + 1
      /\ Last' = Last
  BY <1>1, OnlyOne DEF Fwd, Bwd, Last
<1>3. Front' = Front
  BY <1>2 DEF Front
<1>4. TypeInv'
  <2>1. push' \in [Producers -> Places]
    <3>1. push \in [Producers -> Places] /\ push[p] \in Places
      BY DEF ListInv, TypeInv
    <3>2. [push[p] EXCEPT !.step = "writeLen", !.seen = len] \in Places
      BY <3>1 DEF ListInv, TypeInv, Places
    <3>3. push' = [push EXCEPT ![p] = [push[p] EXCEPT !.step = "writeLen", !.seen = len]]
      OBVIOUS
    <3> QED  BY <3>1, <3>2, <3>3
  <2> QED  BY <2>1 DEF ListInv, TypeInv
<1>5. PushInv'
  <2>1. PrevIn(Root, Front, Last)' = PrevIn(Root, Front, Last)
    BY <1>2, <1>3 DEF PrevIn
  <2>2. push'[p] = [push[p] EXCEPT !.step = "writeLen", !.seen = len]
    BY DEF ListInv, TypeInv
  <2>3. /\ prod'[p] = "idle" /\ made' = Last' + 1 /\ push'[p].elem = made'
        /\ push'[p].at = PrevIn(Root, Front, Last)' /\ push'[p].seen = len'
    BY <1>1, <1>2, <2>1
  <2> QED  BY <1>1, <2>3, OneProducer DEF PushInv, OneProducer
<1>6. RingInv'
  BY <1>2, <1>3 DEF ListInv, RingInv
<1>7. BatchInv'
  BY DEF ListInv, BatchInv
<1> QED  BY <1>4, <1>5, <1>6, <1>7 DEF ListInv

LEMMA LeaveStep ==
    ASSUME ListInv, OneProducer, NEW p \in Producers, PushLeave(p)
    PROVE  ListInv'
<1> USE DEF PushLeave, queueVars, LenAfter
<1>1. /\ push[p].step = "writeLen" /\ push'[p] = Idle
      /\ made = Last + 1 /\ push[p].elem = made /\ push[p].seen = len
      /\ made \in Nat
  BY DEF ListInv, TypeInv, Places, PushInv, Last
<1>2. Last' = Last + 1 /\ Last \in Nat
  <2>1. pushed \in Seq(Nat) /\ push[p].elem \in Nat
    BY <1>1 DEF ListInv, TypeInv
  <2> QED  BY <2>1, AppendProperties, LenProperties DEF Last
<1>3. /\ Fwd = Last + 1 /\ Bwd = Last + 1 /\ Fwd' = Last' /\ Bwd' = Last'
  BY <1>1, OnlyOne DEF Fwd, Bwd, Idle
<1>4. len' = len + 1 /\ Front' = Front /\ len \in Nat
  BY <1>1, <1>2 DEF Front, ListInv, TypeInv
<1>5. TypeInv'
  <2>1. push' \in [Producers -> Places]
    BY DEF ListInv, TypeInv, Places, Idle
  <2>2. pushed' \in Seq(Nat)
    BY <1>1, AppendProperties DEF ListInv, TypeInv
  <2> QED  BY <1>4, <2>1, <2>2 DEF ListInv, TypeInv
<1>6. PushInv'
  BY <1>1, <1>2, OnlyOne DEF PushInv, Idle
<1>7. RingInv'
  <2>1. Last' <= made'
    BY <1>1, <1>2
  <2> QED  BY <1>2, <1>3, <1>4, <2>1 DEF ListInv, RingInv
<1>8. BatchInv'
  BY <1>4 DEF ListInv, TypeInv, BatchInv
<1> QED  BY <1>5, <1>6, <1>7, <1>8 DEF ListInv

(* When nobody is inside PushBack the ring is Front..Last, all of it. *)
LEMMA AtRest ==
    ASSUME ListInv, Reading = {}
    PROVE  /\ Fwd = Last /\ Bwd = Last
           /\ Last \in Nat /\ len \in Nat /\ Front \in 1..Last + 1
           /\ \A q \in Producers : push[q] = Idle /\ made = Last
           /\ Last <= MaxPushes
<1>1. \A q \in Producers : push[q].step = "out"
  BY DEF Reading
<1>2. Fwd = Last /\ Bwd = Last
  BY <1>1 DEF At, Fwd, Bwd
<1>3. Last \in Nat /\ len \in Nat /\ len <= Last /\ Last <= made /\ made <= MaxPushes
  BY DEF ListInv, TypeInv, RingInv, Last
<1>4. MaxPushes \in Nat /\ made \in Nat
  BY ListAssumption DEF Queue!QueueAssumption, ListInv, TypeInv
<1> QED  BY <1>1, <1>2, <1>3, <1>4 DEF Front, ListInv, PushInv

LEMMA PopFrontStep ==
    ASSUME ListInv, OneProducer, LoopPopFront
    PROVE  ListInv'
<1> USE DEF LoopPopFront, listVars
<1> DEFINE e == next[Root]
<1>1. CASE todo = 0
  <2>1. Last' = Last /\ Fwd' = Fwd /\ Bwd' = Bwd /\ Front' = Front
    BY <1>1 DEF Last, Fwd, Bwd, At, Front
  <2>2. TypeInv' /\ BatchInv'
    BY <1>1 DEF ListInv, TypeInv, BatchInv
  <2>3. PushInv'
    BY <1>1, <2>1 DEF ListInv, PushInv
  <2>4. RingInv'
    BY <1>1, <2>1 DEF ListInv, RingInv
  <2> QED  BY <2>2, <2>3, <2>4 DEF ListInv
<1>2. CASE todo # 0
  <2>1. Reading = {} /\ loop = "batch"
    BY <1>2
  <2>2. /\ Fwd = Last /\ Bwd = Last
        /\ Last \in Nat /\ len \in Nat /\ Front \in 1..Last + 1
        /\ \A q \in Producers : push[q] = Idle /\ made = Last
        /\ Last <= MaxPushes
    BY <2>1, AtRest
  <2>3. todo \in Nat /\ todo > 0 /\ todo <= len
    BY <1>2, <2>1 DEF ListInv, TypeInv, BatchInv
  <2>4. Front <= Last
    BY <2>2, <2>3 DEF Front
  <2>5. e = Front /\ next[e] = NextIn(e, Front, Last) /\ prev[e] = Root
    BY <2>2, <2>4 DEF ListInv, RingInv, NextIn, PrevIn, Root
  <2>6. e \in owned /\ e \in Nodes /\ MaxPushes \in Nat
    BY <2>2, <2>4, <2>5, ListAssumption
       DEF ListInv, RingInv, Queue!QueueAssumption, Nodes, Elements
  <2>7. /\ next' = [next EXCEPT ![Root] = next[e], ![e] = Nil]
        /\ prev' = [prev EXCEPT ![next[e]] = Root, ![e] = Nil]
        /\ owned' = owned \ {e} /\ len' = len - 1
        /\ loop' = "send" /\ UNCHANGED <<todo, made>>
    BY <1>2, <2>5, <2>6 DEF NextWithout
  <2>8. UNCHANGED <<limit, prod, pushed, push>>
    OBVIOUS
  <2> HIDE DEF e, LoopPopFront
  <2>9. Last' = Last /\ Fwd' = Last' /\ Bwd' = Last' /\ Front' = Front + 1
    <3>1. Last' = Last  BY <2>8 DEF Last
    <3>2. Fwd' = Last' /\ Bwd' = Last'
      BY <2>2, <2>8, <3>1 DEF Fwd, Bwd, At
    <3> QED  BY <2>2, <2>7, <3>1, <3>2 DEF Front
  <2>10. next[e] \in Nodes /\ Root \in Nodes /\ Nil \notin Nodes /\ e # Root /\ next[e] # e
    BY <2>2, <2>4, <2>5, <2>6 DEF NextIn, Nodes, Elements, Root, Nil
  <2>11. TypeInv'
    <3>1. next' \in [Nodes -> Nodes \cup {Nil}] /\ prev' \in [Nodes -> Nodes \cup {Nil}]
      BY <2>7, <2>10 DEF ListInv, TypeInv
    <3>2. len' \in Nat
      BY <2>2, <2>3, <2>7
    <3> QED  BY <2>7, <2>8, <3>1, <3>2 DEF ListInv, TypeInv
  <2>12. PushInv'
    BY <2>2, <2>7, <2>8, <2>9 DEF PushInv, Idle
  <2>13. RingInv'
    <3>1. \A n \in {Root} \cup Front + 1..Last : n \in Nodes /\ n # e
      BY <2>2, <2>5, <2>6, <2>10 DEF Nodes, Elements
    <3>2. ASSUME NEW n \in {Root} \cup Front + 1..Last
          PROVE  next'[n] = NextIn(n, Front + 1, Last)
      <4>1. CASE n = Root
        <5>1. next'[n] = next[e]
          BY <2>7, <2>10, <4>1 DEF ListInv, TypeInv
        <5> QED  BY <2>2, <2>4, <2>5, <4>1, <5>1 DEF NextIn, Root
      <4>2. CASE n # Root
        <5>1. next'[n] = next[n]
          BY <2>7, <3>1, <4>2 DEF ListInv, TypeInv
        <5>2. n \in Front..Last /\ next[n] = NextIn(n, Front, Last)
          BY <2>2, <3>2, <4>2 DEF ListInv, RingInv
        <5> QED  BY <2>2, <4>2, <5>1, <5>2 DEF NextIn
      <4> QED  BY <4>1, <4>2
    <3>3. ASSUME NEW n \in {Root} \cup Front + 1..Last
          PROVE  prev'[n] = PrevIn(n, Front + 1, Last)
      <4>1. CASE n = next[e]
        <5>1. prev'[n] = Root
          BY <2>7, <2>10, <4>1 DEF ListInv, TypeInv
        <5> QED  BY <2>2, <2>4, <2>5, <4>1, <5>1 DEF NextIn, PrevIn, Root
      <4>2. CASE n # next[e]
        <5>1. prev'[n] = prev[n] /\ prev[n] = PrevIn(n, Front, Last)
          BY <2>2, <2>7, <3>1, <3>3, <4>2 DEF ListInv, TypeInv, RingInv
        <5> QED  BY <2>2, <2>4, <2>5, <3>3, <4>2, <5>1 DEF NextIn, PrevIn, Root
      <4> QED  BY <4>1, <4>2
    <3>4. owned' = Front + 1..Last
      BY <2>2, <2>5, <2>7 DEF ListInv, RingInv
    <3>5. len' <= Last /\ Last' <= made'
      BY <2>2, <2>3, <2>7, <2>8, <2>9 DEF ListInv, TypeInv, RingInv
    <3> QED  BY <2>9, <3>2, <3>3, <3>4, <3>5 DEF RingInv
  <2>14. BatchInv'
    BY <2>2, <2>3, <2>7 DEF BatchInv
  <2> QED  BY <2>11, <2>12, <2>13, <2>14 DEF ListInv
<1> QED  BY <1>1, <1>2

(* Steps that leave list, pushed and push alone. *)
LEMMA OtherStep ==
    ASSUME ListInv, OneProducer, LoopLen \/ QueueStep \/ UNCHANGED vars
    PROVE  ListInv'
<1>1. UNCHANGED <<limit, pushed, push, next, prev, owned, len, made>>
  BY DEF LoopLen, QueueStep, vars, queueVars, listVars,
     Queue!PushEnd, Queue!PushCheckEvents, Queue!PushSendEvent,
     Queue!PopCall, Queue!PopReturn, Queue!CloseCas, Queue!CloseEnd,
     Queue!CloseEvents, Queue!CloseC, Queue!ClosePop, Queue!CloseReturn,
     Queue!LoopCheck, Queue!LoopWait, Queue!LoopInner, Queue!LoopSend,
     Queue!LoopClear, Queue!LoopClose
<1>2. \A p \in Producers : push[p] # Idle => prod'[p] = prod[p]
  BY OneProducer
  DEF LoopLen, QueueStep, vars, queueVars, listVars, OneProducer,
     Queue!PushEnd, Queue!PushCheckEvents, Queue!PushSendEvent,
     Queue!PopCall, Queue!PopReturn, Queue!CloseCas, Queue!CloseEnd,
     Queue!CloseEvents, Queue!CloseC, Queue!ClosePop, Queue!CloseReturn,
     Queue!LoopCheck, Queue!LoopWait, Queue!LoopInner, Queue!LoopSend,
     Queue!LoopClear, Queue!LoopClose
<1>3. /\ todo' \in Nat /\ BatchInv'
  <2> USE DEF ListInv, TypeInv, BatchInv
  <2>1. CASE LoopLen
    BY <2>1 DEF LoopLen, listVars
  <2>2. CASE Queue!LoopSend
    BY <1>1, <2>2 DEF Queue!LoopSend
  <2>3. CASE Queue!LoopInner
    BY <1>1, <2>3 DEF Queue!LoopInner
  <2>4. CASE UNCHANGED <<todo, loop>>
    BY <1>1, <2>4
  <2>5. CASE Queue!LoopCheck \/ Queue!LoopWait \/ Queue!LoopClear \/ Queue!LoopClose
    BY <1>1, <2>5 DEF Queue!LoopCheck, Queue!LoopWait, Queue!LoopClear, Queue!LoopClose
  <2> QED
    BY <2>1, <2>2, <2>3, <2>4, <2>5
    DEF QueueStep, vars, queueVars,
        Queue!PushEnd, Queue!PushCheckEvents, Queue!PushSendEvent,
        Queue!PopCall, Queue!PopReturn, Queue!CloseCas, Queue!CloseEnd,
        Queue!CloseEvents, Queue!CloseC, Queue!ClosePop, Queue!CloseReturn,
        Queue!loopVars
<1>4. Last' = Last /\ Front' = Front /\ Fwd' = Fwd /\ Bwd' = Bwd
  BY <1>1 DEF Last, Front, Fwd, Bwd, At
<1>5. TypeInv'
  BY <1>1, <1>3 DEF ListInv, TypeInv
<1>6. PushInv'
  BY <1>1, <1>2, <1>4 DEF ListInv, PushInv, Idle
<1>7. RingInv'
  BY <1>1, <1>4 DEF ListInv, RingInv
<1> QED  BY <1>3, <1>5, <1>6, <1>7 DEF ListInv

LEMMA ListInvariant == OneProducer => (Spec => []ListInv)
<1> SUFFICES ASSUME OneProducer PROVE Spec => []ListInv
  OBVIOUS
<1>1. Init => ListInv
  BY InitListInv
<1>2. ListInv /\ [Next]_vars => ListInv'
  <2> SUFFICES ASSUME ListInv, [Next]_vars PROVE ListInv'
    OBVIOUS
  <2> QED
    BY EnterStep, AimStep, LinkPrevStep, LinkNextStep, ReadLenStep, LeaveStep,
       PopFrontStep, OtherStep DEF Next
<1> QED  BY <1>1, <1>2, PTL DEF Spec
-----------------------------------------------------------------------------
LEMMA Least ==
    ASSUME NEW T \in SUBSET Nat, T # {}
    PROVE  \E m \in T : \A i \in T : m <= i
<1> DEFINE R == OpToRel(<, Nat)
<1>1. IsWellFoundedOn(R, Nat)  BY NatLessThanWellFounded
<1>2. \A i, j \in Nat : i < j => <<i, j>> \in R  BY DEF OpToRel
<1> HIDE DEF R
<1>3. PICK m \in T : \A i \in T : ~(<<i, m>> \in R)  BY <1>1, WFMin
<1>4. \A i \in T : ~(i < m)  BY <1>2, <1>3
<1>5. \A i \in T : m <= i  BY <1>4
<1> QED  BY <1>5

(* Where one gets to on a ring of a..b: to a, a + 1, ... b, to the root, and *)
(* no further.                                                             *)
LEMMA HopsRound ==
    ASSUME MaxPushes \in Nat,
           NEW a \in 1..MaxPushes + 1, NEW b \in a - 1..MaxPushes,
           \A e \in {Root} \cup a..b : next[e] = NextIn(e, a, b)
    PROVE  /\ \A k \in 1..b - a + 1 : Hop[k] = a + k - 1
           /\ b - a + 2 <= MaxPushes => Hop[b - a + 2] = Root
           /\ \A k \in 1..MaxPushes : Hop[k] \in Int
<1> USE DEF Root, Nil
<1> DEFINE n == b - a + 1
           D == 0..MaxPushes
           W == [k \in D |-> IF k = 0 THEN Root
                             ELSE IF k <= n THEN a + k - 1
                             ELSE IF k = n + 1 THEN Root ELSE Nil]
           Body(f) == [k \in D |-> IF k = 0 THEN Root
                                   ELSE IF k > 1 /\ f[k - 1] \in {Root, Nil} THEN Nil
                                   ELSE next[f[k - 1]]]
<1>1. n \in 0..MaxPushes
  OBVIOUS
<1>2. ASSUME NEW f, NEW k \in D, k # 0, f[k - 1] = W[k - 1]
      PROVE  Body(f)[k] = W[k]
  <2>1. k - 1 \in D
    BY <1>2
  <2>2. CASE k = 1
    <3>1. f[k - 1] = Root /\ Body(f)[k] = next[Root]
      BY <1>2, <2>1, <2>2
    <3> QED  BY <1>1, <1>2, <2>2, <3>1 DEF NextIn
  <2>3. CASE k > 1 /\ k - 1 <= n
    <3>1. f[k - 1] = a + k - 2 /\ a + k - 2 \in a..b
      BY <1>1, <1>2, <2>1, <2>3
    <3>2. Body(f)[k] = next[a + k - 2]
      BY <1>2, <2>3, <3>1
    <3>3. next[a + k - 2] = IF a + k - 2 = b THEN Root ELSE a + k - 1
      BY <3>1 DEF NextIn
    <3> QED  BY <1>1, <1>2, <2>3, <3>2, <3>3
  <2>4. CASE k > 1 /\ k - 1 > n
    <3>1. f[k - 1] \in {Root, Nil}
      BY <1>1, <1>2, <2>1, <2>4
    <3>2. Body(f)[k] = Nil
      BY <1>2, <2>4, <3>1
    <3> QED  BY <1>1, <1>2, <2>4, <3>2
  <2> QED  BY <1>2, <2>2, <2>3, <2>4
<1>3. Body(W) = W
  <2>1. \A k \in D : Body(W)[k] = W[k]
    <3>1. Body(W)[0] = W[0]
      OBVIOUS
    <3> HIDE DEF Body, W
    <3> QED  BY <1>2, <3>1
  <2>2. Body(W) = [k \in D |-> Body(W)[k]] /\ W = [k \in D |-> W[k]]
    OBVIOUS
  <2> HIDE DEF Body, W
  <2>3. [k \in D |-> Body(W)[k]] = [k \in D |-> W[k]]
    BY <2>1
  <2> QED  BY <2>2, <2>3
<1>4. Hop = Body(Hop)
  <2>1. Hop = CHOOSE f : f = Body(f)
    BY DEF Hop
  <2> HIDE DEF Body, W
  <2> QED  BY <1>3, <2>1
<1>5. \A k \in D : Hop[k] = W[k]
  <2> DEFINE T == {k \in D : Hop[k] # W[k]}
  <2>1. CASE T # {}
    <3>1. T \in SUBSET Nat
      OBVIOUS
    <3> HIDE DEF T
    <3>2. PICK m \in T : \A i \in T : m <= i
      BY <2>1, <3>1, Least
    <3>3. m \in D /\ Hop[m] # W[m]
      BY <3>2 DEF T
    <3>4. m # 0
      <4>1. Body(Hop)[0] = Root /\ W[0] = Root
        OBVIOUS
      <4> HIDE DEF Body, W
      <4> QED  BY <1>4, <3>3, <4>1
    <3>5. Hop[m - 1] = W[m - 1]
      <4>1. m - 1 \in D /\ ~(m <= m - 1)
        BY <3>3, <3>4
      <4> HIDE DEF W, D
      <4> QED  BY <3>2, <4>1 DEF T
    <3> HIDE DEF Body, W
    <3> QED  BY <1>2, <1>4, <3>3, <3>4, <3>5
  <2>2. CASE T = {}
    BY <2>2
  <2> QED  BY <2>1, <2>2
<1> HIDE DEF W
<1>6. \A k \in D : W[k] = IF k = 0 THEN Root
                          ELSE IF k <= n THEN a + k - 1
                          ELSE IF k = n + 1 THEN Root ELSE Nil
  BY DEF W
<1> QED  BY <1>1, <1>5, <1>6

(* So the chain meets the b - a + 1 elements of the ring, and no others. *)
LEMMA ChainRound ==
    ASSUME MaxPushes \in Nat,
           NEW a \in 1..MaxPushes + 1, NEW b \in a - 1..MaxPushes,
           \A e \in {Root} \cup a..b : next[e] = NextIn(e, a, b)
    PROVE  /\ Reached = b - a + 1
           /\ \A k \in 1..Reached : Chain[k] = a + k - 1
           /\ Chain \in Seq(Int) /\ Len(Chain) = MaxPushes
<1> DEFINE n == b - a + 1
           P(i) == /\ \A k \in 1..i : Chain[k] \in Elements
                   /\ i < MaxPushes => Chain[i + 1] \notin Elements
<1>1. /\ \A k \in 1..n : Hop[k] = a + k - 1
      /\ n + 1 <= MaxPushes => Hop[n + 1] = Root
      /\ \A k \in 1..MaxPushes : Hop[k] \in Int
  BY HopsRound
<1>2. \A k \in 1..MaxPushes : Chain[k] = Hop[k]
  BY DEF Chain, Elements
<1>3. n \in 0..MaxPushes
  OBVIOUS
<1>4. \A k \in 1..n : Chain[k] = a + k - 1 /\ Chain[k] \in Elements
  BY <1>1, <1>2, <1>3 DEF Elements
<1>5. n < MaxPushes => Chain[n + 1] \notin Elements
  BY <1>1, <1>2, <1>3 DEF Elements, Root
<1>6. P(n)
  BY <1>4, <1>5
<1>7. ASSUME NEW i \in 0..MaxPushes, P(i) PROVE i = n
  <2>1. ~(i < n)
    BY <1>3, <1>4, <1>7
  <2>2. ~(n < i)
    BY <1>3, <1>5, <1>7
  <2> QED  BY <1>3, <2>1, <2>2
<1>8. Reached = CHOOSE i \in 0..MaxPushes : P(i)
  BY DEF Reached
<1> HIDE DEF P
<1>9. Reached = n
  BY <1>3, <1>6, <1>7, <1>8
<1>10. Chain \in [1..MaxPushes -> Int]
  BY <1>1 DEF Chain, Elements
<1>11. Chain \in Seq(Int) /\ Len(Chain) = MaxPushes
  BY <1>10
<1> QED  BY <1>4, <1>9, <1>11

(* What the invariant says the list holds. *)
LEMMA Contents ==
    ASSUME ListInv
    PROVE  /\ Reached = Fwd - Front + 1
           /\ \A k \in 1..Reached : Chain[k] = Front + k - 1
           /\ ListContents \in Seq(Int) /\ Len(ListContents) = len
           /\ \A k \in 1..len : ListContents[k] = Front + k - 1
           /\ len \in Nat /\ Last \in Nat /\ len <= Last /\ Front \in 1..Last + 1
<1>1. MaxPushes \in Nat
  BY ListAssumption DEF Queue!QueueAssumption
<1>2. /\ Last \in Nat /\ len \in Nat /\ len <= Last /\ Last <= made
      /\ made \in 0..MaxPushes
  BY DEF ListInv, TypeInv, RingInv, Last
<1>3. Front \in 1..MaxPushes + 1 /\ Last = Front + len - 1
  BY <1>1, <1>2 DEF Front
<1>4. Fwd \in Last..MaxPushes
  <2>1. CASE At({"linkNext", "readLen", "writeLen"})
    <3>1. PICK p \in Producers : push[p].step \in {"linkNext", "readLen", "writeLen"}
      BY <2>1 DEF At
    <3>2. made = Last + 1
      BY <3>1 DEF ListInv, PushInv
    <3> QED  BY <1>1, <1>2, <2>1, <3>2 DEF Fwd
  <2>2. CASE ~ At({"linkNext", "readLen", "writeLen"})
    BY <1>1, <1>2, <2>2 DEF Fwd
  <2> QED  BY <2>1, <2>2
<1>5. \A e \in {Root} \cup Front..Fwd : next[e] = NextIn(e, Front, Fwd)
  BY DEF ListInv, RingInv
<1>6. Fwd \in Front - 1..MaxPushes
  BY <1>1, <1>2, <1>3, <1>4
<1>7. /\ Reached = Fwd - Front + 1
      /\ \A k \in 1..Reached : Chain[k] = Front + k - 1
      /\ Chain \in Seq(Int) /\ Len(Chain) = MaxPushes
  BY <1>1, <1>3, <1>5, <1>6, ChainRound
<1>8. len <= Reached /\ Reached <= MaxPushes /\ Reached \in Nat
  BY <1>1, <1>2, <1>3, <1>4, <1>7
<1>9. ListContents = SubSeq(Chain, 1, len)
  BY <1>2, <1>8 DEF ListContents
<1>10. \A i \in 1..len : Chain[i] \in Int
  BY <1>2, <1>3, <1>7, <1>8
<1>11. /\ ListContents \in Seq(Int) /\ Len(ListContents) = len
       /\ \A k \in 1..len : ListContents[k] = Chain[k]
  <2>1. /\ SubSeq(Chain, 1, len) \in Seq(Int)
        /\ Len(SubSeq(Chain, 1, len)) = IF 1 <= len THEN len - 1 + 1 ELSE 0
        /\ \A i \in 1..len - 1 + 1 : SubSeq(Chain, 1, len)[i] = Chain[1 + i - 1]
    BY <1>2, <1>7, <1>10, SubSeqProperties
  <2> QED  BY <1>2, <1>9, <2>1
<1>12. \A k \in 1..len : ListContents[k] = Front + k - 1
  BY <1>2, <1>7, <1>8, <1>11
<1>13. Front \in 1..Last + 1
  BY <1>2 DEF Front
<1> QED  BY <1>2, <1>7, <1>11, <1>12, <1>13

(* The ring is intact whenever nobody is inside PushBack. *)
THEOREM ListStaysIntact == OneProducer => (Spec => []ListIntact)
<1> SUFFICES ASSUME OneProducer PROVE Spec => []ListIntact
  OBVIOUS
<1>1. ListInv => ListIntact
  <2> SUFFICES ASSUME ListInv, Reading = {}
               PROVE  /\ len = Reached
                      /\ {Chain[k] : k \in 1..Reached} = owned
                      /\ \A e \in owned \cup {Root} :
                            prev[next[e]] = e /\ next[prev[e]] = e
    BY DEF ListIntact
  <2>1. /\ Fwd = Last /\ Bwd = Last /\ Last \in Nat /\ Front \in 1..Last + 1
        /\ len \in Nat
    BY AtRest
  <2>2. /\ Reached = Last - Front + 1
        /\ \A k \in 1..Reached : Chain[k] = Front + k - 1
    BY <2>1, Contents
  <2>3. len = Reached
    BY <2>1, <2>2 DEF Front
  <2>4. /\ owned = Front..Last
        /\ \A e \in {Root} \cup Front..Last :
              next[e] = NextIn(e, Front, Last) /\ prev[e] = PrevIn(e, Front, Last)
    BY <2>1 DEF ListInv, RingInv
  <2>5. {Chain[k] : k \in 1..Reached} = owned
    <3>1. \A k \in 1..Reached : Chain[k] \in owned
      BY <2>1, <2>2, <2>4
    <3>2. \A e \in owned : e - Front + 1 \in 1..Reached /\ Chain[e - Front + 1] = e
      BY <2>1, <2>2, <2>4
    <3> QED  BY <3>1, <3>2
  <2>6. ASSUME NEW e \in owned \cup {Root}
        PROVE  prev[next[e]] = e /\ next[prev[e]] = e
    <3>1. next[e] \in {Root} \cup Front..Last /\ prev[e] \in {Root} \cup Front..Last
      BY <2>1, <2>4 DEF NextIn, PrevIn, Root
    <3>2. /\ prev[next[e]] = PrevIn(NextIn(e, Front, Last), Front, Last)
          /\ next[prev[e]] = NextIn(PrevIn(e, Front, Last), Front, Last)
      BY <2>4, <3>1
    <3> QED  BY <2>1, <2>4, <3>2 DEF NextIn, PrevIn, Root
  <2> QED  BY <2>3, <2>5, <2>6
<1> QED  BY <1>1, ListInvariant, PTL
-----------------------------------------------------------------------------
Listed ==
    /\ ListContents \in Seq(Int) /\ Len(ListContents) = len
    /\ \A k \in 1..len : ListContents[k] = Front + k - 1
    /\ len \in Nat /\ Last \in Nat

LEMMA ListedNow == ListInv => Listed
BY Contents DEF Listed

LEMMA ListedNext == ListInv' => Listed'
BY ListedNow, PTL

(* The list's contents depend on nothing but Last and len. *)
LEMMA SameContents ==
    ASSUME ListInv, ListInv', Last' = Last, len' = len
    PROVE  ListContents' = ListContents
<1>1. Front' = Front
  BY DEF Front
<1>2. /\ ListContents \in Seq(Int) /\ Len(ListContents) = len
      /\ \A k \in 1..len : ListContents[k] = Front + k - 1
  BY ListedNow DEF Listed
<1>3. /\ ListContents' \in Seq(Int) /\ Len(ListContents') = len'
      /\ \A k \in 1..len' : ListContents'[k] = Front' + k - 1
  BY ListedNext DEF Listed
<1> QED  BY <1>1, <1>2, <1>3, SeqEqual

(* While a PushBack links its element nothing changes for the queue. *)
LEMMA LinkingIsUnseen ==
    ASSUME ListInv, ListInv', NEW p \in Producers,
           PushEnter(p) \/ PushAim(p) \/ PushLinkPrev(p) \/ PushLinkNext(p)
             \/ PushReadLen(p)
    PROVE  UNCHANGED Queue!vars
<1>1. UNCHANGED <<queueVars, prod, pushed, len>>
  BY DEF PushEnter, PushAim, PushLinkPrev, PushLinkNext, PushReadLen, listVars
<1>2. ListContents' = ListContents
  BY <1>1, SameContents DEF Last
<1> QED  BY <1>1, <1>2 DEF queueVars, Queue!vars, Queue!chanVars, Queue!loopVars

(* The step that counts the element is the queue's PushBack. *)
LEMMA LeaveIsPushBack ==
    ASSUME ListInv, ListInv', OneProducer, NEW p \in Producers, PushLeave(p)
    PROVE  Queue!PushBack(p)
<1>1. /\ push[p].elem = Last + 1 /\ push[p].seen = len /\ push[p].elem \in Elements
      /\ prod[p] = "idle" /\ limit = 0
  BY DEF ListInv, TypeInv, Places, PushInv, PushLeave, Nil, Elements
<1>2. len' = len + 1 /\ pushed' = Append(pushed, Last + 1)
  BY <1>1 DEF PushLeave, LenAfter
<1>3. /\ ListContents \in Seq(Int) /\ Len(ListContents) = len
      /\ \A k \in 1..len : ListContents[k] = Front + k - 1
      /\ len \in Nat /\ Last \in Nat
  BY Contents
<1>4. /\ ListContents' \in Seq(Int) /\ Len(ListContents') = len'
      /\ \A k \in 1..len' : ListContents'[k] = Front' + k - 1
  BY ListedNext DEF Listed
<1>5. Last' = Last + 1 /\ Front' = Front
  <2>1. Last' = Last + 1
    BY <1>2, <1>3, AppendProperties DEF Last, ListInv, TypeInv
  <2> QED  BY <1>2, <1>3, <2>1 DEF Front
<1>6. ListContents' = Append(ListContents, Last + 1)
  <2>1. /\ Append(ListContents, Last + 1) \in Seq(Int)
        /\ Len(Append(ListContents, Last + 1)) = len + 1
        /\ \A k \in 1..len : Append(ListContents, Last + 1)[k] = ListContents[k]
        /\ Append(ListContents, Last + 1)[len + 1] = Last + 1
    BY <1>3, AppendProperties
  <2>2. ASSUME NEW k \in 1..len + 1
        PROVE  ListContents'[k] = Append(ListContents, Last + 1)[k]
    <3>1. ListContents'[k] = Front + k - 1
      BY <1>2, <1>4, <1>5
    <3>2. CASE k = len + 1
      BY <1>3, <2>1, <3>1, <3>2 DEF Front
    <3>3. CASE k # len + 1
      BY <1>3, <2>1, <3>1, <3>3
    <3> QED  BY <3>2, <3>3
  <2> QED  BY <1>2, <1>4, <2>1, <2>2, SeqEqual
<1>7. /\ prod' = [prod EXCEPT ![p] = "checkEvents"]
      /\ UNCHANGED queueVars
  BY DEF PushLeave
<1>8. \A q \in Producers : prod[q] \in {"idle", "panicked"}
  BY <1>1 DEF OneProducer
<1> QED
  BY <1>1, <1>2, <1>6, <1>7, <1>8
  DEF Queue!PushBack, Queue!Unlimited, Queue!Value, Queue!Values, Queue!ListWith,
      Queue!chanVars, Queue!loopVars, queueVars, Last, Elements

LEMMA PopFrontIsPopFront ==
    ASSUME ListInv, ListInv', LoopPopFront
    PROVE  Queue!LoopPopFront
<1>1. CASE todo = 0
  <2>1. UNCHANGED <<pushed, len, hold>> /\ loop' = "inner" /\ loop = "batch"
    BY <1>1 DEF LoopPopFront, listVars
  <2>2. ListContents' = ListContents
    BY <2>1, SameContents DEF Last
  <2> QED
    BY <1>1, <2>1, <2>2 DEF LoopPopFront, Queue!LoopPopFront, Queue!chanVars
<1>2. CASE todo # 0
  <2>1. Reading = {} /\ loop = "batch"
    BY <1>2 DEF LoopPopFront
  <2>2. todo > 0 /\ todo <= len
    BY <1>2, <2>1 DEF ListInv, TypeInv, BatchInv
  <2>3. /\ ListContents \in Seq(Int) /\ Len(ListContents) = len
        /\ \A k \in 1..len : ListContents[k] = Front + k - 1
        /\ len \in Nat /\ Last \in Nat /\ todo \in Nat
    BY Contents DEF ListInv, TypeInv
  <2>4. /\ ListContents' \in Seq(Int) /\ Len(ListContents') = len'
        /\ \A k \in 1..len' : ListContents'[k] = Front' + k - 1
    BY ListedNext DEF Listed
  <2>5. next[Root] = Front /\ Front \in owned
    BY <2>1, <2>2, <2>3, AtRest DEF ListInv, RingInv, NextIn, Front, Root
  <2>6. /\ len' = len - 1 /\ pushed' = pushed /\ hold' = <<Front>>
        /\ loop' = "send" /\ todo' = todo
    BY <1>2, <2>5 DEF LoopPopFront
  <2>7. Front' = Front + 1
    BY <2>3, <2>6 DEF Front, Last
  <2>8. ListContents # <<>>
    BY <2>2, <2>3
  <2>9. /\ Head(ListContents) = ListContents[1]
        /\ Tail(ListContents) \in Seq(Int)
        /\ Len(Tail(ListContents)) = len - 1
        /\ \A k \in 1..len - 1 : Tail(ListContents)[k] = ListContents[k + 1]
    BY <2>3, <2>8, HeadTailProperties
  <2>10. Head(ListContents) = Front
    BY <2>2, <2>3, <2>9 DEF Front
  <2>11. ListContents' = Tail(ListContents)
    <3>1. \A k \in 1..len - 1 : ListContents'[k] = Tail(ListContents)[k]
      BY <2>3, <2>4, <2>6, <2>7, <2>9 DEF Front
    <3> QED  BY <2>4, <2>6, <2>9, <3>1, SeqEqual
  <2> QED
    BY <2>1, <2>2, <2>6, <2>8, <2>10, <2>11
    DEF LoopPopFront, Queue!LoopPopFront, Queue!chanVars
<1> QED  BY <1>1, <1>2

LEMMA LenIsLen ==
    ASSUME ListInv, ListInv', LoopLen
    PROVE  Queue!LoopLen
<1>1. ListContents' = ListContents
  BY SameContents DEF LoopLen, listVars, Last
<1>2. Len(ListContents) = len
  BY Contents
<1> QED  BY <1>1, <1>2 DEF LoopLen, Queue!LoopLen, Queue!chanVars

(* What does not touch the list is a step of the queue as it stands. *)
LEMMA OthersAreTheQueues ==
    ASSUME QueueStep
    PROVE  Queue!Next
BY DEF QueueStep, Queue!Next, Queue!Loop

(* Nothing at all. *)
LEMMA StutterIsUnseen ==
    ASSUME ListInv, ListInv', UNCHANGED vars
    PROVE  UNCHANGED Queue!vars
<1>1. ListContents' = ListContents
  BY SameContents DEF vars, listVars, Last
<1> QED
  BY <1>1 DEF vars, queueVars, Queue!vars, Queue!chanVars, Queue!loopVars

(* Every behaviour of the queue on its linked list is one of BlockingQueue, *)
(* where PushBack is a single step on a sequence.                          *)
THEOREM QueueOnListRefines == OneProducer => (Spec => IsBlockingQueue)
<1> SUFFICES ASSUME OneProducer PROVE Spec => IsBlockingQueue
  OBVIOUS
<1>1. ListInv /\ Init => Queue!Init
  <2> SUFFICES ASSUME ListInv, Init PROVE Queue!Init
    OBVIOUS
  <2> QED  BY DEF Init
<1>2. ListInv /\ ListInv' /\ [Next]_vars => [Queue!Next]_(Queue!vars)
  <2> SUFFICES ASSUME ListInv, ListInv', [Next]_vars
               PROVE  [Queue!Next]_(Queue!vars)
    OBVIOUS
  <2>1. ASSUME NEW p \in Producers,
               PushEnter(p) \/ PushAim(p) \/ PushLinkPrev(p) \/ PushLinkNext(p)
                 \/ PushReadLen(p)
        PROVE  UNCHANGED Queue!vars
    BY <2>1, LinkingIsUnseen
  <2>2. ASSUME NEW p \in Producers, PushLeave(p)
        PROVE  Queue!Next
    BY <2>2, LeaveIsPushBack DEF Queue!Next
  <2>3. ASSUME LoopLen PROVE Queue!Next
    BY <2>3, LenIsLen DEF Queue!Next, Queue!Loop
  <2>4. ASSUME LoopPopFront PROVE Queue!Next
    BY <2>4, PopFrontIsPopFront DEF Queue!Next, Queue!Loop
  <2>5. ASSUME QueueStep PROVE Queue!Next
    BY <2>5, OthersAreTheQueues
  <2>6. ASSUME UNCHANGED vars PROVE UNCHANGED Queue!vars
    BY <2>6, StutterIsUnseen
  <2> QED  BY <2>1, <2>2, <2>3, <2>4, <2>5, <2>6 DEF Next
<1> QED
  BY <1>1, <1>2, ListInvariant, PTL DEF Spec, IsBlockingQueue, Queue!Spec
-----------------------------------------------------------------------------
(* What this is worth to the callers: what is pushed is received, in order. *)
LEMMA HeadFirst ==
    ASSUME NEW S, NEW s \in Seq(S), s # <<>>
    PROVE  <<Head(s)>> \in Seq(S) /\ Tail(s) \in Seq(S) /\ s = <<Head(s)>> \o Tail(s)
<1>1. 1 \in 1..Len(s) /\ Len(s) \in 1..Len(s)
  BY EmptySeq
<1>2. SubSeq(s, 1, Len(s)) = <<s[1]>> \o SubSeq(s, 1 + 1, Len(s))
  BY <1>1, SubSeqRecursiveFirst
<1>3. SubSeq(s, 1, Len(s)) = s /\ Tail(s) = SubSeq(s, 2, Len(s)) /\ Head(s) = s[1]
  BY SubSeqFull, TailIsSubSeq
<1>4. Head(s) \in S /\ Tail(s) \in Seq(S)
  BY HeadTailProperties
<1> QED  BY <1>2, <1>3, <1>4

LEMMA Passed ==
    ASSUME NEW S, NEW a \in Seq(S), NEW b \in Seq(S), b # <<>>
    PROVE  /\ Append(a, Head(b)) \in Seq(S) /\ Tail(b) \in Seq(S)
           /\ Append(a, Head(b)) \o Tail(b) = a \o b
           /\ (a \o <<Head(b)>>) \o Tail(b) = a \o b
           /\ <<Head(b)>> \in Seq(S)
<1>1. <<Head(b)>> \in Seq(S) /\ Tail(b) \in Seq(S) /\ b = <<Head(b)>> \o Tail(b)
  BY HeadFirst
<1>2. Append(a, Head(b)) = a \o <<Head(b)>> /\ Append(a, Head(b)) \in Seq(S)
  BY HeadTailProperties, AppendIsConcat, AppendProperties
<1>3. (a \o <<Head(b)>>) \o Tail(b) = a \o (<<Head(b)>> \o Tail(b))
  BY <1>1, ConcatAssociative
<1> QED  BY <1>1, <1>2, <1>3

(* What the values are is of no interest to their order. *)
Numbers == Int

Queued ==
    /\ out \in Seq(Numbers) /\ chan \in Seq(Numbers) /\ hold \in Seq(Numbers)
    /\ ListContents \in Seq(Numbers)
    /\ IF loop = "send" THEN Len(hold) = 1 ELSE hold = <<>>

LEMMA ReceiveKeeps ==
    ASSUME Queued, Queue!FIFO, Queue!Receive, UNCHANGED <<hold, ListContents, pushed>>
    PROVE  out' \in Seq(Numbers) /\ chan' \in Seq(Numbers) /\ (Queue!FIFO)'
<1>1. out' = Append(out, Head(chan)) /\ chan' = Tail(chan) /\ chan # <<>>
  BY DEF Queue!Receive
<1>2. /\ out' \in Seq(Numbers) /\ chan' \in Seq(Numbers)
      /\ out' \o chan' = out \o chan
  <2>1. out \in Seq(Numbers) /\ chan \in Seq(Numbers) /\ chan # <<>>
    BY <1>1 DEF Queued
  <2>2. /\ Append(out, Head(chan)) \in Seq(Numbers) /\ Tail(chan) \in Seq(Numbers)
        /\ Append(out, Head(chan)) \o Tail(chan) = out \o chan
    BY ONLY <2>1, Passed
  <2> QED  BY <1>1, <2>2
<1> QED  BY <1>2 DEF Queue!FIFO

LEMMA FIFOStep ==
    ASSUME Queued, Queue!FIFO, limit = 0, ListContents' \in Seq(Numbers),
           [Queue!Next]_(Queue!vars)
    PROVE  Queued' /\ (Queue!FIFO)'
<1> USE DEF Queued, Queue!chanVars, Queue!loopVars
<1>1. ASSUME UNCHANGED <<out, chan, hold, ListContents, pushed, loop>>
      PROVE  Queued' /\ (Queue!FIFO)'
  BY <1>1 DEF Queue!FIFO
<1>2. ASSUME UNCHANGED <<out, chan, hold, ListContents, pushed>>,
             loop # "send", loop' # "send"
      PROVE  Queued' /\ (Queue!FIFO)'
  BY <1>2 DEF Queue!FIFO
<1>3. ASSUME Queue!Receive \/ Queue!ReceiveClosed,
             UNCHANGED <<hold, ListContents, pushed, loop>>
      PROVE  Queued' /\ (Queue!FIFO)'
  <2>1. CASE Queue!Receive
    BY <1>3, <2>1, ReceiveKeeps
  <2>2. CASE Queue!ReceiveClosed
    BY <1>1, <1>3, <2>2 DEF Queue!ReceiveClosed
  <2> QED  BY <1>3, <2>1, <2>2
<1>4. ASSUME NEW p \in Producers, Queue!PushBack(p)
      PROVE  Queued' /\ (Queue!FIFO)'
  <2> DEFINE v == Queue!Value
             front == (out \o chan) \o hold
  <2>1. /\ ListContents' = Append(ListContents, v) /\ pushed' = Append(pushed, v)
        /\ UNCHANGED <<out, chan, hold, loop>>
    BY <1>4 DEF Queue!PushBack, Queue!ListWith
  <2>2. front \in Seq(Numbers) /\ pushed = front \o ListContents
    BY ConcatProperties DEF Queue!FIFO
  <2>3. v \in Numbers
    BY <1>4 DEF Queue!PushBack, Queue!Values, Numbers
  <2> HIDE DEF front, v
  <2>4. <<v>> \in Seq(Numbers) /\ front \o ListContents \in Seq(Numbers)
    BY <2>2, <2>3, ConcatProperties
  <2>5. /\ Append(front \o ListContents, v) = (front \o ListContents) \o <<v>>
        /\ Append(ListContents, v) = ListContents \o <<v>>
    BY <2>3, <2>4, AppendIsConcat
  <2>6. (front \o ListContents) \o <<v>> = front \o (ListContents \o <<v>>)
    <3>1. front \in Seq(Numbers) /\ ListContents \in Seq(Numbers) /\ <<v>> \in Seq(Numbers)
      BY <2>2, <2>4
    <3> QED  BY ONLY <3>1, ConcatAssociative
  <2>7. pushed' = front \o ListContents'
    BY <2>1, <2>2, <2>5, <2>6
  <2> QED  BY <2>1, <2>7 DEF front, Queue!FIFO
<1>5. ASSUME Queue!LoopPopFront
      PROVE  Queued' /\ (Queue!FIFO)'
  <2>1. CASE todo = 0 /\ loop' = "inner"
    BY <1>2, <1>5, <2>1 DEF Queue!LoopPopFront
  <2>2. CASE ListContents # <<>> /\ loop' = "send"
    <3>1. /\ hold = <<>> /\ hold' = <<Head(ListContents)>>
          /\ ListContents' = Tail(ListContents)
          /\ UNCHANGED <<out, chan, pushed>>
      BY <1>5, <2>2 DEF Queue!LoopPopFront
    <3>2. out \o chan \in Seq(Numbers)
      BY ConcatProperties
    <3>3. (out \o chan) \o hold = out \o chan
      BY <3>1, <3>2, ConcatEmptySeq
    <3>4. /\ ((out \o chan) \o <<Head(ListContents)>>) \o Tail(ListContents)
                = (out \o chan) \o ListContents
          /\ <<Head(ListContents)>> \in Seq(Numbers)
      <4>1. out \o chan \in Seq(Numbers) /\ ListContents \in Seq(Numbers) /\ ListContents # <<>>
        BY <2>2, <3>2
      <4> QED  BY ONLY <4>1, Passed
    <3>5. Len(hold') = 1 /\ hold' \in Seq(Numbers)
      BY <3>1, <3>4
    <3>6. (Queue!FIFO)'
      BY <3>1, <3>3, <3>4 DEF Queue!FIFO
    <3> QED  BY <2>2, <3>1, <3>5, <3>6
  <2> QED  BY <1>5, <2>1, <2>2 DEF Queue!LoopPopFront
<1>6. ASSUME Queue!LoopSend
      PROVE  Queued' /\ (Queue!FIFO)'
  <2>1. /\ chan' = chan \o hold /\ hold' = <<>> /\ loop' = "batch"
        /\ UNCHANGED <<out, ListContents, pushed>>
    BY <1>6 DEF Queue!LoopSend
  <2>2. chan' \in Seq(Numbers) /\ out \o chan' \in Seq(Numbers) /\ hold' \in Seq(Numbers)
    BY <2>1, ConcatProperties, EmptySeq
  <2>3. (out \o chan) \o hold = out \o (chan \o hold)
    <3>1. out \in Seq(Numbers) /\ chan \in Seq(Numbers) /\ hold \in Seq(Numbers)
      OBVIOUS
    <3> QED  BY ONLY <3>1, ConcatAssociative
  <2>4. (out \o chan') \o <<>> = out \o chan'
    BY <2>2, ConcatEmptySeq
  <2>5. (Queue!FIFO)'
    BY <2>1, <2>3, <2>4 DEF Queue!FIFO
  <2> QED  BY <2>1, <2>2, <2>5
<1>7. ASSUME NEW p \in Producers, Queue!PushLimited(p) \/ Queue!PushLimitedPanics(p)
      PROVE  FALSE
  BY <1>7 DEF Queue!PushLimited, Queue!PushLimitedPanics, Queue!Unlimited
<1>8. ASSUME NEW p \in Producers, Queue!PushEnd(p)
      PROVE  Queued' /\ (Queue!FIFO)'
  BY <1>1, <1>8 DEF Queue!PushEnd, Queue!PushCheckEvents, Queue!PushSendEvent
<1>9. ASSUME NEW c \in Consumers, Queue!PopCall(c) \/ Queue!PopReturn(c)
      PROVE  Queued' /\ (Queue!FIFO)'
  <2>1. CASE Queue!PopCall(c)
    BY <1>1, <2>1 DEF Queue!PopCall
  <2>2. CASE Queue!PopReturn(c)
    BY <1>3, <2>2 DEF Queue!PopReturn
  <2> QED  BY <1>9, <2>1, <2>2
<1>10. ASSUME NEW k \in Closers, Queue!CloseCas(k) \/ Queue!CloseEnd(k)
       PROVE  Queued' /\ (Queue!FIFO)'
  <2>1. CASE Queue!ClosePop(k)
    BY <1>3, <2>1 DEF Queue!ClosePop
  <2>2. CASE Queue!CloseCas(k) \/ Queue!CloseEvents(k) \/ Queue!CloseC(k)
               \/ Queue!CloseReturn(k)
    BY <1>1, <2>2
    DEF Queue!CloseCas, Queue!CloseEvents, Queue!CloseC, Queue!CloseReturn
  <2> QED  BY <1>10, <2>1, <2>2 DEF Queue!CloseEnd
<1>11. ASSUME Queue!LoopCheck \/ Queue!LoopWait \/ Queue!LoopInner \/ Queue!LoopLen
                \/ Queue!LoopClose
       PROVE  Queued' /\ (Queue!FIFO)'
  BY <1>2, <1>11
  DEF Queue!LoopCheck, Queue!LoopWait, Queue!LoopInner, Queue!LoopLen,
      Queue!LoopClose
<1>12. ASSUME Queue!LoopClear
       PROVE  Queued' /\ (Queue!FIFO)'
  BY <1>2, <1>12 DEF Queue!LoopClear
<1>13. ASSUME UNCHANGED Queue!vars
       PROVE  Queued' /\ (Queue!FIFO)'
  BY <1>1, <1>13 DEF Queue!vars
<1> QED
  BY <1>4, <1>5, <1>6, <1>7, <1>8, <1>9, <1>10, <1>11, <1>12, <1>13
  DEF Queue!Next, Queue!Loop

LEMMA FIFOInvariant ==
    OneProducer => (Spec => [](ListInv /\ Queued /\ Queue!FIFO))
<1> SUFFICES ASSUME OneProducer
             PROVE  Spec => [](ListInv /\ Queued /\ Queue!FIFO)
  OBVIOUS
<1>1. ListInv /\ Init => Queued /\ Queue!FIFO
  <2> SUFFICES ASSUME ListInv, Init PROVE Queued /\ Queue!FIFO
    OBVIOUS
  <2>1. /\ out = <<>> /\ chan = <<>> /\ hold = <<>> /\ pushed = <<>> /\ len = 0
        /\ loop = "check"
    BY DEF Init, Queue!Init, ListInv, TypeInv
  <2>2. ListContents \in Seq(Numbers) /\ Len(ListContents) = 0
    BY <2>1, ListedNow DEF Listed, Numbers
  <2>3. ListContents = <<>> /\ <<>> \in Seq(Numbers)
    BY <2>2, EmptySeq
  <2> QED  BY <2>1, <2>3 DEF Queued, Queue!FIFO
<1>2. /\ ListInv /\ ListInv' /\ [Queue!Next]_(Queue!vars) /\ Queued /\ Queue!FIFO
      => Queued' /\ (Queue!FIFO)'
  <2> SUFFICES ASSUME ListInv, ListInv', [Queue!Next]_(Queue!vars), Queued, Queue!FIFO
               PROVE  Queued' /\ (Queue!FIFO)'
    OBVIOUS
  <2>1. limit = 0 /\ ListContents' \in Seq(Numbers)
    BY ListedNext DEF Listed, Numbers, ListInv, TypeInv
  <2> QED  BY <2>1, FIFOStep
<1>3. Spec => [][Queue!Next]_(Queue!vars)
  BY QueueOnListRefines, PTL DEF IsBlockingQueue, Queue!Spec
<1> QED
  BY <1>1, <1>2, <1>3, ListInvariant, PTL DEF Spec

(* With one producer, what was pushed on the linked list is, in order, what *)
(* was received, what is in C, in the loop's hand, and what a reader finds *)
(* in the list.                                                            *)
THEOREM QueueOnListFIFO == OneProducer => (Spec => []Queue!FIFO)
BY FIFOInvariant, PTL

LEMMA InOneOf ==
    ASSUME NEW S, NEW s \in Seq(S), NEW t \in Seq(S), NEW x,
           \E i \in DOMAIN (s \o t) : (s \o t)[i] = x
    PROVE  (\E i \in DOMAIN s : s[i] = x) \/ (\E i \in DOMAIN t : t[i] = x)
<1>1. PICK i \in DOMAIN (s \o t) : (s \o t)[i] = x
  OBVIOUS
<1>2. /\ s \o t \in Seq(S) /\ Len(s \o t) = Len(s) + Len(t)
      /\ \A j \in 1..Len(s) + Len(t) :
            (s \o t)[j] = IF j <= Len(s) THEN s[j] ELSE t[j - Len(s)]
  BY ConcatProperties
<1>3. /\ DOMAIN s = 1..Len(s) /\ Len(s) \in Nat
      /\ DOMAIN t = 1..Len(t) /\ Len(t) \in Nat
  BY LenProperties
<1>4. i \in 1..Len(s) + Len(t)
  BY <1>1, <1>2, LenProperties
<1>5. CASE i <= Len(s)
  <2>1. i \in DOMAIN s /\ s[i] = x
    BY <1>1, <1>2, <1>3, <1>4, <1>5
  <2> QED  BY <2>1
<1>6. CASE ~(i <= Len(s))
  <2>1. i - Len(s) \in DOMAIN t /\ t[i - Len(s)] = x
    BY <1>1, <1>2, <1>3, <1>4, <1>6
  <2> QED  BY <2>1
<1> QED  BY <1>5, <1>6

(* The value that queue_race loses is lost to the overlap of two Pushes:   *)
(* with one producer every value is in the list, in the loop's hand, in C  *)
(* or received, whenever nobody is inside PushBack.                        *)
THEOREM OneProducerLosesNothing == OneProducer => (Spec => []NothingLost)
<1> SUFFICES ASSUME OneProducer PROVE Spec => []NothingLost
  OBVIOUS
<1>1. ListInv /\ Queued /\ Queue!FIFO => NothingLost
  <2> SUFFICES ASSUME ListInv, Queued, Queue!FIFO, Reading = {},
                      NEW n \in DOMAIN pushed
               PROVE  \/ \E k \in 1..Reached : Chain[k] = pushed[n]
                      \/ \E k \in DOMAIN chan : chan[k] = pushed[n]
                      \/ \E k \in DOMAIN out : out[k] = pushed[n]
                      \/ hold = <<pushed[n]>>
    BY DEF NothingLost
  <2> DEFINE x == pushed[n]
             In(s) == \E i \in DOMAIN s : s[i] = x
  <2>1. /\ out \in Seq(Numbers) /\ chan \in Seq(Numbers) /\ hold \in Seq(Numbers)
        /\ ListContents \in Seq(Numbers)
    BY DEF Queued
  <2>2. out \o chan \in Seq(Numbers)
    BY ONLY <2>1, ConcatProperties
  <2>3. (out \o chan) \o hold \in Seq(Numbers)
    BY ONLY <2>1, <2>2, ConcatProperties
  <2>4. In(((out \o chan) \o hold) \o ListContents)
    BY DEF Queue!FIFO
  <2>5. In((out \o chan) \o hold) \/ In(ListContents)
    BY <2>1, <2>3, <2>4, InOneOf
  <2>6. In((out \o chan) \o hold) => In(out \o chan) \/ In(hold)
    BY <2>1, <2>2, InOneOf
  <2>7. In(out \o chan) => In(out) \/ In(chan)
    BY <2>1, InOneOf
  <2>8. In(hold) => hold = <<x>>
    <3> SUFFICES ASSUME In(hold) PROVE hold = <<x>>
      OBVIOUS
    <3>1. PICK i \in DOMAIN hold : hold[i] = x
      OBVIOUS
    <3>2. DOMAIN hold = 1..Len(hold) /\ Len(hold) \in Nat
      BY <2>1, LenProperties
    <3>3. hold # <<>> /\ Len(hold) = 1
      BY <3>1, <3>2, EmptySeq DEF Queued
    <3>4. i = 1
      BY <3>1, <3>2, <3>3
    <3> QED  BY <2>1, <3>1, <3>3, <3>4
  <2>9. In(ListContents) => \E k \in 1..Reached : Chain[k] = x
    <3>1. /\ Reached = Fwd - Front + 1 /\ Fwd = Last /\ Last \in Nat /\ len \in Nat
          /\ \A k \in 1..Reached : Chain[k] = Front + k - 1
          /\ Len(ListContents) = len
          /\ \A k \in 1..len : ListContents[k] = Front + k - 1
      BY Contents, AtRest
    <3>2. Reached = len
      BY <3>1 DEF Front
    <3>3. DOMAIN ListContents = 1..len
      BY <2>1, <3>1, LenProperties
    <3> QED  BY <3>1, <3>2, <3>3
  <2> HIDE DEF x
  <2>10. \/ \E k \in 1..Reached : Chain[k] = x
         \/ In(chan) \/ In(out) \/ hold = <<x>>
    BY <2>5, <2>6, <2>7, <2>8, <2>9
  <2> QED  BY <2>10 DEF x
<1> QED  BY <1>1, FIFOInvariant, PTL
=============================================================================
