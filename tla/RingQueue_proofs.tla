--------------------------- MODULE RingQueue_proofs ---------------------------
(***************************************************************************)
(* RingQueue implements FifoQueue for all capacities and any number of     *)
(* items: the ring arithmetic of wrap-around and growth loses, repeats and *)
(* reorders nothing.                                                       *)
(***************************************************************************)
EXTENDS RingQueue, SequenceTheorems, TLAPS

Values == Items \cup {Zero}

-----------------------------------------------------------------------------
(* The length computed by Len is below the buffer size, and the contents   *)
(* are a sequence of that many items, each found in its slot.              *)
LEMMA LengthFacts ==
  ASSUME TypeOK
  PROVE  /\ QLen \in Nat
         /\ size = 0 => QLen = 0
         /\ size > 0 => QLen < size
         /\ QLen = 0 <=> head = tail
BY DEF TypeOK, QLen

LEMMA FirstFacts ==
  ASSUME TypeOK, NEW n \in 0..QLen
  PROVE  /\ First(n) \in Seq(Values)
         /\ Len(First(n)) = n
         /\ \A i \in 1..n : First(n)[i] = buff[Slot(head, i - 1, size)]
<1>1. \A i \in 1..n : buff[Slot(head, i - 1, size)] \in Values
  BY LengthFacts DEF TypeOK, QLen, Slot, Slots, Values
<1>2. First(n) \in [1..n -> Values]
  BY <1>1 DEF First
<1>3. n \in Nat
  BY LengthFacts
<1>4. First(n) \in Seq(Values)
  BY <1>2, <1>3, SeqDef
<1>5. Len(First(n)) = n
  BY <1>3, <1>4, LenProperties DEF First
<1>. QED BY <1>4, <1>5 DEF First

(* Returning the first n items of the ring returns the first n items of    *)
(* the contents.                                                           *)
LEMMA FirstIsPrefix ==
  ASSUME TypeOK, NEW n \in 0..QLen
  PROVE  First(n) = SubSeq(Contents, 1, n)
<1>1. QLen \in Nat /\ QLen \in 0..QLen
  BY LengthFacts
<1>2. Contents \in Seq(Values) /\ Len(Contents) = QLen
  BY <1>1, FirstFacts DEF Contents
<1>3. \A i \in 1..QLen : Contents[i] = buff[Slot(head, i - 1, size)]
  BY <1>1, FirstFacts DEF Contents
<1>4. \A i \in 1..n : Contents[i] \in Values
  BY <1>1, <1>2, ElementOfSeq
<1>5. /\ SubSeq(Contents, 1, n) \in Seq(Values)
      /\ Len(SubSeq(Contents, 1, n)) = n
      /\ \A i \in 1..n : SubSeq(Contents, 1, n)[i] = Contents[i]
  <2>1. n \in Int /\ 1 \in Int /\ (n = 0 \/ 1 <= n) /\ n \in Nat
    BY <1>1
  <2>. QED BY <1>4, <2>1, SubSeqProperties
<1>6. /\ First(n) \in Seq(Values)
      /\ Len(First(n)) = n
      /\ \A i \in 1..n : First(n)[i] = buff[Slot(head, i - 1, size)]
  BY FirstFacts
<1>. QED BY <1>1, <1>3, <1>5, <1>6, SeqEqual
-----------------------------------------------------------------------------
(* A function on 1..n is a sequence of length n. *)
LEMMA FunctionIsSeq ==
  ASSUME NEW S, NEW n \in Nat, NEW f \in [1..n -> S]
  PROVE  f \in Seq(S) /\ Len(f) = n
<1>1. f \in Seq(S)
  BY SeqDef
<1>. QED BY <1>1, LenProperties

(* Push keeps the ring well formed, whether or not the buffer grows. *)
LEMMA PushTyped ==
  ASSUME TypeOK, RingAssumption, NEW x \in Items, Push(x)
  PROVE  TypeOK'
<1> DEFINE n == IF size = 0 THEN DefaultCapacity ELSE size
           old == IF size = 0 THEN Empty(n) ELSE buff
           b == [old EXCEPT ![tail] = x]
           t == Wrap(tail + 1, n)
<1>0. call' \in Calls
  BY DEF Push, Calls
<1>1. n \in Nat \ {0} /\ head \in Slots(n) /\ tail \in Slots(n)
  BY DEF TypeOK, RingAssumption, Slots
<1>2. old \in [Slots(n) -> Values]
  BY DEF TypeOK, Empty, Values
<1>3. b \in [Slots(n) -> Values]
  BY <1>1, <1>2 DEF Values
<1>4. t \in Slots(n)
  <2> HIDE DEF n
  <2>1. CASE tail + 1 = n
    BY <1>1, <2>1 DEF Wrap, Slots
  <2>2. CASE tail + 1 # n
    BY <1>1, <2>2 DEF Wrap, Slots
  <2>. QED BY <2>1, <2>2
<1>5. <<>> \in Seq(Items \cup {Zero, Panic})
  OBVIOUS
<1>6. CASE Full(t, n)
  <2>1. size' = 2 * n /\ buff' = Grown(b, n, head) /\ head' = 0 /\ tail' = n
    BY <1>6 DEF Push
  <2>2. Grown(b, n, head) \in [Slots(2 * n) -> Values]
    <3>1. ASSUME NEW i \in Slots(2 * n)
          PROVE  (IF i < n - head THEN b[head + i]
                  ELSE IF i < n THEN b[i - (n - head)] ELSE Zero) \in Values
      <4>1. CASE i < n - head
        <5>1. head + i \in Slots(n)
          BY <1>1, <4>1 DEF Slots
        <5>. QED BY <1>3, <4>1, <5>1
      <4>2. CASE ~(i < n - head) /\ i < n
        <5>1. i - (n - head) \in Slots(n)
          BY <1>1, <4>2 DEF Slots
        <5>. QED BY <1>3, <4>2, <5>1
      <4>3. CASE ~(i < n - head) /\ ~(i < n)
        BY <4>3 DEF Values
      <4>. QED BY <4>1, <4>2, <4>3
    <3>. QED BY <3>1 DEF Grown
  <2>. QED BY <1>0, <1>1, <1>5, <2>1, <2>2 DEF Push, TypeOK, Values
<1>7. CASE ~Full(t, n)
  <2>1. size' = n /\ buff' = b /\ tail' = t /\ head' = head
    BY <1>7 DEF Push
  <2>. QED BY <1>0, <1>1, <1>3, <1>4, <1>5, <2>1 DEF Push, TypeOK, Values, Slots
<1>. QED BY <1>6, <1>7

(* Push appends its argument to the contents. *)
LEMMA PushAppends ==
  ASSUME TypeOK, RingAssumption, NEW x \in Items, Push(x)
  PROVE  Contents' = Append(Contents, x)
<1> DEFINE n == IF size = 0 THEN DefaultCapacity ELSE size
           old == IF size = 0 THEN Empty(n) ELSE buff
           b == [old EXCEPT ![tail] = x]
           t == Wrap(tail + 1, n)
           q == QLen
<1>1. n \in Nat \ {0} /\ head \in Slots(n) /\ tail \in Slots(n)
  BY DEF TypeOK, RingAssumption, Slots
<1>2. b \in [Slots(n) -> Values]
  BY <1>1 DEF TypeOK, Empty, Values
<1>3. q \in Nat /\ q < n
  BY <1>1 DEF QLen, TypeOK, Slots
<1>4. q \in 0..QLen
  BY <1>3
<1>5. /\ Contents \in Seq(Values) /\ Len(Contents) = q
      /\ \A i \in 1..q : Contents[i] = buff[Slot(head, i - 1, size)]
  BY <1>4, FirstFacts DEF Contents
<1>6. /\ Append(Contents, x) \in Seq(Values)
      /\ Len(Append(Contents, x)) = q + 1
      /\ \A i \in 1..q : Append(Contents, x)[i] = Contents[i]
      /\ Append(Contents, x)[q + 1] = x
  BY <1>5, AppendProperties DEF Values
<1>7. \A i \in 1..q : /\ Slot(head, i - 1, n) \in Slots(n)
                      /\ Slot(head, i - 1, n) # tail
                      /\ size # 0
  BY <1>1, <1>3 DEF QLen, Slot, Slots, TypeOK
<1>8. \A i \in 1..q : b[Slot(head, i - 1, n)] = Contents[i]
  BY <1>2, <1>5, <1>7 DEF TypeOK, Slots
<1>9. /\ Slot(head, q, n) = tail
      /\ b[tail] = x
  <2>1. Slot(head, q, n) = tail
    BY <1>1 DEF QLen, Slot, Slots, TypeOK
  <2>2. tail \in DOMAIN old
    BY <1>1 DEF TypeOK, Empty
  <2>. QED BY <2>1, <2>2
<1>10. \A i \in 1..(q + 1) : b[Slot(head, i - 1, n)] = Append(Contents, x)[i]
  BY <1>3, <1>6, <1>8, <1>9
<1>11. /\ QLen' = q + 1
       /\ \A i \in 1..(q + 1) :
             buff'[Slot(head', i - 1, size')] = b[Slot(head, i - 1, n)]
  <2>1. CASE Full(t, n)
    <3>1. size' = 2 * n /\ buff' = Grown(b, n, head) /\ head' = 0 /\ tail' = n
      BY <2>1 DEF Push
    <3>2. q + 1 = n
      BY <1>1, <2>1 DEF Full, Wrap, QLen, TypeOK, Slots
    <3>3. QLen' = n
      BY <1>1, <3>1 DEF QLen
    <3>4. ASSUME NEW i \in 1..n
          PROVE  buff'[Slot(head', i - 1, size')] = b[Slot(head, i - 1, n)]
      <4>1. Slot(head', i - 1, size') = i - 1 /\ i - 1 \in Slots(2 * n)
        BY <1>1, <3>1 DEF Slot, Slots
      <4>2. Grown(b, n, head)[i - 1] = IF i - 1 < n - head THEN b[head + (i - 1)]
                                       ELSE b[(i - 1) - (n - head)]
        BY <1>1, <4>1 DEF Grown
      <4>3. Slot(head, i - 1, n) = IF i - 1 < n - head THEN head + (i - 1)
                                   ELSE (i - 1) - (n - head)
        <5> HIDE DEF n
        <5>1. n \in Nat /\ head \in Nat /\ i \in Nat
          BY <1>1 DEF Slots
        <5>. QED BY <5>1 DEF Slot
      <4>. QED BY <3>1, <4>1, <4>2, <4>3
    <3>. QED BY <3>2, <3>3, <3>4
  <2>2. CASE ~Full(t, n)
    <3>1. size' = n /\ buff' = b /\ tail' = t /\ head' = head
      BY <2>2 DEF Push
    <3>2. QLen' = q + 1
      BY <1>1, <2>2, <3>1 DEF Full, Wrap, QLen, TypeOK, Slots
    <3>. QED BY <3>1, <3>2
  <2>. QED BY <2>1, <2>2
<1>12. Contents' = [i \in 1..(q + 1) |-> buff'[Slot(head', i - 1, size')]]
  BY <1>11 DEF Contents, First
<1>13. Contents' \in [1..(q + 1) -> Values]
  <2>1. \A i \in 1..(q + 1) : Append(Contents, x)[i] \in Values
    BY <1>3, <1>6, ElementOfSeq
  <2>. QED BY <1>10, <1>11, <1>12, <2>1
<1>14. Contents' \in Seq(Values) /\ Len(Contents') = q + 1
  BY <1>3, <1>13, FunctionIsSeq
<1>. QED BY <1>3, <1>6, <1>10, <1>11, <1>12, <1>14, SeqEqual
-----------------------------------------------------------------------------
(* Moving the head over c items keeps the ring well formed and removes the *)
(* first c items of the contents.                                          *)
LEMMA TakeFacts ==
  ASSUME TypeOK, head # tail, NEW c \in 0..QLen,
         head' = HeadAfter(c), UNCHANGED <<size, buff, tail>>
  PROVE  /\ head' \in Slots(size)
         /\ Contents' = SubSeq(Contents, c + 1, Len(Contents))
<1> DEFINE q == QLen
<1>1. size \in Nat \ {0} /\ head \in Slots(size) /\ tail \in Slots(size)
  BY DEF TypeOK, Slots
<1>2. q \in Nat /\ q < size /\ c \in Nat /\ c <= q /\ q \in 0..q
  BY LengthFacts, <1>1
<1>3. head' \in Slots(size)
  BY <1>1, <1>2 DEF HeadAfter, Slots
<1>4. QLen' = q - c
  BY <1>1, <1>2, <1>3 DEF HeadAfter, QLen, Slots
<1>5. /\ Contents \in Seq(Values) /\ Len(Contents) = q
      /\ \A i \in 1..q : Contents[i] = buff[Slot(head, i - 1, size)]
  BY <1>2, FirstFacts DEF Contents
<1>6. \A i \in 1..(q - c) : Slot(head', i - 1, size) = Slot(head, c + i - 1, size)
  <2> HIDE DEF q
  <2>1. \A i \in 1..(q - c) : i \in Nat /\ i <= q - c
    BY <1>2
  <2>. QED BY <1>1, <1>2, <2>1 DEF HeadAfter, Slot, Slots
<1>7. Contents' = [i \in 1..(q - c) |-> buff[Slot(head', i - 1, size)]]
  BY <1>4 DEF Contents, First
<1>8. \A i \in 1..(q - c) : Contents'[i] = Contents[c + i]
  <2>1. \A i \in 1..(q - c) : c + i \in 1..q /\ (c + i) - 1 = c + i - 1
    BY <1>2
  <2>. QED BY <1>5, <1>6, <1>7, <2>1
<1>9. \A i \in 1..q : Contents[i] \in Values
  BY <1>5, ElementOfSeq
<1>10. Contents' \in Seq(Values) /\ Len(Contents') = q - c
  <2>1. \A i \in 1..(q - c) : c + i \in 1..q
    BY <1>2
  <2>2. Contents' \in [1..(q - c) -> Values]
    BY <1>7, <1>8, <1>9, <2>1
  <2>3. q - c \in Nat
    BY <1>2
  <2>. QED BY <2>2, <2>3, FunctionIsSeq
<1>11. /\ SubSeq(Contents, c + 1, q) \in Seq(Values)
       /\ Len(SubSeq(Contents, c + 1, q)) = q - c
       /\ \A i \in 1..(q - c) : SubSeq(Contents, c + 1, q)[i] = Contents[c + i]
  <2>1. \A i \in (c + 1)..q : Contents[i] \in Values
    BY <1>2, <1>9
  <2>2. c + 1 \in Int /\ q \in Int
    BY <1>2
  <2>3. /\ SubSeq(Contents, c + 1, q) \in Seq(Values)
        /\ Len(SubSeq(Contents, c + 1, q)) =
              IF c + 1 <= q THEN q - (c + 1) + 1 ELSE 0
        /\ \A i \in 1..(q - (c + 1) + 1) :
              SubSeq(Contents, c + 1, q)[i] = Contents[(c + 1) + i - 1]
    <3> HIDE DEF q
    <3>. QED BY <2>1, <2>2, SubSeqProperties
  <2>4. \A i \in 1..(q - c) : (c + 1) + i - 1 = c + i
    BY <1>2
  <2>5. q - (c + 1) + 1 = q - c /\ (IF c + 1 <= q THEN q - (c + 1) + 1 ELSE 0) = q - c
    BY <1>2
  <2>. QED BY <2>3, <2>4, <2>5
<1>. QED BY <1>3, <1>5, <1>8, <1>10, <1>11, SeqEqual

(* The two ways to remove nothing and everything. *)
LEMMA EmptyFacts ==
  ASSUME TypeOK
  PROVE  /\ head = tail <=> Contents = <<>>
         /\ First(0) = <<>>
         /\ Contents \in Seq(Values) /\ Len(Contents) = QLen
<1>1. QLen \in Nat /\ QLen \in 0..QLen /\ 0 \in 0..QLen
  BY LengthFacts
<1>2. Contents \in Seq(Values) /\ Len(Contents) = QLen
  BY <1>1, FirstFacts DEF Contents
<1>3. First(0) \in Seq(Values) /\ Len(First(0)) = 0
  BY <1>1, FirstFacts
<1>. QED BY <1>2, <1>3, LengthFacts, EmptySeq
-----------------------------------------------------------------------------
(* What the initial buffer holds. *)
LEMMA InitFacts ==
  ASSUME Init, RingAssumption
  PROVE  TypeOK /\ Fifo!Init
<1>1. size \in Nat
  BY DEF Init, BuffSize, RingAssumption
<1>2. TypeOK
  <2>1. buff \in [Slots(size) -> Items \cup {Zero}]
    BY DEF Init, Empty
  <2>2. safe \in BOOLEAN /\ head = 0 /\ tail = 0 /\ stuck = FALSE
    BY DEF Init
  <2>3. result \in Seq(Items \cup {Zero, Panic})
    BY EmptySeq DEF Init
  <2>4. call \in Calls
    BY DEF Init, Calls
  <2>. QED BY <1>1, <2>1, <2>2, <2>3, <2>4 DEF TypeOK
<1>3. Contents = <<>>
  BY <1>2, EmptyFacts DEF Init
<1>. QED BY <1>2, <1>3 DEF Init, Fifo!Init

(* Every call keeps the ring well formed and is the step of the abstract   *)
(* queue that has the same name and argument.                              *)
LEMMA StepFacts ==
  ASSUME TypeOK, RingAssumption, [Next]_vars
  PROVE  TypeOK' /\ [Fifo!Next]_<<Contents, call, result>>
<1> USE DEF Values
<1>0. /\ Contents \in Seq(Values) /\ Len(Contents) = QLen /\ QLen \in Nat
      /\ head = tail <=> Contents = <<>>
      /\ head = tail <=> QLen = 0
  BY EmptyFacts, LengthFacts
<1>1. ASSUME NEW x \in Items, Push(x)
      PROVE  TypeOK' /\ Fifo!Push(x)
  BY <1>1, PushTyped, PushAppends DEF Push, Fifo!Push
<1>2. ASSUME NEW n \in Nat, NEW c \in 0..QLen, c = Fifo!AtMost(n), head # tail,
             head' = HeadAfter(c), result' = First(c), call' \in Calls,
             UNCHANGED <<safe, stuck, size, buff, tail>>
      PROVE  TypeOK' /\ Fifo!Take(n)
  <2>1. /\ head' \in Slots(size)
        /\ Contents' = SubSeq(Contents, c + 1, Len(Contents))
    BY <1>2, TakeFacts
  <2>2. result' \in Seq(Values) /\ result' = SubSeq(Contents, 1, c)
    BY <1>2, FirstFacts, FirstIsPrefix
  <2>3. result' \in Seq(Items \cup {Zero, Panic})
    BY <2>2, SeqMonotonic
  <2>4. TypeOK'
    BY <1>2, <2>1, <2>3 DEF TypeOK, Slots
  <2>. QED BY <1>2, <2>1, <2>2, <2>4 DEF Fifo!Take
<1>3. ASSUME NEW n \in Nat, NEW c \in 0..QLen, c = Fifo!AtMost(n),
             result' = First(c), call' \in Calls,
             UNCHANGED <<safe, stuck, size, buff, head, tail>>
      PROVE  TypeOK' /\ Fifo!Look(n)
  <2>1. result' \in Seq(Values) /\ result' = SubSeq(Contents, 1, c)
    BY <1>3, FirstFacts, FirstIsPrefix
  <2>2. result' \in Seq(Items \cup {Zero, Panic})
    BY <2>1, SeqMonotonic
  <2>3. Contents' = Contents
    BY <1>3 DEF Contents, First, QLen
  <2>4. TypeOK'
    BY <1>3, <2>2 DEF TypeOK
  <2>. QED BY <1>3, <2>1, <2>3, <2>4 DEF Fifo!Look
<1>4. 0 \in 0..QLen /\ QLen \in 0..QLen /\ Contents = First(QLen)
      /\ First(0) = <<>> /\ QLen = Fifo!AtMost(QLen)
  BY <1>0, EmptyFacts DEF Contents, Fifo!AtMost
<1>5. head # tail => /\ 1 \in 0..QLen /\ First(1) = <<buff[head]>>
                     /\ 1 = Fifo!AtMost(1)
  <2>1. ASSUME head # tail PROVE 1 \in 0..QLen
    BY <1>0, <2>1
  <2>2. ASSUME head # tail PROVE buff[Slot(head, 1 - 1, size)] = buff[head]
    BY <2>2 DEF Slot, TypeOK
  <2>3. ASSUME head # tail PROVE 1 = Fifo!AtMost(1)
    BY <1>0, <2>1, <2>3 DEF Fifo!AtMost
  <2>. QED BY <2>1, <2>2, <2>3 DEF First
<1>6. ASSUME NEW n \in Nat, head = tail, result' = <<>>, call' \in Calls,
             UNCHANGED <<safe, stuck, size, buff, head, tail>>
      PROVE  TypeOK' /\ Fifo!Take(n) /\ Fifo!Look(n)
  <2>1. 0 = Fifo!AtMost(n) /\ QLen = 0 /\ Contents = <<>>
    BY <1>0, <1>6 DEF Fifo!AtMost
  <2>2. TypeOK' /\ Fifo!Look(n)
    BY <1>3, <1>4, <1>6, <2>1
  <2>3. SubSeq(Contents, 1, Len(Contents)) = Contents
    BY <1>0, <1>4, FirstIsPrefix
  <2>4. SubSeq(Contents, 0 + 1, Len(Contents)) = Contents
    BY <2>3
  <2>. QED BY <2>1, <2>2, <2>4 DEF Fifo!Take, Fifo!Look
<1>7. ASSUME PopBody, call' \in Calls
      PROVE  TypeOK' /\ Fifo!Take(1)
  <2>1. CASE head = tail
    BY <1>6, <1>7, <2>1 DEF PopBody
  <2>2. CASE head # tail
    <3>1. Wrap(head + 1, size) = HeadAfter(1)
      BY <2>2 DEF TypeOK, Wrap, HeadAfter
    <3>. QED BY <1>2, <1>5, <1>7, <2>2, <3>1 DEF PopBody
  <2>. QED BY <2>1, <2>2
<1>8. ASSUME PeekBody, call' \in Calls
      PROVE  TypeOK' /\ Fifo!Look(1)
  <2>1. CASE head = tail
    BY <1>6, <1>8, <2>1 DEF PeekBody
  <2>2. CASE head # tail
    BY <1>3, <1>5, <1>8, <2>2 DEF PeekBody
  <2>. QED BY <2>1, <2>2
<1>9. ASSUME NEW r, head = tail, result' = <<r>>, r \in {Zero, Panic},
             call' \in Calls, UNCHANGED <<safe, stuck, size, buff, head, tail>>
      PROVE  TypeOK' /\ Contents = <<>> /\ Contents' = Contents
  <2>1. Contents = <<>> /\ Contents' = Contents
    BY <1>0, <1>9 DEF Contents, First, QLen
  <2>2. TypeOK'
    BY <1>9 DEF TypeOK
  <2>. QED BY <2>1, <2>2
<1>10. ASSUME Pop
       PROVE  TypeOK' /\ [Fifo!Next]_<<Contents, call, result>>
  <2>1. call' = <<"Pop">> /\ call' \in Calls /\ PopBody
    BY <1>10 DEF Pop, Calls
  <2>. QED BY <1>7, <2>1 DEF Fifo!Next
<1>11. ASSUME NEW n \in Counts, PopMulti(n)
       PROVE  TypeOK' /\ [Fifo!Next]_<<Contents, call, result>>
  <2>1. call' = <<"PopMulti", n>> /\ call' \in Calls /\ n \in Nat
    BY <1>11, RingAssumption DEF PopMulti, Calls, Counts
  <2>2. TypeOK' /\ Fifo!Take(n)
    <3>1. CASE head = tail
      BY <1>6, <1>11, <2>1, <3>1 DEF PopMulti
    <3>2. CASE head # tail
      <4>1. PopCount(n) \in 0..QLen
        BY <2>1, <3>2 DEF PopCount, MinOf, QLen, TypeOK
      <4>2. PopCount(n) = Fifo!AtMost(n)
        BY <1>0, <2>1, <3>2 DEF PopCount, MinOf, QLen, TypeOK, Fifo!AtMost
      <4>. QED BY <1>2, <1>11, <2>1, <3>2, <4>1, <4>2 DEF PopMulti
    <3>. QED BY <3>1, <3>2
  <2>. QED BY <2>1, <2>2 DEF Fifo!Next
<1>12. ASSUME PopAll
       PROVE  TypeOK' /\ [Fifo!Next]_<<Contents, call, result>>
  <2>1. call' = <<"PopAll">> /\ call' \in Calls
    BY <1>12 DEF PopAll, Calls
  <2>2. TypeOK' /\ Fifo!Take(QLen)
    <3>1. CASE head = tail
      BY <1>0, <1>6, <1>12, <2>1, <3>1 DEF PopAll
    <3>2. CASE head # tail
      <4>1. tail = HeadAfter(QLen)
        BY <3>2 DEF TypeOK, QLen, HeadAfter
      <4>. QED BY <1>0, <1>2, <1>4, <1>12, <2>1, <3>2, <4>1 DEF PopAll
    <3>. QED BY <3>1, <3>2
  <2>. QED BY <1>0, <2>1, <2>2 DEF Fifo!Next
<1>13. ASSUME Peek
       PROVE  TypeOK' /\ [Fifo!Next]_<<Contents, call, result>>
  <2>1. call' = <<"Peek">> /\ call' \in Calls /\ PeekBody
    BY <1>13 DEF Peek, Calls
  <2>. QED BY <1>8, <2>1 DEF Fifo!Next
<1>14. ASSUME Snapshot
       PROVE  TypeOK' /\ [Fifo!Next]_<<Contents, call, result>>
  <2>1. call' = <<"Snapshot">> /\ call' \in Calls
    BY <1>14 DEF Snapshot, Calls
  <2>2. TypeOK' /\ Fifo!Look(QLen)
    BY <1>0, <1>3, <1>4, <1>14, <2>1 DEF Snapshot
  <2>. QED BY <1>0, <2>1, <2>2 DEF Fifo!Next
<1>15. ASSUME Clear
       PROVE  TypeOK' /\ [Fifo!Next]_<<Contents, call, result>>
  <2>0. call' = <<"Clear">> /\ call' \in Calls
    BY <1>15 DEF Clear, Calls
  <2>1. TypeOK'
    BY <1>15, <2>0 DEF Clear, TypeOK
  <2>2. QLen' = 0 /\ Contents' = [i \in 1..0 |-> buff'[Slot(head', i - 1, size')]]
    BY <1>15 DEF Clear, QLen, Contents, First
  <2>3. Contents' \in [1..0 -> Values]
    BY <2>2
  <2>4. Contents' = <<>>
    BY <2>3, FunctionIsSeq, EmptySeq
  <2>. QED BY <1>15, <2>0, <2>1, <2>4 DEF Clear, Fifo!Next, Fifo!Clear
<1>16. ASSUME MustPop
       PROVE  TypeOK' /\ [Fifo!Next]_<<Contents, call, result>>
  <2>1. call' = <<"MustPop">> /\ call' \in Calls
    BY <1>16 DEF MustPop, Calls
  <2>2. TypeOK' /\ Fifo!Or(Zero, Fifo!Take(1))
    <3>1. CASE head = tail
      BY <1>9, <1>16, <2>1, <3>1 DEF MustPop, Fifo!Or
    <3>2. CASE head # tail
      BY <1>0, <1>7, <1>16, <2>1, <3>2 DEF MustPop, Fifo!Or
    <3>. QED BY <3>1, <3>2
  <2>. QED BY <2>1, <2>2 DEF Fifo!Next
<1>17. ASSUME MustPeek
       PROVE  TypeOK' /\ [Fifo!Next]_<<Contents, call, result>>
  <2>1. call' = <<"MustPeek">> /\ call' \in Calls
    BY <1>17 DEF MustPeek, Calls
  <2>2. TypeOK' /\ Fifo!Or(Panic, Fifo!Look(1))
    <3>1. CASE head = tail
      BY <1>9, <1>17, <2>1, <3>1 DEF MustPeek, Fifo!Or
    <3>2. CASE head # tail
      BY <1>0, <1>8, <1>17, <2>1, <3>2 DEF MustPeek, Fifo!Or
    <3>. QED BY <3>1, <3>2
  <2>. QED BY <2>1, <2>2 DEF Fifo!Next
<1>18. ASSUME MustBlocks
       PROVE  TypeOK' /\ [Fifo!Next]_<<Contents, call, result>>
  BY <1>18 DEF MustBlocks, TypeOK, Contents, First, QLen
<1>19. ASSUME UNCHANGED vars
       PROVE  TypeOK' /\ [Fifo!Next]_<<Contents, call, result>>
  BY <1>19 DEF vars, TypeOK, Contents, First, QLen
<1>. QED
  BY <1>1, <1>10, <1>11, <1>12, <1>13, <1>14, <1>15, <1>16, <1>17, <1>18, <1>19
  DEF Next, Fifo!Next
-----------------------------------------------------------------------------
(* The invariants noted at q.head and q.tail hold for every capacity. *)
THEOREM RingTyped == Spec => []TypeOK
<1>. USE RingAssumption
<1>1. Init => TypeOK
  BY InitFacts
<1>2. TypeOK /\ [Next]_vars => TypeOK'
  BY StepFacts
<1>. QED BY <1>1, <1>2, PTL DEF Spec

(* Every behaviour of the ring, over its contents, is one of the FIFO      *)
(* queue.                                                                  *)
THEOREM RingIsFifo == Spec => IsFifo
<1>. USE RingAssumption
<1>1. Init => Fifo!Init
  BY InitFacts
<1>2. TypeOK /\ [Next]_vars => [Fifo!Next]_<<Contents, call, result>>
  BY StepFacts
<1>. QED BY <1>1, <1>2, RingTyped, PTL DEF Spec, IsFifo, Fifo!Spec

(* The buffer is replaced only by the push that fills its last slot. *)
THEOREM RingGrowsOnlyWhenFull == Spec => GrowsOnlyWhenFull
<1>1. ASSUME TypeOK, [Next]_vars, size # 0, size' # size
      PROVE  QLen = size - 1
  <2>1. PICK x \in Items : Push(x)
    BY <1>1 DEF Next, vars, Pop, PopBody, PopMulti, PopAll, Peek, PeekBody, Snapshot, Clear,
                MustPop, MustPeek, MustBlocks
  <2>2. Full(Wrap(tail + 1, size), size)
    BY <1>1, <2>1 DEF Push
  <2>. QED BY <1>1, <2>2 DEF Full, Wrap, QLen, TypeOK
<1>. QED BY <1>1, RingTyped, PTL DEF Spec, GrowsOnlyWhenFull
=============================================================================
