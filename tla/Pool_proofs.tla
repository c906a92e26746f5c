------------------------------ MODULE Pool_proofs ------------------------------
(***************************************************************************)
(* For any putters, getters, times to live and numbers of values: a value  *)
(* that was put is never in two places, and in one unless two pushes that  *)
(* overlapped in the list have unlinked it (OneOwner), and nothing is      *)
(* destroyed before its time (NotTooEarly).                                *)
(***************************************************************************)
EXTENDS Pool, SequenceTheorems, TLAPS

(* The hands: a call or the checker holds an item exactly where it is      *)
(* between two of its accesses, and the clock does not go back.            *)
Hands ==
    /\ \A p \in Putters : Len(put[p].item) = IF put[p].at \in {"push", "link"} THEN 1 ELSE 0
    /\ \A g \in Getters : Len(get[g].item) = IF get[g].at = "decide" THEN 1 ELSE 0
    /\ Len(hand) = IF checker \in {"return", "link"} THEN 1 ELSE 0
    /\ checker = "drain" => closed
    /\ now >= FirstNow /\ stamp <= now

TypeInv == TypeOK /\ Hands

(* The seven kinds of places a value can be in. *)
InPut(v) == \E p \in Putters : Holds(put[p].item, v)
InGet(v) == \E g \in Getters : Holds(get[g].item, v)
InList(v) == Holds(list, v)
InHand(v) == Holds(hand, v)
Nowhere(v) == /\ ~InPut(v) /\ ~InGet(v) /\ ~InList(v) /\ ~InHand(v)
              /\ v \notin given /\ v \notin destroyed /\ v \notin dropped
Somewhere(v) == \/ InPut(v) \/ InGet(v) \/ InList(v) \/ InHand(v)
                \/ v \in given \/ v \in destroyed \/ v \in dropped
OneKind(v) ==
    /\ InPut(v) => ~InGet(v) /\ ~InList(v) /\ ~InHand(v)
    /\ InGet(v) => ~InList(v) /\ ~InHand(v)
    /\ InList(v) => ~InHand(v)
    /\ InPut(v) \/ InGet(v) \/ InList(v) \/ InHand(v)
          => v \notin given /\ v \notin destroyed /\ v \notin dropped
    /\ v \in given => v \notin destroyed /\ v \notin dropped
    /\ v \in destroyed => v \notin dropped

(* No value is twice in a sequence. *)
Once(items) == \A i, j \in DOMAIN items : items[i].value = items[j].value => i = j

(* A value that was put is in one kind of place (or was lost by two pushes *)
(* that overlapped), and there in one only; a value that was not put yet   *)
(* is nowhere.                                                             *)
Filed == /\ \A v \in 1..values : (v \in lost \/ Somewhere(v)) /\ OneKind(v)
         /\ \A v \in Values : v > values => Nowhere(v)
OnePutter == \A v \in Values : \A p, q \in Putters :
                Holds(put[p].item, v) /\ Holds(put[q].item, v) => p = q
OneGetter == \A v \in Values : \A g, h \in Getters :
                Holds(get[g].item, v) /\ Holds(get[h].item, v) => g = h
Placed == Filed /\ OnePutter /\ OneGetter /\ Once(list)

Inv == TypeInv /\ Placed
-----------------------------------------------------------------------------
(* Sequences of items: what the head, the tail and a concatenation hold.   *)
LEMMA HeadTail ==
    ASSUME NEW s \in Seq(Item), s # <<>>
    PROVE  /\ Head(s) \in Item /\ Tail(s) \in Seq(Item)
           /\ Head(s) = s[1] /\ 1 \in DOMAIN s
           /\ Len(Tail(s)) = Len(s) - 1
           /\ \A i \in 1..Len(s) - 1 : Tail(s)[i] = s[i + 1]
  BY HeadTailProperties

LEMMA TailHolds ==
    ASSUME NEW s \in Seq(Item), s # <<>>, Once(s)
    PROVE  /\ Once(Tail(s)) /\ Holds(s, Head(s).value)
           /\ \A v : Holds(Tail(s), v) <=> Holds(s, v) /\ v # Head(s).value
<1>1. /\ DOMAIN s = 1..Len(s) /\ Len(s) \in Nat
      /\ DOMAIN Tail(s) = 1..Len(s) - 1
  BY HeadTail
<1>2. \A i \in 1..Len(s) - 1 : Tail(s)[i] = s[i + 1] /\ i + 1 \in 1..Len(s)
  BY <1>1, HeadTail
<1>3. Head(s) = s[1] /\ 1 \in 1..Len(s)
  BY <1>1, HeadTail
<1>4. \A i \in 1..Len(s) : i # 1 => i - 1 \in 1..Len(s) - 1 /\ (i - 1) + 1 = i
  BY <1>1
<1>5. Once(Tail(s))
  BY <1>1, <1>2 DEF Once
<1>6. ASSUME NEW v, Holds(Tail(s), v) PROVE Holds(s, v) /\ v # Head(s).value
  BY <1>1, <1>2, <1>3, <1>6 DEF Holds, Once
<1>7. ASSUME NEW v, Holds(s, v), v # Head(s).value PROVE Holds(Tail(s), v)
  <2>1. PICK i \in 1..Len(s) : s[i].value = v
    BY <1>1, <1>7 DEF Holds
  <2>2. i # 1
    BY <1>3, <1>7, <2>1
  <2> QED
    <3>1. i - 1 \in DOMAIN Tail(s) /\ Tail(s)[i - 1] = s[i]
      BY <1>1, <1>2, <1>4, <2>2
    <3> QED
      BY <2>1, <3>1 DEF Holds
<1> QED
  BY <1>1, <1>3, <1>5, <1>6, <1>7 DEF Holds

LEMMA ConcatHolds ==
    ASSUME NEW s \in Seq(Item), NEW t \in Seq(Item)
    PROVE  /\ s \o t \in Seq(Item)
           /\ \A v : Holds(s \o t, v) <=> Holds(s, v) \/ Holds(t, v)
           /\ (Once(s) /\ Once(t) /\ \A v \in Values : ~(Holds(s, v) /\ Holds(t, v)))
                 => Once(s \o t)
<1>1. /\ s \o t \in Seq(Item) /\ Len(s) \in Nat /\ Len(t) \in Nat
      /\ DOMAIN s = 1..Len(s) /\ DOMAIN t = 1..Len(t)
      /\ DOMAIN (s \o t) = 1..Len(s) + Len(t)
  BY ConcatProperties
<1>2. \A i \in 1..Len(s) + Len(t) :
         (s \o t)[i] = IF i <= Len(s) THEN s[i] ELSE t[i - Len(s)]
  BY ConcatProperties
<1>3. \A i \in 1..Len(s) : i \in 1..Len(s) + Len(t) /\ (s \o t)[i] = s[i]
  BY <1>1, <1>2
<1>4. \A i \in 1..Len(t) :
         i + Len(s) \in 1..Len(s) + Len(t) /\ (s \o t)[i + Len(s)] = t[i]
  BY <1>1, <1>2
<1>5. \A i \in 1..Len(s) + Len(t) :
         \/ i \in 1..Len(s)
         \/ i - Len(s) \in 1..Len(t) /\ i = (i - Len(s)) + Len(s)
  BY <1>1
<1>6. \A v : Holds(s \o t, v) <=> Holds(s, v) \/ Holds(t, v)
  <2>1. ASSUME NEW v, Holds(s, v) PROVE Holds(s \o t, v)
    BY <1>1, <1>3, <2>1 DEF Holds
  <2>2. ASSUME NEW v, Holds(t, v) PROVE Holds(s \o t, v)
    BY <1>1, <1>4, <2>2 DEF Holds
  <2>3. ASSUME NEW v, Holds(s \o t, v) PROVE Holds(s, v) \/ Holds(t, v)
    <3>1. PICK i \in 1..Len(s) + Len(t) : (s \o t)[i].value = v
      BY <1>1, <2>3 DEF Holds
    <3>2. CASE i \in 1..Len(s)
      BY <1>1, <1>3, <3>1, <3>2 DEF Holds
    <3>3. CASE i - Len(s) \in 1..Len(t)
      BY <1>1, <1>2, <3>1, <3>3 DEF Holds
    <3> QED
      BY <1>5, <3>2, <3>3
  <2> QED
    BY <2>1, <2>2, <2>3
<1>7. ASSUME Once(s), Once(t), \A v \in Values : ~(Holds(s, v) /\ Holds(t, v)),
             NEW i \in 1..Len(s) + Len(t), NEW j \in 1..Len(s) + Len(t),
             (s \o t)[i].value = (s \o t)[j].value
      PROVE  i = j
  <2>1. \A k \in 1..Len(s), l \in 1..Len(t) : s[k].value # t[l].value
    <3>1. \A k \in 1..Len(s) : s[k].value \in Values /\ Holds(s, s[k].value)
      <4>1. \A k \in 1..Len(s) : s[k] \in Item
        BY <1>1
      <4> QED
        BY <1>1, <4>1 DEF Item, Holds
    <3>2. \A l \in 1..Len(t) : Holds(t, t[l].value)
      BY <1>1 DEF Holds
    <3> QED
      BY <1>7, <3>1, <3>2
  <2>2. CASE i \in 1..Len(s) /\ j \in 1..Len(s)
    BY <1>1, <1>3, <1>7, <2>2 DEF Once
  <2>3. CASE i - Len(s) \in 1..Len(t) /\ j - Len(s) \in 1..Len(t)
    BY <1>1, <1>4, <1>5, <1>7, <2>3 DEF Once
  <2>4. CASE i \in 1..Len(s) /\ j - Len(s) \in 1..Len(t)
    BY <1>1, <1>3, <1>4, <1>7, <2>1, <2>4
  <2>5. CASE i - Len(s) \in 1..Len(t) /\ j \in 1..Len(s)
    BY <1>1, <1>3, <1>4, <1>7, <2>1, <2>5
  <2> QED
    BY <1>5, <2>2, <2>3, <2>4, <2>5
<1> QED
  BY <1>1, <1>6, <1>7 DEF Once

(* What a push may leave of a torn list: each element of it is the one     *)
(* pushed (from is 0) or one that was linked, and none is linked twice.    *)
LEMMA SurvivorsFrom ==
    ASSUME NEW S, NEW items \in Seq(S), NEW e \in S, NEW t \in Survivors(items, e)
    PROVE  /\ t \in Seq(S) /\ DOMAIN t = 1..Len(t)
           /\ \E from \in [1..Len(t) -> 0..Len(items)] :
                 /\ \A i, j \in 1..Len(t) : from[i] = from[j] => i = j
                 /\ \A i \in 1..Len(t) :
                       t[i] = IF from[i] = 0 THEN e ELSE items[from[i]]
<1>1. PICK part \in Parts(items) : t = part \/ t \in Inserted(part, e)
  BY DEF Survivors
<1>2. PICK n \in 0..Len(items) : \E p \in Picks(n, items) :
                                    part = [i \in 1..n |-> items[p[i]]]
  BY DEF Parts
<1>3. PICK p \in Picks(n, items) : part = [i \in 1..n |-> items[p[i]]]
  BY <1>2
<1>4. n \in Nat /\ Len(items) \in Nat /\ DOMAIN items = 1..Len(items)
  OBVIOUS
<1>5. /\ p \in [1..n -> 1..Len(items)]
      /\ \A i, j \in 1..n : i < j => p[i] < p[j]
  BY <1>4 DEF Picks
<1>6. \A i \in 1..n : p[i] \in 1..Len(items)
  BY <1>5
<1>7. \A i, j \in 1..n : p[i] = p[j] => i = j
  <2> SUFFICES ASSUME NEW i \in 1..n, NEW j \in 1..n, i < j PROVE p[i] # p[j]
    BY <1>4
  <2> QED
    BY <1>4, <1>5, <1>6
<1>8. \A i \in 1..Len(items) : items[i] \in S
  BY <1>4
<1>9. part \in Seq(S) /\ Len(part) = n /\ DOMAIN part = 1..n
  <2>1. part \in [1..n -> S]
    BY <1>3, <1>6, <1>8
  <2> QED
    BY <1>4, <2>1
<1>10. CASE t = part
  <2>1. p \in [1..Len(t) -> 0..Len(items)] /\ \A i \in 1..n : p[i] # 0
    BY <1>4, <1>5, <1>6, <1>9, <1>10
  <2>2. t \in Seq(S) /\ Len(t) = n /\ DOMAIN t = 1..n
    BY <1>9, <1>10
  <2>3. \A i \in 1..Len(t) : t[i] = IF p[i] = 0 THEN e ELSE items[p[i]]
    BY <1>3, <1>10, <2>1, <2>2
  <2>4. \A i, j \in 1..Len(t) : p[i] = p[j] => i = j
    BY <1>7, <2>2
  <2> QED
    BY <2>1, <2>2, <2>3, <2>4
<1>11. CASE t \in Inserted(part, e)
  <2>1. PICK at \in 1..n + 1 :
           t = [i \in 1..n + 1 |-> IF i < at THEN part[i]
                                   ELSE IF i = at THEN e ELSE part[i - 1]]
    BY <1>9, <1>11 DEF Inserted
  <2> DEFINE from == [i \in 1..n + 1 |-> IF i < at THEN p[i]
                                         ELSE IF i = at THEN 0 ELSE p[i - 1]]
  <2>2. /\ \A i \in 1..n + 1 : i < at => i \in 1..n
        /\ \A i \in 1..n + 1 : i > at => i - 1 \in 1..n
    BY <1>4
  <2>3. \A i \in 1..n : part[i] \in S /\ part[i] = items[p[i]] /\ p[i] # 0
    BY <1>3, <1>6, <1>8
  <2>4. t \in Seq(S) /\ Len(t) = n + 1 /\ DOMAIN t = 1..n + 1
    <3>1. t \in [1..n + 1 -> S]
      BY <1>4, <2>1, <2>2, <2>3
    <3> QED
      BY <1>4, <3>1
  <2>5. \A i \in 1..n + 1 : from[i] \in 0..Len(items)
    BY <1>4, <1>6, <2>2
  <2>6. ASSUME NEW i \in 1..n + 1, NEW j \in 1..n + 1, from[i] = from[j]
        PROVE  i = j
    <3>1. i = at <=> from[i] = 0
      BY <1>4, <2>2, <2>3
    <3>2. j = at <=> from[j] = 0
      BY <1>4, <2>2, <2>3
    <3>3. CASE i = at \/ j = at
      BY <2>6, <3>1, <3>2, <3>3
    <3>4. CASE i < at /\ j < at
      BY <1>4, <1>7, <2>2, <2>6, <3>4
    <3>5. CASE i > at /\ j > at
      BY <1>4, <1>7, <2>2, <2>6, <3>5
    <3>6. CASE (i < at /\ j > at) \/ (i > at /\ j < at)
      <4>1. /\ \A k \in 1..n + 1 : k < at => from[k] = p[k]
            /\ \A k \in 1..n + 1 : k > at => from[k] = p[k - 1]
        OBVIOUS
      <4> HIDE DEF from
      <4>2. CASE i < at /\ j > at
        <5>1. i = j - 1
          BY <1>7, <2>2, <2>6, <4>1, <4>2
        <5> QED
          BY <4>2, <5>1
      <4>3. CASE i > at /\ j < at
        <5>1. j = i - 1
          BY <1>7, <2>2, <2>6, <4>1, <4>3
        <5> QED
          BY <4>3, <5>1
      <4> QED
        BY <3>6, <4>2, <4>3
    <3> QED
      BY <3>3, <3>4, <3>5, <3>6
  <2>7. \A i \in 1..n + 1 : t[i] = IF from[i] = 0 THEN e ELSE items[from[i]]
    BY <1>4, <2>1, <2>2, <2>3
  <2>8. from \in [1..n + 1 -> 0..Len(items)]
    BY <2>5
  <2> HIDE DEF from
  <2>9. /\ from \in [1..Len(t) -> 0..Len(items)]
        /\ \A i, j \in 1..Len(t) : from[i] = from[j] => i = j
        /\ \A i \in 1..Len(t) : t[i] = IF from[i] = 0 THEN e ELSE items[from[i]]
    BY <2>4, <2>6, <2>7, <2>8
  <2> QED
    BY <2>4, <2>9
<1> QED
  BY <1>1, <1>10, <1>11

(* What a push leaves of the items: each once, and all but those that are  *)
(* lost.                                                                   *)
LEMMA PushHolds ==
    ASSUME list \in Seq(Item), NEW e \in Item, NEW s \in Seq(Item), PushEnds(e, s),
           \A v : Holds(s, v) <=> Holds(list, v) \/ v = e.value
    PROVE  /\ list' \in Seq(Item)
           /\ Once(s) /\ Once(list) /\ ~Holds(list, e.value) => Once(list')
           /\ \A v : Holds(list', v) => Holds(s, v)
           /\ \A v : Holds(s, v) => Holds(list', v) \/ v \in lost'
           /\ lost \subseteq lost' /\ lost' \subseteq lost \cup Values
           /\ torn' = torn
<1>1. \A i \in DOMAIN s : s[i] \in Item /\ s[i].value \in Values
  <2>1. \A i \in DOMAIN s : s[i] \in Item
    OBVIOUS
  <2> QED
    BY <2>1 DEF Item
<1>2. /\ \A v : Holds(s, v) => Holds(list', v) \/ v \in lost'
      /\ lost \subseteq lost' /\ lost' \subseteq lost \cup Values
      /\ torn' = torn
  BY <1>1 DEF PushEnds, ValuesOf, Holds
<1>3. CASE ~torn
  <2>1. list' = s
    BY <1>3 DEF PushEnds, Linked
  <2> QED
    BY <1>2, <2>1
<1>4. CASE torn
  <2>1. list' \in Survivors(list, e)
    BY <1>4 DEF PushEnds, Linked
  <2>2. /\ list' \in Seq(Item) /\ DOMAIN list' = 1..Len(list')
        /\ \E from \in [1..Len(list') -> 0..Len(list)] :
              /\ \A i, j \in 1..Len(list') : from[i] = from[j] => i = j
              /\ \A i \in 1..Len(list') :
                    list'[i] = IF from[i] = 0 THEN e ELSE list[from[i]]
    BY <2>1, SurvivorsFrom
  <2>3. PICK from \in [1..Len(list') -> 0..Len(list)] :
           /\ \A i, j \in 1..Len(list') : from[i] = from[j] => i = j
           /\ \A i \in 1..Len(list') :
                 list'[i] = IF from[i] = 0 THEN e ELSE list[from[i]]
    BY <2>2
  <2>4. DOMAIN list = 1..Len(list) /\ Len(list) \in Nat
    OBVIOUS
  <2>5. \A i \in 1..Len(list') : from[i] = 0 \/ from[i] \in DOMAIN list
    BY <2>3, <2>4
  <2>6. \A v : Holds(list', v) => Holds(s, v)
    <3>1. ASSUME NEW v, Holds(list', v) PROVE Holds(list, v) \/ v = e.value
      <4>1. PICK i \in 1..Len(list') : list'[i].value = v
        BY <2>2, <3>1 DEF Holds
      <4>2. CASE from[i] = 0
        BY <2>3, <4>1, <4>2
      <4>3. CASE from[i] \in DOMAIN list
        BY <2>3, <2>4, <4>1, <4>3 DEF Holds
      <4> QED
        BY <2>5, <4>2, <4>3
    <3> QED
      BY <3>1
  <2>7. Once(s) /\ Once(list) /\ ~Holds(list, e.value) => Once(list')
    BY <2>2, <2>3, <2>5 DEF Once, Holds
  <2> QED
    BY <1>2, <2>2, <2>6, <2>7
<1> QED
  BY <1>3, <1>4

(* A sequence of one item holds that item. *)
LEMMA OneHolds ==
    ASSUME NEW s \in Seq(Item)
    PROVE  /\ Len(s) = 1 => /\ s[1] \in Item /\ Once(s) /\ s = <<s[1]>> /\ s # <<>>
                            /\ \A v : Holds(s, v) <=> v = s[1].value
           /\ Len(s) = 0 => s = <<>> /\ \A v : ~Holds(s, v)
<1>1. DOMAIN s = 1..Len(s) /\ Len(s) \in Nat
  OBVIOUS
<1> QED
  BY <1>1 DEF Holds, Once

(* What a Put pushes at the back, and the checker at the front.            *)
LEMMA PutHolds ==
    ASSUME list \in Seq(Item), NEW one \in Seq(Item), Len(one) = 1
    PROVE  /\ one[1] \in Item /\ list \o one \in Seq(Item)
           /\ \A v : Holds(list \o one, v) <=> Holds(list, v) \/ v = one[1].value
           /\ Once(list) /\ ~Holds(list, one[1].value) => Once(list \o one)
  BY OneHolds, ConcatHolds

LEMMA ReturnHolds ==
    ASSUME list \in Seq(Item), hand \in Seq(Item), Len(hand) = 1
    PROVE  /\ hand[1] \in Item /\ Returned \in Seq(Item)
           /\ \A v : Holds(Returned, v) <=> Holds(list, v) \/ v = hand[1].value
           /\ Once(list) /\ ~Holds(list, hand[1].value) => Once(Returned)
  BY OneHolds, ConcatHolds DEF Returned
-----------------------------------------------------------------------------
LEMMA InitType == Init => TypeInv
<1> SUFFICES ASSUME Init PROVE TypeInv
  OBVIOUS
<1> USE PoolAssumption DEF Init, Idle
<1>1. ttl \in TTLs /\ expireFunc \in BOOLEAN /\ closed \in BOOLEAN /\ clearing \in BOOLEAN
      /\ torn \in BOOLEAN /\ lost \subseteq Values
  OBVIOUS
<1>2. put \in [Putters -> [at : {"idle", "stamp", "push", "link"}, item : Seq(Item)]]
  OBVIOUS
<1>3. get \in [Getters -> [at : {"idle", "check", "pop", "decide"}, item : Seq(Item)]]
  OBVIOUS
<1>4. TypeOK
  BY <1>1, <1>2, <1>3 DEF TypeOK
<1>5. Hands
  BY DEF Hands
<1> QED
  BY <1>4, <1>5 DEF TypeInv

(* Destroying a value records it once. *)
LEMMA DestroyType ==
    ASSUME TypeOK, NEW v \in Values, Destroy(v)
    PROVE  /\ destroyed' \subseteq Values /\ dropped' \subseteq Values
           /\ given' = given
  BY DEF TypeOK, Destroy

LEMMA NextType == TypeInv /\ [Next]_vars => TypeInv'
<1> SUFFICES ASSUME TypeInv, [Next]_vars PROVE TypeInv'
  OBVIOUS
<1> USE PoolAssumption DEF TypeInv
<1> USE DEF poolVars, listVars, checkVars, outVars
<1>a. list # <<>> => Head(list) \in Item /\ Head(list).value \in Values
                     /\ Tail(list) \in Seq(Item) /\ <<Head(list)>> \in Seq(Item)
  <2> SUFFICES ASSUME list # <<>>
               PROVE  Head(list) \in Item /\ Tail(list) \in Seq(Item)
    BY DEF Item
  <2> QED
    BY HeadTail DEF TypeOK
<1>b. \A g \in Getters : get[g].at = "decide" =>
         get[g].item[1] \in Item /\ get[g].item[1].value \in Values
  <2> SUFFICES ASSUME NEW g \in Getters, get[g].at = "decide"
               PROVE  get[g].item[1] \in Item
    BY DEF Item
  <2>1. get[g].item \in Seq(Item) /\ Len(get[g].item) = 1
    BY DEF TypeOK, Hands
  <2> QED
    BY <2>1, OneHolds
<1>c. \A p \in Putters : put[p].at = "link" =>
         put[p].item[1] \in Item /\ put[p].item[1].value \in Values
  <2> SUFFICES ASSUME NEW p \in Putters, put[p].at = "link"
               PROVE  put[p].item[1] \in Item
    BY DEF Item
  <2>1. put[p].item \in Seq(Item) /\ Len(put[p].item) = 1
    BY DEF TypeOK, Hands
  <2> QED
    BY <2>1, OneHolds
<1>d. ASSUME NEW g \in Getters,
             NEW r \in [at : {"idle", "check", "pop", "decide"}, item : Seq(Item)],
             Len(r.item) = IF r.at = "decide" THEN 1 ELSE 0,
             get' = [get EXCEPT ![g] = r]
      PROVE  /\ get' \in [Getters -> [at : {"idle", "check", "pop", "decide"},
                                      item : Seq(Item)]]
             /\ \A h \in Getters :
                   Len(get'[h].item) = IF get'[h].at = "decide" THEN 1 ELSE 0
  BY <1>d DEF TypeOK, Hands
<1>1. CASE UNCHANGED vars
  BY <1>1 DEF vars, TypeOK, Hands
<1>2. CASE Tick
  <2>1. TypeOK'
    BY <1>2 DEF TypeOK, Hands, Tick
  <2>2. Hands'
    BY <1>2 DEF TypeOK, Hands, Tick
  <2> QED
    BY <2>1, <2>2
<1>3. CASE Close
  <2>1. TypeOK'
    BY <1>3 DEF TypeOK, Hands, Close
  <2>2. Hands'
    BY <1>3 DEF TypeOK, Hands, Close
  <2> QED
    BY <2>1, <2>2
<1>4. CASE ClearCall
  <2>1. TypeOK'
    BY <1>4 DEF TypeOK, Hands, ClearCall
  <2>2. Hands'
    BY <1>4 DEF TypeOK, Hands, ClearCall
  <2> QED
    BY <2>1, <2>2
<1>5. CASE ClearPop
  <2>1. TypeOK'
    BY <1>5, <1>a, DestroyType DEF TypeOK, ClearPop, PopFront
  <2>2. Hands'
    BY <1>5 DEF TypeOK, Hands, ClearPop
  <2> QED
    BY <2>1, <2>2
<1>6. CASE ClearList
  <2>1. TypeOK'
    <3>1. \A i \in DOMAIN list : list[i].value \in Values
      <4>1. \A i \in DOMAIN list : list[i] \in Item
        BY DEF TypeOK
      <4> QED
        BY <4>1 DEF Item
    <3>2. <<>> \in Seq(Item)
      OBVIOUS
    <3>3. dropped' \subseteq Values
      BY <1>6, <3>1 DEF TypeOK, ClearList, ValuesOf
    <3> QED
      BY <1>6, <3>2, <3>3 DEF TypeOK, ClearList
  <2>2. Hands'
    BY <1>6 DEF TypeOK, Hands, ClearList, Item
  <2> QED
    BY <2>1, <2>2
<1>7. CASE CheckerStart
  <2>1. TypeOK'
    BY <1>7 DEF TypeOK, Hands, CheckerStart, CheckerTask
  <2>2. Hands'
    BY <1>7 DEF TypeOK, Hands, CheckerStart, CheckerTask
  <2> QED
    BY <2>1, <2>2
<1>8. CASE CheckerDrain
  <2>1. TypeOK'
    BY <1>8, <1>a, DestroyType DEF TypeOK, CheckerDrain, PopFront
  <2>2. Hands'
    BY <1>8 DEF TypeOK, Hands, CheckerDrain
  <2> QED
    BY <2>1, <2>2
<1>9. CASE CheckerSweep
  <2>1. TypeOK'
    <3>1. /\ destroyed' \subseteq Values /\ dropped' \subseteq Values
          /\ given' \subseteq Values
      BY <1>9, <1>a, DestroyType DEF TypeOK, CheckerSweep, PopFront
    <3>2. hand' \in Seq(Item) /\ list' \in Seq(Item)
      BY <1>9, <1>a DEF TypeOK, CheckerSweep, PopFront
    <3> QED
      BY <1>9, <3>1, <3>2 DEF TypeOK, CheckerSweep, PopFront
  <2>2. Hands'
    BY <1>9 DEF TypeOK, Hands, CheckerSweep
  <2> QED
    BY <2>1, <2>2
<1>10. CASE CheckerSweepEnd
  <2>1. TypeOK'
    BY <1>10 DEF TypeOK, Hands, CheckerSweepEnd
  <2>2. Hands'
    BY <1>10 DEF TypeOK, Hands, CheckerSweepEnd
  <2> QED
    BY <2>1, <2>2
<1>11. CASE CheckerReturn
  <2>1. TypeOK'
    <3>1. hand \in Seq(Item) /\ Len(hand) = 1 /\ list \in Seq(Item)
      BY <1>11 DEF TypeOK, Hands, CheckerReturn
    <3>2. list' \in Seq(Item) /\ lost' \subseteq lost \cup Values /\ torn' = torn
      BY <1>11, <3>1, ReturnHolds, PushHolds DEF CheckerReturn
    <3> QED
      BY <1>11, <3>2 DEF TypeOK, CheckerReturn
  <2>2. Hands'
    BY <1>11 DEF TypeOK, Hands, CheckerReturn
  <2> QED
    BY <2>1, <2>2
<1>12. CASE CheckerPush
  <2>1. TypeOK'
    BY <1>12 DEF TypeOK, CheckerPush, PushBegins, Writing
  <2>2. Hands'
    BY <1>12 DEF TypeOK, Hands, CheckerPush
  <2> QED
    BY <2>1, <2>2
<1>13. ASSUME NEW p \in Putters, PutCheck(p) PROVE TypeInv'
  <2>1. TypeOK'
    BY <1>13 DEF TypeOK, Hands, PutCheck
  <2>2. Hands'
    BY <1>13 DEF TypeOK, Hands, PutCheck
  <2> QED
    BY <2>1, <2>2
<1>14. ASSUME NEW p \in Putters, PutStamp(p) PROVE TypeInv'
  <2>1. TypeOK'
    <3>1. ExpireAt \in Nat /\ values + 1 \in Values /\ values + 1 \in 0..MaxPuts
      BY <1>14 DEF TypeOK, Hands, PutStamp, ExpireAt, Values
    <3> DEFINE r == [at |-> "push",
                     item |-> <<[value |-> values + 1, expireAt |-> ExpireAt]>>]
    <3>2. r \in [at : {"idle", "stamp", "push", "link"}, item : Seq(Item)]
      BY <3>1 DEF Item
    <3>3. put' = [put EXCEPT ![p] = r]
      BY <1>14 DEF PutStamp
    <3> HIDE DEF r
    <3>4. put' \in [Putters -> [at : {"idle", "stamp", "push", "link"},
                                item : Seq(Item)]]
      BY <3>2, <3>3 DEF TypeOK
    <3> QED
      BY <1>14, <3>1, <3>4 DEF TypeOK, PutStamp, poolVars, listVars, checkVars,
                               outVars
  <2>2. Hands'
    BY <1>14 DEF TypeOK, Hands, PutStamp, ExpireAt, Item, Values
  <2> QED
    BY <2>1, <2>2
<1>15. ASSUME NEW p \in Putters, PutPush(p) PROVE TypeInv'
  <2>1. TypeOK'
    BY <1>15 DEF TypeOK, PutPush, PushBegins, Writing
  <2>2. Hands'
    BY <1>15 DEF TypeOK, Hands, PutPush
  <2> QED
    BY <2>1, <2>2
<1>16. ASSUME NEW p \in Putters, PutLink(p) PROVE TypeInv'
  <2>1. TypeOK'
    <3>1. list' \in Seq(Item) /\ lost' \subseteq lost \cup Values /\ torn' = torn
      <4>1. put[p].item \in Seq(Item) /\ Len(put[p].item) = 1 /\ list \in Seq(Item)
        BY <1>16 DEF TypeOK, Hands, PutLink
      <4> QED
        BY <1>16, <4>1, PutHolds, PushHolds DEF PutLink
    <3>2. early' \subseteq Values
      BY <1>16, <1>c DEF TypeOK, PutLink
    <3> QED
      BY <1>16, <3>1, <3>2 DEF TypeOK, PutLink, Idle
  <2>2. Hands'
    BY <1>16, OneHolds DEF TypeOK, Hands, PutLink, Idle, Item
  <2> QED
    BY <2>1, <2>2
<1>17. ASSUME NEW g \in Getters, GetCall(g) PROVE TypeInv'
  <2>1. TypeOK'
    BY <1>17 DEF TypeOK, Hands, GetCall
  <2>2. Hands'
    BY <1>17 DEF TypeOK, Hands, GetCall
  <2> QED
    BY <2>1, <2>2
<1>18. ASSUME NEW g \in Getters, GetCheck(g) PROVE TypeInv'
  <2>1. TypeOK'
    BY <1>18 DEF TypeOK, Hands, GetCheck
  <2>2. Hands'
    BY <1>18 DEF TypeOK, Hands, GetCheck
  <2> QED
    BY <2>1, <2>2
<1>19. ASSUME NEW g \in Getters, GetPop(g) PROVE TypeInv'
  <2>0. /\ get' \in [Getters -> [at : {"idle", "check", "pop", "decide"},
                                 item : Seq(Item)]]
        /\ \A h \in Getters :
              Len(get'[h].item) = IF get'[h].at = "decide" THEN 1 ELSE 0
    <3> DEFINE r == IF list = <<>> THEN Idle
                    ELSE [at |-> "decide", item |-> <<Head(list)>>]
    <3>1. /\ r \in [at : {"idle", "check", "pop", "decide"}, item : Seq(Item)]
          /\ Len(r.item) = IF r.at = "decide" THEN 1 ELSE 0
      BY <1>a DEF Idle
    <3>2. get' = [get EXCEPT ![g] = r]
      BY <1>19 DEF GetPop
    <3> HIDE DEF r
    <3> QED
      BY <1>d, <3>1, <3>2
  <2>1. TypeOK'
    BY <1>19, <1>a, <2>0 DEF TypeOK, GetPop, PopFront
  <2>2. Hands'
    BY <1>19, <2>0 DEF TypeOK, Hands, GetPop
  <2> QED
    BY <2>1, <2>2
<1>20. ASSUME NEW g \in Getters, GetDecide(g) PROVE TypeInv'
  <2>0. /\ get' \in [Getters -> [at : {"idle", "check", "pop", "decide"},
                                 item : Seq(Item)]]
        /\ \A h \in Getters :
              Len(get'[h].item) = IF get'[h].at = "decide" THEN 1 ELSE 0
    <3>1. PICK r \in {Idle, [at |-> "check", item |-> <<>>]} :
             get' = [get EXCEPT ![g] = r]
      BY <1>20 DEF GetDecide
    <3>2. /\ r \in [at : {"idle", "check", "pop", "decide"}, item : Seq(Item)]
          /\ Len(r.item) = IF r.at = "decide" THEN 1 ELSE 0
      <4>1. <<>> \in Seq(Item) /\ Len(<<>>) = 0
        OBVIOUS
      <4>2. CASE r = Idle
        BY <4>1, <4>2 DEF Idle
      <4>3. CASE r = [at |-> "check", item |-> <<>>]
        BY <4>1, <4>3
      <4> QED
        BY <4>2, <4>3
    <3> QED
      BY <1>d, <3>1, <3>2
  <2>1. TypeOK'
    <3>2. /\ given' \subseteq Values /\ destroyed' \subseteq Values
          /\ dropped' \subseteq Values
      BY <1>20, <1>b, DestroyType DEF TypeOK, GetDecide
    <3> QED
      BY <1>20, <2>0, <3>2 DEF TypeOK, GetDecide
  <2>2. Hands'
    BY <1>20, <2>0 DEF TypeOK, Hands, GetDecide
  <2> QED
    BY <2>1, <2>2
<1> QED
  BY <1>1, <1>2, <1>3, <1>4, <1>5, <1>6, <1>7, <1>8, <1>9, <1>10, <1>11, <1>12, <1>13, <1>14, <1>15, <1>16, <1>17, <1>18, <1>19, <1>20 DEF Next, Checker, Put, PutEnd, GetEnd
-----------------------------------------------------------------------------
LEMMA InitPlaced == Init => Placed
<1> SUFFICES ASSUME Init PROVE Placed
  OBVIOUS
<1> USE PoolAssumption DEF Init, Idle, Holds
<1>1. \A v : Nowhere(v)
  BY DEF Nowhere, InPut, InGet, InList, InHand
<1>2. OnePutter /\ OneGetter /\ Once(list)
  BY DEF OnePutter, OneGetter, Once
<1> QED
  BY <1>1, <1>2 DEF Placed, Filed

(* What is somewhere was put; what a step leaves where it was.             *)
LEMMA WasPut ==
    ASSUME TypeInv, Placed, NEW v \in Values, ~Nowhere(v)
    PROVE  v \in 1..values /\ OneKind(v)
  BY PoolAssumption DEF TypeInv, TypeOK, Placed, Filed, Values

Same(x) ==
    /\ InPut(x)' <=> InPut(x)
    /\ InGet(x)' <=> InGet(x)
    /\ InList(x)' <=> InList(x)
    /\ InHand(x)' <=> InHand(x)
    /\ x \in given' <=> x \in given
    /\ x \in destroyed' <=> x \in destroyed
    /\ x \in dropped' <=> x \in dropped

(* A step moves one value, or none, from one place to another.             *)
LEMMA Moves ==
    ASSUME TypeInv, Placed, values' = values, lost \subseteq lost', NEW v,
           \A x \in Values : x # v => Same(x),
           v \in Values => Same(v) \/ (Somewhere(v)' /\ OneKind(v)' /\ ~Nowhere(v))
    PROVE  Filed'
<1>1. 1..values \subseteq Values /\ values \in Nat
  BY PoolAssumption DEF TypeInv, TypeOK, Values
<1>2. ASSUME NEW x \in Values, Same(x)
      PROVE  /\ Somewhere(x) => Somewhere(x)'
             /\ OneKind(x) => OneKind(x)'
             /\ Nowhere(x) => Nowhere(x)'
  BY <1>2 DEF Same, Somewhere, OneKind, Nowhere
<1>3. ASSUME NEW x \in 1..values
      PROVE  ((x \in lost \/ Somewhere(x)) /\ OneKind(x))'
  <2>1. (x \in lost \/ Somewhere(x)) /\ OneKind(x) /\ x \in Values
    BY <1>1 DEF Placed, Filed
  <2> QED
    BY <1>2, <2>1
<1>4. ASSUME NEW x \in Values, x > values PROVE Nowhere(x)'
  <2>1. Nowhere(x)
    BY <1>4 DEF Placed, Filed
  <2> QED
    BY <1>2, <2>1
<1> QED
  BY <1>3, <1>4 DEF Filed

(* Or, when two pushes have overlapped, it loses some from the list.       *)
LEMMA Loses ==
    ASSUME TypeInv, Placed, values' = values, lost \subseteq lost',
           \A x \in Values : Somewhere(x) => Somewhere(x)' \/ x \in lost',
           \A x \in Values : OneKind(x) => OneKind(x)',
           \A x \in Values : Nowhere(x) => Nowhere(x)'
    PROVE  Filed'
<1>1. 1..values \subseteq Values /\ values \in Nat
  BY PoolAssumption DEF TypeInv, TypeOK, Values
<1>2. ASSUME NEW x \in 1..values
      PROVE  ((x \in lost \/ Somewhere(x)) /\ OneKind(x))'
  <2>1. (x \in lost \/ Somewhere(x)) /\ OneKind(x) /\ x \in Values
    BY <1>1 DEF Placed, Filed
  <2> QED
    BY <2>1
<1>3. ASSUME NEW x \in Values, x > values PROVE Nowhere(x)'
  BY <1>3 DEF Placed, Filed
<1> QED
  BY <1>2, <1>3 DEF Filed

LEMMA Stays ==
    ASSUME TypeInv, Placed, lost \subseteq lost',
           UNCHANGED <<list, hand, values, given, destroyed, dropped>>,
           \A p \in Putters : put'[p].item = put[p].item,
           \A g \in Getters : get'[g].item = get[g].item
    PROVE  Placed'
<1>1. \A x : Same(x)
  BY DEF Same, InPut, InGet, InList, InHand
<1>2. Filed'
  BY <1>1, Moves
<1>3. OnePutter' /\ OneGetter' /\ Once(list)'
  BY DEF Placed, OnePutter, OneGetter, Once
<1> QED
  BY <1>2, <1>3 DEF Placed

(* The first item of the list is destroyed.                                *)
LEMMA ListDestroyed ==
    ASSUME TypeInv, Placed, list # <<>>, Destroy(Head(list).value), list' = Tail(list),
           UNCHANGED <<hand, values, put, get, lost>>
    PROVE  Placed'
<1>1. PICK v \in Values : v = Head(list).value
  BY HeadTail DEF TypeInv, TypeOK, Item
<1>2. /\ Once(list') /\ InList(v)
      /\ \A x : InList(x)' <=> InList(x) /\ x # v
  BY <1>1, TailHolds DEF TypeInv, TypeOK, Placed, InList
<1>3. \A x : InPut(x)' = InPut(x) /\ InGet(x)' = InGet(x) /\ InHand(x)' = InHand(x)
  BY DEF InPut, InGet, InHand
<1>4. OneKind(v) /\ ~Nowhere(v)
  BY <1>1, <1>2, WasPut DEF Nowhere
<1>5. \A x \in Values : x # v => Same(x)
  BY <1>1, <1>2, <1>3 DEF Same, Destroy
<1>6. Somewhere(v)' /\ OneKind(v)'
  BY <1>1, <1>2, <1>3, <1>4 DEF Somewhere, OneKind, Destroy
<1>7. Filed'
  BY <1>4, <1>5, <1>6, Moves
<1> QED
  BY <1>2, <1>7 DEF Placed, OnePutter, OneGetter

(* A value is made, or moves between a call's hand and the rest of the pool. *)
LEMMA PutStampPlaced ==
    ASSUME TypeInv, Placed, NEW p \in Putters, PutStamp(p)
    PROVE  Placed'
<1>1. PICK v \in Values : v = values + 1
  BY PoolAssumption DEF PutStamp, TypeInv, TypeOK, Values
<1>2. Nowhere(v) /\ values \in Nat
  BY <1>1 DEF Placed, Filed, TypeInv, TypeOK
<1>3. \A x : Holds(put'[p].item, x) <=> x = v
  BY <1>1 DEF PutStamp, TypeInv, TypeOK, Holds
<1>4. \A q \in Putters : q # p => put'[q] = put[q]
  BY DEF PutStamp, TypeInv, TypeOK
<1>5. \A x : ~Holds(put[p].item, x)
  BY OneHolds DEF PutStamp, TypeInv, TypeOK, Hands
<1>6. \A x : InPut(x)' <=> InPut(x) \/ x = v
  BY <1>3, <1>4, <1>5 DEF InPut
<1>7. /\ \A x : InGet(x)' = InGet(x) /\ InHand(x)' = InHand(x) /\ InList(x)' = InList(x)
      /\ UNCHANGED <<list, hand, get, given, destroyed, dropped>>
  BY DEF InGet, InHand, InList, PutStamp, listVars, outVars, checkVars
<1>8. \A x \in Values : x # v => Same(x)
  BY <1>6, <1>7 DEF Same
<1>9. Somewhere(v)' /\ OneKind(v)'
  BY <1>2, <1>6, <1>7 DEF Somewhere, OneKind, Nowhere
<1>10. Filed'
  <2>1. ASSUME NEW x \in Values, x # v
        PROVE  /\ Somewhere(x) => Somewhere(x)'
               /\ OneKind(x) => OneKind(x)'
               /\ Nowhere(x) => Nowhere(x)'
    BY <1>8, <2>1 DEF Same, Somewhere, OneKind, Nowhere
  <2>2. values' = v
    BY <1>1 DEF PutStamp
  <2>3. 1..v \subseteq Values
    BY PoolAssumption DEF Values
  <2>4. ASSUME NEW x \in 1..v
        PROVE  ((x \in lost \/ Somewhere(x)) /\ OneKind(x))'
    <3>1. x = v \/ x \in 1..values
      BY <1>1, <1>2
    <3>2. lost' = lost
      BY DEF PutStamp, listVars
    <3> QED
      BY <1>9, <2>1, <2>3, <3>1, <3>2 DEF Placed, Filed
  <2>5. ASSUME NEW x \in Values, x > v PROVE Nowhere(x)'
    <3>1. x > values /\ x # v
      BY <1>1, <1>2, <2>5, PoolAssumption DEF Values
    <3> QED
      BY <2>1, <3>1 DEF Placed, Filed
  <2> QED
    BY <2>2, <2>4, <2>5 DEF Filed
<1>11. OnePutter'
  BY <1>2, <1>3, <1>4 DEF OnePutter, Placed, Nowhere, InPut
<1> QED
  BY <1>7, <1>10, <1>11 DEF Placed, OneGetter

LEMMA PutLinkPlaced ==
    ASSUME TypeInv, Placed, NEW p \in Putters, PutLink(p)
    PROVE  Placed'
<1>0. /\ put[p].item \in Seq(Item) /\ Len(put[p].item) = 1 /\ list \in Seq(Item)
      /\ PushEnds(put[p].item[1], list \o put[p].item)
  BY DEF PutLink, TypeInv, TypeOK, Hands
<1>1. PICK v \in Values : v = put[p].item[1].value
  BY <1>0, OneHolds DEF Item
<1>2. \A x : Holds(put[p].item, x) <=> x = v
  BY <1>0, <1>1, OneHolds
<1>3. InPut(v) /\ OneKind(v) /\ ~Nowhere(v)
  BY <1>2, WasPut DEF InPut, Nowhere
<1>4. /\ \A q \in Putters : q # p => put'[q] = put[q]
      /\ \A x : ~Holds(put'[p].item, x)
  BY DEF PutLink, TypeInv, TypeOK, Idle, Holds
<1>5. \A q \in Putters : Holds(put[q].item, v) => q = p
  BY <1>2 DEF Placed, OnePutter
<1>6. \A x \in Values : InPut(x)' <=> InPut(x) /\ x # v
  BY <1>2, <1>4, <1>5 DEF InPut
<1>7. /\ \A x : InList(x)' => InList(x) \/ x = v
      /\ \A x : InList(x) \/ x = v => InList(x)' \/ x \in lost'
      /\ Once(list)' /\ lost \subseteq lost'
  <2>1. ~InList(v) /\ Once(list)
    BY <1>3 DEF OneKind, Placed
  <2> DEFINE all == list \o put[p].item
             e == put[p].item[1]
  <2>2. /\ e \in Item /\ all \in Seq(Item) /\ PushEnds(e, all) /\ e.value = v
        /\ \A x : Holds(all, x) <=> Holds(list, x) \/ x = e.value
        /\ Once(all) /\ ~Holds(list, e.value)
    BY <1>0, <1>1, <2>1, PutHolds DEF InList
  <2> HIDE DEF all, e
  <2> QED
    BY <1>0, <2>1, <2>2, PushHolds DEF InList
<1>8. /\ \A x : InGet(x)' = InGet(x) /\ InHand(x)' = InHand(x)
      /\ UNCHANGED <<hand, get, given, destroyed, dropped, values>>
  BY DEF InGet, InHand, PutLink, outVars, checkVars
<1>9. Filed'
  <2>1. ASSUME NEW x \in Values
        PROVE  /\ Somewhere(x) => Somewhere(x)' \/ x \in lost'
               /\ OneKind(x) => OneKind(x)'
               /\ Nowhere(x) => Nowhere(x)'
    BY <1>3, <1>6, <1>7, <1>8 DEF Somewhere, OneKind, Nowhere
  <2> QED
    BY <1>7, <1>8, <2>1, Loses
<1>10. OnePutter' /\ OneGetter'
  BY <1>4, <1>8 DEF Placed, OnePutter, OneGetter
<1> QED
  BY <1>7, <1>9, <1>10 DEF Placed

LEMMA GetPopPlaced ==
    ASSUME TypeInv, Placed, NEW g \in Getters, GetPop(g), list # <<>>
    PROVE  Placed'
<1>0. list \in Seq(Item) /\ Once(list)
  BY DEF TypeInv, TypeOK, Placed
<1>1. PICK v \in Values : v = Head(list).value
  BY <1>0, HeadTail DEF Item
<1>2. /\ Once(list)' /\ InList(v)
      /\ \A x : InList(x)' <=> InList(x) /\ x # v
  BY <1>0, <1>1, TailHolds DEF GetPop, PopFront, InList
<1>3. OneKind(v) /\ ~Nowhere(v) /\ ~InGet(v)
  BY <1>2, WasPut DEF Nowhere, OneKind
<1>4. /\ \A h \in Getters : h # g => get'[h] = get[h]
      /\ \A x : Holds(get'[g].item, x) <=> x = v
  <2>1. get' = [get EXCEPT ![g] = [at |-> "decide", item |-> <<Head(list)>>]]
    BY DEF GetPop
  <2>2. DOMAIN get = Getters
    BY DEF TypeInv, TypeOK
  <2>3. \A h \in Getters : h # g => get'[h] = get[h]
    BY <2>1, <2>2
  <2>4. get'[g].item = <<Head(list)>>
    BY <2>1, <2>2
  <2> QED
    BY <1>1, <2>3, <2>4 DEF Holds
<1>5. \A x : ~Holds(get[g].item, x)
  BY OneHolds DEF GetPop, TypeInv, TypeOK, Hands
<1>6. \A x : InGet(x)' <=> InGet(x) \/ x = v
  BY <1>4, <1>5 DEF InGet
<1>7. /\ \A x : InPut(x)' = InPut(x) /\ InHand(x)' = InHand(x)
      /\ UNCHANGED <<hand, put, given, destroyed, dropped, values, lost>>
  BY DEF InPut, InHand, GetPop, PopFront, outVars, checkVars
<1>8. \A x \in Values : x # v => Same(x)
  BY <1>2, <1>6, <1>7 DEF Same
<1>9. Somewhere(v)' /\ OneKind(v)'
  BY <1>2, <1>3, <1>6, <1>7 DEF Somewhere, OneKind
<1>10. Filed'
  BY <1>3, <1>7, <1>8, <1>9, Moves
<1>11. OneGetter'
  BY <1>3, <1>4 DEF Placed, OneGetter, InGet
<1> QED
  BY <1>2, <1>7, <1>10, <1>11 DEF Placed, OnePutter

LEMMA GetDecidePlaced ==
    ASSUME TypeInv, Placed, NEW g \in Getters, GetDecide(g)
    PROVE  Placed'
<1>0. get[g].item \in Seq(Item) /\ Len(get[g].item) = 1
  BY DEF GetDecide, TypeInv, TypeOK, Hands
<1>1. PICK v \in Values : v = get[g].item[1].value
  BY <1>0, OneHolds DEF Item
<1>2. \A x : Holds(get[g].item, x) <=> x = v
  BY <1>0, <1>1, OneHolds
<1>3. OneKind(v) /\ InGet(v) /\ ~Nowhere(v)
  BY <1>2, WasPut DEF InGet, Nowhere
<1>4. /\ \A h \in Getters : h # g => get'[h] = get[h]
      /\ \A x : ~Holds(get'[g].item, x)
  BY DEF GetDecide, TypeInv, TypeOK, Idle, Holds
<1>5. \A x \in Values : InGet(x)' <=> InGet(x) /\ x # v
  BY <1>2, <1>4 DEF InGet, Placed, OneGetter
<1>6. \/ given' = given \cup {v} /\ UNCHANGED <<destroyed, dropped>>
      \/ destroyed' = destroyed \cup {v} /\ UNCHANGED <<given, dropped>>
      \/ dropped' = dropped \cup {v} /\ UNCHANGED <<given, destroyed>>
  BY <1>1 DEF GetDecide, Destroy
<1>7. /\ \A x : InPut(x)' = InPut(x) /\ InHand(x)' = InHand(x) /\ InList(x)' = InList(x)
      /\ UNCHANGED <<hand, put, list, values, lost>>
  BY DEF InPut, InHand, InList, GetDecide, listVars, checkVars
<1>8. \A x \in Values : x # v => Same(x)
  BY <1>5, <1>6, <1>7 DEF Same
<1>9. Somewhere(v)' /\ OneKind(v)'
  BY <1>3, <1>5, <1>6, <1>7 DEF Somewhere, OneKind
<1>10. Filed'
  BY <1>3, <1>7, <1>8, <1>9, Moves
<1>11. OneGetter'
  BY <1>4 DEF Placed, OneGetter
<1> QED
  BY <1>7, <1>10, <1>11 DEF Placed, OnePutter

(* The checker takes the first item out to look at it, and puts it back.   *)
LEMMA SweepPlaced ==
    ASSUME TypeInv, Placed, CheckerSweep
    PROVE  Placed'
<1>1. CASE ~Fresh(Head(list), stamp)
  BY <1>1, ListDestroyed DEF CheckerSweep, PopFront
<1>2. CASE Fresh(Head(list), stamp)
  <2>0. list \in Seq(Item) /\ Once(list) /\ list # <<>> /\ Len(hand) = 0 /\ hand \in Seq(Item)
    BY DEF TypeInv, TypeOK, Placed, CheckerSweep, PopFront, Hands
  <2>1. PICK v \in Values : v = Head(list).value
    BY <2>0, HeadTail DEF Item
  <2>2. /\ Once(list)' /\ InList(v)
        /\ \A x : InList(x)' <=> InList(x) /\ x # v
    BY <2>0, <2>1, TailHolds DEF CheckerSweep, PopFront, InList
  <2>3. OneKind(v) /\ ~Nowhere(v)
    BY <2>2, WasPut DEF Nowhere
  <2>4. \A x : (InHand(x)' <=> x = v) /\ ~InHand(x)
    BY <1>2, <2>0, <2>1, OneHolds DEF CheckerSweep, InHand, Holds
  <2>5. /\ \A x : InPut(x)' = InPut(x) /\ InGet(x)' = InGet(x)
        /\ UNCHANGED <<get, put, given, destroyed, dropped, values, lost>>
    BY <1>2 DEF InPut, InGet, CheckerSweep, PopFront, outVars
  <2>6. \A x \in Values : x # v => Same(x)
    BY <2>2, <2>4, <2>5 DEF Same
  <2>7. Somewhere(v)' /\ OneKind(v)'
    BY <2>2, <2>3, <2>4, <2>5 DEF Somewhere, OneKind
  <2>8. Filed'
    BY <2>3, <2>5, <2>6, <2>7, Moves
  <2> QED
    BY <2>2, <2>5, <2>8 DEF Placed, OnePutter, OneGetter
<1> QED
  BY <1>1, <1>2

LEMMA ReturnPlaced ==
    ASSUME TypeInv, Placed, CheckerReturn
    PROVE  Placed'
<1>0. /\ hand \in Seq(Item) /\ Len(hand) = 1 /\ list \in Seq(Item) /\ Once(list)
      /\ PushEnds(hand[1], Returned) /\ hand' = <<>>
  BY DEF CheckerReturn, TypeInv, TypeOK, Hands, Placed
<1>1. PICK v \in Values : v = hand[1].value
  BY <1>0, OneHolds DEF Item
<1>2. Once(hand) /\ \A x : InHand(x) <=> x = v
  BY <1>0, <1>1, OneHolds DEF InHand
<1>3. OneKind(v) /\ ~Nowhere(v) /\ ~InList(v)
  BY <1>2, WasPut DEF Nowhere, OneKind
<1>4. /\ \A x : InList(x)' => InList(x) \/ x = v
      /\ \A x : InList(x) \/ x = v => InList(x)' \/ x \in lost'
      /\ Once(list)' /\ lost \subseteq lost'
  <2> DEFINE all == Returned
             e == hand[1]
  <2>1. /\ e \in Item /\ all \in Seq(Item) /\ PushEnds(e, all) /\ e.value = v
        /\ \A x : Holds(all, x) <=> Holds(list, x) \/ x = e.value
        /\ Once(all) /\ ~Holds(list, e.value)
    BY <1>0, <1>1, <1>3, ReturnHolds DEF InList
  <2> HIDE DEF all, e
  <2> QED
    BY <1>0, <2>1, PushHolds DEF InList
<1>5. /\ \A x : InPut(x)' = InPut(x) /\ InGet(x)' = InGet(x) /\ ~InHand(x)'
      /\ UNCHANGED <<get, put, given, destroyed, dropped, values>>
  BY <1>0 DEF InPut, InGet, InHand, Holds, CheckerReturn, outVars
<1>6. Filed'
  <2>1. ASSUME NEW x \in Values
        PROVE  /\ Somewhere(x) => Somewhere(x)' \/ x \in lost'
               /\ OneKind(x) => OneKind(x)'
               /\ Nowhere(x) => Nowhere(x)'
    BY <1>2, <1>3, <1>4, <1>5 DEF Somewhere, OneKind, Nowhere
  <2> QED
    BY <1>4, <1>5, <2>1, Loses
<1> QED
  BY <1>4, <1>5, <1>6 DEF Placed, OnePutter, OneGetter

LEMMA ClearListPlaced ==
    ASSUME TypeInv, Placed, ClearList
    PROVE  Placed'
<1>1. \A x : ~InList(x)' /\ (x \in dropped' <=> x \in dropped \/ InList(x))
  BY DEF ClearList, InList, Holds, ValuesOf
<1>2. /\ \A x : InPut(x)' = InPut(x) /\ InGet(x)' = InGet(x) /\ InHand(x)' = InHand(x)
      /\ UNCHANGED <<get, put, given, destroyed, values, lost>>
  BY DEF InPut, InGet, InHand, ClearList, checkVars
<1>3. ASSUME NEW x
      PROVE  /\ Somewhere(x) => Somewhere(x)'
             /\ OneKind(x) => OneKind(x)'
             /\ Nowhere(x) => Nowhere(x)'
  BY <1>1, <1>2 DEF Somewhere, OneKind, Nowhere
<1>4. Filed'
  BY <1>2, <1>3 DEF Placed, Filed
<1>5. Once(list)'
  BY DEF ClearList, Once
<1> QED
  BY <1>2, <1>4, <1>5 DEF Placed, OnePutter, OneGetter

LEMMA NextPlaced == TypeInv /\ Placed /\ [Next]_vars => Placed'
<1> SUFFICES ASSUME TypeInv, Placed, [Next]_vars PROVE Placed'
  OBVIOUS
<1> USE DEF poolVars, listVars, checkVars, outVars
<1>1. CASE UNCHANGED vars
  BY <1>1, Stays DEF vars
<1>2. CASE Tick \/ Close \/ ClearCall
  BY <1>2, Stays DEF Tick, Close, ClearCall
<1>3. CASE ClearPop
  BY <1>3, Stays, ListDestroyed DEF ClearPop, PopFront
<1>4. CASE Checker
  <2>1. CASE CheckerStart \/ CheckerSweepEnd
    BY <2>1, Stays DEF CheckerStart, CheckerSweepEnd
  <2>2. CASE CheckerDrain
    BY <2>2, Stays, ListDestroyed DEF CheckerDrain, PopFront
  <2>3. CASE CheckerPush
    BY <2>3, Stays DEF CheckerPush, PushBegins
  <2> QED
    BY <1>4, <2>1, <2>2, <2>3, SweepPlaced, ReturnPlaced DEF Checker
<1>5. ASSUME NEW p \in Putters, Put(p) PROVE Placed'
  <2>1. CASE PutCheck(p)
    BY <2>1, Stays DEF PutCheck, TypeInv, TypeOK
  <2>2. CASE PutPush(p)
    BY <2>2, Stays DEF PutPush, PushBegins, TypeInv, TypeOK
  <2> QED
    BY <1>5, <2>1, <2>2, PutStampPlaced, PutLinkPlaced DEF Put, PutEnd
<1>6. ASSUME NEW g \in Getters, GetCall(g) \/ GetEnd(g) PROVE Placed'
  <2>1. CASE GetCall(g) \/ GetCheck(g)
    <3>1. \A h \in Getters : get'[h].item = get[h].item
      <4>1. /\ get \in [Getters -> [at : {"idle", "check", "pop", "decide"}, item : Seq(Item)]]
            /\ \E a \in {"check", "idle", "pop"} : get' = [get EXCEPT ![g].at = a]
        BY <2>1 DEF GetCall, GetCheck, TypeInv, TypeOK
      <4> QED
        BY <4>1
    <3> QED
      BY <2>1, <3>1, Stays DEF GetCall, GetCheck
  <2>2. CASE GetPop(g) /\ list = <<>>
    <3>1. get[g].item = <<>>
      BY <2>2, OneHolds DEF GetPop, TypeInv, TypeOK, Hands
    <3>2. \A h \in Getters : get'[h].item = get[h].item
      <4>1. /\ get \in [Getters -> [at : {"idle", "check", "pop", "decide"}, item : Seq(Item)]]
            /\ get' = [get EXCEPT ![g] = [at |-> "idle", item |-> <<>>]]
        BY <2>2 DEF GetPop, Idle, TypeInv, TypeOK
      <4> QED
        BY <3>1, <4>1
    <3> QED
      BY <2>2, <3>2, Stays DEF GetPop
  <2> QED
    BY <1>6, <2>1, <2>2, GetPopPlaced, GetDecidePlaced DEF GetEnd
<1> QED
  BY <1>1, <1>2, <1>3, <1>4, <1>5, <1>6, ClearListPlaced DEF Next

(* Types, for any putters, getters, times to live and bounds (TypeOK).     *)
THEOREM PoolTyped == Spec => []TypeOK
<1>1. TypeInv => TypeOK
  BY DEF TypeInv
<1> QED
  BY InitType, NextType, <1>1, PTL DEF Spec

LEMMA PoolInv == Spec => []Inv
<1>1. Init => Inv
  BY InitType, InitPlaced DEF Inv
<1>2. Inv /\ [Next]_vars => Inv'
  BY NextType, NextPlaced DEF Inv
<1> QED
  BY <1>1, <1>2, PTL DEF Spec

(* The places of calls and of the list, by who and where holds a value.    *)
Held(P, G, L) ==
    {<<"put", p>> : p \in P} \cup {<<"get", g>> : g \in G} \cup {<<"list", i>> : i \in L}

LEMMA HeldByOne ==
    ASSUME NEW x
    PROVE  /\ Held({x}, {}, {}) = {<<"put", x>>} /\ Held({}, {x}, {}) = {<<"get", x>>}
           /\ Held({}, {}, {x}) = {<<"list", x>>} /\ Held({}, {}, {}) = {}
  BY DEF Held

(* A value that was put is in exactly one place: never with two users,     *)
(* never destroyed while a user has it, and never lost, wherever the       *)
(* checker, Clear, Close and the Gets are; or two pushes that overlapped   *)
(* have lost it, and it is nowhere (OneOwner).                             *)
THEOREM PoolOneOwner == Spec => []OneOwner
<1>1. ASSUME Inv, NEW v \in 1..values
      PROVE  \/ \E place \in Places(v) : Places(v) = {place}
             \/ v \in lost /\ Places(v) = {}
  <2>1. (v \in lost \/ Somewhere(v)) /\ OneKind(v) /\ v \in Values
    BY <1>1, PoolAssumption DEF Inv, Placed, Filed, TypeInv, TypeOK, Values
  <2> DEFINE P == {p \in Putters : Holds(put[p].item, v)}
             G == {g \in Getters : Holds(get[g].item, v)}
             L == {i \in DOMAIN list : list[i].value = v}
  <2>2. Places(v) = Held(P, G, L) \cup (IF Holds(hand, v) THEN {<<"hand", 0>>} ELSE {})
                    \cup (IF v \in given THEN {<<"given", 0>>} ELSE {})
                    \cup (IF v \in destroyed THEN {<<"destroyed", 0>>} ELSE {})
                    \cup (IF v \in dropped THEN {<<"dropped", 0>>} ELSE {})
    BY DEF Places, Held
  <2>3. /\ InPut(v) <=> P # {}
        /\ InGet(v) <=> G # {}
        /\ InList(v) <=> L # {}
    BY DEF InPut, InGet, InList, Holds
  <2>4. /\ \A p, q \in P : p = q
        /\ \A g, h \in G : g = h
        /\ \A i, j \in L : i = j
    <3>1. \A p, q \in P : p = q
      BY <1>1, <2>1 DEF Inv, Placed, OnePutter
    <3>2. \A g, h \in G : g = h
      BY <1>1, <2>1 DEF Inv, Placed, OneGetter
    <3>3. \A i, j \in L : i = j
      BY <1>1 DEF Inv, Placed, Once
    <3> QED
      BY <3>1, <3>2, <3>3
  <2>5. CASE InPut(v)
    <3>1. PICK p : P = {p}
      BY <2>3, <2>4, <2>5
    <3>2. /\ G = {} /\ L = {} /\ ~Holds(hand, v)
          /\ v \notin given /\ v \notin destroyed /\ v \notin dropped
      BY <2>1, <2>3, <2>5 DEF OneKind, InHand
    <3> HIDE DEF P, G, L
    <3>3. Held(P, G, L) = {<<"put", p>>}
      BY <3>1, <3>2, HeldByOne
    <3>4. Places(v) = {<<"put", p>>}
      BY <2>2, <3>2, <3>3
    <3> QED
      BY <3>4
  <2>6. CASE InGet(v)
    <3>1. PICK g : G = {g}
      BY <2>3, <2>4, <2>6
    <3>2. /\ P = {} /\ L = {} /\ ~Holds(hand, v)
          /\ v \notin given /\ v \notin destroyed /\ v \notin dropped
      BY <2>1, <2>3, <2>6 DEF OneKind, InHand
    <3> HIDE DEF P, G, L
    <3>3. Held(P, G, L) = {<<"get", g>>}
      BY <3>1, <3>2, HeldByOne
    <3>4. Places(v) = {<<"get", g>>}
      BY <2>2, <3>2, <3>3
    <3> QED
      BY <3>4
  <2>7. CASE InList(v)
    <3>1. PICK i : L = {i}
      BY <2>3, <2>4, <2>7
    <3>2. /\ P = {} /\ G = {} /\ ~Holds(hand, v)
          /\ v \notin given /\ v \notin destroyed /\ v \notin dropped
      BY <2>1, <2>3, <2>7 DEF OneKind, InHand
    <3> HIDE DEF P, G, L
    <3>3. Held(P, G, L) = {<<"list", i>>}
      BY <3>1, <3>2, HeldByOne
    <3>4. Places(v) = {<<"list", i>>}
      BY <2>2, <3>2, <3>3
    <3> QED
      BY <3>4
  <2>8. CASE ~InPut(v) /\ ~InGet(v) /\ ~InList(v)
    <3>1. P = {} /\ G = {} /\ L = {}
      BY <2>3, <2>8
    <3> HIDE DEF P, G, L
    <3>2. Held(P, G, L) = {}
      BY <3>1, HeldByOne
    <3>3. \/ \E place \in {<<"hand", 0>>, <<"given", 0>>, <<"destroyed", 0>>, <<"dropped", 0>>} :
                Places(v) = {place}
          \/ v \in lost /\ Places(v) = {}
      BY <2>1, <2>2, <2>8, <3>2 DEF OneKind, Somewhere, InHand
    <3> QED
      BY <3>3
  <2> QED
    BY <2>5, <2>6, <2>7, <2>8
<1>2. Inv => OneOwner
  BY <1>1 DEF OneOwner
<1> QED
  BY PoolInv, <1>2, PTL

(* Nothing is destroyed before its time, except by Clear or after Close    *)
(* (NotTooEarly): the checker's reading of the clock is never ahead of it, *)
(* and it drains the list only of a closed pool.                           *)
THEOREM PoolNotTooEarly == Spec => NotTooEarly
<1> DEFINE Due(v) == \E item \in {list[i] : i \in DOMAIN list}
                                 \cup {get[g].item[1] : g \in {h \in Getters :
                                                            get[h].item # <<>>}} :
                        item.value = v /\ item.expireAt <= now
           Early == \A v \in (destroyed' \cup dropped') \ (destroyed \cup dropped) :
                       \/ closed \/ clearing \/ ClearList
                       \/ Due(v)
<1>1. ASSUME TypeInv, [Next]_vars PROVE Early
  <2> USE DEF outVars
  <2>1. CASE UNCHANGED <<destroyed, dropped>>
    BY <2>1
  <2>2. CASE ClearPop \/ ClearList \/ CheckerDrain
    BY <1>1, <2>2 DEF ClearPop, CheckerDrain, TypeInv, Hands
  <2>3. CASE CheckerSweep /\ ~Fresh(Head(list), stamp)
    <3>1. Head(list) = list[1] /\ 1 \in DOMAIN list /\ Head(list).expireAt \in Int
      <4>1. Head(list) \in Item /\ Head(list) = list[1] /\ 1 \in DOMAIN list
        BY <1>1, <2>3, HeadTail DEF CheckerSweep, PopFront, TypeInv, TypeOK
      <4> QED
        BY <4>1 DEF Item
    <3>2. Head(list).expireAt <= now
      BY <1>1, <2>3, <3>1 DEF Fresh, TypeInv, TypeOK, Hands
    <3>3. Due(Head(list).value)
      BY <3>1, <3>2
    <3> QED
      BY <2>3, <3>3 DEF CheckerSweep, Destroy
  <2>4. ASSUME NEW g \in Getters, GetDecide(g) PROVE Early
    <3>0. get[g].item \in Seq(Item) /\ Len(get[g].item) = 1
      BY <1>1, <2>4 DEF GetDecide, TypeInv, TypeOK, Hands
    <3>1. get[g].item # <<>> /\ get[g].item[1].expireAt \in Int
      <4>1. get[g].item # <<>> /\ get[g].item[1] \in Item
        BY <3>0, OneHolds
      <4> QED
        BY <4>1 DEF Item
    <3>2. ASSUME ~Fresh(get[g].item[1], now) PROVE Due(get[g].item[1].value)
      <4>1. get[g].item[1].expireAt <= now
        BY <1>1, <3>1, <3>2 DEF Fresh, TypeInv, TypeOK
      <4>2. get[g].item[1] \in {get[h].item[1] : h \in {i \in Getters : get[i].item # <<>>}}
        BY <3>1
      <4> QED
        BY <4>1, <4>2
    <3> QED
      BY <2>4, <3>2 DEF GetDecide, Destroy
  <2> QED
    BY <1>1, <2>1, <2>2, <2>3, <2>4 DEF Next, vars, Tick, Close, ClearCall, Checker,
       CheckerStart, CheckerSweep, CheckerSweepEnd, CheckerPush, CheckerReturn, Put, PutCheck,
       PutStamp, PutEnd, PutPush, PutLink, GetCall, GetEnd, GetCheck, GetPop
<1>2. Spec => []TypeInv
  BY InitType, NextType, PTL DEF Spec
<1>3. TypeInv /\ [Next]_vars => [Early]_vars
  <2> HIDE DEF Early
  <2> QED
    BY <1>1
<1> QED
  BY <1>2, <1>3, PTL DEF Spec, NotTooEarly
===============================================================================
