----------------------------- MODULE Cache_proofs -----------------------------
(***************************************************************************)
(* Proofs about Cache, for any users, keys, durations, capacities and      *)
(* clock: the types, that the sweeper's two indexes of expire times agree, *)
(* that its LRU list and index do, and that every item has its deletion    *)
(* before it.                                                              *)
(***************************************************************************)
EXTENDS Cache, FiniteSetTheorems, SequenceTheorems, WellFoundedInduction, TLAPS

(* What a user's call and an event are. *)
Calls == [at : {"idle", "push", "link", "touch", "mark", "set"},
          keys : SUBSET Keys, e : 0..Never]
Event == [k : Keys, e : 0..Never]

(* Where the sweeper can be. *)
Places == {"idle", "events", "gets", "more", "raw", "sweep", "exited"}

(* The types, and the clock within its bounds. *)
TypeInv == TypeOK /\ now \in FirstNow..MaxNow
-----------------------------------------------------------------------------
(* Times. *)

(* The first full second after a time is after it, and not long after. *)
LEMMA BucketBounds ==
    ASSUME NEW e \in Nat
    PROVE  Bucket(e) \in Nat /\ e < Bucket(e) /\ Bucket(e) <= e + Second
<1> DEFINE q == e \div Second
<1>1. Second \in Nat /\ Second > 0  BY CacheAssumption
<1>2. q \in Int /\ Second * q <= e /\ e < (q + 1) * Second  BY <1>1
<1> HIDE DEF q
<1>3. (q + 1) * Second = Second * q + Second  BY <1>1, <1>2
<1>4. Second * q \in Int  BY <1>1, <1>2
<1>5. (q + 1) * Second \in Int  BY <1>1, <1>3, <1>4
<1>6. (q + 1) * Second <= e + Second  BY <1>1, <1>2, <1>3, <1>4
<1> QED  BY <1>1, <1>2, <1>5, <1>6 DEF Bucket, q

(* A later time has no earlier one. *)
LEMMA BucketGrows == ASSUME NEW e \in Nat PROVE Bucket(e) <= Bucket(e + 1)
<1> DEFINE q == e \div Second
           r == (e + 1) \div Second
<1>1. Second \in Nat /\ Second > 0  BY CacheAssumption
<1>2. /\ q \in Int /\ Second * q <= e
      /\ r \in Int /\ e + 1 < (r + 1) * Second
  BY <1>1
<1> HIDE DEF q, r
<1>3. q <= r
  <2> SUFFICES ASSUME q > r PROVE FALSE  BY <1>2
  <2> DEFINE d == q - (r + 1)
  <2>1. d \in Nat /\ q = (r + 1) + d  BY <1>2
  <2> HIDE DEF d
  <2>2. Second * q = (r + 1) * Second + Second * d  BY <1>1, <1>2, <2>1
  <2>3. Second * d \in Nat  BY <1>1, <2>1
  <2>4. (r + 1) * Second \in Int  BY <1>1, <1>2
  <2> QED  BY <1>2, <2>2, <2>3, <2>4
<1> DEFINE c == r - q
<1>4. c \in Nat /\ r + 1 = (q + 1) + c  BY <1>2, <1>3
<1> HIDE DEF c
<1>5. (r + 1) * Second = (q + 1) * Second + c * Second  BY <1>1, <1>2, <1>4
<1>6. c * Second \in Nat /\ (q + 1) * Second \in Int  BY <1>1, <1>2, <1>4
<1> QED  BY <1>5, <1>6 DEF Bucket, q, r

LEMMA BucketTyped ==
    ASSUME NEW e \in 0..Never
    PROVE  Bucket(e) \in 1..(Never + Second) /\ Bucket(e) \in Int
<1>1. e \in Nat /\ Second \in Nat /\ Never \in Nat  BY CacheAssumption
<1> QED  BY <1>1, BucketBounds

(* No call asks for a time before the epoch or after "never". *)
LEMMA ExpireTimeTyped ==
    ASSUME TypeInv, NEW d \in Durations PROVE ExpireTime(d) \in 0..Never
<1>1. d \in Int /\ d >= -FirstNow /\ MaxNow + d < Never  BY CacheAssumption
<1>2. FirstNow \in Nat /\ MaxNow \in Nat /\ Never \in Nat  BY CacheAssumption
<1>3. now \in Nat /\ FirstNow <= now /\ now <= MaxNow  BY <1>2 DEF TypeInv
<1> QED  BY <1>1, <1>2, <1>3 DEF ExpireTime

LEMMA BackDated == ASSUME TypeInv PROVE now - Shift \in 0..Never
<1>1. /\ FirstNow \in Nat /\ MaxNow \in Nat /\ Never \in Nat /\ MaxNow < Never
      /\ Shift \in 0..FirstNow
  BY CacheAssumption
<1> QED  BY <1>1 DEF TypeInv
-----------------------------------------------------------------------------
(* Maps and lists. *)
LEMMA WithMap ==
    ASSUME NEW max, NEW f, IsMap(f, max), NEW ks \in SUBSET Keys,
           NEW v \in 0..max
    PROVE  IsMap(With(f, ks, v), max)
BY DEF IsMap, With

LEMMA WithoutMap ==
    ASSUME NEW max, NEW f, IsMap(f, max), NEW ks
    PROVE  IsMap(Without(f, ks), max)
BY DEF IsMap, Without

LEMMA EmptyMap == ASSUME NEW max PROVE IsMap(<<>>, max)
BY DEF IsMap

(* What a push of e may leave of a torn list: each element of it is e or   *)
(* one that was linked.                                                    *)
LEMMA SurvivorsOf ==
    ASSUME NEW S, NEW items \in Seq(S), NEW e \in S, NEW t \in Survivors(items, e)
    PROVE  /\ t \in Seq(S)
           /\ \A i \in DOMAIN t : t[i] = e \/ \E j \in DOMAIN items : t[i] = items[j]
<1> DEFINE all == {e} \cup {items[j] : j \in DOMAIN items}
<1>1. PICK part \in Parts(items) : t = part \/ t \in Inserted(part, e)
  BY DEF Survivors
<1>0. PICK n \in 0..Len(items) : \E p \in Picks(n, items) :
                                    part = [i \in 1..n |-> items[p[i]]]
  BY DEF Parts
<1>2. PICK p \in Picks(n, items) : part = [i \in 1..n |-> items[p[i]]]
  BY <1>0
<1>3. n \in Nat /\ \A i \in 1..n : p[i] \in DOMAIN items  BY DEF Picks
<1>4. part \in [1..n -> all]  BY <1>2, <1>3
<1>5. all \subseteq S  BY ElementOfSeq
<1>6. \A x \in all : x = e \/ \E j \in DOMAIN items : x = items[j]  OBVIOUS
<1>7. e \in all  OBVIOUS
<1> HIDE DEF all
<1>8. part \in Seq(all) /\ Len(part) = n  BY <1>3, <1>4
<1>9. t \in Seq(all)
  <2>1. CASE t = part  BY <1>8, <2>1
  <2>2. CASE t \in Inserted(part, e)
    <3>1. PICK at \in 1..n + 1 :
             t = [i \in 1..n + 1 |-> IF i < at THEN part[i]
                                     ELSE IF i = at THEN e ELSE part[i - 1]]
      BY <1>8, <2>2 DEF Inserted
    <3>2. /\ \A i \in 1..n + 1 : i < at => i \in 1..n
          /\ \A i \in 1..n + 1 : i > at => i - 1 \in 1..n
      BY <1>3
    <3>3. t \in [1..n + 1 -> all]  BY <1>3, <1>4, <1>7, <3>1, <3>2
    <3> QED  BY <1>3, <3>3
  <2> QED  BY <1>1, <2>1, <2>2
<1>10. t \in Seq(S)
  <2>1. t \in [1..Len(t) -> all] /\ Len(t) \in Nat  BY <1>9
  <2>2. t \in [1..Len(t) -> S]  BY <1>5, <2>1
  <2> QED  BY <2>1, <2>2
<1>11. \A i \in DOMAIN t : t[i] \in all  BY <1>9
<1> QED  BY <1>6, <1>10, <1>11

(* Every set of numbers has a least one. *)
LEMMA Least ==
    ASSUME NEW T \in SUBSET Nat, T # {}
    PROVE  \E m \in T : \A i \in T : m <= i
<1> DEFINE R == OpToRel(<, Nat)
<1>1. IsWellFoundedOn(R, Nat)  BY NatLessThanWellFounded
<1>2. \A i, j \in Nat : i < j => <<i, j>> \in R  BY DEF OpToRel
<1> HIDE DEF R
<1>3. PICK m \in T : \A i \in T : ~(<<i, m>> \in R)  BY <1>1, WFMin
<1>4. \A i \in T : ~(i < m)  BY <1>2, <1>3
<1>5. \A i \in T : m <= i  BY <1>4
<1> QED  BY <1>5

(* A list without the first k is the list with one place closed up. *)
LEMMA UnlistedShape ==
    ASSUME NEW S, NEW list \in Seq(S), NEW k,
           \E i \in DOMAIN list : list[i] = k
    PROVE  /\ Unlisted(list, k) \in Seq(S)
           /\ Len(Unlisted(list, k)) = Len(list) - 1
           /\ \E p \in 1..Len(list) :
                 /\ list[p] = k
                 /\ \A i \in 1..Len(list) - 1 :
                       Unlisted(list, k)[i] = IF i < p THEN list[i] ELSE list[i + 1]
<1> DEFINE T == {i \in 1..Len(list) : list[i] = k}
           p == CHOOSE i \in DOMAIN list :
                    list[i] = k /\ \A j \in 1..i - 1 : list[j] # k
           a == SubSeq(list, 1, p - 1)
           b == SubSeq(list, p + 1, Len(list))
<1>1. Len(list) \in Nat /\ DOMAIN list = 1..Len(list)  BY LenProperties
<1>2. \E i \in DOMAIN list : list[i] = k /\ \A j \in 1..i - 1 : list[j] # k
  <2>1. T # {} /\ T \in SUBSET Nat  BY <1>1
  <2> HIDE DEF T
  <2>2. PICK m \in T : \A i \in T : m <= i  BY <2>1, Least
  <2>3. m \in 1..Len(list) /\ list[m] = k  BY <2>2 DEF T
  <2>4. ASSUME NEW j \in 1..m - 1, list[j] = k PROVE FALSE
    <3>1. j \in T /\ j < m  BY <1>1, <2>3, <2>4 DEF T
    <3> QED  BY <3>1, <2>2, <2>3
  <2> QED  BY <1>1, <2>3, <2>4
<1>3. p \in 1..Len(list) /\ list[p] = k  BY <1>1, <1>2
<1>4. Unlisted(list, k) = a \o b  BY DEF Unlisted
<1> HIDE DEF p
<1>5. \A i \in 1..Len(list) : list[i] \in S  BY ElementOfSeq
<1>6. a \in Seq(S) /\ Len(a) = p - 1 /\ \A i \in 1..p - 1 : a[i] = list[i]
  <2>1. \A i \in 1..p - 1 : list[i] \in S  BY <1>1, <1>3, <1>5
  <2>2. 1 \in Int /\ p - 1 \in Int  BY <1>1, <1>3
  <2> QED  BY <1>1, <1>3, <2>1, <2>2, SubSeqProperties
<1>7. /\ b \in Seq(S) /\ Len(b) = Len(list) - p
      /\ \A i \in 1..Len(list) - p : b[i] = list[p + i]
  <2>1. \A i \in p + 1..Len(list) : list[i] \in S  BY <1>1, <1>3, <1>5
  <2>2. p + 1 \in Int /\ Len(list) \in Int  BY <1>1, <1>3
  <2>3. /\ b \in Seq(S)
        /\ Len(b) = IF p + 1 <= Len(list) THEN Len(list) - (p + 1) + 1 ELSE 0
        /\ \A i \in 1..Len(list) - (p + 1) + 1 : b[i] = list[p + 1 + i - 1]
    BY <2>1, <2>2, SubSeqProperties
  <2> HIDE DEF b
  <2>4. Len(b) = Len(list) - p
    <3>1. CASE p + 1 <= Len(list)  BY <3>1, <1>1, <1>3, <2>3
    <3>2. CASE ~(p + 1 <= Len(list))
      <4>1. p = Len(list)
        <5>1. p \in Int /\ Len(list) \in Int /\ p <= Len(list)  BY <1>1, <1>3
        <5> HIDE DEF T
        <5> QED  BY <3>2, <5>1
      <4> QED  BY <3>2, <4>1, <1>1, <2>3
    <3> QED  BY <3>1, <3>2
  <2>5. ASSUME NEW i \in 1..Len(list) - p PROVE b[i] = list[p + i]
    <3>1. i \in 1..Len(list) - (p + 1) + 1 /\ p + 1 + i - 1 = p + i
      BY <1>1, <1>3
    <3> QED  BY <3>1, <2>3
  <2> QED  BY <2>3, <2>4, <2>5
<1> HIDE DEF a, b
<1>8. /\ a \o b \in Seq(S) /\ Len(a \o b) = Len(list) - 1
      /\ \A i \in 1..Len(list) - 1 :
             (a \o b)[i] = IF i <= p - 1 THEN a[i] ELSE b[i - (p - 1)]
  <2>1. /\ a \o b \in Seq(S) /\ Len(a \o b) = Len(a) + Len(b)
        /\ \A i \in 1..Len(a) + Len(b) :
               (a \o b)[i] = IF i <= Len(a) THEN a[i] ELSE b[i - Len(a)]
    BY <1>6, <1>7, ConcatProperties
  <2>2. Len(a) = p - 1 /\ Len(a) + Len(b) = Len(list) - 1
    BY <1>1, <1>3, <1>6, <1>7
  <2> QED  BY <2>1, <2>2
<1>9. \A i \in 1..Len(list) - 1 :
         (a \o b)[i] = IF i < p THEN list[i] ELSE list[i + 1]
  <2> TAKE i \in 1..Len(list) - 1
  <2>1. CASE i < p  BY <2>1, <1>1, <1>3, <1>6, <1>8
  <2>2. CASE ~(i < p)
    <3>1. i - (p - 1) \in 1..Len(list) - p /\ p + (i - (p - 1)) = i + 1
      BY <2>2, <1>1, <1>3
    <3> QED  BY <3>1, <2>2, <1>1, <1>3, <1>7, <1>8
  <2> QED  BY <2>1, <2>2
<1> QED  BY <1>3, <1>4, <1>8, <1>9
(* Removing a key from the LRU keeps its list's type. *)
LEMMA LruWithoutTyped ==
    ASSUME TypeInv, NEW k PROVE LruWithout(k) \in Seq(Keys)
<1>1. lru \in Seq(Keys)  BY DEF TypeInv, TypeOK
<1>2. CASE \E i \in DOMAIN lru : lru[i] = k
  BY <1>1, <1>2, UnlistedShape DEF LruWithout
<1>3. CASE \A i \in DOMAIN lru : lru[i] # k
  BY <1>1, <1>3 DEF LruWithout, Unlisted
<1> QED  BY <1>2, <1>3
-----------------------------------------------------------------------------
(* The types. *)
LEMMA InitTyped == Init => TypeInv
<1> SUFFICES ASSUME Init PROVE TypeInv  OBVIOUS
<1>1. IsMap(data, Never) /\ IsMap(times, Never + Second)
  BY EmptyMap DEF Init
<1>2. FirstNow \in FirstNow..MaxNow /\ FirstNow \in Nat /\ 0 \in 0..Never
      /\ 0 \in 0..MaxCalls
  BY CacheAssumption
<1>3. op \in [Users -> Calls]  BY <1>2 DEF Init, Idle, Calls
<1>4. /\ events = <<>> /\ gets = <<>> /\ raw = <<>> /\ lru = <<>>
      /\ sets = {} /\ left = {} /\ index = {} /\ misled = {}
      /\ cap \in Caps /\ now = FirstNow /\ calls = 0 /\ torn = {} /\ late = {}
      /\ lruClosed = FALSE /\ closed = FALSE /\ sweeper = "idle"
  BY DEF Init
<1>5. events \in Seq(Event) /\ gets \in Seq(Keys) /\ raw \in Seq(Keys) /\ lru \in Seq(Keys)
  BY <1>4
<1> QED  BY <1>1, <1>2, <1>3, <1>4, <1>5 DEF TypeInv, TypeOK, Calls, Event

LEMMA BeginTyped ==
    ASSUME TypeInv, NEW u \in Users, NEW ks \in SUBSET Keys, Begin(u, ks)
    PROVE  calls' \in 0..MaxCalls /\ misled' \subseteq Keys
<1>1. misled' = misled \cup (ks \cap Changing)  BY DEF Begin
<1>2. misled' \subseteq Keys  BY <1>1 DEF TypeInv, TypeOK
<1>3. calls' \in 0..MaxCalls
  <2>1. calls' = calls + 1 /\ calls < MaxCalls  BY DEF Begin
  <2> QED  BY <2>1, CacheAssumption DEF TypeInv, TypeOK
<1> QED  BY <1>2, <1>3

LEMMA GoesTyped ==
    ASSUME TypeInv, NEW u \in Users, NEW at \in {"push", "touch", "set"},
           NEW ks \in SUBSET Keys, NEW e \in 0..Never, Goes(u, at, ks, e)
    PROVE  op' \in [Users -> Calls]
<1> DEFINE c == IF ks = {} THEN Idle
                ELSE [at |-> at, keys |-> ks, e |-> e]
<1>1. c \in Calls  BY CacheAssumption DEF TypeInv, TypeOK, Calls, Idle
<1>2. op' = [op EXCEPT ![u] = c]  BY DEF Goes
<1> HIDE DEF c
<1> QED  BY <1>1, <1>2 DEF TypeInv, TypeOK, Calls

(* The users' calls keep out of the sweeper's books. *)
LEMMA UserTyped ==
    ASSUME TypeInv,
           UNCHANGED <<cap, now, bookVars, lruVars, closeVars, sweepVars>>,
           IsMap(data', Never), events' \in Seq(Event), gets' \in Seq(Keys),
           op' \in [Users -> Calls], calls' \in 0..MaxCalls,
           misled' \subseteq Keys, torn' \subseteq {"events", "gets"}
    PROVE  TypeInv'
BY DEF TypeInv, TypeOK, IsMap, Calls, Event, bookVars, lruVars, closeVars,
       sweepVars

LEMMA CallTyped == ASSUME TypeInv, NEW u \in Users, Call(u) PROVE TypeInv'
<1> USE DEF listVars
<1>1. /\ IsMap(data, Never) /\ events \in Seq(Event) /\ gets \in Seq(Keys)
      /\ op \in [Users -> Calls] /\ torn \subseteq {"events", "gets"}
  BY DEF TypeInv, TypeOK, Calls, Event
<1>2. 0 \in 0..Never  BY CacheAssumption
<1>3. ASSUME NEW ks \in SUBSET Keys, Remove(u, ks) PROVE TypeInv'
  <2>1. op' \in [Users -> Calls]  BY <1>3, GoesTyped, BackDated DEF Remove
  <2>2. IsMap(data', Never)  BY <1>1, <1>3, WithoutMap DEF Remove
  <2>3. calls' \in 0..MaxCalls /\ misled' \subseteq Keys
    BY <1>3, BeginTyped DEF Remove
  <2> QED  BY <1>1, <1>3, <2>1, <2>2, <2>3, UserTyped DEF Remove
<1>4. ASSUME NEW ks \in SUBSET Keys, NEW d \in Durations, Set(u, ks, d)
      PROVE  TypeInv'
  <2>1. op' \in [Users -> Calls]  BY <1>4, GoesTyped, ExpireTimeTyped DEF Set
  <2>2. IsMap(data', Never)  BY <1>1, <1>4, WithMap, ExpireTimeTyped DEF Set
  <2>3. calls' \in 0..MaxCalls /\ misled' \subseteq Keys
    BY <1>4, BeginTyped DEF Set
  <2> QED  BY <1>1, <1>4, <2>1, <2>2, <2>3, UserTyped DEF Set
<1>5. ASSUME NEW k \in Keys, NEW d \in Durations, UpdateExpire(u, k, d)
      PROVE  TypeInv'
  <2>1. op' \in [Users -> Calls]
    BY <1>5, GoesTyped, ExpireTimeTyped DEF UpdateExpire
  <2>2. IsMap(data', Never)
    BY <1>1, <1>5, WithMap, ExpireTimeTyped DEF UpdateExpire
  <2>3. calls' \in 0..MaxCalls /\ misled' \subseteq Keys
    BY <1>5, BeginTyped DEF UpdateExpire
  <2> QED  BY <1>1, <1>5, <2>1, <2>2, <2>3, UserTyped DEF UpdateExpire
<1>6. ASSUME NEW k \in Keys, Get(u, k) PROVE TypeInv'
  <2>1. op' \in [Users -> Calls]  BY <1>2, <1>6, GoesTyped DEF Get
  <2>2. calls' \in 0..MaxCalls /\ misled' \subseteq Keys
    BY <1>6, BeginTyped DEF Get
  <2> QED  BY <1>1, <1>6, <2>1, <2>2, UserTyped DEF Get
<1>7. ASSUME NEW k \in Keys, Miss(u, k) PROVE TypeInv'
  <2>1. op' \in [Users -> Calls]  BY <1>2, <1>7, GoesTyped DEF Miss
  <2>2. calls' \in 0..MaxCalls /\ misled' \subseteq Keys
    BY <1>7, BeginTyped DEF Miss
  <2> QED  BY <1>1, <1>7, <2>1, <2>2, UserTyped DEF Miss
<1>8. ASSUME Clear(u) PROVE TypeInv'
  <2>1. IsMap(data', Never)  BY <1>8, EmptyMap DEF Clear
  <2>2. calls' \in 0..MaxCalls /\ misled' \subseteq Keys
    BY <1>8, BeginTyped DEF Clear
  <2> QED  BY <1>1, <1>8, <2>1, <2>2, UserTyped DEF Clear
<1> QED  BY <1>3, <1>4, <1>5, <1>6, <1>7, <1>8 DEF Call, Batches

LEMMA GoOnTyped == ASSUME TypeInv, NEW u \in Users, GoOn(u) PROVE TypeInv'
<1> USE DEF listVars
<1>1. /\ IsMap(data, Never) /\ events \in Seq(Event) /\ gets \in Seq(Keys)
      /\ op \in [Users -> Calls] /\ op[u] \in Calls
      /\ calls \in 0..MaxCalls /\ misled \subseteq Keys
      /\ torn \subseteq {"events", "gets"}
  BY DEF TypeInv, TypeOK, Calls, Event
<1>2. op[u].keys \in SUBSET Keys /\ op[u].e \in 0..Never  BY <1>1 DEF Calls
<1>3. CASE PushEvent(u) \/ Touch(u)
  <2>1. PICK a \in {"link", "mark"} : op' = [op EXCEPT ![u].at = a]
    BY <1>3 DEF PushEvent, Touch
  <2>2. op' \in [Users -> Calls]
    <3> DEFINE c == [op[u] EXCEPT !.at = a]
    <3>1. c \in Calls  BY <1>1 DEF Calls
    <3>2. op' = [op EXCEPT ![u] = c]  BY <2>1
    <3> HIDE DEF c
    <3> QED  BY <1>1, <3>1, <3>2
  <2>3. torn' \subseteq {"events", "gets"}
    BY <1>1, <1>3 DEF PushEvent, Touch, PushBegins
  <2> QED  BY <1>1, <1>3, <2>2, <2>3, UserTyped DEF PushEvent, Touch
<1>4. CASE LinkEvent(u)
  <2>1. PICK k \in op[u].keys :
           /\ events' \in Linked(events, [k |-> k, e |-> op[u].e],
                                 Append(events, [k |-> k, e |-> op[u].e]),
                                 "events" \in torn)
           /\ Goes(u, "push", op[u].keys \ {k}, op[u].e)
           /\ misled' = IF "events" \in torn
                        THEN misled \cup {k} \cup KeysOf(events) ELSE misled
    BY <1>4 DEF LinkEvent
  <2> DEFINE new == [k |-> k, e |-> op[u].e]
  <2>2. new \in Event  BY <1>2 DEF Event
  <2>3. events' \in Linked(events, new, Append(events, new), "events" \in torn)
    BY <2>1
  <2> HIDE DEF new
  <2>4. events' \in Seq(Event)
    <3>1. CASE "events" \in torn  BY <1>1, <2>2, <2>3, <3>1, SurvivorsOf DEF Linked
    <3>2. CASE "events" \notin torn
      BY <1>1, <2>2, <2>3, <3>2, AppendProperties DEF Linked
    <3> QED  BY <3>1, <3>2
  <2>5. KeysOf(events) \subseteq Keys
    <3>1. \A i \in DOMAIN events : events[i] \in Event  BY <1>1
    <3> QED  BY <3>1 DEF KeysOf, Event
  <2>6. misled' \subseteq Keys  BY <1>1, <1>2, <2>1, <2>5
  <2>7. op[u].keys \ {k} \in SUBSET Keys  BY <1>2
  <2>8. op' \in [Users -> Calls]  BY <1>2, <2>1, <2>7, GoesTyped
  <2> QED  BY <1>1, <1>4, <2>4, <2>6, <2>8, UserTyped DEF LinkEvent
<1>7. CASE Mark(u)
  <2>1. PICK k \in op[u].keys :
           gets' \in Linked(gets, k, Append(gets, k), "gets" \in torn)
    BY <1>7 DEF Mark
  <2>2. k \in Keys  BY <1>2
  <2>3. gets' \in Seq(Keys)
    <3>1. CASE "gets" \in torn  BY <1>1, <2>1, <2>2, <3>1, SurvivorsOf DEF Linked
    <3>2. CASE "gets" \notin torn
      <4>1. gets' = Append(gets, k)  BY <2>1, <3>2 DEF Linked
      <4>2. gets \in Seq(Keys)  BY <1>1
      <4> QED  BY <2>2, <4>1, <4>2, AppendProperties
    <3> QED  BY <3>1, <3>2
  <2>4. Idle \in Calls  BY CacheAssumption DEF Idle, Calls
  <2>5. op' \in [Users -> Calls]  BY <1>1, <1>7, <2>4 DEF Mark
  <2> QED  BY <1>1, <1>7, <2>3, <2>5, UserTyped DEF Mark
<1>5. ASSUME NEW d \in Durations, DoSetWithLockCheck(u, d) PROVE TypeInv'
  <2>1. op' \in [Users -> Calls]
    BY <1>2, <1>5, GoesTyped, ExpireTimeTyped DEF DoSetWithLockCheck
  <2>2. IsMap(data', Never)
    <3>1. {k \in op[u].keys : ~Live(k)} \in SUBSET Keys  BY <1>2
    <3> QED  BY <1>1, <1>5, <3>1, WithMap, ExpireTimeTyped DEF DoSetWithLockCheck
  <2> QED  BY <1>1, <1>5, <2>1, <2>2, UserTyped DEF DoSetWithLockCheck
<1>6. ASSUME NEW d \in Durations, DoSetWithFuncLockCheck(u, d) PROVE TypeInv'
  <2>1. op' \in [Users -> Calls]
    BY <1>2, <1>6, GoesTyped, ExpireTimeTyped DEF DoSetWithFuncLockCheck
  <2>2. IsMap(data', Never) /\ misled' \subseteq Keys
    <3>1. IsMap(With(data, op[u].keys, ExpireTime(d)), Never)
      BY <1>1, <1>2, WithMap, ExpireTimeTyped
    <3> QED  BY <1>1, <1>2, <1>6, <3>1 DEF DoSetWithFuncLockCheck, IsMap
  <2> QED  BY <1>1, <1>6, <2>1, <2>2, UserTyped DEF DoSetWithFuncLockCheck
<1> QED  BY <1>3, <1>4, <1>5, <1>6, <1>7 DEF GoOn
(* The sweeper keeps out of the users' data, and deletes from the map only. *)
LEMMA SweeperTyped == ASSUME TypeInv, Sweeper PROVE TypeInv'
<1> USE DEF listVars
<1>1. /\ IsMap(data, Never) /\ IsMap(times, Never + Second)
      /\ events \in Seq(Event) /\ gets \in Seq(Keys) /\ raw \in Seq(Keys)
      /\ lru \in Seq(Keys) /\ index \subseteq Keys
      /\ sets \subseteq Int \X Keys /\ left \subseteq Int
      /\ now \in Nat /\ late \subseteq Keys /\ torn \subseteq {"events", "gets"}
  BY DEF TypeInv, TypeOK, Event
<1>2. ASSUME UNCHANGED <<cap, now, closeVars, userVars>>,
             IsMap(data', Never), IsMap(times', Never + Second),
             events' \in Seq(Event), gets' \in Seq(Keys),
             raw' \in Seq(Keys), lru' \in Seq(Keys), index' \subseteq Keys,
             sets' \subseteq Int \X Keys, left' \subseteq Int, late' \subseteq Keys,
             torn' \subseteq {"events", "gets"}, sweeper' \in Places
      PROVE  TypeInv'
  BY <1>2 DEF TypeInv, TypeOK, IsMap, Event, closeVars, userVars, Places
<1>3. sweeper \in Places
  BY DEF TypeInv, TypeOK, Places
<1>4. CASE SweepStart \/ SyncEventsEnd \/ SyncGetsEnd
  <2>1. sweeper' \in Places
    BY <1>4 DEF SweepStart, AtStart, SyncEventsEnd, SyncGetsEnd, Places
  <2>2. UNCHANGED <<cap, now, data, listVars, bookVars, lruVars, closeVars,
                    left, late, userVars>>
    BY <1>4 DEF SweepStart, SyncEventsEnd, SyncGetsEnd
  <2> QED  BY <1>1, <1>2, <2>1, <2>2 DEF bookVars, lruVars
<1>5. CASE SyncEvent
  <2> DEFINE k == Head(events).k
             new == Bucket(Head(events).e)
             old == IF k \in DOMAIN times THEN times[k] ELSE 0
  <2>1. Head(events) \in Event /\ Tail(events) \in Seq(Event)
    BY <1>1, <1>5, HeadTailProperties DEF SyncEvent
  <2>2. k \in Keys /\ Head(events).e \in 0..Never  BY <2>1 DEF Event
  <2>3. new \in 0..(Never + Second) /\ new \in Int  BY <2>2, BucketTyped, CacheAssumption
  <2>4. /\ sets' = IF new = old THEN sets ELSE Moved(k, old, new)
        /\ times' = With(times, {k}, new)
        /\ raw' = IF cap > 0 THEN Append(raw, k) ELSE raw
        /\ events' = Tail(events)
        /\ torn' = IF Tail(events) = <<>> THEN torn \ {"events"} ELSE torn
        /\ UNCHANGED <<cap, now, data, gets, lru, index, closeVars, sweepVars,
                       userVars>>
    BY <1>5 DEF SyncEvent
  <2> HIDE DEF k, new, old
  <2>5. IsMap(times', Never + Second)  BY <1>1, <2>2, <2>3, <2>4, WithMap
  <2>6. sets' \subseteq Int \X Keys  BY <1>1, <2>2, <2>3, <2>4 DEF Moved
  <2>7. raw' \in Seq(Keys)  BY <1>1, <2>2, <2>4, AppendProperties
  <2>8. torn' \subseteq {"events", "gets"}  BY <1>1, <2>4
  <2> QED  BY <1>1, <1>2, <1>3, <2>1, <2>4, <2>5, <2>6, <2>7, <2>8 DEF sweepVars
<1>6. CASE SyncGet
  <2>1. Head(gets) \in Keys /\ Tail(gets) \in Seq(Keys)
    BY <1>1, <1>6, HeadTailProperties DEF SyncGet
  <2>2. raw' \in Seq(Keys)  BY <1>1, <1>6, <2>1, AppendProperties DEF SyncGet
  <2> QED  BY <1>1, <1>2, <1>3, <1>6, <2>1, <2>2 DEF SyncGet, bookVars, sweepVars, Places
<1>7. CASE SyncRaw
  <2>1. Head(raw) \in Keys /\ Tail(raw) \in Seq(Keys)
    BY <1>1, <1>7, HeadTailProperties DEF SyncRaw
  <2>2. <<Head(raw)>> \in Seq(Keys)  BY <2>1
  <2>3. lru' \in Seq(Keys)
    BY <1>7, <2>1, <2>2, LruWithoutTyped, ConcatProperties DEF SyncRaw, PushedFront
  <2> QED  BY <1>1, <1>2, <1>3, <1>7, <2>1, <2>3 DEF SyncRaw, bookVars, sweepVars
<1>8. CASE Evict
  <2>1. IsMap(data', Never) /\ IsMap(times', Never + Second)
    BY <1>1, <1>8, WithoutMap DEF Evict
  <2>2. SubSeq(lru, 1, Len(lru) - 1) \in Seq(Keys)
    <3>1. Len(lru) \in Nat /\ \A i \in 1..Len(lru) : lru[i] \in Keys
      BY <1>1, LenProperties, ElementOfSeq
    <3>2. 1 \in Int /\ Len(lru) - 1 \in Int
          /\ \A i \in 1..Len(lru) - 1 : lru[i] \in Keys
      BY <3>1
    <3> QED  BY <3>2, SubSeqProperties
  <2> QED  BY <1>1, <1>2, <1>3, <1>8, <2>1, <2>2 DEF Evict, sweepVars
<1>9. CASE Look
  <2>1. LookedAt \subseteq Int
    <3>1. Bucket(now) \in Int /\ Second \in Int  BY <1>1, BucketBounds, CacheAssumption
    <3> QED  BY <3>1, CacheAssumption DEF LookedAt
  <2>2. late' \subseteq Keys  BY <1>1, <1>9 DEF Look, IsMap
  <2> QED  BY <1>1, <1>2, <1>9, <2>1, <2>2 DEF Look, bookVars, lruVars, Places
<1>10. CASE SweepKey
  <2>1. PICK pair \in sets :
           /\ sets' = sets \ {pair}
           /\ data' = Without(data, Cleared(pair[2]))
           /\ times' = Without(times, {pair[2]})
           /\ lru' = LruWithout(pair[2])
           /\ index' = index \ {pair[2]}
    BY <1>10 DEF SweepKey
  <2>2. IsMap(data', Never) /\ IsMap(times', Never + Second)
    BY <1>1, <2>1, WithoutMap
  <2>3. lru' \in Seq(Keys)  BY <2>1, LruWithoutTyped
  <2> QED  BY <1>1, <1>2, <1>3, <1>10, <2>1, <2>2, <2>3 DEF SweepKey, sweepVars
<1>11. CASE SweepEnd
  BY <1>1, <1>2, <1>11 DEF SweepEnd, bookVars, lruVars, Places
<1> QED  BY <1>4, <1>5, <1>6, <1>7, <1>8, <1>9, <1>10, <1>11 DEF Sweeper

LEMMA StepTyped == ASSUME TypeInv, [Next]_vars PROVE TypeInv'
<1> USE DEF listVars
<1>1. CASE Tick
  <2>1. now' \in Nat /\ now' \in FirstNow..MaxNow
    BY <1>1, CacheAssumption DEF Tick, TypeInv, TypeOK
  <2> QED  BY <1>1, <2>1 DEF Tick, TypeInv, TypeOK, IsMap, bookVars, lruVars,
                             closeVars, sweepVars, userVars
<1>2. CASE CloseLru
  <2>1. calls' \in 0..MaxCalls /\ lruClosed' \in BOOLEAN /\ closed' \in BOOLEAN
    BY <1>2, CacheAssumption DEF CloseLru, TypeInv, TypeOK
  <2> QED  BY <1>2, <2>1 DEF CloseLru, TypeInv, TypeOK, IsMap, bookVars, lruVars,
                             sweepVars
<1>3. CASE CloseCache
  BY <1>3 DEF CloseCache, TypeInv, TypeOK, IsMap, bookVars, lruVars, sweepVars,
              userVars
<1>4. CASE UNCHANGED vars
  BY <1>4 DEF vars, TypeInv, TypeOK, IsMap, bookVars, lruVars, closeVars,
              sweepVars, userVars
<1>5. ASSUME NEW u \in Users, Call(u) \/ GoOn(u) PROVE TypeInv'
  BY <1>5, CallTyped, GoOnTyped
<1>6. CASE Sweeper  BY <1>6, SweeperTyped
<1> QED  BY <1>1, <1>2, <1>3, <1>4, <1>5, <1>6 DEF Next

LEMMA AlwaysTyped == Spec => []TypeInv
BY InitTyped, StepTyped, PTL DEF Spec

(* Every field keeps its type, and no time computed by a call or by the    *)
(* sweeper is before the epoch or after "never".                           *)
THEOREM CacheTyped == Spec => []TypeOK
<1>1. TypeInv => TypeOK  BY DEF TypeInv
<1> QED  BY <1>1, AlwaysTyped, PTL
-----------------------------------------------------------------------------
(* The books of expire times. *)

(* Without a capacity nothing ever reaches the LRU. *)
NoLru == cap = 0 => raw = <<>> /\ index = {} /\ sweeper \notin {"gets", "more"}

Noted == \A k \in DOMAIN times : <<times[k], k>> \in sets
OneSecond == cap = 0 => \A pair \in sets : /\ pair[2] \in DOMAIN times
                                           /\ times[pair[2]] = pair[1]
BooksInv == NoLru /\ Noted /\ OneSecond

LEMMA InitBooks == Init => BooksInv
BY DEF Init, BooksInv, NoLru, Noted, OneSecond

(* Nobody but the sweeper sees its books. *)
LEMMA OthersBooks ==
    ASSUME BooksInv,
           \/ Tick \/ CloseLru \/ CloseCache \/ UNCHANGED vars
           \/ \E u \in Users : Call(u) \/ GoOn(u)
    PROVE  BooksInv'
<1>1. UNCHANGED <<cap, bookVars, lruVars, sweepVars>>
  BY DEF Tick, CloseLru, CloseCache, vars, Call, GoOn, Set, UpdateExpire,
         Remove, PushEvent, LinkEvent, Get, Touch, Mark, Miss, DoSetWithLockCheck,
         DoSetWithFuncLockCheck, Clear
<1> QED
  BY <1>1 DEF bookVars, lruVars, sweepVars, BooksInv, NoLru, Noted, OneSecond

(* Taking an event: the key's old second is forgotten with its place in    *)
(* the sets, and the new one is noted in both.                             *)
LEMMA SyncEventInv == ASSUME TypeInv, BooksInv, SyncEvent PROVE BooksInv'
<1> DEFINE k == Head(events).k
           new == Bucket(Head(events).e)
           old == IF k \in DOMAIN times THEN times[k] ELSE 0
<1>1. NoLru /\ Noted /\ OneSecond  BY DEF BooksInv
<1>2. events \in Seq(Event) /\ events # <<>>
  BY DEF SyncEvent, TypeInv, TypeOK, Event
<1>3. Head(events) \in Event  BY <1>2, HeadTailProperties
<1>4. new > 0  BY <1>3, BucketTyped DEF Event
<1>5. /\ sets' = IF new = old THEN sets ELSE Moved(k, old, new)
      /\ times' = With(times, {k}, new)
      /\ UNCHANGED <<cap, index, sweeper>>
      /\ cap = 0 => raw' = raw
  <2>1. cap = 0 => ~(cap > 0)  OBVIOUS
  <2> QED  BY <2>1 DEF SyncEvent, sweepVars
<1>6. sweeper = "events"  BY DEF SyncEvent
<1>7. new = old => k \in DOMAIN times /\ times[k] = new  BY <1>4
<1> HIDE DEF k, new, old
<1>8. /\ DOMAIN times' = DOMAIN times \cup {k} /\ times'[k] = new
      /\ \A j \in DOMAIN times : j # k => times'[j] = times[j]
  BY <1>5 DEF With
<1>9. \A pair : pair \in sets' <=>
           \/ pair = <<new, k>>
           \/ pair \in sets /\ (new = old \/ pair # <<old, k>>)
  BY <1>1, <1>5, <1>7 DEF Moved, Noted
<1>10. \A pair \in sets : pair = <<pair[1], pair[2]>>  BY DEF TypeInv, TypeOK
<1>11. NoLru'  BY <1>1, <1>5, <1>6 DEF NoLru
<1>12. Noted'
  <2> SUFFICES ASSUME NEW j \in DOMAIN times' PROVE <<times'[j], j>> \in sets'
    BY DEF Noted
  <2>1. CASE j = k  BY <2>1, <1>8, <1>9
  <2>2. CASE j # k  BY <2>2, <1>1, <1>8, <1>9 DEF Noted
  <2> QED  BY <2>1, <2>2
<1>13. OneSecond'
  <2> SUFFICES ASSUME cap = 0, NEW pair \in sets'
               PROVE  pair[2] \in DOMAIN times' /\ times'[pair[2]] = pair[1]
    BY <1>5 DEF OneSecond
  <2>1. CASE pair = <<new, k>>  BY <2>1, <1>8
  <2>2. CASE pair \in sets /\ (new = old \/ pair # <<old, k>>)
    <3>1. pair[2] \in DOMAIN times /\ times[pair[2]] = pair[1]
      BY <2>2, <1>1 DEF OneSecond
    <3>2. pair = <<pair[1], pair[2]>>  BY <2>2, <1>10
    <3>3. CASE pair[2] = k
      <4>1. times[k] = old  BY <3>1, <3>3 DEF old
      <4>2. pair = <<old, k>>  BY <3>1, <3>2, <3>3, <4>1
      <4> QED  BY <2>2, <3>1, <3>3, <4>1, <4>2, <1>8
    <3>4. CASE pair[2] # k  BY <3>1, <3>4, <1>8
    <3> QED  BY <3>3, <3>4
  <2> QED  BY <2>1, <2>2, <1>9
<1> QED  BY <1>11, <1>12, <1>13 DEF BooksInv

(* An eviction, of a cache that has a capacity: the second is forgotten,   *)
(* the place in the sets stays.                                            *)
LEMMA EvictInv == ASSUME TypeInv, BooksInv, Evict PROVE BooksInv'
<1>1. NoLru /\ Noted /\ OneSecond  BY DEF BooksInv
<1>2. cap # 0
  <2> SUFFICES ASSUME cap = 0 PROVE FALSE  OBVIOUS
  <2>1. index = {}  BY <1>1 DEF NoLru
  <2>2. Cardinality(index) = 0  BY <2>1, FS_EmptySet
  <2> QED  BY <2>2 DEF Evict
<1> DEFINE k == lru[Len(lru)]
<1>3. /\ times' = Without(times, {k})
      /\ UNCHANGED <<cap, sets>>
  BY DEF Evict
<1> HIDE DEF k
<1>5. NoLru' /\ OneSecond'  BY <1>2, <1>3 DEF NoLru, OneSecond
<1>6. Noted'
  <2> SUFFICES ASSUME NEW j \in DOMAIN times' PROVE <<times'[j], j>> \in sets'
    BY DEF Noted
  <2>1. j \in DOMAIN times /\ times'[j] = times[j]  BY <1>3 DEF Without
  <2> QED  BY <2>1, <1>1, <1>3 DEF Noted
<1> QED  BY <1>5, <1>6 DEF BooksInv

(* A sweep: the key leaves the set, and its second is forgotten.  Without  *)
(* a capacity that was its only second.                                    *)
LEMMA SweepKeyInv == ASSUME TypeInv, BooksInv, SweepKey PROVE BooksInv'
<1>1. NoLru /\ Noted /\ OneSecond  BY DEF BooksInv
<1>2. PICK pair \in sets :
        /\ sets' = sets \ {pair}
        /\ times' = Without(times, {pair[2]})
        /\ index' = index \ {pair[2]}
  BY DEF SweepKey
<1>3. UNCHANGED <<cap, raw, sweeper>>  BY DEF SweepKey, sweepVars
<1>5. NoLru'  BY <1>1, <1>2, <1>3 DEF NoLru
<1>6. \A p \in sets : p = <<p[1], p[2]>>  BY DEF TypeInv, TypeOK
<1>7. /\ DOMAIN times' = DOMAIN times \ {pair[2]}
      /\ \A j \in DOMAIN times' : times'[j] = times[j]
  BY <1>2 DEF Without
<1>8. Noted'
  <2> SUFFICES ASSUME NEW j \in DOMAIN times' PROVE <<times'[j], j>> \in sets'
    BY DEF Noted
  <2>1. j \in DOMAIN times /\ j # pair[2] /\ times'[j] = times[j]  BY <1>7
  <2>2. <<times[j], j>> \in sets /\ <<times[j], j>> # pair  BY <2>1, <1>1, <1>6 DEF Noted
  <2> QED  BY <2>1, <2>2, <1>2
<1>9. OneSecond'
  <2> SUFFICES ASSUME cap = 0, NEW p \in sets'
               PROVE  p[2] \in DOMAIN times' /\ times'[p[2]] = p[1]
    BY <1>3 DEF OneSecond
  <2>1. p \in sets /\ p # pair  BY <1>2
  <2>2. /\ p[2] \in DOMAIN times /\ times[p[2]] = p[1]
        /\ times[pair[2]] = pair[1]
    BY <2>1, <1>1 DEF OneSecond
  <2>3. p[2] # pair[2]  BY <2>1, <2>2, <1>6
  <2> QED  BY <2>2, <2>3, <1>7
<1> QED  BY <1>5, <1>8, <1>9 DEF BooksInv


(* The other steps of the sweeper leave times and sets alone, and fill the *)
(* LRU of a cache with a capacity only.                                    *)
LEMMA SweeperBooks == ASSUME TypeInv, BooksInv, Sweeper PROVE BooksInv'
<1>1. NoLru  BY DEF BooksInv
<1>2. ASSUME UNCHANGED <<cap, times, sets>>, NoLru' PROVE BooksInv'
  BY <1>2 DEF BooksInv, Noted, OneSecond
<1>3. CASE SyncEvent  BY <1>3, SyncEventInv
<1>4. CASE Evict  BY <1>4, EvictInv
<1>5. CASE SweepKey  BY <1>5, SweepKeyInv
<1>6. CASE SweepStart \/ SyncGetsEnd \/ Look \/ SweepEnd
  <2>1. UNCHANGED <<cap, times, sets, raw, index>>
    BY <1>6 DEF SweepStart, SyncGetsEnd, Look, SweepEnd, bookVars, lruVars
  <2>2. sweeper' \notin {"gets", "more"}
    BY <1>6 DEF SweepStart, AtStart, SyncGetsEnd, Look, SweepEnd
  <2> QED  BY <2>1, <2>2, <1>1, <1>2 DEF NoLru
<1>7. CASE SyncEventsEnd
  <2>1. UNCHANGED <<cap, times, sets, raw, index>>
    BY <1>7 DEF SyncEventsEnd, bookVars, lruVars
  <2>2. cap = 0 => sweeper' \notin {"gets", "more"}  BY <1>7 DEF SyncEventsEnd
  <2> QED  BY <2>1, <2>2, <1>1, <1>2 DEF NoLru
<1>8. CASE SyncGet
  <2>1. cap # 0  BY <1>1, <1>8 DEF SyncGet, NoLru
  <2>2. UNCHANGED <<cap, times, sets>>  BY <1>8 DEF SyncGet, bookVars
  <2> QED  BY <2>1, <2>2, <1>2 DEF NoLru
<1>9. CASE SyncRaw
  <2>1. cap # 0  BY <1>1, <1>9 DEF SyncRaw, NoLru
  <2>2. UNCHANGED <<cap, times, sets>>  BY <1>9 DEF SyncRaw, bookVars
  <2> QED  BY <2>1, <2>2, <1>2 DEF NoLru
<1> QED  BY <1>3, <1>4, <1>5, <1>6, <1>7, <1>8, <1>9 DEF Sweeper

LEMMA AlwaysBooks == Spec => []BooksInv
<1>1. ASSUME TypeInv, BooksInv, [Next]_vars PROVE BooksInv'
  BY <1>1, OthersBooks, SweeperBooks DEF Next
<1> QED  BY <1>1, InitBooks, AlwaysTyped, PTL DEF Spec

(* The second noted for a key has it in its set, and without a capacity no *)
(* other second has: what the sweeper deletes by, and what it looks up to  *)
(* move a key (gcache's expireTimes and expireSets), are never apart.      *)
THEOREM CacheBooks == Spec => []BooksAgree
<1>1. BooksInv => BooksAgree  BY DEF BooksInv, Noted, OneSecond, BooksAgree
<1> QED  BY <1>1, AlwaysBooks, PTL
-----------------------------------------------------------------------------
(* The LRU. *)
Listed(l) == {l[i] : i \in DOMAIN l}
Distinct(l) == \A i, j \in DOMAIN l : l[i] = l[j] => i = j

(* Removing a key from a list that has every key once. *)
LEMMA UnlistedKeys ==
    ASSUME NEW S, NEW l \in Seq(S), NEW k \in Listed(l), Distinct(l)
    PROVE  LET m == Unlisted(l, k)
           IN Listed(m) = Listed(l) \ {k} /\ Distinct(m) /\ Len(m) <= Len(l)
<1> DEFINE m == Unlisted(l, k)
<1>1. Len(l) \in Nat /\ DOMAIN l = 1..Len(l)  BY LenProperties
<1>2. \E i \in DOMAIN l : l[i] = k  BY DEF Listed
<1>3. m \in Seq(S) /\ Len(m) = Len(l) - 1  BY <1>2, UnlistedShape
<1>4. PICK p \in 1..Len(l) :
         /\ l[p] = k
         /\ \A i \in 1..Len(l) - 1 : m[i] = IF i < p THEN l[i] ELSE l[i + 1]
  BY <1>2, UnlistedShape
<1> HIDE DEF m
<1>5. DOMAIN m = 1..Len(l) - 1  BY <1>3, LenProperties
<1> DEFINE at(i) == IF i < p THEN i ELSE i + 1
<1>6. \A i \in DOMAIN m : at(i) \in DOMAIN l /\ at(i) # p /\ m[i] = l[at(i)]
  BY <1>1, <1>4, <1>5
<1>7. \A i, j \in DOMAIN m : at(i) = at(j) => i = j  BY <1>1, <1>4, <1>5
<1>8. \A n \in DOMAIN l : n # p => \E i \in DOMAIN m : at(i) = n
  <2> SUFFICES ASSUME NEW n \in DOMAIN l, n # p
               PROVE  \E i \in DOMAIN m : at(i) = n
    OBVIOUS
  <2>1. CASE n < p
    <3>1. n \in DOMAIN m /\ at(n) = n  BY <2>1, <1>1, <1>4, <1>5
    <3> QED  BY <3>1
  <2>2. CASE ~(n < p)
    <3>1. n - 1 \in DOMAIN m /\ at(n - 1) = n  BY <2>2, <1>1, <1>4, <1>5
    <3> QED  BY <3>1
  <2> QED  BY <2>1, <2>2
<1> HIDE DEF at
<1>9. Distinct(m)  BY <1>6, <1>7 DEF Distinct
<1>10. \A n \in DOMAIN l : n # p => l[n] # k  BY <1>1, <1>4 DEF Distinct
<1>11. Listed(m) \subseteq Listed(l) \ {k}  BY <1>6, <1>10 DEF Listed
<1>12. ASSUME NEW x \in Listed(l) \ {k} PROVE x \in Listed(m)
  <2>1. PICK n \in DOMAIN l : x = l[n]  BY DEF Listed
  <2>2. PICK i \in DOMAIN m : at(i) = n  BY <2>1, <1>4, <1>8
  <2> QED  BY <2>1, <2>2, <1>6 DEF Listed
<1>13. Len(m) <= Len(l)  BY <1>1, <1>3
<1> QED  BY <1>9, <1>11, <1>12, <1>13 DEF m

LEMMA LruWithoutKeys ==
    ASSUME TypeInv, LruBooks, NEW k
    PROVE  /\ Listed(LruWithout(k)) = index \ {k}
           /\ Distinct(LruWithout(k))
           /\ Len(LruWithout(k)) <= Len(lru)
<1>1. lru \in Seq(Keys) /\ Len(lru) \in Nat  BY LenProperties DEF TypeInv, TypeOK
<1>2. index = Listed(lru) /\ Distinct(lru)  BY DEF LruBooks, Listed, Distinct
<1>3. CASE k \in index
  <2>1. LruWithout(k) = Unlisted(lru, k)  BY <1>3 DEF LruWithout
  <2>2. /\ Listed(Unlisted(lru, k)) = index \ {k}
        /\ Distinct(Unlisted(lru, k)) /\ Len(Unlisted(lru, k)) <= Len(lru)
    BY <1>1, <1>2, <1>3, UnlistedKeys
  <2> QED  BY <2>1, <2>2
<1>4. CASE k \notin index
  BY <1>1, <1>2, <1>4 DEF LruWithout
<1> QED  BY <1>3, <1>4

(* As many keys in the index as places in the list. *)
LEMMA IndexCounts ==
    ASSUME TypeInv, LruBooks PROVE Cardinality(index) = Len(lru)
<1>1. /\ lru \in Seq(Keys) /\ Len(lru) \in Nat /\ DOMAIN lru = 1..Len(lru)
      /\ lru \in [1..Len(lru) -> Keys]
  BY LenProperties DEF TypeInv, TypeOK
<1>2. index = Listed(lru) /\ Distinct(lru)  BY DEF LruBooks, Listed, Distinct
<1>3. lru \in Bijection(1..Len(lru), index)
  <2>1. lru \in [1..Len(lru) -> index]  BY <1>1, <1>2 DEF Listed
  <2>2. \A x \in index : \E i \in 1..Len(lru) : lru[i] = x  BY <1>1, <1>2 DEF Listed
  <2>3. \A i, j \in 1..Len(lru) : lru[i] = lru[j] => i = j  BY <1>1, <1>2 DEF Distinct
  <2> QED  BY <2>1, <2>2, <2>3 DEF Bijection, Injection, Surjection, IsInjective
<1>4. ExistsBijection(1..Len(lru), index)  BY <1>3 DEF ExistsBijection
<1> QED  BY <1>1, <1>4, FS_CountingElements
LEMMA InitLru == Init => LruBooks
BY CacheAssumption DEF Init, LruBooks

(* A key comes to the front: into the index, and once into the list. *)
LEMMA SyncRawLru == ASSUME TypeInv, LruBooks, SyncRaw PROVE LruBooks'
<1> DEFINE k == Head(raw)
           m == LruWithout(k)
<1>1. /\ lru' = <<k>> \o m /\ index' = index \cup {k}
      /\ sweeper' = sweeper /\ sweeper = "raw"
  BY DEF SyncRaw, PushedFront, sweepVars
<1>2. k \in Keys  BY HeadTailProperties DEF SyncRaw, TypeInv, TypeOK
<1>3. m \in Seq(Keys) /\ Listed(m) = index \ {k} /\ Distinct(m)
  BY LruWithoutTyped, LruWithoutKeys
<1> HIDE DEF k, m
<1>4. Len(m) \in Nat /\ DOMAIN m = 1..Len(m)  BY <1>3, LenProperties
<1>5. <<k>> \in Seq(Keys) /\ Len(<<k>>) = 1 /\ <<k>>[1] = k  BY <1>2
<1>6. /\ lru' \in Seq(Keys) /\ Len(lru') = 1 + Len(m)
      /\ \A i \in 1..1 + Len(m) : lru'[i] = IF i <= 1 THEN <<k>>[i] ELSE m[i - 1]
  BY <1>1, <1>3, <1>5, ConcatProperties
<1>7. DOMAIN lru' = 1..1 + Len(m)  BY <1>6, LenProperties
<1>8. lru'[1] = k /\ 1 \in DOMAIN lru'  BY <1>4, <1>5, <1>6, <1>7
<1>9. \A i \in DOMAIN lru' : i # 1 => i - 1 \in DOMAIN m /\ lru'[i] = m[i - 1]
  BY <1>4, <1>6, <1>7
<1>10. \A i \in DOMAIN m : i + 1 \in DOMAIN lru' /\ lru'[i + 1] = m[i]
  BY <1>4, <1>6, <1>7
<1>11. \A i \in DOMAIN m : m[i] # k  BY <1>3 DEF Listed
<1>12. Listed(lru') = index'
  <2>1. Listed(lru') \subseteq Listed(m) \cup {k}  BY <1>8, <1>9 DEF Listed
  <2>2. Listed(m) \cup {k} \subseteq Listed(lru')  BY <1>8, <1>10 DEF Listed
  <2> QED  BY <2>1, <2>2, <1>1, <1>3
<1>13. Distinct(lru')
  <2> SUFFICES ASSUME NEW i \in DOMAIN lru', NEW j \in DOMAIN lru', lru'[i] = lru'[j]
               PROVE  i = j
    BY DEF Distinct
  <2>1. CASE i = 1 /\ j = 1  BY <2>1
  <2>2. CASE i = 1 /\ j # 1  BY <2>2, <1>8, <1>9, <1>11
  <2>3. CASE i # 1 /\ j = 1  BY <2>3, <1>8, <1>9, <1>11
  <2>4. CASE i # 1 /\ j # 1
    <3>1. i - 1 = j - 1  BY <2>4, <1>3, <1>9 DEF Distinct
    <3> QED  BY <3>1, <1>4, <1>7
  <2> QED  BY <2>1, <2>2, <2>3, <2>4
<1> QED  BY <1>1, <1>12, <1>13 DEF LruBooks, Listed, Distinct

(* An eviction takes the last place, and its key from the index. *)
LEMMA EvictLru == ASSUME TypeInv, LruBooks, Evict PROVE LruBooks'
<1> DEFINE n == Len(lru)
<1>1. lru \in Seq(Keys) /\ lru # <<>>  BY DEF Evict, TypeInv, TypeOK
<1>2. n \in Nat /\ n >= 1 /\ DOMAIN lru = 1..n
  BY <1>1, LenProperties, EmptySeq
<1>3. \A i \in 1..n : lru[i] \in Keys  BY <1>1, ElementOfSeq
<1>4. /\ lru' = SubSeq(lru, 1, n - 1) /\ index' = index \ {lru[n]}
      /\ sweeper' = sweeper /\ sweeper = "raw"
  BY DEF Evict, sweepVars
<1> HIDE DEF n
<1>5. lru' \in Seq(Keys) /\ Len(lru') = n - 1 /\ \A i \in 1..n - 1 : lru'[i] = lru[i]
  <2>1. 1 \in Int /\ n - 1 \in Int /\ \A i \in 1..n - 1 : lru[i] \in Keys
    BY <1>2, <1>3
  <2> QED  BY <2>1, <1>2, <1>4, SubSeqProperties
<1>6. DOMAIN lru' = 1..n - 1  BY <1>5, LenProperties
<1>7. Listed(lru) = index /\ Distinct(lru)  BY DEF LruBooks, Listed, Distinct
<1>8. DOMAIN lru' = DOMAIN lru \ {n} /\ n \in DOMAIN lru  BY <1>2, <1>6
<1>9. \A i \in DOMAIN lru' : lru'[i] = lru[i]  BY <1>5, <1>6
<1>10. \A i \in DOMAIN lru : i # n => lru[i] # lru[n]  BY <1>7, <1>8 DEF Distinct
<1>11. Listed(lru') = index \ {lru[n]}  BY <1>7, <1>8, <1>9, <1>10 DEF Listed
<1>12. Distinct(lru')  BY <1>7, <1>8, <1>9 DEF Distinct
<1> QED  BY <1>4, <1>11, <1>12 DEF LruBooks, Listed, Distinct

LEMMA StepLru == ASSUME TypeInv, LruBooks, [Next]_vars PROVE LruBooks'
<1>1. ASSUME UNCHANGED <<cap, lru, index>>,
             sweeper' \in {"idle", "sweep"} => sweeper \in {"idle", "sweep"}
      PROVE  LruBooks'
  BY <1>1 DEF LruBooks
<1>2. CASE \/ Tick \/ CloseLru \/ CloseCache \/ UNCHANGED vars
           \/ \E u \in Users : Call(u) \/ GoOn(u)
  <2>1. UNCHANGED <<cap, lruVars, sweepVars>>
    BY <1>2 DEF Tick, CloseLru, CloseCache, vars, Call, GoOn, Set, UpdateExpire,
           Remove, PushEvent, LinkEvent, Get, Touch, Mark, Miss, DoSetWithLockCheck,
           DoSetWithFuncLockCheck, Clear
  <2> QED  BY <1>1, <2>1 DEF lruVars, sweepVars
<1>3. CASE SweepStart \/ SyncEvent \/ SyncEventsEnd \/ SyncGet \/ SyncGetsEnd
           \/ SweepEnd
  BY <1>1, <1>3 DEF SweepStart, AtStart, SyncEvent, SyncEventsEnd, SyncGet,
                    SyncGetsEnd, SweepEnd, lruVars, sweepVars
<1>4. CASE SyncRaw  BY <1>4, SyncRawLru
<1>5. CASE Evict  BY <1>5, EvictLru
<1>6. CASE Look
  <2>1. UNCHANGED <<cap, lru, index>>  BY <1>6 DEF Look, lruVars
  <2>2. Len(lru) <= cap
    <3>1. cap \in Nat  BY CacheAssumption DEF TypeInv, TypeOK
    <3>2. CASE Cardinality(index) <= cap  BY <3>2, IndexCounts
    <3>3. CASE lru = <<>>
      <4>1. Len(lru) = 0  BY <3>3
      <4> QED  BY <3>1, <4>1
    <3> QED  BY <1>6, <3>2, <3>3 DEF Look
  <2> QED  BY <2>1, <2>2 DEF LruBooks
<1>7. CASE SweepKey
  <2>1. PICK k : lru' = LruWithout(k) /\ index' = index \ {k}
    BY <1>7 DEF SweepKey
  <2>2. UNCHANGED <<cap, sweeper>> /\ sweeper = "sweep"  BY <1>7 DEF SweepKey, sweepVars
  <2>3. /\ Listed(lru') = index' /\ Distinct(lru') /\ Len(lru') <= Len(lru)
    BY <2>1, LruWithoutKeys
  <2>4. cap > 0 => Len(lru') <= cap
    <3>1. Len(lru) \in Nat /\ Len(lru') \in Nat /\ cap \in Nat
      BY <2>1, LruWithoutTyped, LenProperties, CacheAssumption DEF TypeInv, TypeOK
    <3> QED  BY <2>2, <2>3, <3>1 DEF LruBooks
  <2> QED  BY <2>2, <2>3, <2>4 DEF LruBooks, Listed, Distinct
<1> QED  BY <1>2, <1>3, <1>4, <1>5, <1>6, <1>7 DEF Next, Sweeper

(* The LRU's index is the set of its list's keys, the list has each once,  *)
(* and every run of the sweeper leaves at most cap of them: what lru.data  *)
(* finds in lru.list, and what SyncAndClear counts to evict, are the same. *)
THEOREM CacheLru == Spec => []LruBooks
BY InitLru, StepLru, AlwaysTyped, PTL DEF Spec
-----------------------------------------------------------------------------
(* Every item has its deletion before it. *)

(* A call of u will push an event for k. *)
Pending(u, k) == k \in op[u].keys /\ op[u].at \in {"push", "link", "set"}

(* Only one call at a time has a key that is not misled. *)
OneCaller ==
    \A k \in Keys \ misled : \A u, v \in Users :
        Pending(u, k) /\ Pending(v, k) => u = v

(* What it pushes is the expire time in the map. *)
PushesItsTime ==
    \A k \in DOMAIN data \ misled : \A u \in Users :
        k \in op[u].keys /\ op[u].at \in {"push", "link"} => op[u].e = data[k]

(* After a miss the key is still missing when the setter looks again. *)
StillMissing ==
    \A k \in Keys \ misled : \A u \in Users :
        k \in op[u].keys /\ op[u].at = "set" => ~Live(k)

(* The seconds the sweep has before it are over. *)
LooksBack == \A second \in left : second <= Bucket(now) - Second

(* The second disjunct and the third of Scheduled, without a choice. *)
LastIs(k, e) ==
    \E i \in DOMAIN events :
        /\ events[i].k = k /\ events[i].e = e
        /\ \A j \in DOMAIN events : events[j].k = k => j <= i
NoEvent(k) == \A i \in DOMAIN events : events[i].k # k
Awaits(k) == \/ \E u \in Users : Pending(u, k)
             \/ LastIs(k, data[k])
             \/ NoEvent(k) /\ <<Bucket(data[k]), k>> \in sets
Due == \A k \in DOMAIN data \ misled : Awaits(k)

SchedInv == OneCaller /\ PushesItsTime /\ StillMissing /\ LooksBack /\ Due

LEMMA DueScheduled == ASSUME TypeInv, Due PROVE Scheduled
<1> SUFFICES ASSUME NEW k \in DOMAIN data \ misled
             PROVE  \/ k \in Changing
                    \/ IF \E i \in DOMAIN events : events[i].k = k
                       THEN events[LastEvent(k)].e = data[k]
                       ELSE <<Bucket(data[k]), k>> \in sets
  BY DEF Scheduled
<1>1. Awaits(k)  BY DEF Due
<1>2. CASE LastIs(k, data[k])
  <2>1. events \in Seq(Event)  BY DEF TypeInv, TypeOK, Event
  <2>2. Len(events) \in Nat /\ DOMAIN events = 1..Len(events)  BY <2>1, LenProperties
  <2>3. PICK i \in DOMAIN events :
           /\ events[i].k = k /\ events[i].e = data[k]
           /\ \A j \in DOMAIN events : events[j].k = k => j <= i
    BY <1>2 DEF LastIs
  <2> DEFINE l == LastEvent(k)
  <2>4. /\ l \in DOMAIN events /\ events[l].k = k
        /\ \A j \in DOMAIN events : events[j].k = k => j <= l
    BY <2>3 DEF LastEvent
  <2> HIDE DEF l
  <2>5. l = i  BY <2>2, <2>3, <2>4
  <2> QED  BY <2>3, <2>5 DEF l
<1>3. CASE NoEvent(k) /\ <<Bucket(data[k]), k>> \in sets  BY <1>3 DEF NoEvent
<1>4. CASE \E u \in Users : Pending(u, k)  BY <1>4 DEF Pending, Changing
<1> QED  BY <1>1, <1>2, <1>3, <1>4 DEF Awaits

LEMMA InitSched == Init => SchedInv
<1> SUFFICES ASSUME Init PROVE SchedInv  OBVIOUS
<1>1. data = <<>> /\ now = FirstNow /\ left = {}
      /\ \A u \in Users : op[u].at = "idle"
  BY DEF Init, Idle
<1>2. FirstNow \in Nat  BY CacheAssumption
<1>3. LooksBack  BY <1>1, <1>2 DEF LooksBack
<1>4. OneCaller  BY <1>1 DEF OneCaller, Pending
<1>5. PushesItsTime  BY <1>1 DEF PushesItsTime
<1>6. StillMissing  BY <1>1 DEF StillMissing
<1>7. Due  BY <1>1 DEF Due
<1> QED  BY <1>3, <1>4, <1>5, <1>6, <1>7 DEF SchedInv

(* A call begins with the keys ks.  Whoever else has one of them makes it  *)
(* misled; the others are left alone.                                      *)
LEMMA BeginSched ==
    ASSUME TypeInv, SchedInv, NEW u \in Users, NEW ks \in SUBSET Keys, Begin(u, ks),
           NEW c, op' = [op EXCEPT ![u] = c],
           c.at # "link", c.at \in {"push", "set"} => c.keys \subseteq ks,
           UNCHANGED <<now, events, sets, left>>,
           DOMAIN data' \subseteq Keys,
           \A k \in Keys \ ks : /\ k \in DOMAIN data' <=> k \in DOMAIN data
                                /\ k \in DOMAIN data => data'[k] = data[k],
           \A k \in ks \cap DOMAIN data' :
               /\ k \in c.keys
               /\ \/ c.at = "push" /\ c.e = data'[k]
                  \/ c.at = "set" /\ ~Live(k)'
    PROVE  SchedInv'
<1>1. /\ OneCaller /\ PushesItsTime /\ StillMissing /\ LooksBack /\ Due
      /\ op \in [Users -> Calls]
  BY DEF SchedInv, TypeInv, TypeOK, Calls
<1>2. op'[u] = c /\ \A v \in Users : v # u => op'[v] = op[v]  BY <1>1
<1>11. ASSUME NEW k \in Keys \ ks
       PROVE  /\ k \in DOMAIN data' <=> k \in DOMAIN data
              /\ k \in DOMAIN data => data'[k] = data[k]
              /\ Live(k)' <=> Live(k)
  <2>1. /\ k \in DOMAIN data' <=> k \in DOMAIN data
        /\ k \in DOMAIN data => data'[k] = data[k]
    BY <1>11
  <2>2. now' = now  OBVIOUS
  <2>3. k \in DOMAIN data => (data'[k] < now' <=> data[k] < now)  BY <2>1, <2>2
  <2> QED  BY <2>1, <2>3 DEF Live, Expired
<1>3. op[u].at = "idle" /\ op[u].keys = {}  BY DEF Begin, Idle
<1>4. /\ misled \subseteq misled'
      /\ \A k \in ks, v \in Users : Pending(v, k) => k \in misled'
  BY DEF Begin, Changing, Pending
<1>5. \A k \in Keys \ misled', v \in Users :
         v # u /\ Pending(v, k)' => k \notin ks /\ k \notin misled
  BY <1>2, <1>4 DEF Pending
<1>6. OneCaller'
  <2>1. \A k \in Keys \ misled', v \in Users :
           Pending(v, k)' => (IF v = u THEN k \in ks ELSE k \notin ks /\ Pending(v, k))
    BY <1>2, <1>5 DEF Pending
  <2> QED  BY <2>1, <1>1, <1>4 DEF OneCaller
<1>7. PushesItsTime'
  <2> SUFFICES ASSUME NEW k \in DOMAIN data' \ misled', NEW v \in Users,
                      k \in op'[v].keys, op'[v].at \in {"push", "link"}
               PROVE  op'[v].e = data'[k]
    BY DEF PushesItsTime
  <2>1. CASE v = u  BY <2>1, <1>2
  <2>2. CASE v # u
    <3>1. k \notin ks /\ k \notin misled /\ op'[v] = op[v]
      BY <2>2, <1>2, <1>5 DEF Pending
    <3>2. k \in DOMAIN data /\ data'[k] = data[k]  BY <3>1, <1>11
    <3> QED  BY <3>1, <3>2, <1>1 DEF PushesItsTime
  <2> QED  BY <2>1, <2>2
<1>8. StillMissing'
  <2> SUFFICES ASSUME NEW k \in Keys \ misled', NEW v \in Users,
                      k \in op'[v].keys, op'[v].at = "set"
               PROVE  ~Live(k)'
    BY DEF StillMissing
  <2>1. CASE v = u
    <3>1. k \in ks /\ c.at = "set"  BY <2>1, <1>2
    <3> QED  BY <3>1 DEF Live
  <2>2. CASE v # u
    <3>1. k \notin ks /\ k \notin misled /\ op'[v] = op[v]
      BY <2>2, <1>2, <1>5 DEF Pending
    <3>2. ~Live(k)  BY <3>1, <1>1 DEF StillMissing
    <3> QED  BY <3>1, <3>2, <1>11
  <2> QED  BY <2>1, <2>2
<1>9. LooksBack'  BY <1>1 DEF LooksBack, Bucket
<1>10. Due'
  <2> SUFFICES ASSUME NEW k \in DOMAIN data' \ misled' PROVE Awaits(k)'
    BY DEF Due
  <2>1. CASE k \in ks  BY <2>1, <1>2 DEF Awaits, Pending
  <2>2. CASE k \notin ks
    <3>1. k \in DOMAIN data \ misled /\ data'[k] = data[k]
      BY <2>2, <1>4, <1>11
    <3>2. Awaits(k)  BY <3>1, <1>1 DEF Due
    <3>3. \A v \in Users : Pending(v, k) => Pending(v, k)'
      BY <1>2, <1>3 DEF Pending
    <3> QED  BY <3>1, <3>2, <3>3 DEF Awaits, LastIs, NoEvent, Bucket
  <2> QED  BY <2>1, <2>2
<1> QED  BY <1>6, <1>7, <1>8, <1>9, <1>10 DEF SchedInv

LEMMA CallSched ==
    ASSUME TypeInv, SchedInv, NEW u \in Users, Call(u) PROVE SchedInv'
<1>1. /\ DOMAIN data \subseteq Keys /\ DOMAIN data' \subseteq Keys
      /\ op \in [Users -> Calls] /\ now \in Nat
  <2>1. TypeInv'  BY CallTyped
  <2> QED  BY <2>1 DEF TypeInv, TypeOK, IsMap, Calls
<1>2. ASSUME NEW at \in {"push", "touch", "set"}, NEW ks \in SUBSET Keys, NEW e,
             Goes(u, at, ks, e)
      PROVE  \E c : /\ op' = [op EXCEPT ![u] = c] /\ c.keys = ks
                    /\ c.at = (IF ks = {} THEN "idle" ELSE at)
                    /\ ks # {} => c.e = e
  <2>1. CASE ks = {}
    <3> WITNESS Idle
    <3> QED  BY <1>2, <2>1 DEF Goes, Idle
  <2>2. CASE ks # {}
    <3> WITNESS [at |-> at, keys |-> ks, e |-> e]
    <3> QED  BY <1>2, <2>2 DEF Goes
  <2> QED  BY <2>1, <2>2
<1>3. ASSUME NEW ks \in SUBSET Keys, Remove(u, ks) PROVE SchedInv'
  <2>1. Begin(u, ks) /\ data' = Without(data, ks)
        /\ UNCHANGED <<now, events, sets, left>>
    BY <1>3 DEF Remove, listVars, bookVars, sweepVars
  <2>2. PICK c : /\ op' = [op EXCEPT ![u] = c] /\ c.keys = ks \cap DOMAIN data
                 /\ c.at = (IF ks \cap DOMAIN data = {} THEN "idle" ELSE "push")
    <3>1. ks \cap DOMAIN data \in SUBSET Keys  OBVIOUS
    <3> QED  BY <1>2, <1>3, <3>1 DEF Remove
  <2>3. /\ ks \cap DOMAIN data' = {}
        /\ \A k \in Keys \ ks : k \in DOMAIN data' <=> k \in DOMAIN data
        /\ \A k \in DOMAIN data' : data'[k] = data[k]
    BY <2>1 DEF Without
  <2> QED  BY <1>1, <2>1, <2>2, <2>3, BeginSched
<1>4. ASSUME NEW ks \in SUBSET Keys, NEW d \in Durations, Begin(u, ks),
             data' = With(data, ks, ExpireTime(d)), Goes(u, "push", ks, ExpireTime(d)),
             UNCHANGED <<now, events, sets, left>>
      PROVE  SchedInv'
  <2>1. PICK c : /\ op' = [op EXCEPT ![u] = c] /\ c.keys = ks
                 /\ c.at = (IF ks = {} THEN "idle" ELSE "push")
                 /\ ks # {} => c.e = ExpireTime(d)
    BY <1>2, <1>4
  <2>2. /\ \A k \in ks : data'[k] = ExpireTime(d)
        /\ \A k \in Keys \ ks : /\ k \in DOMAIN data' <=> k \in DOMAIN data
                                /\ k \in DOMAIN data => data'[k] = data[k]
    BY <1>4 DEF With
  <2> QED  BY <1>1, <1>4, <2>1, <2>2, BeginSched
<1>5. ASSUME NEW ks \in SUBSET Keys, NEW d \in Durations, Set(u, ks, d)
      PROVE  SchedInv'
  BY <1>4, <1>5 DEF Set, listVars, bookVars, sweepVars
<1>6. ASSUME NEW k \in Keys, NEW d \in Durations, UpdateExpire(u, k, d)
      PROVE  SchedInv'
  BY <1>4, <1>6 DEF UpdateExpire, listVars, bookVars, sweepVars
<1>7. ASSUME NEW k \in Keys, Get(u, k) PROVE SchedInv'
  <2>1. Begin(u, {}) /\ UNCHANGED <<now, data, events, sets, left>>
    BY <1>7 DEF Get, listVars, bookVars, sweepVars
  <2>2. PICK c : op' = [op EXCEPT ![u] = c] /\ c.at = "touch"
    BY <1>2, <1>7 DEF Get
  <2>3. {} \in SUBSET Keys /\ ~(c.at \in {"push", "set"}) /\ c.at # "link"  BY <2>2
  <2>4. \A j \in Keys : /\ j \in DOMAIN data' <=> j \in DOMAIN data
                        /\ j \in DOMAIN data => data'[j] = data[j]
    BY <2>1
  <2> QED  BY <1>1, <2>1, <2>2, <2>3, <2>4, BeginSched
<1>8. ASSUME NEW k \in Keys, Miss(u, k) PROVE SchedInv'
  <2>1. /\ Begin(u, {k}) /\ ~Live(k)
        /\ UNCHANGED <<now, data, events, sets, left>>
    BY <1>8 DEF Miss, listVars, bookVars, sweepVars
  <2>2. PICK c : op' = [op EXCEPT ![u] = c] /\ c.at = "set" /\ c.keys = {k}
    BY <1>2, <1>8 DEF Miss
  <2>3. ~Live(k)'  BY <2>1 DEF Live, Expired
  <2>4. \A j \in {k} \cap DOMAIN data' : ~Live(j)'  BY <2>3 DEF Live, Expired
  <2> QED  BY <1>1, <2>1, <2>2, <2>4, BeginSched
<1>9. ASSUME Clear(u) PROVE SchedInv'
  <2>1. /\ Begin(u, Keys) /\ data' = <<>> /\ op' = op /\ op[u] = Idle
        /\ UNCHANGED <<now, events, sets, left>>
    BY <1>9 DEF Clear, Begin, listVars, bookVars, sweepVars
  <2>2. op' = [op EXCEPT ![u] = Idle] /\ Idle.at = "idle"
    BY <1>1, <2>1 DEF Idle
  <2>3. DOMAIN data' = {}  BY <2>1
  <2> QED  BY <1>1, <2>1, <2>2, <2>3, BeginSched
<1> QED  BY <1>3, <1>5, <1>6, <1>7, <1>8, <1>9 DEF Call, Batches
(* A call goes on: what its record is. *)
LEMMA GoesOn ==
    ASSUME TypeInv, NEW u \in Users, NEW at, NEW ks, NEW e, Goes(u, at, ks, e)
    PROVE  /\ \A v \in Users : v # u => op'[v] = op[v]
           /\ op'[u].keys = ks
           /\ op'[u].at = (IF ks = {} THEN "idle" ELSE at)
           /\ ks # {} => op'[u].e = e
<1>1. op \in [Users -> Calls]  BY DEF TypeInv, TypeOK, Calls
<1> DEFINE c == IF ks = {} THEN Idle
                ELSE [at |-> at, keys |-> ks, e |-> e]
<1>2. op' = [op EXCEPT ![u] = c]  BY DEF Goes
<1>3. /\ c.keys = ks /\ c.at = (IF ks = {} THEN "idle" ELSE at)
      /\ ks # {} => c.e = e
  BY DEF Idle
<1> HIDE DEF c
<1>4. op'[u] = c /\ \A v \in Users : v # u => op'[v] = op[v]  BY <1>1, <1>2
<1> QED  BY <1>3, <1>4

(* A step of a call that leaves its place among those that will still push *)
(* or set.                                                                 *)
LEMMA CallStays ==
    ASSUME TypeInv, SchedInv, UNCHANGED <<now, data, events, sets, left, misled>>,
           \A v \in Users :
               \/ /\ op'[v].keys = op[v].keys /\ op'[v].e = op[v].e
                  /\ op[v].at \in {"push", "link"} <=> op'[v].at \in {"push", "link"}
                  /\ op[v].at = "set" <=> op'[v].at = "set"
               \/ /\ op[v].at \notin {"push", "link", "set"}
                  /\ op'[v].at \notin {"push", "link", "set"}
    PROVE  SchedInv'
<1>1. /\ OneCaller /\ PushesItsTime /\ StillMissing /\ LooksBack /\ Due
      /\ DOMAIN data \subseteq Keys
  BY DEF SchedInv, TypeInv, TypeOK, IsMap
<1>2. \A k \in Keys, v \in Users : Pending(v, k)' <=> Pending(v, k)
  BY DEF Pending
<1>3. OneCaller'  BY <1>1, <1>2 DEF OneCaller
<1>4. PushesItsTime'  BY <1>1 DEF PushesItsTime
<1>5. StillMissing'  BY <1>1 DEF StillMissing, Live, Expired
<1>6. LooksBack'  BY <1>1 DEF LooksBack, Bucket
<1>7. Due'  BY <1>1, <1>2 DEF Due, Awaits, LastIs, NoEvent, Bucket
<1> QED  BY <1>3, <1>4, <1>5, <1>6, <1>7 DEF SchedInv

(* A push begins, and the event is not in the list yet. *)
LEMMA PushEventSched ==
    ASSUME TypeInv, SchedInv, NEW u \in Users, PushEvent(u) PROVE SchedInv'
<1>1. op \in [Users -> Calls]  BY DEF TypeInv, TypeOK, Calls
<1>2. /\ op' = [op EXCEPT ![u].at = "link"] /\ op[u].at = "push"
      /\ UNCHANGED <<now, data, events, sets, left, misled>>
  BY DEF PushEvent, bookVars, sweepVars
<1>3. /\ \A v \in Users : v # u => op'[v] = op[v]
      /\ op'[u].keys = op[u].keys /\ op'[u].e = op[u].e /\ op'[u].at = "link"
  BY <1>1, <1>2 DEF Calls
<1> QED  BY <1>2, <1>3, CallStays

(* The event that is linked is the last of its key; or the list was torn,  *)
(* and all keys that have an event in it are misled.                       *)
LEMMA LinkEventSched ==
    ASSUME TypeInv, SchedInv, NEW u \in Users, LinkEvent(u) PROVE SchedInv'
<1>1. /\ OneCaller /\ PushesItsTime /\ StillMissing /\ LooksBack /\ Due
      /\ op[u] \in Calls /\ events \in Seq(Event)
  BY DEF SchedInv, TypeInv, TypeOK, Calls, Event
<1>2. PICK k \in op[u].keys :
         /\ events' \in Linked(events, [k |-> k, e |-> op[u].e],
                               Append(events, [k |-> k, e |-> op[u].e]),
                               "events" \in torn)
         /\ Goes(u, "push", op[u].keys \ {k}, op[u].e)
         /\ misled' = IF "events" \in torn
                      THEN misled \cup {k} \cup KeysOf(events) ELSE misled
  BY DEF LinkEvent
<1>3. op[u].at = "link" /\ UNCHANGED <<now, data, sets, left>> /\ misled \subseteq misled'
  BY <1>2 DEF LinkEvent, bookVars, sweepVars
<1>4. /\ \A v \in Users : v # u => op'[v] = op[v]
      /\ op'[u].keys = op[u].keys \ {k} /\ op'[u].at \in {"idle", "push"}
      /\ op[u].keys \ {k} # {} => op'[u].at = "push" /\ op'[u].e = op[u].e
  BY <1>2, GoesOn
<1>5. DOMAIN data \subseteq Keys  BY DEF TypeInv, TypeOK, IsMap
<1> DEFINE n == Len(events) + 1
           new == [k |-> k, e |-> op[u].e]
<1>6. new.k = k /\ new.e = op[u].e  OBVIOUS
<1>7. new \in Event  BY <1>1 DEF Calls, Event
<1>8. events' \in Linked(events, new, Append(events, new), "events" \in torn)
  BY <1>2
<1> HIDE DEF new
<1>9. \A j \in Keys, v \in Users : Pending(v, j)' => Pending(v, j)
  BY <1>3, <1>4 DEF Pending
<1>10. \A j \in Keys, v \in Users : j # k /\ Pending(v, j) => Pending(v, j)'
  BY <1>3, <1>4 DEF Pending
<1>11. OneCaller'  BY <1>1, <1>3, <1>9 DEF OneCaller
<1>12. PushesItsTime'
  <2> SUFFICES ASSUME NEW j \in DOMAIN data \ misled', NEW v \in Users,
                      j \in op'[v].keys, op'[v].at \in {"push", "link"}
               PROVE  op'[v].e = data[j]
    BY <1>3 DEF PushesItsTime
  <2>1. CASE v = u  BY <2>1, <1>1, <1>3, <1>4 DEF PushesItsTime
  <2>2. CASE v # u  BY <2>2, <1>1, <1>3, <1>4 DEF PushesItsTime
  <2> QED  BY <2>1, <2>2
<1>13. StillMissing'
  <2> SUFFICES ASSUME NEW j \in Keys \ misled', NEW v \in Users,
                      j \in op'[v].keys, op'[v].at = "set"
               PROVE  ~Live(j)
    BY <1>3 DEF StillMissing, Live, Expired
  <2>1. v # u  BY <1>4
  <2> QED  BY <2>1, <1>1, <1>3, <1>4 DEF StillMissing
<1>14. LooksBack'  BY <1>1, <1>3 DEF LooksBack, Bucket
<1>15. CASE "events" \notin torn
  <2>1. /\ DOMAIN events' = DOMAIN events \cup {n} /\ n \notin DOMAIN events
        /\ \A i \in DOMAIN events : i \in Int /\ i <= n /\ events'[i] = events[i]
        /\ events'[n] = new /\ n \in Int
    <3>1. Len(events) \in Nat /\ DOMAIN events = 1..Len(events)
      BY <1>1, LenProperties
    <3>2. events' = Append(events, new)  BY <1>8, <1>15 DEF Linked
    <3>3. /\ events' \in Seq(Event) /\ Len(events') = n /\ events'[n] = new
          /\ \A i \in 1..Len(events) : events'[i] = events[i]
      BY <1>1, <1>7, <3>2, AppendProperties
    <3>4. DOMAIN events' = 1..n  BY <3>3, LenProperties
    <3> QED  BY <3>1, <3>3, <3>4
  <2>2. misled' = misled  BY <1>2, <1>15
  <2> HIDE DEF n
  <2>3. Due'
    <3> SUFFICES ASSUME NEW j \in DOMAIN data \ misled PROVE Awaits(j)'
      BY <1>3, <2>2 DEF Due
    <3>1. Awaits(j)  BY <1>1 DEF Due
    <3>2. CASE j = k
      <4>1. op[u].e = data[j]  BY <3>2, <1>1, <1>3 DEF PushesItsTime
      <4>2. LastIs(j, data[j])'  BY <3>2, <4>1, <1>3, <1>6, <2>1 DEF LastIs
      <4> QED  BY <4>2, <1>3 DEF Awaits
    <3>3. CASE j # k
      <4>1. CASE \E v \in Users : Pending(v, j)
        BY <3>3, <4>1, <1>5, <1>10 DEF Awaits
      <4>2. CASE LastIs(j, data[j])
        <5>1. LastIs(j, data[j])'  BY <3>3, <4>2, <1>3, <1>6, <2>1 DEF LastIs
        <5> QED  BY <5>1, <1>3 DEF Awaits
      <4>3. CASE NoEvent(j) /\ <<Bucket(data[j]), j>> \in sets
        <5>1. NoEvent(j)'  BY <3>3, <4>3, <1>6, <2>1 DEF NoEvent
        <5> QED  BY <4>3, <5>1, <1>3 DEF Awaits, Bucket
      <4> QED  BY <3>1, <4>1, <4>2, <4>3 DEF Awaits
    <3> QED  BY <3>2, <3>3
  <2> QED  BY <1>11, <1>12, <1>13, <1>14, <2>3 DEF SchedInv
<1>16. CASE "events" \in torn
  <2>1. misled' = misled \cup {k} \cup KeysOf(events)  BY <1>2, <1>16
  <2>2. \A i \in DOMAIN events' :
           events'[i] = new \/ \E j \in DOMAIN events : events'[i] = events[j]
    <3>1. events' \in Survivors(events, new)  BY <1>8, <1>16 DEF Linked
    <3> QED  BY <1>1, <1>7, <3>1, SurvivorsOf
  <2>3. Due'
    <3> SUFFICES ASSUME NEW j \in DOMAIN data \ misled' PROVE Awaits(j)'
      BY <1>3 DEF Due
    <3>1. Awaits(j) /\ j # k /\ NoEvent(j)
      BY <1>1, <1>3, <2>1 DEF Due, NoEvent, KeysOf
    <3>2. NoEvent(j)'  BY <1>6, <2>2, <3>1 DEF NoEvent
    <3>3. CASE \E v \in Users : Pending(v, j)
      BY <3>1, <3>3, <1>5, <1>10 DEF Awaits
    <3>4. CASE NoEvent(j) /\ <<Bucket(data[j]), j>> \in sets
      BY <3>2, <3>4, <1>3 DEF Awaits, Bucket
    <3>5. ~LastIs(j, data[j])  BY <3>1 DEF LastIs, NoEvent
    <3> QED  BY <3>1, <3>3, <3>4, <3>5 DEF Awaits
  <2> QED  BY <1>11, <1>12, <1>13, <1>14, <2>3 DEF SchedInv
<1> QED  BY <1>15, <1>16

(* A setter that goes on to push an event for each of its keys, with the   *)
(* time those have in the map now, unless they are misled.                 *)
LEMMA SetterSched ==
    ASSUME TypeInv, SchedInv, NEW u \in Users, NEW e, op[u].at = "set",
           Goes(u, "push", op[u].keys, e), misled \subseteq misled',
           UNCHANGED <<now, events, sets, left>>,
           DOMAIN data' \subseteq Keys,
           \A k \in Keys \ misled' :
               IF k \in op[u].keys THEN k \in DOMAIN data' => data'[k] = e
               ELSE /\ k \in DOMAIN data' <=> k \in DOMAIN data
                    /\ k \in DOMAIN data => data'[k] = data[k]
    PROVE  SchedInv'
<1>1. /\ OneCaller /\ PushesItsTime /\ StillMissing /\ LooksBack /\ Due
  BY DEF SchedInv
<1>2. /\ \A v \in Users : v # u => op'[v] = op[v]
      /\ op'[u].keys = op[u].keys /\ op'[u].at \in {"idle", "push"}
      /\ op[u].keys # {} => op'[u].at = "push" /\ op'[u].e = e
  BY GoesOn
<1>3. \A k \in Keys, v \in Users : Pending(v, k)' <=> Pending(v, k)
  BY <1>2 DEF Pending
<1>4. ASSUME NEW k \in Keys \ misled', NEW v \in Users, Pending(v, k), v # u
      PROVE  k \notin op[u].keys /\ k \notin misled
  BY <1>1, <1>4 DEF OneCaller, Pending
<1>5. now' = now  OBVIOUS
<1>6. OneCaller'  BY <1>1, <1>3 DEF OneCaller
<1>7. PushesItsTime'
  <2> SUFFICES ASSUME NEW k \in DOMAIN data' \ misled', NEW v \in Users,
                      k \in op'[v].keys, op'[v].at \in {"push", "link"}
               PROVE  op'[v].e = data'[k]
    BY DEF PushesItsTime
  <2>1. CASE v = u  BY <2>1, <1>2
  <2>2. CASE v # u
    <3>1. Pending(v, k) /\ op'[v] = op[v]  BY <2>2, <1>2 DEF Pending
    <3>2. k \notin op[u].keys /\ k \notin misled /\ k \in Keys
      BY <2>2, <3>1, <1>4
    <3>3. k \in DOMAIN data /\ data'[k] = data[k]  BY <3>2
    <3> QED  BY <3>1, <3>2, <3>3, <1>1 DEF PushesItsTime
  <2> QED  BY <2>1, <2>2
<1>8. StillMissing'
  <2> SUFFICES ASSUME NEW k \in Keys \ misled', NEW v \in Users,
                      k \in op'[v].keys, op'[v].at = "set"
               PROVE  ~Live(k)'
    BY DEF StillMissing
  <2>1. v # u  BY <1>2
  <2>2. Pending(v, k) /\ op'[v] = op[v]  BY <2>1, <1>2 DEF Pending
  <2>3. k \notin op[u].keys /\ k \notin misled  BY <2>1, <2>2, <1>4
  <2>4. ~Live(k)  BY <2>2, <2>3, <1>1 DEF StillMissing
  <2>5. /\ k \in DOMAIN data' <=> k \in DOMAIN data
        /\ k \in DOMAIN data => data'[k] = data[k]
    BY <2>3
  <2> QED  BY <2>4, <2>5, <1>5 DEF Live, Expired
<1>9. LooksBack'  BY <1>1 DEF LooksBack, Bucket
<1>10. Due'
  <2> SUFFICES ASSUME NEW k \in DOMAIN data' \ misled' PROVE Awaits(k)'
    BY DEF Due
  <2>1. CASE k \in op[u].keys
    <3>1. Pending(u, k)  BY <2>1 DEF Pending
    <3> QED  BY <3>1, <1>3 DEF Awaits
  <2>2. CASE k \notin op[u].keys
    <3>1. k \in DOMAIN data \ misled /\ data'[k] = data[k]  BY <2>2
    <3>2. Awaits(k)  BY <3>1, <1>1 DEF Due
    <3> QED  BY <3>1, <3>2, <1>3 DEF Awaits, LastIs, NoEvent, Bucket
  <2> QED  BY <2>1, <2>2
<1> QED  BY <1>6, <1>7, <1>8, <1>9, <1>10 DEF SchedInv

LEMMA GoOnSched ==
    ASSUME TypeInv, SchedInv, NEW u \in Users, GoOn(u) PROVE SchedInv'
<1>1. /\ OneCaller /\ PushesItsTime /\ StillMissing /\ LooksBack /\ Due
      /\ DOMAIN data \subseteq Keys /\ op \in [Users -> Calls] /\ op[u] \in Calls
  BY DEF SchedInv, TypeInv, TypeOK, IsMap, Calls
<1>2. DOMAIN data' \subseteq Keys
  <2>1. TypeInv'  BY GoOnTyped
  <2> QED  BY <2>1 DEF TypeInv, TypeOK, IsMap
<1>3. CASE PushEvent(u)  BY <1>3, PushEventSched
<1>7. CASE LinkEvent(u)  BY <1>7, LinkEventSched
<1>4. CASE Touch(u) \/ Mark(u)
  <2>1. /\ UNCHANGED <<now, data, events, sets, left, misled>>
        /\ op[u].at \in {"touch", "mark"} /\ op'[u].at \in {"mark", "idle"}
        /\ \A v \in Users : v # u => op'[v] = op[v]
    BY <1>1, <1>4 DEF Touch, Mark, Idle, Calls, bookVars, sweepVars
  <2> QED  BY <2>1, CallStays
<1>5. ASSUME NEW d \in Durations, DoSetWithLockCheck(u, d) PROVE SchedInv'
  <2>1. /\ op[u].at = "set" /\ Goes(u, "push", op[u].keys, ExpireTime(d))
        /\ data' = With(data, {k \in op[u].keys : ~Live(k)}, ExpireTime(d))
        /\ UNCHANGED <<now, events, sets, left, misled>>
    BY <1>5 DEF DoSetWithLockCheck, listVars, bookVars, sweepVars
  <2>2. ASSUME NEW k \in Keys \ misled
        PROVE  IF k \in op[u].keys THEN k \in DOMAIN data' => data'[k] = ExpireTime(d)
               ELSE /\ k \in DOMAIN data' <=> k \in DOMAIN data
                    /\ k \in DOMAIN data => data'[k] = data[k]
    <3>1. k \in op[u].keys => ~Live(k)  BY <1>1, <2>1 DEF StillMissing
    <3> QED  BY <2>1, <3>1 DEF With
  <2> QED  BY <1>2, <2>1, <2>2, SetterSched
<1>6. ASSUME NEW d \in Durations, DoSetWithFuncLockCheck(u, d) PROVE SchedInv'
  <2>1. /\ op[u].at = "set" /\ Goes(u, "push", op[u].keys, ExpireTime(d))
        /\ UNCHANGED <<now, events, sets, left>>
    BY <1>6 DEF DoSetWithFuncLockCheck, listVars, bookVars, sweepVars
  <2>2. CASE data' = With(data, op[u].keys, ExpireTime(d)) /\ UNCHANGED misled
    <3>1. ASSUME NEW k \in Keys
          PROVE  IF k \in op[u].keys THEN k \in DOMAIN data' => data'[k] = ExpireTime(d)
                 ELSE /\ k \in DOMAIN data' <=> k \in DOMAIN data
                      /\ k \in DOMAIN data => data'[k] = data[k]
      BY <2>2 DEF With
    <3> QED  BY <1>2, <2>1, <2>2, <3>1, SetterSched
  <2>3. CASE misled' = misled \cup op[u].keys /\ UNCHANGED data
    <3>1. misled \subseteq misled' /\ \A k \in Keys \ misled' : k \notin op[u].keys
      BY <2>3
    <3> QED  BY <1>2, <2>1, <2>3, <3>1, SetterSched
  <2> QED  BY <1>6, <2>2, <2>3 DEF DoSetWithFuncLockCheck
<1> QED  BY <1>3, <1>4, <1>5, <1>6, <1>7 DEF GoOn
(* The sweeper only takes items away. *)
LEMMA SweeperShrinks ==
    ASSUME SchedInv, UNCHANGED <<op, misled, now>>,
           \A k \in DOMAIN data' : k \in DOMAIN data /\ data'[k] = data[k]
    PROVE  OneCaller' /\ PushesItsTime' /\ StillMissing'
<1>1. OneCaller /\ PushesItsTime /\ StillMissing  BY DEF SchedInv
<1>2. OneCaller'  BY <1>1 DEF OneCaller, Pending
<1>3. PushesItsTime'  BY <1>1 DEF PushesItsTime
<1>4. \A k \in Keys : ~Live(k) => ~Live(k)'  BY DEF Live, Expired
<1>5. StillMissing'  BY <1>1, <1>4 DEF StillMissing
<1> QED  BY <1>2, <1>3, <1>5

(* An event becomes its key's place in the sets; other keys keep theirs. *)
LEMMA SyncEventSets ==
    ASSUME TypeInv, Noted, SyncEvent,
           NEW k, k = Head(events).k, NEW new, new = Bucket(Head(events).e)
    PROVE  /\ <<new, k>> \in sets'
           /\ \A pair \in sets : pair[2] # k => pair \in sets'
<1> DEFINE old == IF k \in DOMAIN times THEN times[k] ELSE 0
<1>1. events \in Seq(Event) /\ events # <<>>
  BY DEF SyncEvent, TypeInv, TypeOK, Event
<1>2. Head(events) \in Event  BY <1>1, HeadTailProperties
<1>3. new > 0  BY <1>2, BucketTyped DEF Event
<1>4. sets' = IF new = old THEN sets ELSE Moved(k, old, new)  BY DEF SyncEvent
<1>5. new = old => k \in DOMAIN times /\ times[k] = new  BY <1>3
<1> HIDE DEF old
<1> QED  BY <1>4, <1>5 DEF Moved, Noted

LEMMA SyncEventSched ==
    ASSUME TypeInv, BooksInv, SchedInv, SyncEvent PROVE SchedInv'
<1>1. LooksBack /\ Due /\ Noted  BY DEF SchedInv, BooksInv
<1>2. /\ UNCHANGED <<op, misled, now, data, left>>
      /\ events' = Tail(events) /\ events # <<>>
  BY DEF SyncEvent, sweepVars, userVars
<1>3. OneCaller' /\ PushesItsTime' /\ StillMissing'  BY <1>2, SweeperShrinks
<1>4. LooksBack'  BY <1>1, <1>2 DEF LooksBack, Bucket
<1>5. events \in Seq(Event)  BY DEF TypeInv, TypeOK, Event
<1> DEFINE n == Len(events)
<1>6. n \in Nat /\ n >= 1 /\ DOMAIN events = 1..n /\ Head(events) = events[1]
  BY <1>2, <1>5, LenProperties, EmptySeq
<1>7. /\ DOMAIN events' = 1..n - 1
      /\ \A i \in 1..n - 1 : events'[i] = events[i + 1]
  <2>1. /\ events' \in Seq(Event) /\ Len(events') = n - 1
        /\ \A i \in 1..Len(events') : events'[i] = events[i + 1]
    BY <1>2, <1>5, HeadTailProperties
  <2> QED  BY <2>1, LenProperties
<1>8. /\ <<Bucket(events[1].e), events[1].k>> \in sets'
      /\ \A pair \in sets : pair[2] # events[1].k => pair \in sets'
  BY <1>1, <1>6, SyncEventSets
<1> HIDE DEF n
<1>9. Due'
  <2> SUFFICES ASSUME NEW k \in DOMAIN data \ misled PROVE Awaits(k)'
    BY <1>2 DEF Due
  <2>1. Awaits(k)  BY <1>1 DEF Due
  <2>2. CASE \E u \in Users : Pending(u, k)  BY <2>2, <1>2 DEF Awaits, Pending
  <2>3. CASE LastIs(k, data[k])
    <3>1. PICK i \in 1..n : /\ events[i].k = k /\ events[i].e = data[k]
                            /\ \A j \in 1..n : events[j].k = k => j <= i
      BY <2>3, <1>6 DEF LastIs
    <3>2. CASE i = 1
      <4>1. \A j \in 1..n - 1 : events[j + 1].k # k
        <5> SUFFICES ASSUME NEW j \in 1..n - 1, events[j + 1].k = k PROVE FALSE
          OBVIOUS
        <5>1. j + 1 \in 1..n /\ j + 1 > 1  BY <1>6
        <5> QED  BY <5>1, <3>1, <3>2, <1>6
      <4>2. NoEvent(k)'  BY <4>1, <1>7 DEF NoEvent
      <4>3. <<Bucket(data[k]), k>> \in sets'  BY <3>1, <3>2, <1>8
      <4> QED  BY <4>2, <4>3, <1>2 DEF Awaits, Bucket
    <3>3. CASE i # 1
      <4>1. i - 1 \in 1..n - 1 /\ (i - 1) + 1 = i  BY <3>3, <3>1, <1>6
      <4>2. events'[i - 1] = events[i]  BY <4>1, <1>7
      <4>3. ASSUME NEW j \in 1..n - 1, events'[j].k = k PROVE j <= i - 1
        <5>1. j + 1 \in 1..n /\ events[j + 1].k = k  BY <4>3, <1>6, <1>7
        <5>2. j + 1 <= i  BY <5>1, <3>1
        <5> QED  BY <5>2, <3>1, <1>6
      <4>4. LastIs(k, data[k])'  BY <4>1, <4>2, <4>3, <3>1, <1>2, <1>7 DEF LastIs
      <4> QED  BY <4>4, <1>2 DEF Awaits
    <3> QED  BY <3>2, <3>3
  <2>4. CASE NoEvent(k) /\ <<Bucket(data[k]), k>> \in sets
    <3>1. \A i \in 1..n - 1 : events[i + 1].k # k
      <4> SUFFICES ASSUME NEW i \in 1..n - 1 PROVE events[i + 1].k # k  OBVIOUS
      <4>1. i + 1 \in 1..n  BY <1>6
      <4> QED  BY <4>1, <2>4, <1>6 DEF NoEvent
    <3>2. NoEvent(k)'  BY <3>1, <1>7 DEF NoEvent
    <3>3. events[1].k # k  BY <2>4, <1>6 DEF NoEvent
    <3>4. <<Bucket(data[k]), k>> \in sets'  BY <2>4, <3>3, <1>8
    <3> QED  BY <3>2, <3>4, <1>2 DEF Awaits, Bucket
  <2> QED  BY <2>1, <2>2, <2>3, <2>4 DEF Awaits
<1> QED  BY <1>3, <1>4, <1>9 DEF SchedInv

(* A sweep throws a key out of a second that is over: an *)
(* item that the key still has then is in another second.                  *)
LEMMA SweepKeySched ==
    ASSUME TypeInv, SchedInv, SweepKey PROVE SchedInv'
<1>1. LooksBack /\ Due /\ data \in [DOMAIN data -> 0..Never]
      /\ now \in Nat
  BY DEF SchedInv, TypeInv, TypeOK, IsMap
<1>2. PICK pair \in sets :
         /\ pair[1] \in left /\ sets' = sets \ {pair}
         /\ data' = Without(data, Cleared(pair[2]))
  BY DEF SweepKey
<1>3. UNCHANGED <<op, misled, now, events, left>>
  BY DEF SweepKey, listVars, sweepVars, userVars
<1>4. \A k \in DOMAIN data' : k \in DOMAIN data /\ data'[k] = data[k]
                             /\ k \notin Cleared(pair[2])
  BY <1>2 DEF Without
<1>5. OneCaller' /\ PushesItsTime' /\ StillMissing'  BY <1>3, <1>4, SweeperShrinks
<1>6. LooksBack'  BY <1>1, <1>3 DEF LooksBack, Bucket
<1>7. ASSUME NEW k \in DOMAIN data' PROVE <<Bucket(data[k]), k>> # pair
  <2> SUFFICES ASSUME pair = <<Bucket(data[k]), k>> PROVE FALSE  OBVIOUS
  <2>1. data[k] \in Nat /\ k \in DOMAIN data  BY <1>1, <1>4, CacheAssumption
  <2>2. ~(data[k] < now)  BY <1>4 DEF Cleared, Expired
  <2>3. Bucket(data[k]) <= Bucket(now) - Second  BY <1>1, <1>2 DEF LooksBack
  <2>4. /\ Bucket(data[k]) \in Nat /\ data[k] < Bucket(data[k])
        /\ Bucket(now) \in Nat /\ Bucket(now) <= now + Second
    BY <1>1, <2>1, BucketBounds
  <2> QED  BY <1>1, <2>1, <2>2, <2>3, <2>4, CacheAssumption
<1>8. Due'
  <2> SUFFICES ASSUME NEW k \in DOMAIN data' \ misled PROVE Awaits(k)'
    BY <1>3 DEF Due
  <2>1. Awaits(k) /\ data'[k] = data[k]  BY <1>1, <1>4 DEF Due
  <2>2. <<Bucket(data[k]), k>> \in sets => <<Bucket(data[k]), k>> \in sets'
    BY <1>2, <1>7
  <2> QED  BY <2>1, <2>2, <1>3 DEF Awaits, Pending, LastIs, NoEvent, Bucket
<1> QED  BY <1>5, <1>6, <1>8 DEF SchedInv

(* What leaves the users' calls, the events and the sets alone. *)
LEMMA QuietSched ==
    ASSUME SchedInv, UNCHANGED <<op, misled, now, events, sets>>, LooksBack',
           \A k \in DOMAIN data' : k \in DOMAIN data /\ data'[k] = data[k]
    PROVE  SchedInv'
<1>1. OneCaller' /\ PushesItsTime' /\ StillMissing'  BY SweeperShrinks
<1>2. Due  BY DEF SchedInv
<1>3. Due'
  <2> SUFFICES ASSUME NEW k \in DOMAIN data' \ misled PROVE Awaits(k)'
    BY DEF Due
  <2>1. Awaits(k) /\ data'[k] = data[k]  BY <1>2 DEF Due
  <2> QED  BY <2>1 DEF Awaits, Pending, LastIs, NoEvent, Bucket
<1> QED  BY <1>1, <1>3 DEF SchedInv

LEMMA SweeperSched ==
    ASSUME TypeInv, BooksInv, SchedInv, Sweeper PROVE SchedInv'
<1>1. LooksBack /\ now \in Nat
  BY DEF SchedInv, TypeInv, TypeOK
<1>2. ASSUME UNCHANGED <<now, left>> PROVE LooksBack'
  BY <1>1, <1>2 DEF LooksBack, Bucket
<1>3. CASE SyncEvent  BY <1>3, SyncEventSched
<1>4. CASE SweepKey  BY <1>4, SweepKeySched
<1>5. CASE SweepStart \/ SyncEventsEnd \/ SyncGet \/ SyncGetsEnd \/ SyncRaw
  <2>1. UNCHANGED <<op, misled, now, events, sets, data, left>>
    BY <1>5 DEF SweepStart, SyncEventsEnd, SyncGet, SyncGetsEnd, SyncRaw,
                listVars, bookVars, sweepVars, userVars
  <2> QED  BY <1>2, <2>1, QuietSched
<1>6. CASE Evict
  <2>1. UNCHANGED <<op, misled, now, events, sets, left>>
    BY <1>6 DEF Evict, listVars, sweepVars, userVars
  <2>2. \A k \in DOMAIN data' : k \in DOMAIN data /\ data'[k] = data[k]
    BY <1>6 DEF Evict, Without
  <2> QED  BY <1>2, <2>1, <2>2, QuietSched
<1>7. CASE Look
  <2>1. UNCHANGED <<op, misled, now, events, sets, data>>
    BY <1>7 DEF Look, listVars, bookVars, userVars
  <2>2. left' = LookedAt  BY <1>7 DEF Look
  <2>3. \A second \in LookedAt : second <= Bucket(now) - Second
    <3> SUFFICES ASSUME NEW i \in 1..LookBack
                 PROVE  Bucket(now) - i * Second <= Bucket(now) - Second
      BY DEF LookedAt
    <3>1. Second \in Nat /\ i \in Nat /\ i >= 1  BY CacheAssumption
    <3>2. i * Second = Second + (i - 1) * Second  BY <3>1
    <3>3. (i - 1) * Second \in Nat  BY <3>1
    <3>4. Bucket(now) \in Nat  BY <1>1, BucketBounds
    <3> QED  BY <3>1, <3>2, <3>3, <3>4
  <2>4. LooksBack'  BY <1>1, <2>1, <2>2, <2>3 DEF LooksBack, Bucket
  <2> QED  BY <2>1, <2>4, QuietSched
<1>8. CASE SweepEnd
  <2>1. UNCHANGED <<op, misled, now, events, sets, data>> /\ left' = {}
    BY <1>8 DEF SweepEnd, listVars, bookVars, userVars
  <2>2. LooksBack'  BY <1>1, <2>1 DEF LooksBack
  <2> QED  BY <2>1, <2>2, QuietSched
<1> QED  BY <1>3, <1>4, <1>5, <1>6, <1>7, <1>8 DEF Sweeper

LEMMA StepSched ==
    ASSUME TypeInv, BooksInv, SchedInv, [Next]_vars PROVE SchedInv'
<1>1. CASE Tick
  <2>1. /\ UNCHANGED <<op, misled, events, sets, data, left>>
        /\ now' = now + 1 /\ now \in Nat
    BY <1>1 DEF Tick, listVars, bookVars, sweepVars, userVars, TypeInv, TypeOK
  <2>2. OneCaller /\ PushesItsTime /\ StillMissing /\ LooksBack /\ Due
        /\ data \in [DOMAIN data -> 0..Never]
    BY DEF SchedInv, TypeInv, TypeOK, IsMap
  <2>3. OneCaller' /\ PushesItsTime'
    BY <2>1, <2>2 DEF OneCaller, PushesItsTime, Pending
  <2>4. \A k \in Keys : ~Live(k) => ~Live(k)'
    <3>1. \A k \in DOMAIN data : data[k] \in Nat  BY <2>2, CacheAssumption
    <3> QED  BY <2>1, <3>1 DEF Live, Expired
  <2>5. StillMissing'  BY <2>1, <2>2, <2>4 DEF StillMissing
  <2>6. LooksBack'
    <3>1. Bucket(now) <= Bucket(now') /\ Bucket(now) \in Nat /\ Bucket(now') \in Nat
      BY <2>1, BucketGrows, BucketBounds
    <3>2. \A second \in left : second \in Int  BY DEF TypeInv, TypeOK
    <3>3. Second \in Nat  BY CacheAssumption
    <3> SUFFICES ASSUME NEW second \in left PROVE second <= Bucket(now') - Second
      BY <2>1 DEF LooksBack, Bucket
    <3>4. second <= Bucket(now) - Second  BY <2>2 DEF LooksBack
    <3> QED  BY <3>1, <3>2, <3>3, <3>4
  <2>7. Due'  BY <2>1, <2>2 DEF Due, Awaits, Pending, LastIs, NoEvent, Bucket
  <2> QED  BY <2>3, <2>5, <2>6, <2>7 DEF SchedInv
<1>2. CASE CloseLru \/ CloseCache \/ UNCHANGED vars
  <2>1. UNCHANGED <<op, misled, now, events, sets, data, left>>
    BY <1>2 DEF CloseLru, CloseCache, vars, listVars, bookVars, sweepVars, userVars
  <2>2. LooksBack'  BY <2>1 DEF SchedInv, LooksBack, Bucket
  <2> QED  BY <2>1, <2>2, QuietSched
<1>3. ASSUME NEW u \in Users, Call(u) \/ GoOn(u) PROVE SchedInv'
  BY <1>3, CallSched, GoOnSched
<1>4. CASE Sweeper  BY <1>4, SweeperSched
<1> QED  BY <1>1, <1>2, <1>3, <1>4 DEF Next

(* Every item has its deletion before it, in every order in which calls,   *)
(* their events, synchronization, eviction, sweeps and the clock meet,     *)
(* however late the sweeps are: nothing that expires is forgotten by the   *)
(* sweeper, except what it was misled about: by two calls on a key at the  *)
(* same time, by a failing f, or by two pushes that overlapped and tore    *)
(* the list of events (Scheduled).                                         *)
THEOREM CacheScheduled == Spec => []Scheduled
<1>1. TypeInv /\ SchedInv => Scheduled  BY DueScheduled DEF SchedInv
<1> QED  BY <1>1, InitSched, StepSched, AlwaysTyped, AlwaysBooks, PTL DEF Spec
=============================================================================
