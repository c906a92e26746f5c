------------------------------ MODULE RingQueue ------------------------------
(***************************************************************************)
(* gqueue.RingQueue: a queue in a ring buffer that doubles when full.      *)
(* Every method holds q.mu from beginning to end, so a call is one step --  *)
(* except MustPop and MustPeek, which call Pop and Peek with the lock held *)
(* and block themselves for ever when the lock is a real one (q.safe).     *)
(***************************************************************************)
EXTENDS Integers, Sequences

CONSTANTS Items,            \* the values that are pushed
          Zero,             \* the zero value of T, in unused slots
          Panic,            \* the result of a call that panics
          Capacities,       \* the arguments NewRingQueue may get
          DefaultCapacity,  \* _defaultCapacity
          MaxLen            \* bound: no Push on a queue of this length

ASSUME RingAssumption ==
    /\ Capacities \subseteq Nat
    /\ DefaultCapacity \in Nat \ {0}
    /\ MaxLen \in Nat

VARIABLES
    safe,    \* NewRingQueue's option: is q.mu a real lock?
    stuck,   \* a call waits for q.mu while holding it
    size,    \* len(q.buff)
    buff,    \* q.buff, indexed from 0
    head,    \* q.head, the first item
    tail,    \* q.tail, the next empty slot
    call,    \* the last call that returned, with its argument
    result   \* what it returned

vars == <<safe, stuck, size, buff, head, tail, call, result>>

Counts == 0..(MaxLen + 1)   \* the arguments of PopMulti

Slots(n) == 0..(n - 1)
Empty(n) == [i \in Slots(n) |-> Zero]

(* NewRingQueue allocates one slot more than requested; the zero value of  *)
(* RingQueue has no buffer (and no lock) at all.                           *)
BuffSize(capacity) == 1 + (IF capacity = 0 THEN DefaultCapacity ELSE capacity)

Init ==
    /\ \/ size = 0 /\ safe = FALSE
       \/ safe \in BOOLEAN /\ \E c \in Capacities : size = BuffSize(c)
    /\ buff = Empty(size)
    /\ head = 0 /\ tail = 0
    /\ call = <<"New">> /\ result = <<>> /\ stuck = FALSE

(* Len: the number of items, in both shapes of the ring. *)
QLen == IF head <= tail THEN tail - head ELSE size - head + tail

(* The slot i places after slot k, and the first n items from the head. *)
Slot(k, i, n) == IF k + i < n THEN k + i ELSE k + i - n
First(n) == [i \in 1..n |-> buff[Slot(head, i - 1, size)]]
Contents == First(QLen)

Wrap(i, n) == IF i = n THEN 0 ELSE i
-----------------------------------------------------------------------------
(* The two copies of a full ring into a buffer of twice the size. *)
Grown(b, n, h) ==
    [i \in Slots(2 * n) |-> IF i < n - h THEN b[h + i]
                            ELSE IF i < n THEN b[i - (n - h)]
                            ELSE Zero]

Full_Early(t, n) == head = Wrap(t + 1, n)
Full_BeforeWrap(t, n) == head = t /\ t # 0
Full(t, n) == head = t

Push(x) ==
    /\ ~stuck /\ QLen < MaxLen
    /\ call' = <<"Push", x>>
    /\ LET n == IF size = 0 THEN DefaultCapacity ELSE size
           b == [(IF size = 0 THEN Empty(n) ELSE buff) EXCEPT ![tail] = x]
           t == Wrap(tail + 1, n)
       IN IF Full(t, n)
          THEN /\ size' = 2 * n
               /\ buff' = Grown(b, n, head)
               /\ head' = 0 /\ tail' = n
          ELSE /\ size' = n
               /\ buff' = b
               /\ tail' = t /\ UNCHANGED head
    /\ result' = <<>>
    /\ UNCHANGED <<safe, stuck>>

(* Pop: ok = false, no item, on an empty queue.  Items stay in the slots   *)
(* they leave.                                                             *)
PopBody ==
    /\ IF head = tail
       THEN result' = <<>> /\ UNCHANGED head
       ELSE result' = <<buff[head]>> /\ head' = Wrap(head + 1, size)
    /\ UNCHANGED <<safe, stuck, size, buff, tail>>

Pop == ~stuck /\ call' = <<"Pop">> /\ PopBody

MinOf(a, b) == IF a <= b THEN a ELSE b

(* How many items PopMulti(n) takes: at most those before the end of the   *)
(* buffer in its first branch, at most all of them in its second.          *)
PopCount(n) ==
    IF tail > head THEN MinOf(n, tail - head)
    ELSE IF n <= size - head THEN n
    ELSE MinOf(n, size - head + tail)

HeadAfter_NoWrap(c) == IF head + c > size THEN head + c - size ELSE head + c
HeadAfter(c) == IF head + c >= size THEN head + c - size ELSE head + c

PopMulti(n) ==
    /\ ~stuck
    /\ call' = <<"PopMulti", n>>
    /\ IF head = tail
       THEN result' = <<>> /\ UNCHANGED head
       ELSE result' = First(PopCount(n)) /\ head' = HeadAfter(PopCount(n))
    /\ UNCHANGED <<safe, stuck, size, buff, tail>>

PopAll ==
    /\ ~stuck
    /\ call' = <<"PopAll">>
    /\ result' = IF head = tail THEN <<>> ELSE Contents
    /\ head' = tail
    /\ UNCHANGED <<safe, stuck, size, buff, tail>>

PeekBody ==
    /\ result' = IF head = tail THEN <<>> ELSE <<buff[head]>>
    /\ UNCHANGED <<safe, stuck, size, buff, head, tail>>

Peek == ~stuck /\ call' = <<"Peek">> /\ PeekBody

Snapshot ==
    /\ ~stuck
    /\ call' = <<"Snapshot">>
    /\ result' = Contents
    /\ UNCHANGED <<safe, stuck, size, buff, head, tail>>

Clear ==
    /\ ~stuck
    /\ call' = <<"Clear">>
    /\ head' = 0 /\ tail' = 0
    /\ result' = <<>>
    /\ UNCHANGED <<safe, stuck, size, buff>>

(* MustPop and MustPeek without a real lock: on an empty queue the first   *)
(* returns the zero value, the second panics (its comment promises the     *)
(* zero value as well).                                                    *)
MustPop ==
    /\ ~safe
    /\ call' = <<"MustPop">>
    /\ IF head = tail
       THEN /\ result' = <<Zero>>
            /\ UNCHANGED <<safe, stuck, size, buff, head, tail>>
       ELSE PopBody

MustPeek ==
    /\ ~safe
    /\ call' = <<"MustPeek">>
    /\ IF head = tail
       THEN /\ result' = <<Panic>>
            /\ UNCHANGED <<safe, stuck, size, buff, head, tail>>
       ELSE PeekBody

(* The same with a real lock: Lock, then Lock again.  No call on the queue *)
(* returns any more.                                                       *)
MustBlocks ==
    /\ safe /\ ~stuck
    /\ stuck' = TRUE
    /\ UNCHANGED <<safe, size, buff, head, tail, call, result>>

Next == \/ \E x \in Items : Push(x)
        \/ Pop \/ PopAll \/ Peek \/ Snapshot \/ Clear
        \/ \E n \in Counts : PopMulti(n)
        \/ MustPop \/ MustPeek \/ MustBlocks

Spec == Init /\ [][Next]_vars
-----------------------------------------------------------------------------
Calls == {<<"Push", x>> : x \in Items} \cup {<<"PopMulti", n>> : n \in Counts}
         \cup {<<c>> : c \in {"New", "Pop", "PopAll", "Peek", "Snapshot",
                             "Clear", "MustPop", "MustPeek"}}

(* The invariants written beside q.head and q.tail, and the shape of the   *)
(* buffer.  A queue without a buffer is empty.                             *)
TypeOK ==
    /\ safe \in BOOLEAN /\ stuck \in BOOLEAN
    /\ size \in Nat
    /\ buff \in [Slots(size) -> Items \cup {Zero}]
    /\ head \in Nat /\ tail \in Nat
    /\ size = 0 => head = 0 /\ tail = 0
    /\ size > 0 => head < size /\ tail < size
    /\ result \in Seq(Items \cup {Zero, Panic})
    /\ call \in Calls

(* Every call does to the contents, and returns, what the same call with   *)
(* the same argument does to a plain first-in first-out sequence, across   *)
(* wrap-around and growth: in particular a Push that makes head and tail   *)
(* meet appends its item and does not empty the queue.                     *)
Fifo == INSTANCE FifoQueue WITH queue <- Contents
IsFifo == Fifo!Spec

(* NewRingQueue's comment: the extra slot lets a queue be filled to the    *)
(* requested capacity without growing.  A buffer of n slots is replaced    *)
(* only by the push of its n-th item.                                      *)
GrowsOnlyWhenFull ==
    [][size # 0 /\ size' # size => QLen = size - 1]_vars
=============================================================================
