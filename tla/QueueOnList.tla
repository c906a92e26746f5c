----------------------------- MODULE QueueOnList -----------------------------
(***************************************************************************)
(* The unlimited BlockingQueue on the linked list it really uses: a        *)
(* g.LinkedList made with safe = true.  PopFront runs under the list's     *)
(* write lock, but PushBack links its element under the READ lock, so two  *)
(* Pushes can be in the middle of linking at once; each access PushBack    *)
(* makes to memory others write is a step here.  Len takes the read lock   *)
(* and may run beside a PushBack as well.                                  *)
(*                                                                         *)
(* The rest of the queue is BlockingQueue's, over ListContents.            *)
(***************************************************************************)
EXTENDS Integers, Sequences

CONSTANTS Producers, Consumers, Closers, MaxPushes, Limits,
          DefaultQueueSize, DefaultBatchSize

VARIABLES limit, events, eventsClosed, chan, chanClosed, closed,
          loop, todo, hold, cleared, prod, cons, closer, pops, pushed, out

VARIABLES
    next, prev,  \* the pointers of the elements and of the root
    owned,       \* the elements with e.list = l
    len,         \* l.len
    made,        \* how many elements have been allocated
    push         \* where each producer is in PushBack, and its registers

listVars == <<next, prev, owned, len, made>>

(* The n-th element allocated is n and carries n as its Value. *)
Root == 0
Nil == -1
Elements == 1..MaxPushes
Idle == [at |-> Nil, elem |-> Nil, seen |-> 0, step |-> "out"]

(* The k-th node on the way from the root along next, until it is the root *)
(* again or nothing.                                                       *)
Hop[k \in 0..MaxPushes] ==
    IF k = 0 THEN Root
    ELSE IF k > 1 /\ Hop[k - 1] \in {Root, Nil} THEN Nil
    ELSE next[Hop[k - 1]]
Chain == [k \in Elements |-> Hop[k]]

(* What the list holds: its first len elements. *)
Reached == CHOOSE n \in 0..MaxPushes :
               /\ \A k \in 1..n : Chain[k] \in Elements
               /\ n < MaxPushes => Chain[n + 1] \notin Elements
ListContents == SubSeq(Chain, 1, IF len < Reached THEN len ELSE Reached)

Queue == INSTANCE BlockingQueue WITH list <- ListContents

(* Only a queue without a limit has a list. *)
ASSUME ListAssumption == Queue!QueueAssumption /\ Limits = {0}

queueVars == <<limit, events, eventsClosed, chan, chanClosed, out, closed,
               loop, todo, hold, cleared, cons, closer, pops>>
vars == <<queueVars, prod, pushed, listVars, push>>

(* PushBack holds the read lock while it is between its first and last step *)
Reading == {p \in Producers : push[p].step # "out"}

(* NewLinkedList(true): an empty ring. *)
Init ==
    /\ next = [e \in {Root} \cup Elements |-> IF e = Root THEN Root ELSE Nil]
    /\ prev = [e \in {Root} \cup Elements |-> IF e = Root THEN Root ELSE Nil]
    /\ owned = {} /\ len = 0 /\ made = 0
    /\ push = [p \in Producers |-> Idle]
    /\ Queue!Init
-----------------------------------------------------------------------------
(* PushBack: RLock; at := l.root.prev; e := &Element{Value: v}. *)
PushEnter(p) ==
    /\ prod[p] = "idle" /\ push[p] = Idle /\ made < MaxPushes
    /\ made' = made + 1
    /\ push' = [push EXCEPT ![p] = [at |-> prev[Root], elem |-> made + 1,
                                    seen |-> 0, step |-> "aim"]]
    /\ UNCHANGED <<queueVars, prod, pushed, next, prev, owned, len>>

(* insert: e.prev = at; e.next = at.next *)
PushAim(p) ==
    LET e == push[p].elem IN
    /\ push[p].step = "aim"
    /\ prev' = [prev EXCEPT ![e] = push[p].at]
    /\ next' = [next EXCEPT ![e] = next[push[p].at]]
    /\ push' = [push EXCEPT ![p].step = "linkPrev"]
    /\ UNCHANGED <<queueVars, prod, pushed, owned, len, made>>

(* e.prev.next = e *)
PushLinkPrev(p) ==
    LET e == push[p].elem IN
    /\ push[p].step = "linkPrev"
    /\ next' = [next EXCEPT ![prev[e]] = e]
    /\ push' = [push EXCEPT ![p].step = "linkNext"]
    /\ UNCHANGED <<queueVars, prod, pushed, prev, owned, len, made>>

(* e.next.prev = e; e.list = l *)
PushLinkNext(p) ==
    LET e == push[p].elem IN
    /\ push[p].step = "linkNext"
    /\ prev' = [prev EXCEPT ![next[e]] = e]
    /\ owned' = owned \cup {e}
    /\ push' = [push EXCEPT ![p].step = "readLen"]
    /\ UNCHANGED <<queueVars, prod, pushed, next, len, made>>

(* l.len++, a read and a write; then RUnlock. *)
PushReadLen(p) ==
    /\ push[p].step = "readLen"
    /\ push' = [push EXCEPT ![p].step = "writeLen", ![p].seen = len]
    /\ UNCHANGED <<queueVars, prod, pushed, listVars>>

LenAfter_Stale(p) == push[p].seen
LenAfter(p) == push[p].seen + 1

PushLeave(p) ==
    /\ push[p].step = "writeLen"
    /\ len' = LenAfter(p)
    /\ push' = [push EXCEPT ![p] = Idle]
    /\ prod' = [prod EXCEPT ![p] = "checkEvents"]
    /\ pushed' = Append(pushed, push[p].elem)
    /\ UNCHANGED <<queueVars, next, prev, owned, made>>
-----------------------------------------------------------------------------
(* The loop's bufferLength := q.list.Len(). *)
LoopLen ==
    /\ loop = "len"
    /\ todo' = len
    /\ loop' = IF len > 0 THEN "batch" ELSE "clear"
    /\ UNCHANGED <<limit, events, eventsClosed, chan, chanClosed, out, closed,
                   hold, cleared, cons, closer, pops, prod, pushed, listVars,
                   push>>

(* remove(e): unlink e from its neighbours and from the list. *)
Next_KeepsBackLink(e) == [next EXCEPT ![e] = Nil]
NextWithout(e) == [next EXCEPT ![prev[e]] = next[e], ![e] = Nil]

(* The loop's q.list.PopFront(), under the write lock, or the batch's end. *)
(* When the first element is not the list's (the list is empty, whatever   *)
(* len says), nothing is taken and the batch goes on.                      *)
LoopPopFront ==
    LET e == next[Root] IN
    /\ loop = "batch"
    /\ IF todo = 0
       THEN /\ loop' = "inner"
            /\ UNCHANGED <<todo, hold, listVars>>
       ELSE /\ Reading = {}
            /\ IF e \in owned
               THEN /\ next' = NextWithout(e)
                    /\ prev' = [prev EXCEPT ![next[e]] = prev[e], ![e] = Nil]
                    /\ owned' = owned \ {e}
                    /\ len' = len - 1
                    /\ hold' = <<e>> /\ loop' = "send"
                    /\ UNCHANGED <<todo, made>>
               ELSE /\ todo' = todo - 1
                    /\ UNCHANGED <<hold, loop, listVars>>
    /\ UNCHANGED <<limit, events, eventsClosed, chan, chanClosed, out, closed,
                   cleared, cons, closer, pops, prod, pushed, push>>

(* Everything else in the queue does not touch the list. *)
QueueStep ==
    /\ UNCHANGED <<listVars, push>>
    /\ \/ \E p \in Producers : push[p] = Idle /\ Queue!PushEnd(p)
       \/ \E c \in Consumers : Queue!PopCall(c) \/ Queue!PopReturn(c)
       \/ \E k \in Closers : Queue!CloseCas(k) \/ Queue!CloseEnd(k)
       \/ Queue!LoopCheck \/ Queue!LoopWait \/ Queue!LoopInner
       \/ Queue!LoopSend \/ Queue!LoopClear \/ Queue!LoopClose

Next ==
    \/ \E p \in Producers :
          \/ PushEnter(p) \/ PushAim(p) \/ PushLinkPrev(p) \/ PushLinkNext(p)
          \/ PushReadLen(p) \/ PushLeave(p)
    \/ LoopLen \/ LoopPopFront
    \/ QueueStep

Spec == Init /\ [][Next]_vars
-----------------------------------------------------------------------------
(* As long as Pushes do not overlap (one producer), the queue on the real  *)
(* list is the queue of BlockingQueue: a Push takes effect when it has     *)
(* counted its element.                                                    *)
IsBlockingQueue == Queue!Spec

(* Whenever nobody is inside PushBack the list is a ring of its elements:  *)
(* next and prev are each other's inverse and len counts the elements that *)
(* can be reached from the root.                                           *)
ListIntact ==
    Reading = {} =>
        /\ len = Reached
        /\ {Chain[k] : k \in 1..Reached} = owned
        /\ \A e \in owned \cup {Root} : prev[next[e]] = e /\ next[prev[e]] = e

(* The queue is documented as concurrent-safe and its list is made with    *)
(* safe = true: whatever has been pushed and is not on its way in the      *)
(* loop's hand or in C, or received already, can still be reached in the   *)
(* list.                                                                   *)
NothingLost ==
    Reading = {} =>
        \A n \in DOMAIN pushed :
            \/ \E k \in 1..Reached : Chain[k] = pushed[n]
            \/ \E k \in DOMAIN chan : chan[k] = pushed[n]
            \/ \E k \in DOMAIN out : out[k] = pushed[n]
            \/ hold = <<pushed[n]>>
=============================================================================
