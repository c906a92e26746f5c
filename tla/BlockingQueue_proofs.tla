------------------------- MODULE BlockingQueue_proofs -------------------------
(***************************************************************************)
(* For any number of producers, consumers and closers, any limit and any   *)
(* queue and batch size: BlockingQueue loses and reorders nothing, its     *)
(* loop never sleeps over a non-empty list, and C is closed only after the *)
(* loop's last send.                                                       *)
(***************************************************************************)
EXTENDS BlockingQueue, SequenceTheorems, TLAPS

(* Only the loop's send has a value in hand. *)
HoldInv == IF loop = "send" THEN Len(hold) = 1 /\ todo > 0 ELSE hold = <<>>

(* A queue with a limit has neither loop nor list, and only it lets Close  *)
(* close C.                                                                *)
ModeInv ==
    /\ Unlimited <=> loop # "none"
    /\ ~Unlimited => /\ list = <<>>
                     /\ \A p \in Producers : prod[p] \in {"idle", "panicked"}
    /\ \A k \in Closers : /\ closer[k] = "closeC" => ~Unlimited
                          /\ closer[k] # "idle" => closed
    /\ eventsClosed => closed

IInv == TypeOK /\ HoldInv /\ ModeInv /\ FIFO /\ NoLostWakeup /\ OnlyTheLoopClosesC
-----------------------------------------------------------------------------
(* Moving one item from the front of a sequence to the end of the one      *)
(* before it.                                                              *)
LEMMA MoveOne ==
  ASSUME NEW S, NEW s \in Seq(S), NEW t \in Seq(S), s # <<>>
  PROVE  /\ Append(t, Head(s)) \o Tail(s) = t \o s
         /\ Append(t, Head(s)) = t \o <<Head(s)>>
         /\ Append(t, Head(s)) \in Seq(S) /\ Tail(s) \in Seq(S)
<1>1. Head(s) \in S /\ Tail(s) \in Seq(S)
  BY HeadTailProperties
<1>2. <<Head(s)>> \in Seq(S)
  BY <1>1
<1>3. s = <<Head(s)>> \o Tail(s)
  <2>1. /\ Len(Tail(s)) = Len(s) - 1
        /\ \A i \in 1..Len(Tail(s)) : Tail(s)[i] = s[i + 1]
    BY HeadTailProperties
  <2>2. /\ <<Head(s)>> \o Tail(s) \in Seq(S)
        /\ Len(<<Head(s)>> \o Tail(s)) = 1 + Len(Tail(s))
        /\ \A i \in 1..(1 + Len(Tail(s))) : (<<Head(s)>> \o Tail(s))[i] =
              IF i <= 1 THEN <<Head(s)>>[i] ELSE Tail(s)[i - 1]
    BY <1>1, <1>2, ConcatProperties
  <2>3. Len(s) \in Nat
    BY LenProperties
  <2>4. \A i \in 1..Len(s) : s[i] = (<<Head(s)>> \o Tail(s))[i]
    BY <2>1, <2>2, <2>3
  <2>5. Len(s) = Len(<<Head(s)>> \o Tail(s))
    BY <2>1, <2>2, <2>3
  <2>. QED BY <2>2, <2>4, <2>5, SeqEqual
<1>4. Append(t, Head(s)) = t \o <<Head(s)>>
  BY <1>1, AppendIsConcat
<1>5. (t \o <<Head(s)>>) \o Tail(s) = t \o (<<Head(s)>> \o Tail(s))
  BY <1>1, <1>2, ConcatAssociative
<1>6. Append(t, Head(s)) \in Seq(S)
  BY <1>1, AppendProperties
<1>. QED BY <1>1, <1>3, <1>4, <1>5, <1>6

LEMMA AppendLast ==
  ASSUME NEW S, NEW s \in Seq(S), NEW t \in Seq(S), NEW e \in S
  PROVE  Append(t \o s, e) = t \o Append(s, e)
<1>1. t \o s \in Seq(S) /\ <<e>> \in Seq(S)
  BY ConcatProperties
<1>2. Append(t \o s, e) = (t \o s) \o <<e>>
  BY <1>1, AppendIsConcat
<1>3. Append(s, e) = s \o <<e>>
  BY AppendIsConcat
<1>4. (t \o s) \o <<e>> = t \o (s \o <<e>>)
  BY <1>1, ConcatAssociative
<1>. QED BY <1>2, <1>3, <1>4
-----------------------------------------------------------------------------
(* A receive, by a consumer or by Close, keeps the order and the types. *)
LEMMA ReceiveFacts ==
  ASSUME TypeOK, Receive
  PROVE  /\ out' \o chan' = out \o chan
         /\ out' \in Seq(Values) /\ chan' \in Seq(Values)
         /\ chanClosed' = chanClosed
BY MoveOne DEF Receive, TypeOK

LEMMA InitIInv ==
  ASSUME Init, QueueAssumption
  PROVE  IInv
<1>1. TypeOK
  BY EmptySeq DEF Init, TypeOK, QueueAssumption
<1>2. FIFO
  <2>1. <<>> \in Seq(Values)
    BY EmptySeq
  <2>. QED BY <2>1, ConcatEmptySeq DEF Init, FIFO
<1>. QED BY <1>1, <1>2 DEF Init, IInv, HoldInv, ModeInv, NoLostWakeup,
                           OnlyTheLoopClosesC, Unlimited
-----------------------------------------------------------------------------
(* Push. *)
LEMMA PushStep ==
  ASSUME IInv, QueueAssumption, NEW p \in Producers,
         PushLimited(p) \/ PushLimitedPanics(p) \/ PushBack(p) \/ PushEnd(p)
  PROVE  IInv'
<1> USE DEF IInv
<1>1. CASE PushLimited(p)
  <2> USE <1>1 DEF PushLimited
  <2>1. Value \in Values
    OBVIOUS
  <2>2. hold = <<>> /\ list = <<>>
    BY DEF ModeInv, HoldInv
  <2>3. TypeOK'
    BY <2>1, AppendProperties DEF TypeOK, loopVars
  <2>4. FIFO'
    <3>1. pushed = out \o chan
      BY <2>2, ConcatProperties, ConcatEmptySeq DEF FIFO, TypeOK
    <3>2. Append(out \o chan, Value) = out \o Append(chan, Value)
      <4>1. out \in Seq(Values) /\ chan \in Seq(Values)
        BY DEF TypeOK
      <4>. QED BY ONLY <2>1, <4>1, AppendLast
    <3>3. out' \o chan' \in Seq(Values)
      BY <2>3, ConcatProperties DEF TypeOK
    <3>. QED BY <2>2, <3>1, <3>2, <3>3, ConcatEmptySeq DEF FIFO, loopVars
  <2>. QED BY <2>2, <2>3, <2>4 DEF HoldInv, ModeInv, NoLostWakeup,
                OnlyTheLoopClosesC, Unlimited, loopVars
<1>2. CASE PushLimitedPanics(p)
  <2> USE <1>2 DEF PushLimitedPanics, chanVars, loopVars
  <2>. QED BY DEF TypeOK, HoldInv, ModeInv, FIFO, NoLostWakeup,
                  OnlyTheLoopClosesC, Unlimited
<1>3. CASE PushBack(p)
  <2> USE <1>3 DEF PushBack, chanVars, loopVars
  <2>1. Value \in Values
    OBVIOUS
  <2>2. TypeOK'
    BY <2>1, AppendProperties DEF TypeOK, ListWith
  <2>3. FIFO'
    <3>1. (out \o chan) \o hold \in Seq(Values)
      BY ConcatProperties DEF TypeOK
    <3>2. list \in Seq(Values)
      BY DEF TypeOK
    <3>3. Append(((out \o chan) \o hold) \o list, Value)
          = ((out \o chan) \o hold) \o Append(list, Value)
      BY ONLY <2>1, <3>1, <3>2, AppendLast
    <3>. QED BY <3>3 DEF FIFO, ListWith
  <2>4. NoLostWakeup'
    BY DEF NoLostWakeup, TypeOK
  <2>. QED BY <2>2, <2>3, <2>4 DEF HoldInv, ModeInv, OnlyTheLoopClosesC,
                                   Unlimited
<1>4. CASE PushCheckEvents(p)
  <2> USE <1>4 DEF PushCheckEvents, chanVars, loopVars
  <2>1. TypeOK'
    BY DEF TypeOK
  <2>2. NoLostWakeup'
    <3>1. CASE EventWanted
      BY <3>1 DEF NoLostWakeup, TypeOK
    <3>2. CASE ~EventWanted
      BY <3>2 DEF EventWanted, NoLostWakeup, TypeOK, QueueAssumption
    <3>. QED BY <3>1, <3>2
  <2>. QED BY <2>1, <2>2 DEF HoldInv, ModeInv, FIFO, OnlyTheLoopClosesC,
                             Unlimited
<1>5. CASE PushSendEvent(p)
  <2>1. /\ events' \in Nat
        /\ prod' \in [Producers -> {"idle", "checkEvents", "sendEvent", "panicked"}]
        /\ prod'[p] \in {"idle", "panicked"}
        /\ \A q \in Producers \ {p} : prod'[q] = prod[q]
        /\ events' > 0 \/ closed
    <3>0. prod \in [Producers -> {"idle", "checkEvents", "sendEvent", "panicked"}]
      BY DEF TypeOK
    <3>1. CASE ~eventsClosed
      <4>1. events' = events + 1 /\ prod' = [prod EXCEPT ![p] = "idle"]
        BY <1>5, <3>1 DEF PushSendEvent
      <4>2. events' \in Nat /\ events' > 0
        BY <4>1 DEF TypeOK
      <4>. QED BY <3>0, <4>1, <4>2
    <3>2. CASE eventsClosed
      <4>1. events' = events /\ prod' = [prod EXCEPT ![p] = "panicked"] /\ closed
        BY <1>5, <3>2 DEF PushSendEvent, ModeInv
      <4>2. events' \in Nat
        BY <4>1 DEF TypeOK
      <4>. QED BY <3>0, <4>1, <4>2
    <3>. QED BY <3>1, <3>2
  <2>2. UNCHANGED <<limit, list, eventsClosed, chanVars, closed, loopVars,
                    cons, closer, pops, pushed>>
    BY <1>5 DEF PushSendEvent
  <2>3. TypeOK'
    BY <2>1, <2>2 DEF TypeOK, chanVars, loopVars
  <2>. QED BY <2>1, <2>2, <2>3 DEF HoldInv, ModeInv, FIFO, NoLostWakeup,
                OnlyTheLoopClosesC, Unlimited, chanVars, loopVars
<1>. QED BY <1>1, <1>2, <1>3, <1>4, <1>5 DEF PushEnd
-----------------------------------------------------------------------------
(* Pop and Close.  They move values from C to `out', or raise flags. *)
LEMMA PopCloseStep ==
  ASSUME IInv, QueueAssumption,
         \/ \E c \in Consumers : PopCall(c) \/ PopReturn(c)
         \/ \E k \in Closers : CloseCas(k) \/ CloseEnd(k)
  PROVE  IInv'
<1> USE DEF IInv
(* A receive that leaves everything else alone. *)
<1>1. ASSUME Receive \/ ReceiveClosed,
             UNCHANGED <<limit, list, events, eventsClosed, closed, loopVars,
                         prod, pushed>>
      PROVE  /\ out' \in Seq(Values) /\ chan' \in Seq(Values)
             /\ chanClosed' = chanClosed
             /\ FIFO' /\ HoldInv' /\ NoLostWakeup' /\ OnlyTheLoopClosesC'
  <2>1. /\ out' \o chan' = out \o chan
        /\ out' \in Seq(Values) /\ chan' \in Seq(Values)
        /\ chanClosed' = chanClosed
    <3>1. CASE Receive
      BY <3>1, ReceiveFacts
    <3>2. CASE ReceiveClosed
      BY <3>2 DEF ReceiveClosed, chanVars, TypeOK
    <3>. QED BY <1>1, <3>1, <3>2
  <2>. QED BY <1>1, <2>1 DEF FIFO, HoldInv, NoLostWakeup, OnlyTheLoopClosesC,
                             Unlimited, loopVars
<1>2. ASSUME NEW c \in Consumers, PopCall(c) PROVE IInv'
  <2> USE <1>2 DEF PopCall, chanVars, loopVars
  <2>. QED BY DEF TypeOK, HoldInv, ModeInv, FIFO, NoLostWakeup,
                  OnlyTheLoopClosesC, Unlimited
<1>3. ASSUME NEW c \in Consumers, PopReturn(c) PROVE IInv'
  <2>1. /\ Receive \/ ReceiveClosed
        /\ UNCHANGED <<limit, list, events, eventsClosed, closed, loopVars,
                       prod, closer, pops, pushed>>
        /\ cons' \in [Consumers -> {"idle", "popping", "done"}]
    BY <1>3 DEF PopReturn, TypeOK
  <2>2. TypeOK' /\ ModeInv'
    BY <1>1, <2>1 DEF TypeOK, ModeInv, Unlimited, loopVars
  <2>. QED BY <1>1, <2>1, <2>2
<1>4. ASSUME NEW k \in Closers, CloseCas(k) PROVE IInv'
  <2> USE <1>4 DEF CloseCas, chanVars, loopVars
  <2>1. TypeOK'
    BY DEF TypeOK, AfterCas
  <2>2. ModeInv'
    BY DEF TypeOK, ModeInv, AfterCas, Unlimited
  <2>. QED BY <2>1, <2>2 DEF HoldInv, FIFO, NoLostWakeup,
                  OnlyTheLoopClosesC, Unlimited
<1>5. ASSUME NEW k \in Closers, CloseEvents(k) PROVE IInv'
  <2> USE <1>5 DEF CloseEvents, chanVars, loopVars
  <2>1. TypeOK'
    BY DEF TypeOK, QueueAssumption
  <2>2. \A j \in Closers : closer'[j] = IF j = k THEN "drain" ELSE closer[j]
    BY DEF TypeOK
  <2>3. ModeInv'
    BY <2>2 DEF ModeInv, Unlimited
  <2>. QED BY <2>1, <2>3 DEF HoldInv, FIFO, NoLostWakeup,
                  OnlyTheLoopClosesC, Unlimited
<1>6. ASSUME NEW k \in Closers, CloseC(k) PROVE IInv'
  <2> USE <1>6 DEF CloseC, chanVars, loopVars
  <2>1. TypeOK'
    BY DEF TypeOK
  <2>2. \A j \in Closers : closer'[j] = IF j = k THEN "done" ELSE closer[j]
    BY DEF TypeOK
  <2>3. ModeInv' /\ ~Unlimited
    BY <2>2 DEF ModeInv, Unlimited
  <2>. QED BY <2>1, <2>3 DEF HoldInv, FIFO, NoLostWakeup,
                  OnlyTheLoopClosesC, Unlimited
<1>7. ASSUME NEW k \in Closers, ClosePop(k) PROVE IInv'
  <2>1. /\ Receive \/ ReceiveClosed
        /\ UNCHANGED <<limit, list, events, eventsClosed, closed, loopVars,
                       prod, cons, closer, pushed>>
        /\ pops' \in [Closers -> Nat]
    BY <1>7 DEF ClosePop, TypeOK
  <2>2. TypeOK' /\ ModeInv'
    BY <1>1, <2>1 DEF TypeOK, ModeInv, Unlimited, loopVars
  <2>. QED BY <1>1, <2>1, <2>2
<1>8. ASSUME NEW k \in Closers, CloseReturn(k) PROVE IInv'
  <2> USE <1>8 DEF CloseReturn, chanVars, loopVars
  <2>. QED BY DEF TypeOK, HoldInv, ModeInv, FIFO, NoLostWakeup,
                  OnlyTheLoopClosesC, Unlimited
<1>. QED BY <1>2, <1>3, <1>4, <1>5, <1>6, <1>7, <1>8 DEF CloseEnd
-----------------------------------------------------------------------------
(* The loop. *)
LEMMA LoopStep ==
  ASSUME IInv, QueueAssumption, Loop
  PROVE  IInv'
<1> USE DEF IInv, chanVars
<1>1. CASE LoopCheck
  <2>1. TypeOK'
    BY <1>1 DEF LoopCheck, TypeOK
  <2>. QED BY <1>1, <2>1 DEF LoopCheck, HoldInv, ModeInv, FIFO, NoLostWakeup,
                  OnlyTheLoopClosesC, Unlimited
<1>2. CASE LoopWait
  <2>1. TypeOK'
    BY <1>2 DEF LoopWait, TypeOK
  <2>. QED BY <1>2, <2>1 DEF LoopWait, HoldInv, ModeInv, FIFO, NoLostWakeup,
                  OnlyTheLoopClosesC, Unlimited
<1>3. CASE LoopInner
  <2>1. TypeOK'
    BY <1>3 DEF LoopInner, TypeOK
  <2>. QED BY <1>3, <2>1 DEF LoopInner, HoldInv, ModeInv, FIFO, NoLostWakeup,
                  OnlyTheLoopClosesC, Unlimited
<1>4. CASE LoopLen
  <2>1. Len(list) \in Nat /\ (Len(list) = 0 <=> list = <<>>)
    BY LenProperties, EmptySeq DEF TypeOK
  <2>2. TypeOK'
    BY <1>4, <2>1 DEF LoopLen, TypeOK
  <2>. QED BY <1>4, <2>1, <2>2 DEF LoopLen, HoldInv, ModeInv, FIFO,
                  NoLostWakeup, OnlyTheLoopClosesC, Unlimited
<1>5. CASE LoopPopFront
  <2>1. CASE todo > 0
    <3>1. /\ list # <<>> /\ hold' = <<Head(list)>> /\ list' = Tail(list)
          /\ loop' = "send" /\ hold = <<>> /\ todo' = todo
      BY <1>5, <2>1 DEF LoopPopFront, HoldInv
    <3>2. Head(list) \in Values /\ Tail(list) \in Seq(Values)
      BY <3>1, HeadTailProperties DEF TypeOK
    <3>3. TypeOK'
      BY <1>5, <3>1, <3>2 DEF LoopPopFront, TypeOK
    <3>4. HoldInv'
      BY <2>1, <3>1 DEF HoldInv
    <3>5. FIFO'
      <4> DEFINE before == out \o chan
      <4>1. before \in Seq(Values) /\ list \in Seq(Values)
        BY ConcatProperties DEF TypeOK
      <4>2. before \o hold = before
        BY <3>1, <4>1, ConcatEmptySeq
      <4>3. (before \o <<Head(list)>>) \o Tail(list) = before \o list
        <5> HIDE DEF before
        <5>. QED BY ONLY <3>1, <4>1, MoveOne
      <4>4. UNCHANGED <<out, chan, pushed>>
        BY <1>5 DEF LoopPopFront
      <4>. QED BY <3>1, <4>2, <4>3, <4>4 DEF FIFO
    <3>. QED BY <1>5, <3>1, <3>3, <3>4, <3>5 DEF LoopPopFront, ModeInv,
                  NoLostWakeup, OnlyTheLoopClosesC, Unlimited
  <2>2. CASE ~(todo > 0)
    <3>1. TypeOK'
      BY <1>5, <2>2 DEF LoopPopFront, TypeOK
    <3>. QED BY <1>5, <2>2, <3>1 DEF LoopPopFront, HoldInv, ModeInv, FIFO,
                  NoLostWakeup, OnlyTheLoopClosesC, Unlimited
  <2>. QED BY <2>1, <2>2
<1>6. CASE LoopSend
  <2>1. todo - 1 \in Nat
    BY <1>6 DEF LoopSend, HoldInv, TypeOK
  <2>2. chan \o hold \in Seq(Values)
    BY ConcatProperties DEF TypeOK
  <2>3. TypeOK'
    BY <1>6, <2>1, <2>2, EmptySeq DEF LoopSend, TypeOK
  <2>4. FIFO'
    <3>1. (out \o chan) \o hold = out \o (chan \o hold)
      <4>1. out \in Seq(Values) /\ chan \in Seq(Values) /\ hold \in Seq(Values)
        BY DEF TypeOK
      <4>. QED BY ONLY <4>1, ConcatAssociative
    <3>2. (out \o (chan \o hold)) \o <<>> = out \o (chan \o hold)
      <4>1. out \o (chan \o hold) \in Seq(Values)
        BY <2>2, ConcatProperties DEF TypeOK
      <4>. QED BY ONLY <4>1, ConcatEmptySeq
    <3>. QED BY <1>6, <3>1, <3>2 DEF LoopSend, FIFO
  <2>. QED BY <1>6, <2>3, <2>4 DEF LoopSend, HoldInv, ModeInv, NoLostWakeup,
                  OnlyTheLoopClosesC, Unlimited
<1>7. CASE LoopClear
  <2>1. TypeOK'
    BY <1>7 DEF LoopClear, MoreToClear, TypeOK
  <2>2. NoLostWakeup'
    BY <1>7 DEF LoopClear, MoreToClear, TypeOK, NoLostWakeup
  <2>. QED BY <1>7, <2>1, <2>2 DEF LoopClear, HoldInv, ModeInv, FIFO,
                  OnlyTheLoopClosesC, Unlimited
<1>8. CASE LoopClose
  <2>1. TypeOK'
    BY <1>8 DEF LoopClose, TypeOK
  <2>. QED BY <1>8, <2>1 DEF LoopClose, HoldInv, ModeInv, FIFO, NoLostWakeup,
                  OnlyTheLoopClosesC, Unlimited
<1>. QED BY <1>1, <1>2, <1>3, <1>4, <1>5, <1>6, <1>7, <1>8 DEF Loop
-----------------------------------------------------------------------------
(* The inductive invariant, and what follows from it. *)
THEOREM QueueInvariant == Spec => []IInv
<1>. USE QueueAssumption
<1>1. Init => IInv
  BY InitIInv
<1>2. IInv /\ [Next]_vars => IInv'
  <2>1. ASSUME IInv, UNCHANGED vars PROVE IInv'
    BY <2>1 DEF vars, chanVars, loopVars, IInv, TypeOK, HoldInv, ModeInv, FIFO,
                NoLostWakeup, OnlyTheLoopClosesC, Unlimited
  <2>. QED BY <2>1, PushStep, PopCloseStep, LoopStep DEF Next
<1>. QED BY <1>1, <1>2, PTL DEF Spec

(* All state stays in its type. *)
THEOREM QueueTyped == Spec => []TypeOK
BY QueueInvariant, PTL DEF IInv

(* Nothing pushed is lost, doubled or overtaken, whatever the interleaving *)
(* of pushes, pops, the loop and Close.                                    *)
THEOREM QueueFIFO == Spec => []FIFO
BY QueueInvariant, PTL DEF IInv

(* Thinning the events, and skipping an event when many are pending, never *)
(* lets the loop sleep over a non-empty list.                              *)
THEOREM QueueNoLostWakeup == Spec => []NoLostWakeup
BY QueueInvariant, PTL DEF IInv

(* The loop's send never finds C closed. *)
THEOREM QueueCloses == Spec => []OnlyTheLoopClosesC
BY QueueInvariant, PTL DEF IInv
=============================================================================
