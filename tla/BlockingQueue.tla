---------------------------- MODULE BlockingQueue ----------------------------
(***************************************************************************)
(* gqueue.BlockingQueue.  A queue made with a limit is a buffered channel  *)
(* C and nothing else.  An unlimited queue is a list, a channel `events'   *)
(* that counts writes, and a goroutine (the loop) that is woken by an      *)
(* event, moves the whole list into C in batches, and then thins the       *)
(* events out to about half.                                               *)
(*                                                                         *)
(* The list is a sequence here and PushBack one step, which is what the    *)
(* list does as long as the Push calls on an unlimited queue do not        *)
(* overlap (action PushBack's last conjunct).  QueueOnList replaces the    *)
(* sequence by the real linked list and drops that restriction.            *)
(***************************************************************************)
EXTENDS Integers, Sequences

CONSTANTS Producers,         \* goroutines that call Push
          Consumers,         \* goroutines that call Pop or MustPop
          Closers,           \* goroutines that call Close
          MaxPushes,         \* bound: how many values are pushed in all
          Limits,            \* the arguments New may get; 0 is "no limit"
          DefaultQueueSize,  \* buffer of C, and cap on pending events
          DefaultBatchSize   \* how many Pops an unlimited Close performs

ASSUME QueueAssumption ==
    /\ Limits \subseteq Nat
    /\ DefaultQueueSize \in Nat \ {0}
    /\ DefaultBatchSize \in Nat
    /\ MaxPushes \in Nat

VARIABLES
    limit,         \* q.limit
    list,          \* q.list, front first (unlimited only)
    events,        \* len(q.events); its buffer of MaxInt32 never fills
    eventsClosed,  \* close(q.events) has happened
    chan,          \* the buffer of q.C, oldest first
    chanClosed,    \* close(q.C) has happened
    closed,        \* q.closed
    loop,          \* where asyncLoopFromListToChannel is
    todo,          \* loop: bufferLength - i
    hold,          \* loop: <<front>> while it is in `q.C <- front', else <<>>
    cleared,       \* loop: the counter i of the loop that thins the events
    prod,          \* where each producer is in Push
    cons,          \* where each consumer is in Pop
    closer,        \* where each closer is in Close
    pops,          \* closer: Pops left to perform
    pushed,        \* history: the values in the order they entered the queue
    out            \* history: the values in the order they left C

loopVars == <<loop, todo, hold, cleared>>
chanVars == <<chan, chanClosed, out>>
vars == <<limit, list, events, eventsClosed, chanVars, closed, loopVars,
          prod, cons, closer, pops, pushed>>

Unlimited == limit = 0
ChanCap == IF Unlimited THEN DefaultQueueSize ELSE limit

(* New: the loop is started only for an unlimited queue. *)
Init ==
    /\ limit \in Limits
    /\ list = <<>> /\ events = 0 /\ eventsClosed = FALSE
    /\ chan = <<>> /\ chanClosed = FALSE /\ closed = FALSE
    /\ loop = IF limit = 0 THEN "check" ELSE "none"
    /\ todo = 0 /\ hold = <<>> /\ cleared = 0
    /\ prod = [p \in Producers |-> "idle"]
    /\ cons = [c \in Consumers |-> "idle"]
    /\ closer = [k \in Closers |-> "idle"]
    /\ pops = [k \in Closers |-> 0]
    /\ pushed = <<>> /\ out = <<>>

(* The n-th value pushed is n, so values are told apart. *)
Values == 1..MaxPushes
Value == Len(pushed) + 1

(* One value leaves C, for a consumer or for Close. *)
Receive ==
    /\ chan # <<>>
    /\ out' = Append(out, Head(chan))
    /\ chan' = Tail(chan)
    /\ UNCHANGED chanClosed

(* A receive from a closed and empty C returns at once with ok = false. *)
ReceiveClosed == chan = <<>> /\ chanClosed /\ UNCHANGED chanVars
-----------------------------------------------------------------------------
(* Push with a limit: `q.C <- v'.  A call that is blocked has not taken    *)
(* this step yet.                                                          *)
PushLimited(p) ==
    /\ ~Unlimited /\ prod[p] = "idle" /\ ~chanClosed
    /\ Len(chan) < ChanCap
    /\ Value \in Values
    /\ chan' = Append(chan, Value) /\ pushed' = Append(pushed, Value)
    /\ UNCHANGED <<limit, list, events, eventsClosed, chanClosed, out, closed,
                   loopVars, prod, cons, closer, pops>>

(* A send on a closed C, blocked before the Close or not, panics. *)
PushLimitedPanics(p) ==
    /\ ~Unlimited /\ prod[p] = "idle" /\ chanClosed
    /\ prod' = [prod EXCEPT ![p] = "panicked"]
    /\ UNCHANGED <<limit, list, events, eventsClosed, chanVars, closed,
                   loopVars, cons, closer, pops, pushed>>

ListWith_AtFront(v) == <<v>> \o list
ListWith(v) == Append(list, v)

(* Push without a limit: q.list.PushBack(v). *)
PushBack(p) ==
    /\ Unlimited /\ prod[p] = "idle"
    /\ Value \in Values
    /\ list' = ListWith(Value) /\ pushed' = Append(pushed, Value)
    /\ prod' = [prod EXCEPT ![p] = "checkEvents"]
    /\ \A q \in Producers : prod[q] \in {"idle", "panicked"}
    /\ UNCHANGED <<limit, events, eventsClosed, chanVars, closed, loopVars,
                   cons, closer, pops>>

EventWanted_WhenAsleep == events < DefaultQueueSize /\ loop = "wait"
EventWanted == events < DefaultQueueSize

(* if len(q.events) < defaultQueueSize *)
PushCheckEvents(p) ==
    /\ prod[p] = "checkEvents"
    /\ prod' = [prod EXCEPT ![p] =
                   IF EventWanted THEN "sendEvent" ELSE "idle"]
    /\ UNCHANGED <<limit, list, events, eventsClosed, chanVars, closed,
                   loopVars, cons, closer, pops, pushed>>

(* q.events <- struct{}{}, which panics when Close was faster. *)
PushSendEvent(p) ==
    /\ prod[p] = "sendEvent"
    /\ \/ /\ ~eventsClosed
          /\ events' = events + 1
          /\ prod' = [prod EXCEPT ![p] = "idle"]
       \/ /\ eventsClosed
          /\ prod' = [prod EXCEPT ![p] = "panicked"]
          /\ UNCHANGED events
    /\ UNCHANGED <<limit, list, eventsClosed, chanVars, closed, loopVars,
                   cons, closer, pops, pushed>>
-----------------------------------------------------------------------------
(* Pop and MustPop: the call, and the receive that ends it. *)
PopCall(c) ==
    /\ cons[c] = "idle"
    /\ cons' = [cons EXCEPT ![c] = "popping"]
    /\ UNCHANGED <<limit, list, events, eventsClosed, chanVars, closed,
                   loopVars, prod, closer, pops, pushed>>

PopReturn(c) ==
    /\ cons[c] = "popping"
    /\ \/ Receive /\ cons' = [cons EXCEPT ![c] = "idle"]
       \/ ReceiveClosed /\ cons' = [cons EXCEPT ![c] = "done"]
    /\ UNCHANGED <<limit, list, events, eventsClosed, closed, loopVars, prod,
                   closer, pops, pushed>>
-----------------------------------------------------------------------------
AfterCas_CloseC == "closeC"
AfterCas == IF Unlimited THEN "closeEvents" ELSE "closeC"

(* Close: the Cas lets one closer through; the others return. *)
CloseCas(k) ==
    /\ closer[k] = "idle"
    /\ closed' = TRUE
    /\ closer' = [closer EXCEPT ![k] =
                     IF closed THEN "done" ELSE AfterCas]
    /\ UNCHANGED <<limit, list, events, eventsClosed, chanVars, loopVars,
                   prod, cons, pops, pushed>>

CloseEvents_Forgotten(k) ==
    /\ closer[k] = "closeEvents"
    /\ closer' = [closer EXCEPT ![k] = "drain"]
    /\ pops' = [pops EXCEPT ![k] = DefaultBatchSize]
    /\ UNCHANGED <<limit, list, events, eventsClosed, chanVars, closed,
                   loopVars, prod, cons, pushed>>
CloseEvents(k) ==
    /\ closer[k] = "closeEvents"
    /\ eventsClosed' = TRUE
    /\ closer' = [closer EXCEPT ![k] = "drain"]
    /\ pops' = [pops EXCEPT ![k] = DefaultBatchSize]
    /\ UNCHANGED <<limit, list, events, chanVars, closed, loopVars, prod,
                   cons, pushed>>

CloseC(k) ==
    /\ closer[k] = "closeC"
    /\ chanClosed' = TRUE
    /\ closer' = [closer EXCEPT ![k] = "done"]
    /\ UNCHANGED <<limit, list, events, eventsClosed, chan, out, closed,
                   loopVars, prod, cons, pops, pushed>>

(* One of the Pops by which Close makes room for a loop stuck on a full C. *)
ClosePop(k) ==
    /\ closer[k] = "drain" /\ pops[k] > 0
    /\ Receive \/ ReceiveClosed
    /\ pops' = [pops EXCEPT ![k] = @ - 1]
    /\ UNCHANGED <<limit, list, events, eventsClosed, closed, loopVars, prod,
                   cons, closer, pushed>>

CloseReturn(k) ==
    /\ closer[k] = "drain" /\ pops[k] = 0
    /\ closer' = [closer EXCEPT ![k] = "done"]
    /\ UNCHANGED <<limit, list, events, eventsClosed, chanVars, closed,
                   loopVars, prod, cons, pops, pushed>>
-----------------------------------------------------------------------------
(* The loop.  for !q.closed.Val() *)
LoopCheck ==
    /\ loop = "check"
    /\ loop' = IF closed THEN "close" ELSE "wait"
    /\ UNCHANGED <<limit, list, events, eventsClosed, chanVars, closed, todo,
                   hold, cleared, prod, cons, closer, pops, pushed>>

(* <-q.events *)
LoopWait ==
    /\ loop = "wait"
    /\ \/ events > 0 /\ events' = events - 1
       \/ events = 0 /\ eventsClosed /\ UNCHANGED events
    /\ loop' = "inner"
    /\ UNCHANGED <<limit, list, eventsClosed, chanVars, closed, todo, hold,
                   cleared, prod, cons, closer, pops, pushed>>

(* the inner for !q.closed.Val() *)
LoopInner ==
    /\ loop = "inner"
    /\ loop' = IF closed THEN "clear" ELSE "len"
    /\ UNCHANGED <<limit, list, events, eventsClosed, chanVars, closed, todo,
                   hold, cleared, prod, cons, closer, pops, pushed>>

(* bufferLength := q.list.Len(); an empty list ends the inner loop. *)
LoopLen ==
    /\ loop = "len"
    /\ todo' = Len(list)
    /\ loop' = IF Len(list) > 0 THEN "batch" ELSE "clear"
    /\ UNCHANGED <<limit, list, events, eventsClosed, chanVars, closed, hold,
                   cleared, prod, cons, closer, pops, pushed>>

(* q.list.PopFront(), or the end of the batch.  The loop is the only one   *)
(* to take from the list, so the batch finds it non-empty.                 *)
LoopPopFront ==
    /\ loop = "batch"
    /\ \/ /\ todo > 0
          /\ list # <<>>
          /\ hold' = <<Head(list)>>
          /\ list' = Tail(list)
          /\ loop' = "send"
       \/ /\ todo = 0
          /\ loop' = "inner"
          /\ UNCHANGED <<hold, list>>
    /\ UNCHANGED <<limit, events, eventsClosed, chanVars, closed, todo,
                   cleared, prod, cons, closer, pops, pushed>>

(* q.C <- front; blocks while C is full.  OnlyTheLoopClosesC shows that C  *)
(* is never closed under this send.                                        *)
LoopSend ==
    /\ loop = "send" /\ Len(chan) < ChanCap
    /\ chan' = chan \o hold
    /\ hold' = <<>>
    /\ todo' = todo - 1
    /\ loop' = "batch"
    /\ UNCHANGED <<limit, list, events, eventsClosed, chanClosed, out, closed,
                   cleared, prod, cons, closer, pops, pushed>>

MoreToClear_All == cleared < events
MoreToClear == cleared < events - 1

(* for i := 0; i < len(q.events)-1; i++ { <-q.events } *)
LoopClear ==
    /\ loop = "clear"
    /\ IF MoreToClear
       THEN events' = events - 1 /\ cleared' = cleared + 1 /\ UNCHANGED loop
       ELSE loop' = "check" /\ cleared' = 0 /\ UNCHANGED events
    /\ UNCHANGED <<limit, list, eventsClosed, chanVars, closed, todo, hold,
                   prod, cons, closer, pops, pushed>>

LoopClose_KeepsCOpen ==
    /\ loop = "close"
    /\ loop' = "done"
    /\ UNCHANGED <<limit, list, events, eventsClosed, chanVars, closed, todo,
                   hold, cleared, prod, cons, closer, pops, pushed>>
(* close(q.C), once both loops have seen `closed'. *)
LoopClose ==
    /\ loop = "close"
    /\ chanClosed' = TRUE
    /\ loop' = "done"
    /\ UNCHANGED <<limit, list, events, eventsClosed, chan, out, closed, todo,
                   hold, cleared, prod, cons, closer, pops, pushed>>

Loop == \/ LoopCheck \/ LoopWait \/ LoopInner \/ LoopLen \/ LoopPopFront
        \/ LoopSend \/ LoopClear \/ LoopClose
PushEnd(p) == PushCheckEvents(p) \/ PushSendEvent(p)
CloseEnd(k) == CloseEvents(k) \/ CloseC(k) \/ ClosePop(k) \/ CloseReturn(k)

Next ==
    \/ \E p \in Producers : \/ PushLimited(p) \/ PushLimitedPanics(p)
                            \/ PushBack(p) \/ PushEnd(p)
    \/ \E c \in Consumers : PopCall(c) \/ PopReturn(c)
    \/ \E k \in Closers : CloseCas(k) \/ CloseEnd(k)
    \/ Loop

Spec == Init /\ [][Next]_vars

(* A goroutine that can run does run: the loop, and every call that has    *)
(* begun.  Nobody is obliged to begin a Push, a Pop or a Close.            *)
Fairness ==
    /\ WF_vars(Loop)
    /\ \A p \in Producers : WF_vars(PushEnd(p))
    /\ \A c \in Consumers : WF_vars(PopReturn(c))
    /\ \A k \in Closers : WF_vars(CloseEnd(k))

FairSpec == Spec /\ Fairness
-----------------------------------------------------------------------------
TypeOK ==
    /\ limit \in Limits
    /\ list \in Seq(Values) /\ chan \in Seq(Values)
    /\ hold \in Seq(Values)
    /\ pushed \in Seq(Values) /\ out \in Seq(Values)
    /\ events \in Nat /\ todo \in Nat /\ cleared \in Nat
    /\ eventsClosed \in BOOLEAN /\ chanClosed \in BOOLEAN
    /\ closed \in BOOLEAN
    /\ loop \in {"none", "check", "wait", "inner", "len", "batch", "send",
                 "clear", "close", "done"}
    /\ prod \in [Producers -> {"idle", "checkEvents", "sendEvent", "panicked"}]
    /\ cons \in [Consumers -> {"idle", "popping", "done"}]
    /\ closer \in [Closers -> {"idle", "closeEvents", "closeC", "drain", "done"}]
    /\ pops \in [Closers -> Nat]

(* What was pushed is, in order and nothing missing or doubled, what was   *)
(* received followed by what is still in C, in the loop's hand and in the  *)
(* list -- at every moment, also while and after the queue is closed.      *)
FIFO == pushed = out \o chan \o hold \o list

(* The loop never falls asleep over a non-empty list: while it waits for   *)
(* an event, or is about to (thinning the events, re-checking `closed'),   *)
(* an event is there, or a producer is still between its PushBack and its  *)
(* event, or the queue is closed.                                          *)
NoLostWakeup ==
    loop \in {"clear", "check", "wait"} /\ list # <<>> =>
        \/ events > 0
        \/ \E p \in Producers : prod[p] \in {"checkEvents", "sendEvent"}
        \/ closed

(* The loop never sends to a closed C (which would panic): C of an         *)
(* unlimited queue is closed by the loop itself, after its last send.      *)
OnlyTheLoopClosesC ==
    Unlimited /\ chanClosed => loop = "done" /\ hold = <<>>

(* A value in the list gets out, as long as there is again and again       *)
(* someone in Pop and the queue is not closed.                             *)
Delivered ==
    []<>(\E c \in Consumers : cons[c] = "popping") =>
        \A v \in Values :
            (\E n \in DOMAIN list : list[n] = v) ~>
                (closed \/ \E n \in DOMAIN out : out[n] = v)

(* Close's comment: goroutines blocked in Pop are let go. *)
CloseReleasesConsumers ==
    \A c \in Consumers :
        (closed /\ cons[c] = "popping") ~> (cons[c] # "popping")

(* Close itself returns, although it performs blocking Pops. *)
CloseReturns ==
    \A k \in Closers : (closer[k] # "idle") ~> (closer[k] = "done")

(* The loop's comments: once the queue is closed the goroutine ends, also  *)
(* when it is blocked writing to C.                                        *)
LoopEnds == (Unlimited /\ closed) ~> (loop = "done")
=============================================================================
