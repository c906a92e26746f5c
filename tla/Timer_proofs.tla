----------------------------- MODULE Timer_proofs -----------------------------
(***************************************************************************)
(* Proofs about Timer, for any set of entries, whatever their intervals,   *)
(* limits and modes, and however many user calls there are.                *)
(***************************************************************************)
EXTENDS Timer, TLAPS

USE DEF timerVars, queueVars, loopVars, fieldVars, jobVars, runVars, userVars,
        closeVars, Nothing

(* The loop has an entry in its hand exactly while it works on one.        *)
AtRest == {"select", "add", "compare", "pop", "exited"}
InHand == loop \in AtRest <=> cur = NoEntry

(* Times are bounded by the clock, so none reaches MaxInt64.               *)
Bounded ==
    /\ \A e \in Entries : /\ nextTicks[e] <= MaxTicks + Period[e]
                          /\ resetting[e] <= MaxTicks
    /\ \A i \in queue : i.priority < MaxInt64
    /\ loop = "add" => ticks < MaxTicks

(* An entry that is not made is nowhere, and a closed one is recorded.     *)
Filed ==
    /\ \A e \in Entries : made[e] # "yes" =>
          cur # e /\ \A i \in queue : i.entry # e
    /\ \A e \in Entries : status[e] = "closed" => e \in wasClosed

Inv == TypeOK /\ InHand /\ Bounded /\ NextIsHead /\ Kept /\ Filed
-----------------------------------------------------------------------------
(* What a step may do to the queue: nothing, one of three pushes, the pop. *)
LEMMA QueueSteps ==
    ASSUME [Next]_vars
    PROVE  \/ UNCHANGED queueVars
           \/ LoopPop \/ LoopPushBack \/ LoopPush
           \/ \E e \in Entries : CreatePush(e)
BY DEF Next, vars, Loop, Job, User, LoopSelect, LoopAdd, LoopCompare, LoopDue,
       LoopCheck, LoopStatus, LoopSingleton, LoopCas, LoopRun, LoopAfter,
       JobReturns, JobExits, JobLooks, JobRevives, TimerSetStatus, Create,
       Start, Stop, Close, Run, ResetRead, ResetWrite, SetSingleton, SetTimes

LEMMA Initially == Init => Inv
<1> SUFFICES ASSUME Init PROVE Inv
  OBVIOUS
<1> USE TimerAssumption DEF Init, Status
<1>1. TypeOK
  BY DEF TypeOK, NoPriority
<1>2. InHand /\ Bounded
  BY DEF InHand, AtRest, Bounded
<1>3. NextIsHead
  BY DEF NextIsHead, IsHead
<1>4. Kept
  BY DEF Kept
<1>5. Filed
  BY DEF Filed
<1> QED BY <1>1, <1>2, <1>3, <1>4, <1>5 DEF Inv

(* Every step preserves the types. *)
LEMMA StepTyped == ASSUME Inv, [Next]_vars PROVE TypeOK'
<1> USE TimerAssumption DEF Inv, TypeOK, Status
<1>1. ASSUME LoopSelect \/ LoopAdd \/ LoopCompare PROVE TypeOK'
  <2>1. CASE LoopSelect BY <2>1 DEF LoopSelect
  <2>2. CASE LoopAdd BY <2>2 DEF LoopAdd, Bounded
  <2>3. CASE LoopCompare BY <2>3 DEF LoopCompare
  <2> QED BY <1>1, <2>1, <2>2, <2>3
<1>2. ASSUME LoopPop PROVE TypeOK'
  BY <1>2 DEF LoopPop, QueuePop, NoPriority
<1>3. ASSUME LoopDue \/ LoopStatus \/ LoopSingleton \/ LoopAfter PROVE TypeOK'
  BY <1>3 DEF LoopDue, LoopStatus, LoopSingleton, LoopAfter, AfterSingleton
<1>4. ASSUME LoopPushBack \/ LoopPush PROVE TypeOK'
  BY <1>4 DEF LoopPushBack, LoopPush, QueuePush, InHand, AtRest
<1>5. ASSUME LoopCheck PROVE TypeOK'
  BY <1>5 DEF LoopCheck, NextDue, InHand, AtRest
<1>6. ASSUME LoopCas PROVE TypeOK'
  BY <1>6 DEF LoopCas
<1>7. ASSUME LoopRun PROVE TypeOK'
  BY <1>7 DEF LoopRun, RunJob, UsedUp, InHand, AtRest
<1>8. ASSUME NEW s \in {"running", "stopped", "closed"}, TimerSetStatus(s)
      PROVE  TypeOK'
  BY <1>8 DEF TimerSetStatus, Call
<1>9. ASSUME NEW e \in Entries, CreatePush(e) PROVE TypeOK'
  BY <1>9 DEF CreatePush, QueuePush
<1>10. ASSUME NEW e \in Entries, ResetWrite(e) PROVE TypeOK'
  BY <1>10 DEF ResetWrite
<1>11. ASSUME NEW e \in Entries, Job(e) PROVE TypeOK'
  <2>1. CASE JobReturns(e) BY <2>1 DEF JobReturns
  <2>2. CASE JobExits(e) BY <2>2 DEF JobExits
  <2>3. CASE JobLooks(e) BY <2>3 DEF JobLooks
  <2>4. CASE JobRevives(e) BY <2>4 DEF JobRevives
  <2> QED BY <1>11, <2>1, <2>2, <2>3, <2>4 DEF Job
<1>12. ASSUME NEW e \in Entries, User(e) PROVE TypeOK'
  <2>1. CASE Create(e) BY <2>1 DEF Create
  <2>2. CASE Start(e) BY <2>2 DEF Start, Call
  <2>3. CASE Stop(e) BY <2>3 DEF Stop, Call
  <2>4. CASE Close(e) BY <2>4 DEF Close, Call
  <2>5. CASE Run(e) BY <2>5 DEF Run, RunJob, UsedUp, Call
  <2>6. CASE ResetRead(e) BY <2>6 DEF ResetRead, Call
  <2>7. CASE SetSingleton(e) BY <2>7 DEF SetSingleton, Call
  <2>8. CASE SetTimes(e) BY <2>8 DEF SetTimes, Call
  <2> QED BY <1>12, <2>1, <2>2, <2>3, <2>4, <2>5, <2>6, <2>7, <2>8 DEF User
<1>13. ASSUME UNCHANGED vars PROVE TypeOK'
  BY <1>13 DEF vars
<1> QED BY <1>1, <1>2, <1>3, <1>4, <1>5, <1>6, <1>7, <1>8, <1>9, <1>10,
           <1>11, <1>12, <1>13 DEF Next, Loop
-----------------------------------------------------------------------------
(* The steps that write each of the other variables Inv speaks of.         *)
LEMMA LoopSteps == ASSUME [Next]_vars PROVE Loop \/ UNCHANGED loopVars
BY DEF Next, vars, Job, User, JobReturns, JobExits, JobLooks, JobRevives,
       TimerSetStatus, Create, CreatePush, Start, Stop, Close, Run, ResetRead,
       ResetWrite, SetSingleton, SetTimes

LEMMA TickSteps ==
    ASSUME [Next]_vars
    PROVE  \/ UNCHANGED <<nextTicks, resetting>>
           \/ LoopCheck
           \/ \E e \in Entries : Create(e) \/ ResetRead(e) \/ ResetWrite(e)
BY DEF Next, vars, Loop, Job, User, LoopSelect, LoopAdd, LoopCompare, LoopPop,
       LoopDue, LoopPushBack, LoopStatus, LoopSingleton, LoopCas, LoopRun,
       LoopAfter, LoopPush, JobReturns, JobExits, JobLooks, JobRevives,
       TimerSetStatus, CreatePush, Start, Stop, Close, Run, SetSingleton,
       SetTimes

LEMMA MadeSteps ==
    ASSUME [Next]_vars
    PROVE  \/ UNCHANGED made
           \/ \E e \in Entries : Create(e) \/ CreatePush(e)
BY DEF Next, vars, Loop, Job, User, LoopSelect, LoopAdd, LoopCompare, LoopPop,
       LoopDue, LoopPushBack, LoopCheck, LoopStatus, LoopSingleton, LoopCas,
       LoopRun, LoopAfter, LoopPush, JobReturns, JobExits, JobLooks,
       JobRevives, TimerSetStatus, Start, Stop, Close, Run, ResetRead,
       ResetWrite, SetSingleton, SetTimes

LEMMA StatusSteps ==
    ASSUME [Next]_vars
    PROVE  \/ UNCHANGED <<status, wasClosed>>
           \/ LoopCas \/ LoopRun
           \/ \E e \in Entries : \/ JobExits(e) \/ JobRevives(e) \/ Start(e)
                                 \/ Stop(e) \/ Close(e) \/ Run(e)
BY DEF Next, vars, Loop, Job, User, LoopSelect, LoopAdd, LoopCompare, LoopPop,
       LoopDue, LoopPushBack, LoopCheck, LoopStatus, LoopSingleton, LoopAfter,
       LoopPush, JobReturns, JobLooks, TimerSetStatus, Create, CreatePush,
       ResetRead, ResetWrite, SetSingleton, SetTimes
-----------------------------------------------------------------------------
LEMMA StepInHand == ASSUME Inv, [Next]_vars PROVE InHand'
<1> USE DEF InHand, AtRest
<1>0. InHand
  BY DEF Inv
<1>1. CASE UNCHANGED loopVars
  BY <1>0, <1>1
<1>2. CASE LoopPop
  <2>1. CASE UNCHANGED cur /\ loop' = "select"
    BY <1>0, <1>2, <2>1 DEF LoopPop
  <2>2. CASE \E item \in queue : cur' = item.entry /\ loop' = "due"
    <3>1. cur' \in Entries
      BY <2>2 DEF Inv, TypeOK
    <3> QED BY <2>2, <3>1, TimerAssumption
  <2> QED BY <1>2, <2>1, <2>2 DEF LoopPop
<1>3. CASE Loop /\ ~LoopPop
  BY <1>0, <1>3
  DEF Loop, LoopSelect, LoopAdd, LoopCompare, LoopDue, LoopPushBack, LoopCheck,
      LoopStatus, LoopSingleton, AfterSingleton, LoopCas, LoopRun, LoopAfter,
      LoopPush
<1> QED BY <1>1, <1>2, <1>3, LoopSteps

LEMMA StepBounded == ASSUME Inv, [Next]_vars PROVE Bounded'
<1> USE TimerAssumption
<1>0. TypeOK /\ Bounded /\ InHand
  BY DEF Inv
<1> DEFINE Early == \A e \in Entries : /\ nextTicks'[e] <= MaxTicks + Period[e]
                                       /\ resetting'[e] <= MaxTicks
           Below == \A i \in queue' : i.priority < MaxInt64
<1>1. Early
  <2>1. CASE UNCHANGED <<nextTicks, resetting>>
    BY <1>0, <2>1 DEF Bounded
  <2>2. CASE LoopCheck
    BY <1>0, <2>2 DEF LoopCheck, NextDue, Bounded, TypeOK, InHand, AtRest
  <2>3. ASSUME NEW f \in Entries, Create(f) PROVE Early
    BY <1>0, <2>3 DEF Create, Bounded, TypeOK
  <2>4. ASSUME NEW f \in Entries, ResetRead(f) PROVE Early
    BY <1>0, <2>4 DEF ResetRead, Bounded, TypeOK
  <2>5. ASSUME NEW f \in Entries, ResetWrite(f) PROVE Early
    BY <1>0, <2>5 DEF ResetWrite, Bounded, TypeOK
  <2> QED BY <2>1, <2>2, <2>3, <2>4, <2>5, TickSteps
<1>2. Below
  <2>1. \A e \in Entries : nextTicks[e] < MaxInt64
    BY <1>0 DEF Bounded, TypeOK
  <2>2. CASE UNCHANGED queueVars
    BY <1>0, <2>2 DEF Bounded
  <2>3. CASE LoopPop
    BY <1>0, <2>3 DEF LoopPop, QueuePop, Bounded
  <2>4. CASE LoopPushBack \/ LoopPush
    BY <1>0, <2>1, <2>4
    DEF LoopPushBack, LoopPush, QueuePush, Bounded, InHand, AtRest, TypeOK
  <2>5. ASSUME NEW f \in Entries, CreatePush(f) PROVE Below
    BY <1>0, <2>1, <2>5 DEF CreatePush, QueuePush, Bounded
  <2> QED BY <2>2, <2>3, <2>4, <2>5, QueueSteps
<1>3. loop' = "add" => ticks' < MaxTicks
  BY <1>0, LoopSteps
  DEF Next, vars, Loop, LoopSelect, LoopAdd, LoopCompare, LoopPop, LoopDue,
      LoopPushBack, LoopCheck, LoopStatus, LoopSingleton, AfterSingleton,
      LoopCas, LoopRun, LoopAfter, LoopPush, Job, User, JobReturns, JobExits,
      JobLooks, JobRevives, TimerSetStatus, Create, CreatePush, Start, Stop,
      Close, Run, ResetRead, ResetWrite, SetSingleton, SetTimes, Bounded
<1> QED BY <1>1, <1>2, <1>3 DEF Bounded
-----------------------------------------------------------------------------
(* A push of a priority below MaxInt64 keeps nextPriority right.           *)
LEMMA PushHead ==
    ASSUME NextIsHead, TypeOK, Bounded, NEW e, NEW n \in Nat, n < MaxInt64,
           QueuePush(e, n)
    PROVE  NextIsHead'
<1> USE TimerAssumption DEF NextIsHead, IsHead, QueuePush, NoPriority
<1> DEFINE new == [entry |-> e, priority |-> n]
<1>1. new.priority = n /\ new \in queue' /\ queue' # {}
  BY Zenon DEF QueuePush
<1>2. CASE queue = {}
  <2>1. nextPriority' = n
    BY <1>2
  <2>2. \A j \in queue' : j.priority = n
    BY <1>1, <1>2
  <2> HIDE DEF new
  <2> QED BY <1>1, <2>1, <2>2
<1>3. CASE queue # {}
  <2>1. PICK i \in queue : i.priority = nextPriority
    BY <1>3
  <2>2. \A j \in queue : j.priority \in Nat
    BY DEF TypeOK
  <2>3. \A j \in queue' : nextPriority' <= j.priority
    BY <1>1, <1>3, <2>2 DEF TypeOK
  <2>4. \E j \in queue' : j.priority = nextPriority'
    BY <1>1, <2>1
  <2> QED BY <1>1, <2>3, <2>4
<1> QED BY <1>2, <1>3

LEMMA StepNextIsHead == ASSUME Inv, [Next]_vars PROVE NextIsHead'
<1>0. TypeOK /\ Bounded /\ InHand /\ NextIsHead
  BY DEF Inv
<1>1. \A e \in Entries : nextTicks[e] \in Nat /\ nextTicks[e] < MaxInt64
  BY <1>0, TimerAssumption DEF Bounded, TypeOK
<1>2. CASE UNCHANGED queueVars
  BY <1>0, <1>2 DEF NextIsHead, IsHead
<1>3. CASE LoopPop
  BY <1>0, <1>3 DEF LoopPop, QueuePop, NextIsHead, IsHead
<1>4. CASE LoopPushBack \/ LoopPush
  <2>1. cur \in Entries /\ QueuePush(cur, nextTicks[cur])
    BY <1>0, <1>4 DEF LoopPushBack, LoopPush, InHand, AtRest, TypeOK
  <2> QED BY <1>0, <1>1, <2>1, PushHead
<1>5. ASSUME NEW e \in Entries, CreatePush(e) PROVE NextIsHead'
  <2>1. QueuePush(e, nextTicks[e])
    BY <1>5 DEF CreatePush
  <2> QED BY <1>0, <1>1, <2>1, PushHead
<1> QED BY <1>2, <1>3, <1>4, <1>5, QueueSteps

(* Filed: what is not made is nowhere, what is closed is recorded.         *)
LEMMA StepFiled == ASSUME Inv, [Next]_vars PROVE Filed'
<1> USE TimerAssumption
<1>0. TypeOK /\ InHand /\ Filed
  BY DEF Inv
<1> DEFINE Nowhere == \A e \in Entries : made'[e] # "yes" =>
                         cur' # e /\ \A i \in queue' : i.entry # e
           Recorded == \A e \in Entries : status'[e] = "closed" => e \in wasClosed'
<1>1. Nowhere
  <2>1. ASSUME NEW f \in Entries, CreatePush(f) PROVE Nowhere
    BY <1>0, <2>1 DEF CreatePush, QueuePush, Filed, TypeOK
  <2>2. ASSUME NEW f \in Entries, Create(f) PROVE Nowhere
    BY <1>0, <2>2 DEF Create, Filed, TypeOK
  <2>3. CASE UNCHANGED made
    <3>1. ASSUME NEW e \in Entries, made[e] # "yes", NEW i \in queue'
          PROVE  i.entry # e
      BY <1>0, <2>1, <2>3, <3>1, QueueSteps
      DEF Filed, LoopPop, QueuePop, LoopPushBack, LoopPush, QueuePush, Nowhere
    <3>2. ASSUME NEW e \in Entries, made[e] # "yes" PROVE cur' # e
      BY <1>0, <2>3, <3>2, LoopSteps
      DEF Filed, Loop, LoopSelect, LoopAdd, LoopCompare, LoopPop, LoopDue,
          LoopPushBack, LoopCheck, LoopStatus, LoopSingleton, LoopCas, LoopRun,
          LoopAfter, LoopPush
    <3> QED BY <2>3, <3>1, <3>2
  <2> QED BY <2>1, <2>2, <2>3, MadeSteps
<1>2. Recorded
  <2>1. CASE UNCHANGED <<status, wasClosed>>
    BY <1>0, <2>1 DEF Filed
  <2>2. CASE LoopCas
    BY <1>0, <2>2 DEF LoopCas, Filed, TypeOK, InHand, AtRest
  <2>3. CASE LoopRun
    BY <1>0, <2>3 DEF LoopRun, RunJob, Filed, TypeOK, InHand, AtRest
  <2>4. ASSUME NEW f \in Entries,
               JobExits(f) \/ JobRevives(f) \/ Start(f) \/ Stop(f) \/ Close(f)
        PROVE  Recorded
    BY <1>0, <2>4
    DEF JobExits, JobRevives, Start, Stop, Close, Filed, TypeOK
  <2>5. ASSUME NEW f \in Entries, Run(f) PROVE Recorded
    BY <1>0, <2>5 DEF Run, RunJob, Filed, TypeOK
  <2> QED BY <2>1, <2>2, <2>3, <2>4, <2>5, StatusSteps
<1> QED BY <1>1, <1>2 DEF Filed
-----------------------------------------------------------------------------
(* Kept: once in the queue, or in the loop's hand, or closed.              *)
LEMMA PushKept ==
    ASSUME Inv, NEW e \in Entries, NEW n, QueuePush(e, n),
           \A i \in queue : i.entry # e,
           cur' \in Entries => cur' = cur /\ cur # e,
           cur \in Entries /\ cur # e => cur' = cur,
           wasClosed \subseteq wasClosed',
           \A f \in Entries : made'[f] = "yes" /\ f # e => made[f] = "yes"
    PROVE  Kept'
<1>0. TypeOK /\ Kept
  BY DEF Inv
<1> DEFINE new == [entry |-> e, priority |-> n]
<1>1. new.entry = e /\ queue' = queue \cup {new}
  BY DEF QueuePush
<1> HIDE DEF new
<1>2. \A i, j \in queue' : i.entry = j.entry => i = j
  BY <1>0, <1>1 DEF Kept
<1>3. \A i \in queue' : i.entry # cur'
  BY <1>0, <1>1 DEF Kept, TypeOK
<1>4. ASSUME NEW f \in Entries
      PROVE  \/ made'[f] # "yes" \/ cur' = f \/ f \in wasClosed'
             \/ \E i \in queue' : i.entry = f
  <2>1. CASE f = e
    BY <1>1, <2>1
  <2>2. CASE f # e
    BY <1>0, <1>1, <2>2 DEF Kept
  <2> QED BY <2>1, <2>2
<1> QED BY <1>2, <1>3, <1>4 DEF Kept

LEMMA ClosedGrows == ASSUME [Next]_vars PROVE wasClosed \subseteq wasClosed'
<1>1. CASE LoopCas \/ LoopRun
  BY <1>1 DEF LoopCas, LoopRun, RunJob
<1>2. ASSUME NEW f \in Entries,
             JobExits(f) \/ JobRevives(f) \/ Start(f) \/ Stop(f) \/ Close(f)
             \/ Run(f)
      PROVE  wasClosed \subseteq wasClosed'
  BY <1>2 DEF JobExits, JobRevives, Start, Stop, Close, Run, RunJob
<1> QED BY <1>1, <1>2, StatusSteps

LEMMA StepKept == ASSUME Inv, [Next]_vars PROVE Kept'
<1> USE TimerAssumption
<1>0. TypeOK /\ Kept /\ Filed /\ InHand /\ wasClosed \subseteq wasClosed'
  BY ClosedGrows DEF Inv
<1>1. ASSUME NEW e \in Entries, CreatePush(e) PROVE Kept'
  <2>1. cur' = cur /\ cur # e /\ \A i \in queue : i.entry # e
    BY <1>0, <1>1 DEF CreatePush, Filed
  <2>2. \A f \in Entries : made'[f] = "yes" /\ f # e => made[f] = "yes"
    BY <1>0, <1>1 DEF CreatePush, TypeOK
  <2>3. QueuePush(e, nextTicks[e])
    BY <1>1 DEF CreatePush
  <2> QED BY <1>0, <2>1, <2>2, <2>3, PushKept
<1>2. CASE LoopPushBack \/ LoopPush
  <2>1. cur \in Entries /\ cur' = NoEntry /\ made' = made
    BY <1>0, <1>2 DEF LoopPushBack, LoopPush, InHand, AtRest, TypeOK
  <2>2. \A i \in queue : i.entry # cur
    BY <1>0 DEF Kept
  <2>3. QueuePush(cur, nextTicks[cur])
    BY <1>2 DEF LoopPushBack, LoopPush
  <2> QED BY <1>0, <2>1, <2>2, <2>3, PushKept
<1>3. CASE LoopPop
  <2>1. CASE UNCHANGED <<queueVars, cur>>
    BY <1>0, <1>3, <2>1 DEF LoopPop, Kept
  <2>2. ASSUME NEW item \in queue, QueuePop(item), cur' = item.entry,
               loop = "pop"
        PROVE  Kept'
    <3>1. cur = NoEntry /\ queue' = queue \ {item} /\ made' = made
      BY <1>0, <1>3, <2>2 DEF InHand, AtRest, QueuePop, LoopPop
    <3> QED BY <1>0, <2>2, <3>1 DEF Kept
  <2> QED BY <1>3, <2>1, <2>2 DEF LoopPop
<1>4. CASE UNCHANGED queueVars /\ ~LoopPop
  <2>1. \A e \in Entries : made'[e] = "yes" => made[e] = "yes"
    <3>1. ASSUME NEW f \in Entries, Create(f)
          PROVE  \A e \in Entries : made'[e] = "yes" => made[e] = "yes"
      BY <1>0, <3>1 DEF Create, TypeOK
    <3>2. ASSUME NEW f \in Entries, CreatePush(f) PROVE FALSE
      <4>1. [entry |-> f, priority |-> nextTicks[f]] \in queue
        BY <1>4, <3>2 DEF CreatePush, QueuePush
      <4>2. \A i \in queue : i.entry # f
        BY <1>0, <3>2 DEF CreatePush, Filed
      <4> QED BY <4>1, <4>2
    <3> QED BY <3>1, <3>2, MadeSteps
  <2>2. CASE UNCHANGED loopVars
    BY <1>0, <1>4, <2>1, <2>2 DEF Kept
  <2>3. CASE LoopAfter
    <3>1. cur' = cur \/ (cur' = NoEntry /\ cur \in wasClosed)
      BY <1>0, <2>3 DEF LoopAfter, Filed, InHand, AtRest, TypeOK
    <3>2. \A i \in queue : i.entry \in Entries
      BY <1>0 DEF TypeOK
    <3> QED BY <1>0, <1>4, <2>1, <3>1, <3>2 DEF Kept
  <2>4. CASE LoopPushBack \/ LoopPush
    BY <1>2, <2>4
  <2>5. CASE Loop /\ ~LoopAfter /\ ~LoopPushBack /\ ~LoopPush
    <3>1. cur' = cur
      BY <1>4, <2>5
      DEF Loop, LoopSelect, LoopAdd, LoopCompare, LoopDue, LoopCheck,
          LoopStatus, LoopSingleton, LoopCas, LoopRun
    <3> QED BY <1>0, <1>4, <2>1, <3>1 DEF Kept
  <2> QED BY <2>2, <2>3, <2>4, <2>5, LoopSteps
<1> QED BY <1>1, <1>2, <1>3, <1>4, QueueSteps
-----------------------------------------------------------------------------
(* The invariant: fields and variables are typed, the loop's hand is       *)
(* accounted for, and the queue's parts below hold.                        *)
THEOREM TimerInvariant == Spec => []Inv
<1>1. Inv /\ [Next]_vars => Inv'
  BY StepTyped, StepInHand, StepBounded, StepNextIsHead, StepKept, StepFiled
  DEF Inv
<1> QED BY Initially, <1>1, PTL DEF Spec

(* Type correctness.                                                       *)
THEOREM TimerTyped == Spec => []TypeOK
<1>1. Inv => TypeOK
  BY DEF Inv
<1> QED BY TimerInvariant, <1>1, PTL

(* The atomic copy of the first priority, which the loop reads without the *)
(* queue's lock, is right after every push and pop of any goroutine.       *)
THEOREM TimerNextIsHead == Spec => []NextIsHead
<1>1. Inv => NextIsHead
  BY DEF Inv
<1> QED BY TimerInvariant, <1>1, PTL

(* No entry is lost or queued twice by the loop that takes it out and puts *)
(* it back: it leaves the timer only after it has been closed.             *)
THEOREM TimerKept == Spec => []Kept
<1>1. Inv => Kept
  BY DEF Inv
<1> QED BY TimerInvariant, <1>1, PTL
-----------------------------------------------------------------------------
(* Starts and the counter of a limited entry add up until it is used up.   *)
Counted ==
    \A e \in Entries : Times[e] > 0 /\ e \notin retimed =>
        /\ ~infinite[e] /\ times[e] <= Times[e] /\ invoked[e] <= Times[e]
        /\ times[e] >= 0 => invoked[e] + times[e] = Times[e]

LEMMA CountSteps ==
    ASSUME [Next]_vars
    PROVE  \/ UNCHANGED <<times, infinite, invoked, retimed>>
           \/ LoopRun
           \/ \E e \in Entries : Run(e) \/ SetTimes(e)
BY DEF Next, vars, Loop, Job, User, LoopSelect, LoopAdd, LoopCompare, LoopPop,
       LoopDue, LoopPushBack, LoopCheck, LoopStatus, LoopSingleton, LoopCas,
       LoopAfter, LoopPush, JobReturns, JobExits, JobLooks, JobRevives,
       TimerSetStatus, Create, CreatePush, Start, Stop, Close, ResetRead,
       ResetWrite, SetSingleton

LEMMA RunCounted ==
    ASSUME TypeOK, Counted, NEW e \in Entries, RunJob(e), UNCHANGED retimed
    PROVE  Counted'
<1> SUFFICES ASSUME NEW f \in Entries, Times[f] > 0, f \notin retimed
             PROVE  /\ ~infinite'[f] /\ times'[f] <= Times[f]
                    /\ invoked'[f] <= Times[f]
                    /\ times'[f] >= 0 => invoked'[f] + times'[f] = Times[f]
  BY DEF Counted
<1>1. Times[f] \in Int /\ times[f] \in Int /\ invoked[f] \in Nat
  BY TimerAssumption DEF TypeOK
<1>2. CASE f = e
  BY <1>1, <1>2 DEF RunJob, UsedUp, Counted, TypeOK
<1>3. CASE f # e
  <2>1. times'[f] = times[f] /\ invoked'[f] = invoked[f] /\ infinite' = infinite
    BY <1>3 DEF RunJob, TypeOK
  <2> QED BY <2>1 DEF Counted
<1> QED BY <1>2, <1>3

LEMMA StepCounted == ASSUME Inv, Counted, [Next]_vars PROVE Counted'
<1>0. TypeOK /\ InHand
  BY DEF Inv
<1>1. CASE UNCHANGED <<times, infinite, invoked, retimed>>
  BY <1>1 DEF Counted
<1>2. CASE LoopRun
  <2>1. cur \in Entries /\ RunJob(cur) /\ UNCHANGED retimed
    BY <1>0, <1>2 DEF LoopRun, InHand, AtRest, TypeOK
  <2> QED BY <1>0, <2>1, RunCounted
<1>3. ASSUME NEW e \in Entries, Run(e) PROVE Counted'
  BY <1>0, <1>3, RunCounted DEF Run
<1>4. ASSUME NEW e \in Entries, SetTimes(e) PROVE Counted'
  BY <1>0, <1>4 DEF SetTimes, Counted, TypeOK
<1> QED BY <1>1, <1>2, <1>3, <1>4, CountSteps

(* A job created with a limit is started at most so often, however the     *)
(* loop and the users' Run calls share the counter.                        *)
THEOREM TimerTimesKept == Spec => []TimesKept
<1>1. ASSUME Init PROVE Counted
  <2>1. ASSUME NEW e \in Entries, Times[e] > 0
        PROVE  ~infinite[e] /\ times[e] = Times[e] /\ invoked[e] = 0
    <3>1. times[e] = Times[e] /\ invoked[e] = 0
      BY <1>1, <2>1 DEF Init
    <3>2. infinite[e] = (Times[e] <= 0)
      BY <1>1, Zenon DEF Init
    <3>3. ~(Times[e] <= 0)
      BY <2>1, TimerAssumption
    <3> QED BY <3>1, <3>2, <3>3
  <2> QED BY <2>1, TimerAssumption DEF Counted
<1>2. Inv /\ Counted /\ [Next]_vars => Counted'
  BY StepCounted
<1>3. Counted => TimesKept
  BY DEF Counted, TimesKept
<1> QED BY TimerInvariant, <1>1, <1>2, <1>3, PTL DEF Spec
-----------------------------------------------------------------------------
(* An unmeddled singleton entry is ready only while no job of it is under  *)
(* way, from the loop's CAS to the last look at its status.                *)
Single ==
    \A e \in Entries : Singleton[e] /\ e \notin meddled =>
        /\ singleton[e] /\ Unfinished(e) <= 1
        /\ (loop = "run" /\ cur = e) => Unfinished(e) = 0 /\ status[e] # "ready"
        /\ status[e] = "ready" => Unfinished(e) = 0

LEMMA JobSteps ==
    ASSUME [Next]_vars
    PROVE  \/ /\ UNCHANGED <<status, singleton, jobVars, meddled>>
              /\ loop' = "run" => UNCHANGED loopVars
           \/ LoopSingleton \/ LoopCas \/ LoopRun
           \/ \E e \in Entries : \/ Job(e) \/ Start(e) \/ Stop(e) \/ Close(e)
                                 \/ Run(e) \/ SetSingleton(e)
BY DEF Next, vars, Loop, User, LoopSelect, LoopAdd, LoopCompare, LoopPop,
       LoopDue, LoopPushBack, LoopCheck, LoopStatus, LoopAfter, LoopPush,
       TimerSetStatus, Create, CreatePush, ResetRead, ResetWrite, SetTimes

LEMMA StepSingle == ASSUME Inv, Single, [Next]_vars PROVE Single'
<1>0. TypeOK /\ InHand
  BY DEF Inv
<1>1. \A e \in Entries : running[e] \in Nat /\ ending[e] \in Nat
                         /\ reviving[e] \in Nat
  BY <1>0 DEF TypeOK
<1>2. CASE UNCHANGED <<status, singleton, jobVars, meddled>>
           /\ (loop' = "run" => UNCHANGED loopVars)
  BY <1>2 DEF Single, Unfinished
<1>3. CASE LoopSingleton
  BY <1>0, <1>3
  DEF LoopSingleton, AfterSingleton, Single, Unfinished, TypeOK, InHand, AtRest
<1>4. CASE LoopCas
  BY <1>0, <1>4 DEF LoopCas, Single, Unfinished, TypeOK, InHand, AtRest
<1>5. CASE LoopRun
  BY <1>0, <1>5, <1>1
  DEF LoopRun, RunJob, Single, Unfinished, TypeOK, InHand, AtRest
<1>6. ASSUME NEW e \in Entries, Job(e) PROVE Single'
  <2>1. CASE JobReturns(e)
    BY <1>0, <1>1, <2>1 DEF JobReturns, Single, Unfinished, TypeOK
  <2>2. CASE JobExits(e)
    BY <1>0, <1>1, <2>2 DEF JobExits, Single, Unfinished, TypeOK
  <2>3. CASE JobLooks(e)
    BY <1>0, <1>1, <2>3 DEF JobLooks, Single, Unfinished, TypeOK
  <2>4. CASE JobRevives(e)
    BY <1>0, <1>1, <2>4 DEF JobRevives, Single, Unfinished, TypeOK
  <2> QED BY <1>6, <2>1, <2>2, <2>3, <2>4 DEF Job
<1>7. ASSUME NEW e \in Entries, Start(e) \/ Stop(e) \/ Close(e) PROVE Single'
  BY <1>0, <1>7 DEF Start, Stop, Close, Single, Unfinished, TypeOK
<1>8. ASSUME NEW e \in Entries, Run(e) PROVE Single'
  BY <1>0, <1>1, <1>8 DEF Run, RunJob, Single, Unfinished, TypeOK
<1>9. ASSUME NEW e \in Entries, SetSingleton(e) PROVE Single'
  BY <1>0, <1>9 DEF SetSingleton, Single, Unfinished, TypeOK
<1> QED BY <1>2, <1>3, <1>4, <1>5, <1>6, <1>7, <1>8, <1>9, JobSteps

(* At most one job of a singleton entry is being executed, through all     *)
(* orders of the loop's status read, CAS and start with the ending of the  *)
(* job, Stop, Close and Exit.                                              *)
THEOREM TimerOneSingleton == Spec => []OneSingleton
<1>1. ASSUME Init PROVE Single
  <2>1. \A e \in Entries : Singleton[e] => singleton[e]
    BY <1>1 DEF Init
  <2>2. \A e \in Entries : Unfinished(e) = 0
    <3>1. \A e \in Entries : Unfinished(e) = 0 + 0 + 0
      BY <1>1, Zenon DEF Init, Unfinished
    <3>2. 0 + 0 + 0 = 0
      OBVIOUS
    <3> QED BY <3>1, <3>2, Zenon
  <2>3. loop # "run"
    BY <1>1 DEF Init
  <2> QED BY <2>1, <2>2, <2>3 DEF Single
<1>2. Inv /\ Single /\ [Next]_vars => Single'
  BY StepSingle
<1>3. Inv /\ Single => OneSingleton
  BY DEF Inv, TypeOK, Single, OneSingleton, Unfinished
<1> QED BY TimerInvariant, <1>1, <1>2, <1>3, PTL DEF Spec
-----------------------------------------------------------------------------
(* What the loop has started is due an interval later, and what it is      *)
(* about to start was last started an interval ago.                        *)
Paced ==
    \A e \in Entries :
        /\ resetting[e] # Nothing => e \in reset
        /\ lastRun[e] # Nothing => made[e] = "yes" /\ lastRun[e] <= ticks
        /\ e \notin reset /\ lastRun[e] # Nothing =>
              lastRun[e] + Period[e] <= nextTicks[e]
        /\ loop \in {"status", "singleton", "cas", "run"} /\ cur = e
              /\ e \notin reset =>
              /\ nextTicks[e] = ticks + Period[e]
              /\ lastRun[e] # Nothing => lastRun[e] + Period[e] <= ticks

LEMMA PaceSteps ==
    ASSUME [Next]_vars
    PROVE  \/ /\ UNCHANGED <<ticks, made, nextTicks, resetting, lastRun, reset>>
              /\ loop' \in {"status", "singleton", "cas", "run"} =>
                    /\ cur' = cur
                    /\ loop \in {"status", "singleton", "cas", "run"}
           \/ LoopAdd \/ LoopCheck \/ LoopRun
           \/ \E e \in Entries : \/ Create(e) \/ CreatePush(e)
                                 \/ ResetRead(e) \/ ResetWrite(e)
BY DEF Next, vars, Loop, Job, User, LoopSelect, LoopCompare, LoopPop, LoopDue,
       LoopPushBack, LoopStatus, LoopSingleton, AfterSingleton, LoopCas,
       LoopAfter, LoopPush, JobReturns, JobExits, JobLooks, JobRevives,
       TimerSetStatus, Start, Stop, Close, Run, SetSingleton, SetTimes

LEMMA StepPaced == ASSUME Inv, Paced, [Next]_vars PROVE Paced'
<1>0. TypeOK /\ InHand /\ Filed
  BY DEF Inv
<1> USE TimerAssumption DEF TypeOK
<1>1. CASE /\ UNCHANGED <<ticks, made, nextTicks, resetting, lastRun, reset>>
           /\ loop' \in {"status", "singleton", "cas", "run"} =>
                 /\ cur' = cur
                 /\ loop \in {"status", "singleton", "cas", "run"}
  BY <1>1 DEF Paced
<1>2. CASE LoopAdd
  BY <1>0, <1>2 DEF LoopAdd, Paced
<1>3. CASE LoopCheck
  BY <1>0, <1>3 DEF LoopCheck, NextDue, Paced, InHand, AtRest
<1>4. CASE LoopRun
  <2>1. cur \in Entries /\ made[cur] = "yes"
    BY <1>0, <1>4 DEF LoopRun, InHand, AtRest, Filed
  <2>2. /\ loop = "run" /\ loop' = "after" /\ cur' = cur
        /\ UNCHANGED <<ticks, made, nextTicks, resetting, reset>>
        /\ lastRun' = lastRun \/ lastRun' = [lastRun EXCEPT ![cur] = ticks]
    BY <1>4 DEF LoopRun
  <2> QED BY <1>0, <2>1, <2>2 DEF Paced
<1>5. ASSUME NEW e \in Entries, Create(e) PROVE Paced'
  <2>1. cur # e
    BY <1>0, <1>5 DEF Create, Filed
  <2> QED BY <1>0, <1>5, <2>1 DEF Create, Paced
<1>6. ASSUME NEW e \in Entries, CreatePush(e) PROVE Paced'
  BY <1>0, <1>6 DEF CreatePush, Paced
<1>7. ASSUME NEW e \in Entries, ResetRead(e) PROVE Paced'
  BY <1>0, <1>7 DEF ResetRead, Paced
<1>8. ASSUME NEW e \in Entries, ResetWrite(e) PROVE Paced'
  BY <1>0, <1>8 DEF ResetWrite, Paced
<1> QED BY <1>1, <1>2, <1>3, <1>4, <1>5, <1>6, <1>7, <1>8, PaceSteps

LEMMA InitPaced == Init => Paced
<1> SUFFICES ASSUME Init, NEW e \in Entries
             PROVE  resetting[e] = Nothing /\ lastRun[e] = Nothing
                    /\ loop = "select"
  BY DEF Paced
<1> QED BY DEF Init

(* The loop starts a job again only when its interval has passed since it  *)
(* last did, whatever the clock and the users do in between, but for Reset.*)
THEOREM TimerSpaced == Spec => Spaced
<1> DEFINE Apart == LoopRun /\ running' # running /\ lastRun[cur] # Nothing
                       /\ cur \notin reset => ticks >= lastRun[cur] + Period[cur]
<1>1. Inv /\ Paced => Apart
  BY TimerAssumption DEF Inv, TypeOK, InHand, AtRest, Paced, LoopRun
<1>2. Inv /\ Paced /\ [Next]_vars => Paced'
  BY StepPaced
<1> QED BY TimerInvariant, InitPaced, <1>1, <1>2, PTL DEF Spec, Spaced
-----------------------------------------------------------------------------
(* Without Reset a priority is its entry's ticks, so when the item proceed *)
(* has popped is not due, none that has run before is.                     *)
Ahead == \A i \in queue : lastRun[i.entry] # Nothing => i.priority > ticks
Punctual ==
    reset = {} =>
        /\ \A i \in queue : i.priority = nextTicks[i.entry]
        /\ loop = "select" => Ahead
        /\ loop = "due" /\ ticks < nextTicks[cur] => Ahead
        /\ loop = "pushBack" => Ahead /\ ticks < nextTicks[cur]

LEMMA PunctualSteps ==
    ASSUME [Next]_vars
    PROVE  \/ UNCHANGED <<ticks, queueVars, loopVars, nextTicks, lastRun, reset>>
           \/ Loop
           \/ \E e \in Entries : \/ Create(e) \/ CreatePush(e)
                                 \/ ResetRead(e) \/ ResetWrite(e)
BY DEF Next, vars, Job, User, JobReturns, JobExits, JobLooks, JobRevives,
       TimerSetStatus, Start, Stop, Close, Run, SetSingleton, SetTimes

LEMMA StepPunctual ==
    ASSUME Inv, Paced, Punctual, [Next]_vars PROVE Punctual'
<1>0. TypeOK /\ InHand /\ Filed /\ Kept /\ NextIsHead
  BY DEF Inv
<1>00. \A i \in queue : i.entry \in Entries /\ i.priority \in Nat
  BY <1>0 DEF TypeOK
<1> USE TimerAssumption DEF Punctual, Ahead
<1>1. CASE UNCHANGED <<ticks, queueVars, loopVars, nextTicks, lastRun, reset>>
  BY <1>1
<1>2. CASE LoopSelect \/ LoopAdd \/ LoopStatus \/ LoopSingleton \/ LoopCas
           \/ LoopAfter
  BY <1>2 DEF LoopSelect, LoopAdd, LoopStatus, LoopSingleton, AfterSingleton,
              LoopCas, LoopAfter
<1>3. CASE LoopCompare
  <2>1. ticks < nextPriority => \A i \in queue : i.priority > ticks
    BY <1>0, <1>00 DEF TypeOK, NextIsHead, IsHead
  <2> QED BY <1>0, <1>3, <2>1 DEF LoopCompare, TypeOK
<1>4. CASE LoopPop
  <2>1. CASE queue = {} /\ UNCHANGED <<queueVars, cur>> /\ loop' = "select"
    BY <1>4, <2>1 DEF LoopPop
  <2>2. ASSUME NEW item \in queue, QueuePop(item), cur' = item.entry,
               loop' = "due"
        PROVE  Punctual'
    <3>1. \A i \in queue' : i \in queue /\ item.priority <= i.priority
      BY <2>2 DEF QueuePop
    <3>2. UNCHANGED <<ticks, nextTicks, lastRun, reset>>
      BY <1>4 DEF LoopPop
    <3> QED BY <1>0, <1>00, <2>2, <3>1, <3>2 DEF TypeOK
  <2> QED BY <1>4, <2>1, <2>2 DEF LoopPop
<1>5. CASE LoopDue
  BY <1>5 DEF LoopDue
<1>6. CASE LoopPushBack \/ LoopPush
  <2>1. QueuePush(cur, nextTicks[cur]) /\ cur \in Entries
    BY <1>0, <1>6 DEF LoopPushBack, LoopPush, InHand, AtRest, TypeOK
  <2> DEFINE new == [entry |-> cur, priority |-> nextTicks[cur]]
  <2>2. new.entry = cur /\ new.priority = nextTicks[cur]
        /\ queue' = queue \cup {new}
    BY <2>1 DEF QueuePush
  <2> HIDE DEF new
  <2>3. UNCHANGED <<ticks, nextTicks, lastRun, reset>>
        /\ (loop' = "pop" \/ (loop = "pushBack" /\ loop' = "select"))
    BY <1>6 DEF LoopPushBack, LoopPush
  <2> QED BY <1>0, <2>1, <2>2, <2>3 DEF TypeOK
<1>7. CASE LoopCheck
  <2>1. \A i \in queue : i.entry # cur
    BY <1>0 DEF Kept
  <2>2. UNCHANGED <<queue, reset>> /\ loop' \notin {"select", "due", "pushBack"}
        /\ \A e \in Entries : e # cur => nextTicks'[e] = nextTicks[e]
    BY <1>0, <1>7 DEF LoopCheck, TypeOK
  <2> QED BY <1>00, <2>1, <2>2
<1>8. CASE LoopRun
  BY <1>8 DEF LoopRun
<1>9. ASSUME NEW e \in Entries, Create(e) PROVE Punctual'
  <2>1. cur # e /\ \A i \in queue : i.entry # e
    BY <1>0, <1>9 DEF Create, Filed
  <2>2. UNCHANGED <<ticks, queue, loop, cur, lastRun, reset>>
        /\ \A f : f # e /\ f \in Entries => nextTicks'[f] = nextTicks[f]
    BY <1>0, <1>9 DEF Create, TypeOK
  <2>3. loop \in {"due", "pushBack"} => cur \in Entries
    BY <1>0 DEF InHand, AtRest, TypeOK
  <2> QED BY <1>00, <2>1, <2>2, <2>3
<1>10. ASSUME NEW e \in Entries, CreatePush(e) PROVE Punctual'
  <2> DEFINE new == [entry |-> e, priority |-> nextTicks[e]]
  <2>1. new.entry = e /\ new.priority = nextTicks[e]
        /\ queue' = queue \cup {new}
    BY <1>10 DEF CreatePush, QueuePush
  <2> HIDE DEF new
  <2>2. lastRun[e] = Nothing
    BY <1>10 DEF CreatePush, Paced
  <2>3. UNCHANGED <<ticks, loop, cur, nextTicks, lastRun, reset>>
    BY <1>10 DEF CreatePush
  <2> QED BY <2>1, <2>2, <2>3
<1>11. ASSUME NEW e \in Entries, ResetRead(e) \/ ResetWrite(e)
       PROVE  Punctual'
  <2>1. reset' # {}
    BY <1>11 DEF ResetRead, ResetWrite, Paced
  <2> QED BY <2>1
<1> QED BY <1>1, <1>2, <1>3, <1>4, <1>5, <1>6, <1>7, <1>8, <1>9, <1>10, <1>11,
           PunctualSteps DEF Loop

(* While nobody resets an entry, a tick that is over has left none behind  *)
(* that was due in it and had run before.                                  *)
THEOREM TimerOnTime == Spec => []OnTime
<1>1. Init => Punctual
  BY DEF Init, Punctual, Ahead
<1>2. Inv /\ Paced /\ [Next]_vars => Paced'
  BY StepPaced
<1>3. Inv /\ Paced /\ Punctual /\ [Next]_vars => Punctual'
  BY StepPunctual
<1>4. Punctual => OnTime
  BY DEF Punctual, Ahead, OnTime
<1> QED BY TimerInvariant, InitPaced, <1>1, <1>2, <1>3, <1>4, PTL DEF Spec
=============================================================================
