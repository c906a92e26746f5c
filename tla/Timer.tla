-------------------------------- MODULE Timer --------------------------------
(***************************************************************************)
(* gtimer.Timer: a goroutine that, once per tick, takes the due entries    *)
(* out of a priority queue, starts their jobs on goroutines of their own,  *)
(* and puts the entries back.  The users' calls on timer and entries, the  *)
(* ends of the jobs and the loop meet in atomic variables only, so each    *)
(* atomic access of the loop and of an ending job is a step of its own.    *)
(*                                                                         *)
(* The heap is a set of items of which Pop takes one of least priority.    *)
(***************************************************************************)
EXTENDS Integers

CONSTANTS Entries,   \* the jobs, each created at most once
          Period,    \* Entry.ticks of each: its interval in ticks
          Times,     \* the `times' each is created with; <= 0 is "no limit"
          Singleton, \* the isSingleton each is created with
          FirstStatus, \* the status each is created with
          Quick,     \* TimerOptions.Quick
          MaxInt64,  \* math.MaxInt64, the priority of an empty queue
          MaxTicks,  \* bound: the clock stops here
          MaxCalls,  \* bound: calls made on entries and timer by users
          MaxJobs    \* bound: no entry is due with this many jobs unfinished

NoEntry == "none"
Status == {"ready", "running", "stopped", "closed"}

ASSUME TimerAssumption ==
    /\ Period \in [Entries -> Nat \ {0}]
    /\ Times \in [Entries -> Int]
    /\ Singleton \in [Entries -> BOOLEAN]
    /\ FirstStatus \in [Entries -> Status]
    /\ Quick \in BOOLEAN
    /\ MaxTicks \in Nat /\ MaxCalls \in Nat /\ MaxJobs \in Nat \ {0}
    /\ MaxInt64 \in Nat
    /\ \A e \in Entries : MaxTicks + Period[e] < MaxInt64
    /\ NoEntry \notin Entries

VARIABLES
    ticks, tstatus,        \* t.ticks and t.status
    queue, nextPriority,   \* the heap's items and q.nextPriority
    loop, cur,             \* where the loop is, and the entry in its hand
    made,                  \* createEntry of each: "no", "pushing", "yes"
    status, times, infinite, singleton, nextTicks,  \* fields of the entries
    resetting,             \* Reset of each: the ticks it has read, or Nothing
    running,               \* how many jobs of each are being executed
    ending,                \* how many have finished and not looked at status
    reviving,              \* how many have seen StatusRunning
    calls,                 \* bound: user calls so far
    invoked,               \* history: how often each limited job was started
    lastRun,               \* history: the tick at which the loop last did so
    meddled,               \* history: entries a user called Start or Run on
    reset, retimed,        \* history: entries Reset / SetTimes was called on
    wasClosed,             \* history: entries that have been closed
    final                  \* history: closed by Close or Exit and not set since

timerVars == <<ticks, tstatus>>
queueVars == <<queue, nextPriority>>
loopVars == <<loop, cur>>
fieldVars == <<times, infinite, singleton>>
jobVars == <<running, ending, reviving>>
runVars == <<invoked, lastRun>>
userVars == <<calls, meddled, reset, retimed, resetting>>
closeVars == <<wasClosed, final>>
vars == <<timerVars, queueVars, loopVars, made, status, nextTicks, fieldVars,
          jobVars, runVars, userVars, closeVars>>

Nothing == -1
(* nextPriority of an empty queue. *)
NoPriority == MaxInt64
Unfinished(e) == running[e] + ending[e] + reviving[e]

Init ==
    /\ ticks = 0 /\ tstatus = "running"
    /\ queue = {} /\ nextPriority = NoPriority
    /\ loop = "select" /\ cur = NoEntry
    /\ made = [e \in Entries |-> "no"]
    /\ status = FirstStatus
    /\ times = Times
    /\ infinite = [e \in Entries |-> Times[e] <= 0]
    /\ singleton = Singleton
    /\ nextTicks = [e \in Entries |-> 0]
    /\ resetting = [e \in Entries |-> Nothing]
    /\ running = [e \in Entries |-> 0]
    /\ ending = [e \in Entries |-> 0]
    /\ reviving = [e \in Entries |-> 0]
    /\ calls = 0
    /\ invoked = [e \in Entries |-> 0]
    /\ lastRun = [e \in Entries |-> Nothing]
    /\ meddled = {} /\ reset = {} /\ retimed = {}
    /\ wasClosed = {e \in Entries : FirstStatus[e] = "closed"}
    /\ final = {}
-----------------------------------------------------------------------------
(* priorityQueue.Push *)
QueuePush_KeepsNext(e, priority) ==
    /\ queue' = queue \cup {[entry |-> e, priority |-> priority]}
    /\ nextPriority' = IF queue = {} THEN priority ELSE nextPriority
QueuePush(e, priority) ==
    /\ queue' = queue \cup {[entry |-> e, priority |-> priority]}
    /\ nextPriority' = IF priority < nextPriority THEN priority ELSE nextPriority

(* p is what an atomic copy of the heap's first priority should be. *)
IsHead(p, items) ==
    IF items = {} THEN p = NoPriority
    ELSE /\ \E i \in items : i.priority = p
         /\ \A i \in items : p <= i.priority

(* priorityQueue.Pop of a queue that is not empty. *)
QueuePop_Stale(item) ==
    /\ \A i \in queue : item.priority <= i.priority
    /\ queue' = queue \ {item}
    /\ nextPriority' = item.priority
QueuePop(item) ==
    /\ \A i \in queue : item.priority <= i.priority
    /\ queue' = queue \ {item}
    /\ \E p \in {i.priority : i \in queue'} \cup {NoPriority} :
          IsHead(p, queue') /\ nextPriority' = p
-----------------------------------------------------------------------------
(* createEntry reads the ticks, and pushes the entry later. *)
Create(e) ==
    /\ made[e] = "no"
    /\ made' = [made EXCEPT ![e] = "pushing"]
    /\ nextTicks' = [nextTicks EXCEPT ![e] =
                        IF Quick THEN ticks ELSE ticks + Period[e]]
    /\ UNCHANGED <<timerVars, queueVars, loopVars, status, fieldVars, jobVars,
                   runVars, userVars, closeVars>>

CreatePush(e) ==
    /\ made[e] = "pushing"
    /\ QueuePush(e, nextTicks[e])
    /\ made' = [made EXCEPT ![e] = "yes"]
    /\ UNCHANGED <<timerVars, loopVars, status, nextTicks, fieldVars, jobVars,
                   runVars, userVars, closeVars>>
-----------------------------------------------------------------------------
(* Entry.Run, which starts the goroutine or closes an entry that has used  *)
(* up its times; its reads and writes of infinite, times and status are    *)
(* taken together.                                                         *)
UsedUp_Late(e) == ~infinite[e] /\ times[e] - 1 < -1
UsedUp(e) == ~infinite[e] /\ times[e] - 1 < 0

RunJob(e) ==
    /\ times' = [times EXCEPT ![e] = IF infinite[e] THEN @ ELSE @ - 1]
    /\ IF UsedUp(e)
       THEN /\ status' = [status EXCEPT ![e] = "closed"]
            /\ wasClosed' = wasClosed \cup {e}
            /\ UNCHANGED <<running, invoked>>
       ELSE /\ running' = [running EXCEPT ![e] = @ + 1]
            /\ invoked' = [invoked EXCEPT ![e] =
                              IF infinite[e] THEN @ ELSE @ + 1]
            /\ UNCHANGED <<status, wasClosed>>
    /\ UNCHANGED <<infinite, singleton, ending, reviving, final>>

(* The job returns. *)
JobReturns(e) ==
    /\ running[e] > 0
    /\ running' = [running EXCEPT ![e] = @ - 1]
    /\ ending' = [ending EXCEPT ![e] = @ + 1]
    /\ UNCHANGED <<timerVars, queueVars, loopVars, made, status, nextTicks,
                   fieldVars, reviving, runVars, userVars, closeVars>>

(* The job calls Exit: the recovered panic closes the entry. *)
JobExits(e) ==
    /\ running[e] > 0
    /\ running' = [running EXCEPT ![e] = @ - 1]
    /\ status' = [status EXCEPT ![e] = "closed"]
    /\ wasClosed' = wasClosed \cup {e}
    /\ final' = final \cup {e}
    /\ UNCHANGED <<timerVars, queueVars, loopVars, made, nextTicks, fieldVars,
                   ending, reviving, runVars, userVars>>

(* if entry.Status() == StatusRunning *)
JobLooks(e) ==
    /\ ending[e] > 0
    /\ ending' = [ending EXCEPT ![e] = @ - 1]
    /\ reviving' = [reviving EXCEPT ![e] =
                       IF status[e] = "running" THEN @ + 1 ELSE @]
    /\ UNCHANGED <<timerVars, queueVars, loopVars, made, status, nextTicks,
                   fieldVars, running, runVars, userVars, closeVars>>

(* entry.SetStatus(StatusReady), whatever the status has become since. *)
JobRevives(e) ==
    /\ reviving[e] > 0
    /\ reviving' = [reviving EXCEPT ![e] = @ - 1]
    /\ status' = [status EXCEPT ![e] = "ready"]
    /\ UNCHANGED <<timerVars, queueVars, loopVars, made, nextTicks, fieldVars,
                   running, ending, runVars, userVars, closeVars>>
-----------------------------------------------------------------------------
(* The loop.  Each tick first looks at the timer's status; a stopped timer *)
(* lets the tick pass.                                                     *)
LoopSelect ==
    /\ loop = "select" /\ ticks < MaxTicks
    /\ \/ tstatus = "running" /\ loop' = "add"
       \/ tstatus = "closed" /\ loop' = "exited"
    /\ UNCHANGED <<timerVars, queueVars, cur, made, status, nextTicks,
                   fieldVars, jobVars, runVars, userVars, closeVars>>

LoopAdd ==
    /\ loop = "add"
    /\ ticks' = ticks + 1
    /\ loop' = "compare"
    /\ UNCHANGED <<tstatus, queueVars, cur, made, status, nextTicks,
                   fieldVars, jobVars, runVars, userVars, closeVars>>

(* currentTimerTicks >= t.queue.NextPriority() *)
LoopCompare ==
    /\ loop = "compare"
    /\ loop' = IF ticks >= nextPriority THEN "pop" ELSE "select"
    /\ UNCHANGED <<timerVars, queueVars, cur, made, status, nextTicks,
                   fieldVars, jobVars, runVars, userVars, closeVars>>

(* proceed: t.queue.Pop() *)
LoopPop ==
    /\ loop = "pop"
    /\ \/ /\ queue = {}
          /\ loop' = "select"
          /\ UNCHANGED <<queueVars, cur>>
       \/ \E item \in queue :
             /\ QueuePop(item)
             /\ cur' = item.entry
             /\ loop' = "due"
    /\ UNCHANGED <<timerVars, made, status, nextTicks, fieldVars, jobVars,
                   runVars, userVars, closeVars>>

(* Not due (its ticks were reset): put back, and proceed ends. *)
LoopDue ==
    /\ loop = "due"
    /\ loop' = IF ticks < nextTicks[cur] THEN "pushBack" ELSE "check"
    /\ UNCHANGED <<timerVars, queueVars, cur, made, status, nextTicks,
                   fieldVars, jobVars, runVars, userVars, closeVars>>

LoopPushBack_Drops ==
    /\ loop = "pushBack"
    /\ loop' = "select" /\ cur' = NoEntry
    /\ UNCHANGED <<timerVars, queueVars, made, status, nextTicks, fieldVars,
                   jobVars, runVars, userVars, closeVars>>
LoopPushBack ==
    /\ loop = "pushBack"
    /\ QueuePush(cur, nextTicks[cur])
    /\ loop' = "select" /\ cur' = NoEntry
    /\ UNCHANGED <<timerVars, made, status, nextTicks, fieldVars, jobVars,
                   runVars, userVars, closeVars>>

NextDue_Now == ticks
NextDue == ticks + Period[cur]

(* doCheckAndRunByTicks: the second look at nextTicks, and its new value.  *)
(* (A Reset between the two would write the same value.)                   *)
LoopCheck ==
    /\ loop = "check"
    /\ IF ticks < nextTicks[cur]
       THEN loop' = "after" /\ UNCHANGED nextTicks
       ELSE loop' = "status" /\ nextTicks' = [nextTicks EXCEPT ![cur] = NextDue]
    /\ UNCHANGED <<timerVars, queueVars, cur, made, status, fieldVars,
                   jobVars, runVars, userVars, closeVars>>

(* switch entry.status.Val() *)
LoopStatus ==
    /\ loop = "status"
    /\ \/ status[cur] = "running" /\ loop' = "singleton"
       \/ status[cur] = "ready" /\ loop' = "cas"
       \/ status[cur] \in {"stopped", "closed"} /\ loop' = "after"
    /\ UNCHANGED <<timerVars, queueVars, cur, made, status, nextTicks,
                   fieldVars, jobVars, runVars, userVars, closeVars>>

AfterSingleton_Ignored == "run"
AfterSingleton == IF singleton[cur] THEN "after" ELSE "run"

LoopSingleton ==
    /\ loop = "singleton"
    /\ loop' = AfterSingleton
    /\ UNCHANGED <<timerVars, queueVars, cur, made, status, nextTicks,
                   fieldVars, jobVars, runVars, userVars, closeVars>>

LoopCas ==
    /\ loop = "cas"
    /\ IF status[cur] = "ready"
       THEN loop' = "run" /\ status' = [status EXCEPT ![cur] = "running"]
       ELSE loop' = "after" /\ UNCHANGED status
    /\ UNCHANGED <<timerVars, queueVars, cur, made, nextTicks, fieldVars,
                   jobVars, runVars, userVars, closeVars>>

LoopRun ==
    /\ loop = "run" /\ Unfinished(cur) < MaxJobs
    /\ RunJob(cur)
    /\ lastRun' = IF UsedUp(cur) THEN lastRun
                  ELSE [lastRun EXCEPT ![cur] = ticks]
    /\ loop' = "after"
    /\ UNCHANGED <<timerVars, queueVars, cur, made, nextTicks, userVars>>

(* A closed entry is dropped, any other goes back into the queue. *)
LoopAfter ==
    /\ loop = "after"
    /\ IF status[cur] = "closed"
       THEN loop' = "pop" /\ cur' = NoEntry
       ELSE loop' = "push" /\ UNCHANGED cur
    /\ UNCHANGED <<timerVars, queueVars, made, status, nextTicks, fieldVars,
                   jobVars, runVars, userVars, closeVars>>

LoopPush ==
    /\ loop = "push"
    /\ QueuePush(cur, nextTicks[cur])
    /\ loop' = "pop" /\ cur' = NoEntry
    /\ UNCHANGED <<timerVars, made, status, nextTicks, fieldVars, jobVars,
                   runVars, userVars, closeVars>>

Loop == \/ LoopSelect \/ LoopAdd \/ LoopCompare \/ LoopPop \/ LoopDue
        \/ LoopPushBack \/ LoopCheck \/ LoopStatus \/ LoopSingleton \/ LoopCas
        \/ LoopRun \/ LoopAfter \/ LoopPush
-----------------------------------------------------------------------------
(* The users' calls. *)
Call == calls < MaxCalls /\ calls' = calls + 1

TimerSetStatus(s) ==
    /\ Call /\ tstatus' = s
    /\ UNCHANGED <<ticks, queueVars, loopVars, made, status, nextTicks,
                   fieldVars, jobVars, runVars, meddled, reset, retimed,
                   resetting, closeVars>>

Start(e) ==
    /\ Call /\ made[e] = "yes"
    /\ status' = [status EXCEPT ![e] = "ready"]
    /\ meddled' = meddled \cup {e}
    /\ final' = final \ {e}
    /\ UNCHANGED <<timerVars, queueVars, loopVars, made, nextTicks, fieldVars,
                   jobVars, runVars, reset, retimed, resetting, wasClosed>>

Stop(e) ==
    /\ Call /\ made[e] = "yes"
    /\ status' = [status EXCEPT ![e] = "stopped"]
    /\ final' = final \ {e}
    /\ UNCHANGED <<timerVars, queueVars, loopVars, made, nextTicks, fieldVars,
                   jobVars, runVars, meddled, reset, retimed, resetting,
                   wasClosed>>

Close(e) ==
    /\ Call /\ made[e] = "yes"
    /\ status' = [status EXCEPT ![e] = "closed"]
    /\ wasClosed' = wasClosed \cup {e}
    /\ final' = final \cup {e}
    /\ UNCHANGED <<timerVars, queueVars, loopVars, made, nextTicks, fieldVars,
                   jobVars, runVars, meddled, reset, retimed, resetting>>

Run(e) ==
    /\ Call /\ made[e] = "yes" /\ Unfinished(e) < MaxJobs
    /\ RunJob(e)
    /\ meddled' = meddled \cup {e}
    /\ UNCHANGED <<timerVars, queueVars, loopVars, made, nextTicks, lastRun,
                   reset, retimed, resetting>>

(* Reset reads the timer's ticks and writes nextTicks later.  The priority *)
(* of an item already in the queue does not change.                        *)
ResetRead(e) ==
    /\ Call /\ made[e] = "yes" /\ resetting[e] = Nothing
    /\ resetting' = [resetting EXCEPT ![e] = ticks]
    /\ reset' = reset \cup {e}
    /\ UNCHANGED <<timerVars, queueVars, loopVars, made, status, nextTicks,
                   fieldVars, jobVars, runVars, meddled, retimed, closeVars>>

ResetWrite(e) ==
    /\ resetting[e] # Nothing
    /\ nextTicks' = [nextTicks EXCEPT ![e] = resetting[e] + Period[e]]
    /\ resetting' = [resetting EXCEPT ![e] = Nothing]
    /\ UNCHANGED <<timerVars, queueVars, loopVars, made, status, fieldVars,
                   jobVars, runVars, calls, meddled, reset, retimed, closeVars>>

SetSingleton(e) ==
    /\ Call /\ made[e] = "yes"
    /\ singleton' = [singleton EXCEPT ![e] = ~@]
    /\ meddled' = meddled \cup {e}
    /\ UNCHANGED <<timerVars, queueVars, loopVars, made, status, nextTicks,
                   times, infinite, jobVars, runVars, reset, retimed,
                   resetting, closeVars>>

SetTimes(e) ==
    /\ Call /\ made[e] = "yes"
    /\ times' = [times EXCEPT ![e] = 1]
    /\ infinite' = [infinite EXCEPT ![e] = FALSE]
    /\ retimed' = retimed \cup {e}
    /\ UNCHANGED <<timerVars, queueVars, loopVars, made, status, nextTicks,
                   singleton, jobVars, runVars, meddled, reset, resetting,
                   closeVars>>

Job(e) == JobReturns(e) \/ JobExits(e) \/ JobLooks(e) \/ JobRevives(e)
User(e) == \/ Create(e) \/ Start(e) \/ Stop(e) \/ Close(e) \/ Run(e)
           \/ ResetRead(e) \/ SetSingleton(e) \/ SetTimes(e)

Next ==
    \/ Loop
    \/ \E s \in {"running", "stopped", "closed"} : TimerSetStatus(s)
    \/ \E e \in Entries : CreatePush(e) \/ ResetWrite(e) \/ Job(e) \/ User(e)

Spec == Init /\ [][Next]_vars

(* The loop's goroutine and its ticker run, and a job that has returned is *)
(* cleaned up.  Whether a job ever returns is up to the user.              *)
FairSpec ==
    /\ Spec
    /\ WF_vars(Loop)
    /\ \A e \in Entries : WF_vars(JobLooks(e)) /\ WF_vars(JobRevives(e))
-----------------------------------------------------------------------------
TypeOK ==
    /\ ticks \in 0..MaxTicks
    /\ tstatus \in {"running", "stopped", "closed"}
    /\ queue \subseteq [entry : Entries, priority : Nat]
    /\ nextPriority \in Nat
    /\ loop \in {"select", "add", "compare", "pop", "due", "pushBack", "check",
                 "status", "singleton", "cas", "run", "after", "push", "exited"}
    /\ cur \in Entries \cup {NoEntry}
    /\ made \in [Entries -> {"no", "pushing", "yes"}]
    /\ status \in [Entries -> Status]
    /\ times \in [Entries -> Int] /\ infinite \in [Entries -> BOOLEAN]
    /\ singleton \in [Entries -> BOOLEAN] /\ nextTicks \in [Entries -> Nat]
    /\ resetting \in [Entries -> Nat \cup {Nothing}]
    /\ running \in [Entries -> Nat] /\ ending \in [Entries -> Nat]
    /\ reviving \in [Entries -> Nat] /\ calls \in 0..MaxCalls
    /\ invoked \in [Entries -> Nat] /\ lastRun \in [Entries -> Nat \cup {Nothing}]
    /\ meddled \subseteq Entries /\ reset \subseteq Entries
    /\ retimed \subseteq Entries /\ wasClosed \subseteq Entries
    /\ final \subseteq Entries

(* The atomic the loop reads without the queue's lock is the priority of   *)
(* the heap's first item, through all pushes of other goroutines.          *)
NextIsHead == IsHead(nextPriority, queue)

(* An entry is in the queue once, or in the loop's hand; it leaves only    *)
(* after it has been closed.                                               *)
Kept ==
    /\ \A i, j \in queue : i.entry = j.entry => i = j
    /\ \A i \in queue : i.entry # cur
    /\ \A e \in Entries :
          \/ made[e] # "yes" \/ cur = e \/ e \in wasClosed
          \/ \E i \in queue : i.entry = e

(* AddEntry's comment on singleton jobs, where nobody calls Start, Run or  *)
(* SetSingleton on the entry: at most one of it is being executed.         *)
OneSingleton ==
    \A e \in Entries : Singleton[e] /\ e \notin meddled => running[e] <= 1

(* AddEntry's comment on times: the job is never started more often, also  *)
(* when Run is called beside the loop (SetTimes starts a new count).       *)
TimesKept ==
    \A e \in Entries :
        Times[e] > 0 /\ e \notin retimed => invoked[e] <= Times[e]

(* The loop does not start a job again before its interval has passed      *)
(* (unless its ticks are reset).                                           *)
Spaced ==
    [][LoopRun /\ running' # running /\ lastRun[cur] # Nothing
          /\ cur \notin reset => ticks >= lastRun[cur] + Period[cur]]_vars

(* A tick leaves no entry behind that was due in it and has run before     *)
(* (a new one may have been pushed too late for the tick, and a reset one, *)
(* met first, makes proceed break off).                                    *)
OnTime ==
    loop = "select" /\ reset = {} =>
        \A i \in queue : lastRun[i.entry] # Nothing => i.priority > ticks

(* proceed comes to an end: it does not meet the same entries again and    *)
(* again (unless it reaches the bound on jobs).                            *)
ProceedEnds ==
    (loop = "pop") ~> \/ loop = "select"
                      \/ loop = "run" /\ Unfinished(cur) = MaxJobs

(* Close's comment: the job is closed, and then removed from the timer.    *)
(* Nobody but a user's Start brings it back.                               *)
ClosedStaysClosed == \A e \in final : status[e] = "closed"
=============================================================================
