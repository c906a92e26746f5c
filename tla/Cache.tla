-------------------------------- MODULE Cache --------------------------------
(***************************************************************************)
(* gcache.AdapterMemory: a map of items with an expire time each.  Users'  *)
(* calls change the map under its lock and afterwards push an event; a     *)
(* singleton job of the default timer, started every second (the sweeper), *)
(* takes the events into books of its own -- the expire second of each     *)
(* key, the set of keys of each second, the LRU list -- evicts what        *)
(* exceeds the capacity, and deletes what has expired.                     *)
(*                                                                         *)
(* The lists of events and of gets hold their read lock only in PushBack,  *)
(* so that two users' pushes can be under way at the same time and tear    *)
(* the list (TornList); a push is two steps, the beginning and the end.    *)
(* The sweeper's PopFront waits for all of them.                           *)
(*                                                                         *)
(* Values are left out: only when and why an item is there is modelled.    *)
(***************************************************************************)
EXTENDS Integers, Sequences, FiniteSets, TornList

CONSTANTS Users, Keys,
          Batchers,    \* bound: those of the users whose calls also take
                       \* several keys
          Durations,   \* what the calls ask for; 0 is "never expires"
          Caps,        \* the capacities New may get; 0 is "no limit"
          Second,      \* milliseconds per second
          LookBack,    \* how many seconds a sweep looks back (5)
          Shift,       \* how far back Remove dates its events (1000000)
          Never,       \* defaultMaxExpire
          FirstNow,    \* the clock when the cache is made
          MaxNow,      \* bound: the clock stops here
          MaxCalls     \* bound: calls that change the map or look into it

ASSUME CacheAssumption ==
    /\ Caps \subseteq Nat
    /\ Second \in Nat \ {0} /\ LookBack \in Nat \ {0}
    /\ MaxNow \in Nat /\ FirstNow \in 0..MaxNow /\ MaxCalls \in Nat
    /\ Shift \in 0..FirstNow /\ Shift > LookBack * Second
    /\ Durations \subseteq {d \in Int : d >= -FirstNow /\ MaxNow + d < Never}
    /\ Never \in Nat /\ MaxNow < Never

VARIABLES
    cap, now,
    data,        \* c.data: the expire time of each key in the map
    events,      \* c.eventList
    gets,        \* c.lruGetList
    torn,        \* of these two lists, those in which two pushes overlapped
    times,       \* c.expireTimes
    sets,        \* c.expireSets, as pairs of a second and a key
    raw,         \* lru.rawList
    lru, index,  \* lru.list, front first, and the keys of lru.data
    lruClosed, closed,
    sweeper,     \* where syncEventAndClearExpired is
    left,        \* the seconds its sweep has before it
    op,          \* where each user's call is
    calls,       \* bound: calls so far
    misled,      \* history: keys with an event that may not be the map's:
                 \* two calls on the key at the same time, a failing f, or
                 \* an event in the list when it was torn
    late         \* history: keys whose second was already out of the window
                 \* when a sweep came

listVars == <<events, gets, torn>>
bookVars == <<times, sets>>
lruVars == <<raw, lru, index>>
closeVars == <<lruClosed, closed>>
sweepVars == <<sweeper, left, late>>
userVars == <<op, calls, misled>>
vars == <<cap, now, data, listVars, bookVars, lruVars, closeVars,
          sweepVars, userVars>>

Idle == [at |-> "idle", keys |-> {}, e |-> 0]

Init ==
    /\ cap \in Caps /\ now = FirstNow
    /\ data = <<>> /\ events = <<>> /\ gets = <<>> /\ torn = {}
    /\ times = <<>> /\ sets = {}
    /\ raw = <<>> /\ lru = <<>> /\ index = {}
    /\ lruClosed = FALSE /\ closed = FALSE
    /\ sweeper = "idle" /\ left = {} /\ late = {}
    /\ op = [u \in Users |-> Idle] /\ calls = 0 /\ misled = {}

(* Maps: f with the keys of ks mapped to v; f without ks. *)
With(f, ks, v) == [k \in DOMAIN f \cup ks |-> IF k \in ks THEN v ELSE f[k]]
Without(f, ks) == [k \in DOMAIN f \ ks |-> f[k]]

(* makeExpireKey: the first full second after a time. *)
Bucket(e) == (e \div Second + 1) * Second

Expired(k) == data[k] < now
Live(k) == k \in DOMAIN data /\ ~Expired(k)

(* getInternalExpire *)
ExpireTime(d) == IF d = 0 THEN Never ELSE now + d

Tick ==
    /\ now < MaxNow /\ now' = now + 1
    /\ UNCHANGED <<cap, data, listVars, bookVars, lruVars, closeVars,
                   sweepVars, userVars>>
-----------------------------------------------------------------------------
(* The users' calls.  A call begins with one access to the map.            *)
(* The keys for which calls that have begun will still push events.        *)
Changing ==
    UNION {op[u].keys : u \in {v \in Users :
                                   op[v].at \in {"push", "link", "set"}}}

Begin(u, ks) ==
    /\ op[u] = Idle /\ calls < MaxCalls /\ calls' = calls + 1
    /\ misled' = misled \cup (ks \cap Changing)

Goes(u, at, ks, e) ==
    op' = [op EXCEPT ![u] = IF ks = {} THEN Idle
                            ELSE [at |-> at, keys |-> ks, e |-> e]]

(* Set, SetMap: the map first, the events later. *)
Set(u, ks, d) ==
    /\ Begin(u, ks)
    /\ data' = With(data, ks, ExpireTime(d))
    /\ Goes(u, "push", ks, ExpireTime(d))
    /\ UNCHANGED <<cap, now, listVars, bookVars, lruVars, closeVars,
                   sweepVars>>

UpdateExpire(u, k, d) ==
    /\ Begin(u, {k}) /\ k \in DOMAIN data
    /\ data' = With(data, {k}, ExpireTime(d))
    /\ Goes(u, "push", {k}, ExpireTime(d))
    /\ UNCHANGED <<cap, now, listVars, bookVars, lruVars, closeVars,
                   sweepVars>>

(* Remove: an event dated back for each key that was there. *)
Remove(u, ks) ==
    /\ Begin(u, ks)
    /\ data' = Without(data, ks)
    /\ Goes(u, "push", ks \cap DOMAIN data, now - Shift)
    /\ UNCHANGED <<cap, now, listVars, bookVars, lruVars, closeVars,
                   sweepVars>>

(* Is a push to the list of events (at "link") or to the list of gets (at  *)
(* "mark") under way?  One that begins meanwhile tears the list.           *)
Pushing(at) == \E u \in Users : op[u].at = at
PushBegins(list, at) == torn' = IF Pushing(at) THEN torn \cup {list} ELSE torn

KeysOf(list) == {list[i].k : i \in DOMAIN list}

PushEvent(u) ==
    /\ op[u].at = "push"
    /\ op' = [op EXCEPT ![u].at = "link"]
    /\ PushBegins("events", "link")
    /\ UNCHANGED <<cap, now, data, events, gets, bookVars, lruVars, closeVars,
                   sweepVars, calls, misled>>

LinkEvent_Skipped(u) ==
    /\ op[u].at = "link"
    /\ op' = [op EXCEPT ![u] = Idle]
    /\ UNCHANGED <<cap, now, data, listVars, bookVars, lruVars, closeVars,
                   sweepVars, calls, misled>>
LinkEvent(u) ==
    /\ op[u].at = "link"
    /\ \E k \in op[u].keys :
          LET event == [k |-> k, e |-> op[u].e] IN
          /\ Goes(u, "push", op[u].keys \ {k}, op[u].e)
          /\ misled' = IF "events" \in torn
                       THEN misled \cup {k} \cup KeysOf(events) ELSE misled
          /\ events' \in Linked(events, event, Append(events, event),
                                "events" \in torn)
    /\ UNCHANGED <<cap, now, data, gets, torn, bookVars, lruVars, closeVars,
                   sweepVars, calls>>

(* Get, Contains, and what SetIfNotExist* and GetOrSet* begin with: a hit  *)
(* goes to the LRU's history, after a miss the setters go on.              *)
Get(u, k) ==
    /\ Live(k) /\ cap > 0
    /\ Begin(u, {}) /\ Goes(u, "touch", {k}, 0)
    /\ UNCHANGED <<cap, now, data, listVars, bookVars, lruVars, closeVars,
                   sweepVars>>

Touch(u) ==
    /\ op[u].at = "touch"
    /\ op' = [op EXCEPT ![u].at = "mark"]
    /\ PushBegins("gets", "mark")
    /\ UNCHANGED <<cap, now, data, events, gets, bookVars, lruVars, closeVars,
                   sweepVars, calls, misled>>

Mark(u) ==
    /\ op[u].at = "mark"
    /\ op' = [op EXCEPT ![u] = Idle]
    /\ \E k \in op[u].keys :
          gets' \in Linked(gets, k, Append(gets, k), "gets" \in torn)
    /\ UNCHANGED <<cap, now, data, events, torn, bookVars, lruVars, closeVars,
                   sweepVars, calls, misled>>

Miss(u, k) ==
    /\ ~Live(k)
    /\ Begin(u, {k}) /\ Goes(u, "set", {k}, 0)
    /\ UNCHANGED <<cap, now, data, listVars, bookVars, lruVars, closeVars,
                   sweepVars>>

(* doSetWithLockCheck: an item that has come in between is kept; the event *)
(* is pushed in any case.                                                  *)
DoSetWithLockCheck(u, d) ==
    /\ op[u].at = "set"
    /\ data' = With(data, {k \in op[u].keys : ~Live(k)}, ExpireTime(d))
    /\ Goes(u, "push", op[u].keys, ExpireTime(d))
    /\ UNCHANGED <<cap, now, listVars, bookVars, lruVars, closeVars,
                   sweepVars, calls, misled>>

(* doSetWithFuncLockCheck: sets what f gives, without a second look; the   *)
(* event is pushed also when f has failed and nothing was set.             *)
DoSetWithFuncLockCheck(u, d) ==
    /\ op[u].at = "set"
    /\ \/ data' = With(data, op[u].keys, ExpireTime(d)) /\ UNCHANGED misled
       \/ misled' = misled \cup op[u].keys /\ UNCHANGED data
    /\ Goes(u, "push", op[u].keys, ExpireTime(d))
    /\ UNCHANGED <<cap, now, listVars, bookVars, lruVars, closeVars,
                   sweepVars, calls>>

Clear(u) ==
    /\ Begin(u, Keys) /\ data # <<>>
    /\ data' = <<>>
    /\ UNCHANGED <<cap, now, listVars, bookVars, lruVars, closeVars,
                   sweepVars, op>>

(* Close: the LRU, if there is one, then the cache. *)
CloseLru ==
    /\ ~lruClosed /\ calls < MaxCalls
    /\ lruClosed' = (cap > 0) /\ closed' = (cap = 0)
    /\ calls' = calls + 1
    /\ UNCHANGED <<cap, now, data, listVars, bookVars, lruVars, sweepVars,
                   op, misled>>

CloseCache ==
    /\ lruClosed /\ ~closed
    /\ closed' = TRUE
    /\ UNCHANGED <<cap, now, data, listVars, bookVars, lruVars, lruClosed,
                   sweepVars, userVars>>
-----------------------------------------------------------------------------
(* The sweeper.  The timer starts it once a second, but may be late, and a *)
(* run may take any time: it starts and goes on whenever it does.  Nobody  *)
(* else sees its books.                                                    *)
AtStart_Unasked == "events"
AtStart == IF closed THEN "exited" ELSE "events"

SweepStart ==
    /\ sweeper = "idle"
    /\ sweeper' = AtStart
    /\ UNCHANGED <<cap, now, data, listVars, bookVars, lruVars, closeVars,
                   left, late, userVars>>

(* An event moves its key to the set of its new second. *)
Moved_KeepsOld(k, old, new) == sets \cup {<<new, k>>}
Moved(k, old, new) == (sets \ {<<old, k>>}) \cup {<<new, k>>}

SyncEvent ==
    /\ sweeper = "events" /\ events # <<>> /\ ~Pushing("link")
    /\ LET k == Head(events).k
           new == Bucket(Head(events).e)
           old == IF k \in DOMAIN times THEN times[k] ELSE 0
       IN /\ sets' = IF new = old THEN sets ELSE Moved(k, old, new)
          /\ times' = With(times, {k}, new)
          /\ raw' = IF cap > 0 THEN Append(raw, k) ELSE raw
    /\ events' = Tail(events)
    /\ torn' = IF Tail(events) = <<>> THEN torn \ {"events"} ELSE torn
    /\ UNCHANGED <<cap, now, data, gets, lru, index, closeVars, sweepVars,
                   userVars>>

SyncEventsEnd ==
    /\ sweeper = "events" /\ events = <<>> /\ ~Pushing("link")
    /\ sweeper' = IF cap > 0 THEN "gets" ELSE "raw"
    /\ UNCHANGED <<cap, now, data, listVars, bookVars, lruVars, closeVars,
                   left, late, userVars>>

(* The gets, if the list's Size() is not 0, until there is none.  The      *)
(* count can be wrong for good once two pushes have overlapped.            *)
SyncGet ==
    /\ sweeper \in {"gets", "more"} /\ gets # <<>> /\ ~Pushing("mark")
    /\ raw' = Append(raw, Head(gets)) /\ gets' = Tail(gets)
    /\ sweeper' = "more"
    /\ UNCHANGED <<cap, now, data, events, torn, bookVars, lru, index,
                   closeVars, left, late, userVars>>

(* SyncAndClear looks whether the LRU is closed. *)
SyncGetsEnd ==
    /\ \/ sweeper = "gets" /\ (gets = <<>> \/ "gets" \in torn)
       \/ sweeper = "more" /\ gets = <<>> /\ ~Pushing("mark")
    /\ sweeper' = IF lruClosed THEN "exited" ELSE "raw"
    /\ UNCHANGED <<cap, now, data, listVars, bookVars, lruVars, closeVars,
                   left, late, userVars>>

(* list.Remove takes the first element with the value. *)
Unlisted(list, k) ==
    IF \A i \in DOMAIN list : list[i] # k THEN list
    ELSE LET first == CHOOSE i \in DOMAIN list :
                          list[i] = k /\ \A j \in 1..i - 1 : list[j] # k
         IN SubSeq(list, 1, first - 1) \o SubSeq(list, first + 1, Len(list))

(* lru.list without a key, if lru.data has it. *)
LruWithout(k) == IF k \in index THEN Unlisted(lru, k) ELSE lru

PushedFront_Twice(k) == <<k>> \o lru
PushedFront(k) == <<k>> \o LruWithout(k)

(* The raw list's first key comes to the front. *)
SyncRaw ==
    /\ sweeper = "raw" /\ raw # <<>>
    /\ lru' = PushedFront(Head(raw))
    /\ index' = index \cup {Head(raw)}
    /\ raw' = Tail(raw)
    /\ UNCHANGED <<cap, now, data, listVars, bookVars, closeVars,
                   sweepVars, userVars>>

(* clearByKey(key, true) for the key at the back, while there are too many *)
Evict ==
    /\ sweeper = "raw" /\ raw = <<>>
    /\ Cardinality(index) > cap /\ lru # <<>>
    /\ LET k == lru[Len(lru)]
       IN /\ lru' = SubSeq(lru, 1, Len(lru) - 1)
          /\ index' = index \ {k}
          /\ data' = Without(data, {k})
          /\ times' = Without(times, {k})
    /\ UNCHANGED <<cap, now, listVars, sets, raw, closeVars, sweepVars,
                   userVars>>

(* The seconds to clean up: those just before the next full one. *)
LookedAt_Next == {Bucket(now) - i * Second : i \in 0..LookBack - 1}
LookedAt == {Bucket(now) - i * Second : i \in 1..LookBack}

(* An item whose second is already before them. *)
Missed(k) == LET second == Bucket(data[k]) IN
    <<second, k>> \in sets /\ second < Bucket(now) - LookBack * Second

Look ==
    /\ sweeper = "raw" /\ raw = <<>>
    /\ Cardinality(index) <= cap \/ lru = <<>>
    /\ sweeper' = "sweep"
    /\ left' = LookedAt
    /\ late' = late \cup {k \in DOMAIN data : Missed(k)}
    /\ UNCHANGED <<cap, now, data, listVars, bookVars, lruVars, closeVars,
                   userVars>>

(* clearByKey for a key of their sets; a set that is done is deleted. *)
Cleared(k) == {j \in {k} \cap DOMAIN data : Expired(j)}

SweepKey ==
    /\ sweeper = "sweep"
    /\ \E pair \in sets :
          LET k == pair[2] IN
          /\ pair[1] \in left
          /\ sets' = sets \ {pair}
          /\ data' = Without(data, Cleared(k))
          /\ times' = Without(times, {k})
          /\ lru' = LruWithout(k)
          /\ index' = index \ {k}
    /\ UNCHANGED <<cap, now, listVars, raw, closeVars, sweepVars, userVars>>

SweepEnd ==
    /\ sweeper = "sweep" /\ \A pair \in sets : pair[1] \notin left
    /\ sweeper' = "idle" /\ left' = {}
    /\ UNCHANGED <<cap, now, data, listVars, bookVars, lruVars, closeVars,
                   late, userVars>>

Sweeper == \/ SweepStart \/ SyncEvent \/ SyncEventsEnd \/ SyncGet
           \/ SyncGetsEnd \/ SyncRaw \/ Evict \/ Look \/ SweepKey
           \/ SweepEnd

(* Set has one key; SetMap and Remove have several. *)
Batches(u) == {ks \in SUBSET Keys : \/ Cardinality(ks) = 1
                                    \/ u \in Batchers /\ ks # {}}

Call(u) ==
    \/ \E ks \in Batches(u) : \/ Remove(u, ks)
                             \/ \E d \in Durations : Set(u, ks, d)
    \/ \E k \in Keys : Get(u, k) \/ Miss(u, k)
                       \/ \E d \in Durations : UpdateExpire(u, k, d)
    \/ Clear(u)

GoOn(u) ==
    \/ PushEvent(u) \/ LinkEvent(u) \/ Touch(u) \/ Mark(u)
    \/ \E d \in Durations : \/ DoSetWithLockCheck(u, d)
                            \/ DoSetWithFuncLockCheck(u, d)

Next == Tick \/ CloseLru \/ CloseCache \/ Sweeper
        \/ \E u \in Users : Call(u) \/ GoOn(u)

Spec == Init /\ [][Next]_vars

(* Time goes on, the timer runs the sweeper, and calls that have begun go  *)
(* on.                                                                     *)
FairSpec ==
    /\ Spec /\ WF_vars(Tick) /\ WF_vars(Sweeper)
    /\ \A u \in Users : WF_vars(GoOn(u))
-----------------------------------------------------------------------------
(* Types, and times within 0 .. Never: no time computed is before the      *)
(* epoch or after "never".                                                 *)
IsMap(f, max) == DOMAIN f \subseteq Keys /\ f \in [DOMAIN f -> 0..max]

TypeOK ==
    /\ cap \in Caps /\ now \in Nat /\ torn \subseteq {"events", "gets"}
    /\ IsMap(data, Never) /\ IsMap(times, Never + Second)
    /\ events \in Seq([k : Keys, e : 0..Never])
    /\ sets \subseteq Int \X Keys /\ left \subseteq Int
    /\ gets \in Seq(Keys) /\ raw \in Seq(Keys) /\ lru \in Seq(Keys)
    /\ index \subseteq Keys /\ misled \subseteq Keys /\ late \subseteq Keys
    /\ lruClosed \in BOOLEAN /\ closed \in BOOLEAN
    /\ sweeper \in {"idle", "events", "gets", "more", "raw", "sweep",
                   "exited"}
    /\ op \in [Users -> [at : {"idle", "push", "link", "touch", "mark", "set"},
                         keys : SUBSET Keys, e : 0..Never]]
    /\ calls \in 0..MaxCalls

(* The two indexes of expire times agree: the second noted for a key has   *)
(* it in its set, and without an LRU (whose evictions forget the second    *)
(* only) no other second has.                                              *)
BooksAgree ==
    /\ \A k \in DOMAIN times : <<times[k], k>> \in sets
    /\ cap = 0 => \A pair \in sets : /\ pair[2] \in DOMAIN times
                                     /\ times[pair[2]] = pair[1]

(* The LRU's index is the set of its list's keys, each there once, and a   *)
(* run of the sweeper leaves at most cap of them.                          *)
LruBooks ==
    /\ index = {lru[i] : i \in DOMAIN lru}
    /\ \A i, j \in DOMAIN lru : lru[i] = lru[j] => i = j
    /\ sweeper \in {"idle", "sweep"} /\ cap > 0 => Len(lru) <= cap

(* Every item has its deletion before it, whatever the order in which      *)
(* calls, synchronization, eviction and sweeps meet: its call has not      *)
(* pushed the event yet, or the last event of the key has its expire time, *)
(* or the key is in the set of the second it expires in.  Excepted, by     *)
(* misled, are keys with two calls at the same time, which may push their  *)
(* events in the wrong order; those of a failing f, which pushes one for   *)
(* an item that is not there; and those with an event in a list that two   *)
(* overlapping pushes have torn, which may be lost or displaced.           *)
LastEvent(k) == CHOOSE i \in DOMAIN events :
                    events[i].k = k /\ \A j \in DOMAIN events :
                                           events[j].k = k => j <= i
Scheduled ==
    \A k \in DOMAIN data \ misled :
        \/ k \in Changing
        \/ IF \E i \in DOMAIN events : events[i].k = k
           THEN events[LastEvent(k)].e = data[k]
           ELSE <<Bucket(data[k]), k>> \in sets

(* Expired items leave the map, as long as the cache is open: again and    *)
(* again there is none -- but for keys whose events were in disorder       *)
(* (misled), and for those whose second had left the window of the sweep   *)
(* before a sweep came (late), as sweeps and calls may be delayed.         *)
ExpiredLeave ==
    []<>(\/ lruClosed \/ closed
         \/ \A k \in DOMAIN data : Expired(k) => k \in misled \cup late)

(* A closed cache's job leaves the timer. *)
CloseEndsSweeper == closed ~> sweeper = "exited"

(* The comment on cap: what exceeds it goes, by the LRU.  After a run of   *)
(* the sweeper that has seen all calls, the map has at most cap items.     *)
Quiet == /\ sweeper = "idle" /\ events = <<>> /\ gets = <<>>
         /\ \A u \in Users : op[u] = Idle
CapHolds == Quiet /\ cap > 0 => Cardinality(DOMAIN data) <= cap
=============================================================================
