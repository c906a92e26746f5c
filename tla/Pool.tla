--------------------------------- MODULE Pool ---------------------------------
(***************************************************************************)
(* gpool.Pool: a list of reusable values with a time to live.  Users Put,  *)
(* Get, Clear and Close; a singleton job of the default timer, started     *)
(* every second (the checker), destroys what has expired and, once the     *)
(* pool is closed, everything.  There is no lock over a whole operation:   *)
(* the flag, the clock and the list are each accessed in a step of its     *)
(* own.                                                                    *)
(*                                                                         *)
(* The list's PushBack and PushFront hold its read lock only, so that two  *)
(* can be under way at the same time and tear the list (TornList); each is *)
(* two steps, the beginning and the end.  PopFront and Clear wait for all  *)
(* of them and are single steps.  A value popped and given to ExpireFunc   *)
(* is destroyed in the step that pops it, as nobody else can see it any    *)
(* more.                                                                   *)
(***************************************************************************)
EXTENDS Integers, Sequences, TornList

CONSTANTS Putters,      \* goroutines that call Put
          Getters,      \* goroutines that call Get
          TTLs,         \* the times to live New may get; 0 is "for ever", a
                        \* negative one "immediate expired after use"
          MaxPuts,      \* bound: how many values are put in all
          FirstNow,     \* the clock when the pool is made
          MaxNow        \* bound: the clock stops here

ASSUME PoolAssumption ==
    /\ TTLs \subseteq {t \in Int : t > -FirstNow}
    /\ MaxPuts \in Nat /\ FirstNow \in Nat \ {0} /\ MaxNow \in Nat

VARIABLES
    ttl, expireFunc,   \* p.TTL, and whether p.ExpireFunc is set
    now,               \* the clock
    closed,            \* p.closed
    list,              \* p.list, front first
    put,               \* each Put: where it is and its item
    get,               \* each Get: where it is and the item in its hand
    clearing,          \* is a Clear in the loop that destroys the items?
    checker,           \* where checkExpireItems is
    stamp,             \* checker: timestampMilli
    hand,              \* checker: <<item>> between PopFront and PushFront
    values,            \* history: how many values have been put
    given, destroyed, dropped,  \* history: where the values went
    early,             \* history: the values whose Put ended before Close
    torn,              \* two pushes have overlapped in the list
    lost               \* history: the values such pushes have unlinked

poolVars == <<ttl, expireFunc>>
listVars == <<list, torn, lost>>
checkVars == <<checker, stamp, hand>>
outVars == <<given, destroyed, dropped>>
vars == <<poolVars, now, closed, listVars, put, get, clearing, checkVars,
          values, outVars, early>>

Values == 1..MaxPuts
Item == [value : Values, expireAt : Nat]
Idle == [at |-> "idle", item |-> <<>>]

Init ==
    /\ ttl \in TTLs /\ expireFunc \in BOOLEAN
    /\ now = FirstNow /\ closed = FALSE /\ list = <<>>
    /\ put = [p \in Putters |-> Idle] /\ get = [g \in Getters |-> Idle]
    /\ clearing = FALSE
    /\ checker = "idle" /\ stamp = 0 /\ hand = <<>>
    /\ values = 0
    /\ given = {} /\ destroyed = {} /\ dropped = {} /\ early = {}
    /\ torn = FALSE /\ lost = {}

Tick ==
    /\ now < MaxNow /\ now' = now + 1
    /\ UNCHANGED <<poolVars, closed, listVars, put, get, clearing, checkVars,
                   values, outVars, early>>

(* A value leaves the pool for good: to ExpireFunc, if there is one. *)
Destroy(v) ==
    /\ destroyed' = IF expireFunc THEN destroyed \cup {v} ELSE destroyed
    /\ dropped' = IF expireFunc THEN dropped ELSE dropped \cup {v}
    /\ UNCHANGED given

(* The condition of Get and of the checker. *)
Fresh_OneLonger(item, t) == item.expireAt >= t
Fresh(item, t) == item.expireAt > t
-----------------------------------------------------------------------------
(* The list.  A push is under way; one begins, and one ends; one item is   *)
(* taken out at the front.                                                 *)
Writing == checker = "link" \/ \E p \in Putters : put[p].at = "link"
ValuesOf(items) == {items[i].value : i \in DOMAIN items}

PushBegins == torn' = (torn \/ Writing) /\ UNCHANGED <<list, lost>>
PushEnds(item, pushed) ==
    /\ list' \in Linked(list, item, pushed, torn)
    /\ lost' = lost \cup (ValuesOf(pushed) \ ValuesOf(list'))
    /\ UNCHANGED torn
PopFront ==
    /\ ~Writing /\ list # <<>>
    /\ list' = Tail(list)
    /\ torn' = (torn /\ Tail(list) # <<>>)
    /\ UNCHANGED lost

(* Put: the flag; the item and its time (no later than the clock goes);    *)
(* PushBack.                                                               *)
PutCheck(p) ==
    /\ put[p].at = "idle" /\ ~closed
    /\ put' = [put EXCEPT ![p].at = "stamp"]
    /\ UNCHANGED <<poolVars, now, closed, listVars, get, clearing, checkVars,
                   values, outVars, early>>

ExpireAt == IF ttl = 0 THEN 0 ELSE now + ttl

PutStamp(p) ==
    /\ put[p].at = "stamp" /\ values < MaxPuts /\ now + ttl <= MaxNow
    /\ values' = values + 1
    /\ put' = [put EXCEPT ![p] =
                  [at |-> "push",
                   item |-> <<[value |-> values + 1, expireAt |-> ExpireAt]>>]]
    /\ UNCHANGED <<poolVars, now, closed, listVars, get, clearing, checkVars,
                   outVars, early>>

PutPush(p) ==
    /\ put[p].at = "push"
    /\ put' = [put EXCEPT ![p].at = "link"]
    /\ PushBegins
    /\ UNCHANGED <<poolVars, now, closed, get, clearing, checkVars, values,
                   outVars, early>>

PutLink(p) ==
    /\ put[p].at = "link"
    /\ PushEnds(put[p].item[1], list \o put[p].item)
    /\ early' = IF closed THEN early ELSE early \cup {put[p].item[1].value}
    /\ put' = [put EXCEPT ![p] = Idle]
    /\ UNCHANGED <<poolVars, now, closed, get, clearing, checkVars, values,
                   outVars>>
-----------------------------------------------------------------------------
(* Get: while the pool is not closed, the first item that is not expired.  *)
(* A closed or empty pool gives a value of NewFunc or an error, neither of *)
(* which is the pool's.                                                    *)
GetCall(g) ==
    /\ get[g].at = "idle" /\ ~closed
    /\ get' = [get EXCEPT ![g].at = "pop"]
    /\ UNCHANGED <<poolVars, now, closed, listVars, put, clearing, checkVars,
                   values, outVars, early>>

GetCheck(g) ==
    /\ get[g].at = "check"
    /\ get' = [get EXCEPT ![g].at = IF closed THEN "idle" ELSE "pop"]
    /\ UNCHANGED <<poolVars, now, closed, listVars, put, clearing, checkVars,
                   values, outVars, early>>

GetPop(g) ==
    /\ get[g].at = "pop" /\ ~Writing
    /\ IF list = <<>>
       THEN get' = [get EXCEPT ![g] = Idle] /\ UNCHANGED listVars
       ELSE /\ get' = [get EXCEPT ![g] =
                          [at |-> "decide", item |-> <<Head(list)>>]]
            /\ PopFront
    /\ UNCHANGED <<poolVars, now, closed, put, clearing, checkVars, values,
                   outVars, early>>

GetDecide(g) ==
    LET item == get[g].item[1] IN
    /\ get[g].at = "decide"
    /\ IF item.expireAt = 0 \/ Fresh(item, now)
       THEN /\ given' = given \cup {item.value}
            /\ get' = [get EXCEPT ![g] = Idle]
            /\ UNCHANGED <<destroyed, dropped>>
       ELSE /\ Destroy(item.value)
            /\ get' = [get EXCEPT ![g] = [at |-> "check", item |-> <<>>]]
    /\ UNCHANGED <<poolVars, now, closed, listVars, put, clearing, checkVars,
                   values, early>>
-----------------------------------------------------------------------------
Close ==
    /\ ~closed /\ closed' = TRUE
    /\ UNCHANGED <<poolVars, now, listVars, put, get, clearing, checkVars,
                   values, outVars, early>>

(* Clear with an ExpireFunc pops and destroys until the list is empty. *)
ClearCall ==
    /\ expireFunc /\ ~clearing
    /\ clearing' = TRUE
    /\ UNCHANGED <<poolVars, now, closed, listVars, put, get, checkVars,
                   values, outVars, early>>

ClearPop ==
    /\ clearing /\ ~Writing
    /\ IF list = <<>>
       THEN clearing' = FALSE /\ UNCHANGED <<listVars, outVars>>
       ELSE /\ Destroy(Head(list).value) /\ PopFront
            /\ UNCHANGED clearing
    /\ UNCHANGED <<poolVars, now, closed, put, get, checkVars, values,
                   early>>

(* Without one, it clears the list. *)
ClearList ==
    /\ ~expireFunc /\ ~Writing
    /\ list' = <<>> /\ torn' = FALSE
    /\ dropped' = dropped \cup ValuesOf(list)
    /\ UNCHANGED <<poolVars, now, closed, lost, put, get, clearing, checkVars,
                   values, given, destroyed, early>>
-----------------------------------------------------------------------------
(* checkExpireItems: what a run of the job begins with.  The job of a      *)
(* closed pool leaves the timer (gtimer.Exit), at once if there is no      *)
(* ExpireFunc.                                                             *)
CheckerTask_TTLFirst ==
    IF ttl = 0 THEN "idle"
    ELSE IF closed THEN IF expireFunc THEN "drain" ELSE "exited"
    ELSE "sweep"
CheckerTask ==
    IF closed THEN IF expireFunc THEN "drain" ELSE "exited"
    ELSE IF ttl = 0 THEN "idle"
    ELSE "sweep"

CheckerStart ==
    /\ checker = "idle"
    /\ checker' = CheckerTask
    /\ stamp' = IF CheckerTask = "sweep" THEN now ELSE stamp
    /\ UNCHANGED <<poolVars, now, closed, listVars, put, get, clearing, hand,
                   values, outVars, early>>

CheckerDrain ==
    /\ checker = "drain" /\ ~Writing
    /\ IF list = <<>>
       THEN checker' = "exited" /\ UNCHANGED <<listVars, outVars>>
       ELSE /\ Destroy(Head(list).value) /\ PopFront
            /\ UNCHANGED checker
    /\ UNCHANGED <<poolVars, now, closed, put, get, clearing, stamp, hand,
                   values, early>>

CheckerSweep_OneTooMany ==
    /\ checker = "sweep" /\ PopFront
    /\ Destroy(Head(list).value)
    /\ checker' = IF Fresh(Head(list), stamp) THEN "idle" ELSE "sweep"
    /\ UNCHANGED <<poolVars, now, closed, put, get, clearing, stamp, hand,
                   values, early>>
(* The first item is taken out; it is destroyed, or put back at the front  *)
(* by PushFront, which ends the run.                                       *)
CheckerSweep ==
    /\ checker = "sweep" /\ PopFront
    /\ IF Fresh(Head(list), stamp)
       THEN /\ hand' = <<Head(list)>> /\ checker' = "return"
            /\ UNCHANGED outVars
       ELSE Destroy(Head(list).value) /\ UNCHANGED <<hand, checker>>
    /\ UNCHANGED <<poolVars, now, closed, put, get, clearing, stamp, values,
                   early>>

CheckerSweepEnd ==
    /\ checker = "sweep" /\ ~Writing /\ list = <<>>
    /\ checker' = "idle"
    /\ UNCHANGED <<poolVars, now, closed, listVars, put, get, clearing, stamp,
                   hand, values, outVars, early>>

Returned_Lost == list
Returned == hand \o list

CheckerPush ==
    /\ checker = "return"
    /\ checker' = "link"
    /\ PushBegins
    /\ UNCHANGED <<poolVars, now, closed, put, get, clearing, stamp, hand,
                   values, outVars, early>>

CheckerReturn ==
    /\ checker = "link"
    /\ PushEnds(hand[1], Returned)
    /\ hand' = <<>> /\ checker' = "idle"
    /\ UNCHANGED <<poolVars, now, closed, put, get, clearing, stamp, values,
                   outVars, early>>

PutEnd(p) == PutPush(p) \/ PutLink(p)
Put(p) == PutCheck(p) \/ PutStamp(p) \/ PutEnd(p)
GetEnd(g) == GetCheck(g) \/ GetPop(g) \/ GetDecide(g)
Checker == \/ CheckerStart \/ CheckerDrain \/ CheckerSweep \/ CheckerSweepEnd
           \/ CheckerPush \/ CheckerReturn

Next == \/ Tick \/ Close \/ ClearCall \/ ClearPop \/ ClearList \/ Checker
        \/ \E p \in Putters : Put(p)
        \/ \E g \in Getters : GetCall(g) \/ GetEnd(g)

Spec == Init /\ [][Next]_vars

(* Time goes on, the timer runs the checker, and calls that have begun go  *)
(* on; nobody is obliged to call anything.                                 *)
FairSpec ==
    /\ Spec
    /\ WF_vars(Tick) /\ WF_vars(Checker) /\ WF_vars(ClearPop)
    /\ \A p \in Putters : WF_vars(PutEnd(p))
    /\ \A g \in Getters : WF_vars(GetEnd(g))
-----------------------------------------------------------------------------
TypeOK ==
    /\ ttl \in TTLs /\ expireFunc \in BOOLEAN /\ now \in Nat
    /\ closed \in BOOLEAN /\ clearing \in BOOLEAN
    /\ list \in Seq(Item) /\ torn \in BOOLEAN /\ lost \subseteq Values
    /\ put \in [Putters -> [at : {"idle", "stamp", "push", "link"},
                            item : Seq(Item)]]
    /\ get \in [Getters -> [at : {"idle", "check", "pop", "decide"},
                            item : Seq(Item)]]
    /\ checker \in {"idle", "drain", "sweep", "return", "link", "exited"}
    /\ stamp \in Nat /\ hand \in Seq(Item)
    /\ values \in 0..MaxPuts
    /\ given \subseteq Values /\ destroyed \subseteq Values
    /\ dropped \subseteq Values /\ early \subseteq Values

(* Where a value is: on its way in or out, in the list, or gone. *)
Holds(items, v) == \E i \in DOMAIN items : items[i].value = v
Places(v) ==
    {<<"put", p>> : p \in {q \in Putters : Holds(put[q].item, v)}}
    \cup {<<"get", g>> : g \in {h \in Getters : Holds(get[h].item, v)}}
    \cup {<<"list", i>> : i \in {j \in DOMAIN list : list[j].value = v}}
    \cup (IF Holds(hand, v) THEN {<<"hand", 0>>} ELSE {})
    \cup (IF v \in given THEN {<<"given", 0>>} ELSE {})
    \cup (IF v \in destroyed THEN {<<"destroyed", 0>>} ELSE {})
    \cup (IF v \in dropped THEN {<<"dropped", 0>>} ELSE {})

(* A value that was put is in exactly one place: it is never handed to two *)
(* users, never destroyed while a user has it, and never lost, also while  *)
(* the checker has taken it out to look at it -- except by two pushes that *)
(* overlap in the list, and what these lose is not found anywhere again.   *)
OneOwner == \A v \in 1..values :
               \/ \E place \in Places(v) : Places(v) = {place}
               \/ v \in lost /\ Places(v) = {}

(* Nothing is destroyed before its time, except by Clear or after Close.   *)
NotTooEarly ==
    [][\A v \in (destroyed' \cup dropped') \ (destroyed \cup dropped) :
          \/ closed \/ clearing \/ ClearList
          \/ \E item \in {list[i] : i \in DOMAIN list}
                         \cup {get[g].item[1] : g \in {h \in Getters :
                                                    get[h].item # <<>>}} :
                item.value = v /\ item.expireAt <= now]_vars

(* An expired item does not stay in an open pool, although the checker     *)
(* gives up at the first item that is still good and the list need not be  *)
(* sorted by time (two Puts may stamp in one order and push in the other). *)
ExpiredLeave ==
    \A v \in Values :
        (\E i \in DOMAIN list : /\ list[i].value = v /\ list[i].expireAt # 0
                                /\ list[i].expireAt <= now)
        ~> (closed \/ \A i \in DOMAIN list : list[i].value # v)

(* Close's comment: with an ExpireFunc, all items are closed by it -- all  *)
(* those that were in the pool when Close was called, unless a Get that    *)
(* had already begun has taken one, or two pushes that overlapped have     *)
(* lost one.                                                               *)
CloseDestroys ==
    \A v \in Values :
        (closed /\ expireFunc /\ v \in early)
        ~> v \in destroyed \cup given \cup lost
=============================================================================
