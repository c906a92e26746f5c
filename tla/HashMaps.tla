------------------------------- MODULE HashMaps -------------------------------
(***************************************************************************)
(* g.HashMap (made with safe = true) under concurrent calls.  A map is a   *)
(* function from its keys to their values.  A critical section is a step;  *)
(* Merge, which takes a second lock while it holds the first, is two.      *)
(* LinkedHashMap has the same calls with the same critical sections.       *)
(***************************************************************************)
EXTENDS Integers, FiniteSets

CONSTANTS Users, Maps, HashKeys, NilValue,
          PutValues,    \* the values that are put, which may be NilValue
          Merges,       \* the pairs <<m, other>> for which m.Merge(other) is called
          MaxCalls      \* bound: the calls each user makes

VARIABLES maps,         \* maps[m]: m's data
          holder,       \* who is in Merge with m's write lock, or Nobody
          user,         \* the call each user is in
          made,         \* how many calls each user has made
          runs,         \* history: the times f gave m's value of k
          gone          \* history: the times k left m

mapVars == <<maps, holder, user, made, runs, gone>>

Nobody == "nobody"
Idle == [op |-> "none", pc |-> "idle"]
(* GetOrPut and GetOrPutFunc take the same steps; only their answers       *)
(* differ.                                                                 *)
Getting == {"PutIfAbsent", "PutIfAbsentFunc"}
WithFunc == {"PutIfAbsentFunc"}
Removing == {"Remove", "Pops", "Filter", "Clear"}

MapsInit ==
    /\ maps = [m \in Maps |-> <<>>]
    /\ holder = [m \in Maps |-> Nobody]
    /\ user = [u \in Users |-> Idle] /\ made = [u \in Users |-> 0]
    /\ runs = [m \in Maps |-> [k \in HashKeys |-> 0]]
    /\ gone = [m \in Maps |-> [k \in HashKeys |-> 0]]

Free(m) == holder[m] = Nobody
Has(m, k) == k \in DOMAIN maps[m]
Over(f, g) == [k \in DOMAIN f \cup DOMAIN g |-> IF k \in DOMAIN g THEN g[k] ELSE f[k]]
Pair(k, v) == [l \in {k} |-> v]
With(m, k, v) == [maps EXCEPT ![m] = Over(@, Pair(k, v))]
Without(m, ks) == [maps EXCEPT ![m] = [k \in DOMAIN @ \ ks |-> @[k]]]
At(u, pc) == user[u].pc = pc
Goto(u, pc) == user' = [user EXCEPT ![u].pc = pc]
Return(u) == user' = [user EXCEPT ![u] = Idle]
-----------------------------------------------------------------------------
(* The beginning of a call, before it has any lock. *)
Call(u, call) ==
    /\ At(u, "idle") /\ made[u] < MaxCalls
    /\ made' = [made EXCEPT ![u] = @ + 1]
    /\ user' = [user EXCEPT ![u] = call]
    /\ UNCHANGED <<maps, holder, runs, gone>>

Begin(u) ==
    \E m \in Maps, k \in HashKeys, v \in PutValues :
       \/ \E op \in Getting \cup {"Put", "Replace"} :
             Call(u, [op |-> op, m |-> m, k |-> k, v |-> v,
                      pc |-> IF op \in Getting THEN "search" ELSE "put"])
       \/ \E op \in Removing :
             Call(u, [op |-> op, m |-> m, k |-> k, pc |-> "remove"])
       \/ \E pair \in Merges :
             Call(u, [op |-> "Merge", m |-> pair[1], other |-> pair[2],
                      pc |-> "lock"])

(* Put, Puts and UnmarshalJSON of a pair; Replace by a map of one pair.    *)
Left(m, ks) == [gone EXCEPT ![m] = [k \in HashKeys |-> @[k] + IF k \in ks THEN 1 ELSE 0]]
Replaced(m, k, v) == [maps EXCEPT ![m] = Pair(k, v)]
DoPut(u) ==
    LET c == user[u] IN
    /\ At(u, "put") /\ Free(c.m) /\ Return(u)
    /\ \/ c.op = "Put" /\ maps' = With(c.m, c.k, c.v) /\ UNCHANGED gone
       \/ /\ c.op = "Replace"
          /\ maps' = Replaced(c.m, c.k, c.v)
          /\ gone' = Left(c.m, DOMAIN maps[c.m])
    /\ UNCHANGED <<holder, made, runs>>

(* Remove; Pops, one or all of the keys; FilterEmpty, FilterNil; Clear.    *)
Present(m) == DOMAIN maps[m]
Popped(m) == {ks \in SUBSET Present(m) : Cardinality(ks) = 1} \cup {Present(m)}
Filtered(m) == {k \in Present(m) : maps[m][k] = NilValue}
Leaving(c) == CASE c.op = "Remove" -> {{c.k} \cap Present(c.m)}
                [] c.op = "Pops" -> Popped(c.m)
                [] c.op = "Filter" -> {Filtered(c.m)}
                [] c.op = "Clear" -> {Present(c.m)}
DoRemove(u) ==
    LET c == user[u] IN
    /\ At(u, "remove") /\ Free(c.m)
    /\ \E ks \in Leaving(c) :
          /\ maps' = Without(c.m, ks)
          /\ gone' = Left(c.m, ks)
    /\ Return(u)
    /\ UNCHANGED <<holder, made, runs>>

(* GetOrPut, PutIfAbsent and their forms with a function: Search or        *)
(* ContainsKey under the read lock; for an absent key a second section.    *)
Search(u) ==
    LET c == user[u] IN
    /\ At(u, "search") /\ Free(c.m)
    /\ IF Has(c.m, c.k) THEN Return(u) ELSE Goto(u, "check")
    /\ UNCHANGED <<maps, holder, made, runs, gone>>

(* doSetWithLockCheck(Func): it looks again, and runs f under the lock.    *)
(* A nil value is not stored.                                              *)
Keeps_Unchecked(c) == FALSE
Keeps(c) == Has(c.m, c.k)
DoSetWithLockCheck(u) ==
    LET c == user[u] IN
    /\ At(u, "check") /\ Free(c.m)
    /\ IF Keeps(c) \/ c.v = NilValue
       THEN UNCHANGED <<maps, runs>>
       ELSE /\ maps' = With(c.m, c.k, c.v)
            /\ runs' = IF c.op \in WithFunc THEN [runs EXCEPT ![c.m][c.k] = @ + 1]
                       ELSE runs
    /\ Return(u)
    /\ UNCHANGED <<holder, made, gone>>

(* Merge: m.mu.Lock(), then other.mu.RLock() unless other is m. *)
MergeLock(u) ==
    LET c == user[u] IN
    /\ At(u, "lock") /\ Free(c.m)
    /\ holder' = [holder EXCEPT ![c.m] = u]
    /\ Goto(u, "merge")
    /\ UNCHANGED <<maps, made, runs, gone>>

OtherFree_Always(u, c) == Free(c.other)
OtherFree(u, c) == c.other = c.m \/ Free(c.other)
MergeDo(u) ==
    LET c == user[u] IN
    /\ At(u, "merge") /\ OtherFree(u, c)
    /\ maps' = [maps EXCEPT ![c.m] = Over(@, maps[c.other])]
    /\ holder' = [holder EXCEPT ![c.m] = Nobody]
    /\ Return(u)
    /\ UNCHANGED <<made, runs, gone>>

Section(u) == \/ DoPut(u) \/ DoRemove(u) \/ Search(u) \/ DoSetWithLockCheck(u)
              \/ MergeLock(u) \/ MergeDo(u)
MapsNext == \E u \in Users : Begin(u) \/ Section(u)
MapsSpec == MapsInit /\ [][MapsNext]_mapVars
-----------------------------------------------------------------------------
(* A function given to GetOrPutFunc or PutIfAbsentFunc provides a key's    *)
(* value at most once between two times the key leaves the map, whoever    *)
(* calls at the same time: of several callers that all found the key       *)
(* absent one runs its function, and the others get that value.            *)
RunsOnce ==
    \A m \in Maps, k \in HashKeys :
       runs[m][k] <= gone[m][k] + IF Has(m, k) THEN 1 ELSE 0

(* As long as no two maps are merged into each other, every call returns:  *)
(* whoever waits for a lock gets it.                                       *)
CallsReturn == \A u \in Users : ~At(u, "idle") ~> At(u, "idle")
=============================================================================
