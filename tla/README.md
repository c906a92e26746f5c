# A verification project for gcontainer

gcontainer is a Go library of generic containers in the style of `java.util`
and `java.util.concurrent`. This directory holds TLA+ models of its parts, TLC
configurations that check them on small instances, and proofs, checked by
TLAPS, that hold for every instance.

## 1. Inventory

| Part | State it keeps | Operations | Who it works with |
|---|---|---|---|
| `gqueue.BlockingQueue` | `limit`, a list, a channel `events` that counts writes, the channel `C`, the flag `closed` | Push, Pop, MustPop, Close, Len; the goroutine that moves the list into `C` | LinkedList, callers on any goroutine |
| `gqueue.RingQueue` | buffer, `head`, `tail`, an optional lock | Push, Pop, PopMulti, PopAll, Peek, Snapshot, Clear, Must- forms, Len, Cap | rwmutex |
| `g.LinkedList` | ring of elements around a root, `len`, an optional lock | push, pop, insert, move, remove, iterate | queue, pool, cache, timer, LinkedHashMap |
| `gtimer` | ticks, status, a priority queue of entries and its least priority in an atomic; per entry status, times, next ticks | Add*, Start, Stop, Close, Reset, Run, Exit, ...; the loop; one goroutine per run of a job | pool and cache, whose sweepers are jobs |
| `gpool` | list of values with an expiry time, `closed` | Put, Get, Clear, Close; the checker job | LinkedList, gtimer, the user's NewFunc and ExpireFunc |
| `gcache` | data, list of events, expiry time per key, key set per second, LRU list and index | Set*, Get*, Contains, Remove, Update*, Clear, Close; the sweeper job | LinkedList, HashMap, HashSet, gtimer |
| `g.HashMap`, `g.LinkedHashMap` | Go map, and a list for the order | Map interface, Merge, Flip, PutIfAbsent | rwmutex, LinkedList |
| `g.TreeMap`, `g.TreeSet` | red-black tree | SortedMap / SortedSet interface, iteration from a key, sub-maps | rwmutex |
| `g.AVLTree`, `g.BTree` | AVL tree, B-tree | map operations, neighbours, iteration | rwmutex |
| `g.HashSet`, `g.ArrayList` | Go map, slice | collection interface, set algebra | rwmutex |
| `gring` | `container/ring`, cached length and capacity, lock | Set, Put, Move, Link, Unlink, iteration | rwmutex |
| `internal/rwmutex` | no lock or a `sync.RWMutex` | Lock, Unlock, RLock, RUnlock | every container |
| `gtype` | one atomic each | Val, Set, Cas, Add | queue, timer, pool, cache, ring |
| `internal/*`, `utils/*` | nothing shared | conversion, formatting, comparison, errors | everywhere |

**What is hard.** The containers with goroutines of their own (queue, timer,
pool, cache) hold no lock over an operation: they meet in atomics, channels and
the steps of a shared list, so nearly every read is stale by the time it is
used. `LinkedList` links elements under the *read* lock. Closing is a protocol
of several parties everywhere (who closes `C`, who destroys what is left in a
pool, who removes a job from the timer). The data structures proper (ring
buffer, trees) are sequential, and hard at their boundaries.

**What makes each part correct.**

* BlockingQueue: what goes in comes out once and in order; the loop is never
  asleep over a non-empty list; nobody sends to a closed `C`; a closed queue
  releases its consumers, and Close and the loop end.
* RingQueue: it is a first-in first-out queue, whatever the shape of its ring.
* LinkedList: a ring whose `next` and `prev` are inverse and whose `len` counts it.
* Timer: no entry is lost or doubled; singleton jobs do not overlap; a job
  with a limit does not run more often; runs are spaced by the interval; due
  entries are taken up; a closed entry stays closed.
* Pool: a value has one owner; nothing is destroyed too early; what has
  expired leaves; Close destroys what is in the pool.
* Cache: an expired item is swept; the capacity is respected, and only then is
  anything evicted; the books (expiry times, sets, LRU) agree with the data.
* Maps and trees: every implementation is the same map; sorted ones iterate in
  order; balance and black height hold; a shared map runs a function once.
* Lists, sets and rings: whatever the calls, they are the sequence or the set
  that the calls describe; a ring's remembered counts are those of its elements.

`PROJECT.json` lists the hazards of the code one by one, at their lines, with
the properties that cover them.

## 2. Modules

| Module | Models | Abstractions |
|---|---|---|
| `BlockingQueue` | `gqueue/blockingqueue.go` | values are numbered as they are pushed; the list is a sequence; the buffer of `events` (2^31 - 1) never fills |
| `QueueOnList` | the same queue on `g/linked_list.go`, pointer by pointer | only the list operations the queue uses |
| `FifoQueue` | what a RingQueue promises of each of its calls (abstract) | |
| `RingQueue` | `gqueue/ringqueue.go` | a call is one step, as all hold the lock; the lock is absent or real |
| `Timer` | `gtimer/` | the heap is a set of which Pop takes a least item; errors of jobs are dropped; a job that panics ends the program and is left out |
| `TornList` | a list whose pushes overlap, as its users see it | what overlapping pushes leave is any selection of the elements, with the pushed one anywhere or nowhere |
| `Pool` | `gpool/gpool.go` | a push is two steps, other list operations are one; the clock is a counter |
| `Cache` | `gcache/` | values are left out: only when and why an item is there; pushes as in `Pool` |
| `SortedMap` | what a sorted map promises (abstract) | |
| `TreeNodes`, `PairSeqs` | the parent and child pointers the binary trees share; sequences of key-value pairs | |
| `TreeMap`, `TreeSet` | `g/tree_map.go`, `g/tree_set.go` | keys are numbers; a comparator is 1 or -1 |
| `TreeLoops` | `g/tree_map.go` again: insertion, deletion, polling, neighbours, a step per iteration of a loop | the two mirrored halves of the code are one, with a side; sub-maps and iteration are in `TreeMap` only |
| `AVLTree` | `g/gtree_avltree.go` | keys are numbers; a nil dereference makes the tree "panicked" |
| `BTree` | `g/gtree_btree.go` | keys are numbers |
| `Trees` | any of the four trees under any calls, beside a `SortedMap` | |
| `ListSpec` | what a list and an ordered map promise (abstract) | |
| `LinkedList`, `LinkedHashMap`, `ArrayList`, `HashSet` | `g/linked_list.go`, `g/linked_hash_map.go`, `g/array_list.go`, `g/hash_set.go` | a call is one step; random choices and Go's order of a map are arguments |
| `Lists` | any of the four under any calls, beside a `ListSpec` | |
| `Ring` | `gring/gring.go` | two ring objects; a circle of elements is the sequence of their values |
| `HashMaps` | `g/hash_map.go` shared by several users | a critical section is one step |
| `Collections` | the composition of `Trees`, `Lists`, `Ring`, `HashMaps` and `TreeLoops`: one collection of any kind | the parts have no state in common |
| `BlockingQueue_proofs`, `QueueOnList_proofs`, `RingQueue_proofs`, `Timer_proofs`, `Pool_proofs`, `Cache_proofs`, `RingAndMaps_proofs`, `TreeLoops_proofs` | theorems | |
| `MC*` | instances for TLC | |

### BlockingQueue

`limit`, `list`, `events`/`eventsClosed`, `chan`/`chanClosed` and `closed` are
the fields of the struct; `loop`, `todo`, `hold` and `cleared` are the program
counter and the locals of `asyncLoopFromListToChannel`; `prod`, `cons`,
`closer` and `pops` are where the callers are. Every channel operation, every
read of an atomic and every list operation is an action: for example Push on
an unlimited queue is `PushBack`, `PushCheckEvents`, `PushSendEvent`. `pushed`
and `out` are history. Len changes nothing and is left out. A Push that meets
a closed channel ends "panicked".

PushBack carries one condition that is not in the code: no other unlimited
Push is under way. `QueueOnList` says why. There the list is `next`, `prev`,
`owned` (the elements whose `list` field is set) and `len`; PushBack is the
six steps from its RLock to its RUnlock, of which several producers can be in
the middle at once, since a read lock excludes no other reader; PopFront runs
under the write lock and is one step. Everything else is imported by `Queue ==
INSTANCE BlockingQueue WITH list <- ListContents`, which is also the refinement
mapping: with one producer, `Spec` of QueueOnList implements `Queue!Spec`.
`Hop` and `Chain` are the walk along `next` from the root; `ListContents` is its
first `len` elements, so that a Push takes effect when it has counted.

### RingQueue

`buff`, `head`, `tail` and `size = len(buff)` are the struct's fields. The two
copies of a growing ring are the function `Grown`; PopMulti's two branches are
`PopCount` and `HeadAfter`. `Contents` reads the ring from head to tail and is
the refinement mapping to `FifoQueue`. `call` and `result` are the last call that
returned, with its argument, and its answer; they are variables of `FifoQueue` too,
so that each call must do what this very call does to a sequence: a Push that takes
a full ring for an empty one, as a queue that forgets its contents, is not a step
of it. MustPop and MustPeek take the lock and
call Pop and Peek, which take it again: with a real lock they block for ever
(`MustBlocks`), and so does every later call; without one they are Pop and
Peek, except that MustPeek panics on an empty queue (where its comment says
"It returns empty value of T if the queue is empty").

### Timer

The loop's goroutine is the program counter `loop` with the entry `cur` in its
hand; its states are the atomic accesses of `loop`, `proceed` and
`doCheckAndRunByTicks`. `Entry.Run` is one step (`RunJob`), by the loop or by a
user. A job's goroutine is a count in `running`, then in `ending` (returned,
status not looked at), then in `reviving` (saw Running, will write Ready).
Start, Stop, Close, Reset (a read and a write), SetSingleton and SetTimes come
at any moment, and so do createEntry (which reads the ticks and pushes later)
and the timer's own Start, Stop and Close.

### Pool

Put is its accesses (flag, clock and item, list), Get a loop of three,
the checker a program counter with `stamp` (its one reading of the clock) and
`hand` (the item between PopFront and PushFront). ExpireFunc's call is taken
together with the pop that precedes it: the value is nobody else's by then.

PushBack and PushFront take the list's lock for reading (`linked_list.go:309`), so
Put's push and the checker's are two steps each, `PutPush` and `PutLink`,
`CheckerPush` and `CheckerReturn`, and several can be between them. When a second one
begins, the list is `torn`, and from then on `TornList` says what a push may leave of
it: elements that were linked may be unlinked, and the pushed one may be anywhere or
nowhere. The operations under the write lock (PopFront, Clear) wait
for the pushes that are under way (`Writing`), and popping the last linked element
makes the list whole. `lost` is history: the values that overlapping pushes have
unlinked. `OneOwner` and `CloseDestroys` name them as their exception, and `OneOwner`
says that they are found nowhere again, neither at a user nor destroyed.

### Cache

`data` is the Go map, of which the model keeps the expire time of each item;
`events` and `gets` are `eventList` and `lruGetList`; `times` and `sets` are
`expireTimes` and `expireSets`; `raw`, `lru` and `index` are the LRU's
`rawList`, `list` and `data`. A call changes `data` in one step, under the
lock, and pushes its event later, in two steps (`PushEvent`, `LinkEvent`; for a
get `Touch`, `Mark`), as its PushBack holds a read lock only: the lists of events
and gets can be torn like the one of `Pool` (`torn`). `op[u]` says where the call of
`u` is and with which keys and expire time it will go on. The setters that look
for the key first (SetIfNotExist, GetOrSet, GetOrSetFunc, GetOrSetFuncLock)
are `Miss` and then the section under the lock, which looks again or, for
SetWithFuncLock, does not. The sweeper's job is a program counter: events one
by one, gets one by one, the LRU's own list, evictions one by one, one reading
of the clock, and one expired set after the other, key by key with
`DeleteWithDoubleCheck`. `SyncRaw` is the LRU's own list, one key per step.

`misled` is history: the keys with two calls under way at the same time, or
with a function that failed, or with an event in the list when two pushes tore it.
Their events may not be those of the item in the map, or are lost. `late` is history
too: the keys whose item was filed under a second that was already before the
sweep's window when a sweep came. Nothing in the code bounds how long a call or
a sweep takes, so the clock goes on whenever it likes, and such items stay for
good. `Scheduled` excuses the keys of `misled`, `ExpiredLeave` those of both (see
*Disagreements*).

### Trees

Every method of a tree takes the tree's lock for all of its work, so a call is
one step. A binary tree is a record of its `root`, `size` and comparator and a
heap `nodes` of nodes with their key, value, children, parent and colour or
balance factor; rotations, insertion and removal change it pointer by pointer,
loops as recursion over nodes. A B-tree is a heap of nodes with entries,
children and parent. `Renumbered` names nodes by their place, so that trees that
differ by the identity of their nodes only are one state; it changes no
structure. `Resorts` says whether SetComparator gives a tree with entries
another order: in `collections` it does not (see *Variants that fail*).
`TreeSet` is a `TreeMap` with the empty value, as in the code.

Beside the tree stands `dict`, what `SortedMap` says the calls have made of it,
and the properties compare all that a tree answers with it: iteration in both
directions, search, first and last, the neighbours of keys that are and are not
there, head, tail and sub-maps, clones, JSON read back. `removed` is history.
An AVL tree and a B-tree are iterated from keys that are there only: the other
case is under *Disagreements*.

### The loops of a red-black tree

`TreeMap` computes a whole call at once, by recursion over nodes. `TreeLoops` is
the same code as it runs: `pc` says which loop the call is in, `at` is the node
the loop looks at and `p` the one before it (in deleteEntry, the node to be
unlinked), `call` the operation and its arguments. Every iteration is a step:
`FindDown` of getEntry and of the loop of insertEntry, `EndsDown` of leftNode and
rightNode, `SuccessorDown`, the three branches of `InsertLoop` and `InsertRaise`
of fixAfterInsertion, `FixSibling`, `FixUp`, `FixNephew` and `FixPay` of
fixAfterDeletion, `NearDown` and `NearClimb` of FloorEntry, CeilingEntry,
LowerEntry and HigherEntry, which are one loop with a side and a flag. `order`,
`root`, `size`, `child` (left and right), `parent`, `color`, `key` and `value` are
the fields; a node is an address in their domain (`Live`), made at a free address
and forgotten when nothing points to it any more. `put` is insertEntry, `putIfAbsent`
is doSetWithLockCheck, which descends twice. A call holds the tree's lock
throughout, so the steps of two calls do not mix; `entries` is the abstract map,
changed where the call has found its key.

The steps make loops visible that TLC's run of `TreeMap` takes for granted (that
they end, and that no pointer they follow without a test is nil), and make
the algorithm one the prover can reason about: there is no recursion in it.

### Lists, ordered maps, array lists and sets

`obj` is the collection: a linked list is its root, its elements with `next`,
`prev`, `list` and value, and `len`; a linked hash map adds the index from keys
to elements; an array list is its cells and its capacity, which decides whether
an append writes in place; a hash set is a set. `seq` is what `ListSpec` says of
the same calls. Calls come one by one: with `safe` all of them but the ones
under *Disagreements* hold the lock throughout. Elements that have left a list
are forgotten, and a call with an element of no list names a place past the end.
A list of the kind `heldlist` is the same list whose callers keep the elements
they have had, also those that were taken off (its `seq` holds elements);
`UsesCleared` says whether they use the ones a Clear took off. A random choice
(Rand, Shuffle, Pop of a map) is an argument, and all are tried.

### Ring

A circle is a `container/ring`: the values of its elements in their order. Two ring
objects, 1 and 2, each stand on a place of a circle (`ring[h].on`, `ring[h].at`) and
remember `len`, `cap` and `dirty`. Link of two circles joins them, and both objects
stay usable on the one that results; Link of two objects on one circle, and
Unlink, cut a piece out, which is a circle of its own if an object stands on it or
is made for it. `Link` is two steps, since it marks the rings dirty after it has
unlocked them; `linking` is the time between.

Each object counts for itself. When one sets an empty element of a circle that the
other is on too, or cuts elements out of it, the other's counts are wrong and it is not
dirty: it is `behind`, which is history. `RingCounts` names these objects and the
time of `linking` as its exceptions and holds for all others; an object that counts
again is behind no more.

### HashMaps

`maps[m]` is the data of a map, `user[u]` the call a user is in. The calls that
look first (GetOrPut, PutIfAbsent and the forms with a function) are two
sections, as in the code; Merge takes its own lock (`holder`) and then the
other's read lock. `runs` and `gone` are history: how often a function gave a
key's value, and how often the key left. `Merges` lists which maps are merged
into which: in `collections` no two into each other.
LinkedHashMap has the same sections.

## 3. Runs

All runs are exhaustive. Deadlock is not checked: in the systems with
goroutines all callers may simply stop calling, and the bounds stop the rest;
in `collections` an AVL tree that has panicked and a user who has made
`MaxCalls` calls stop.

| Run | Question | Bounds, and why they are enough |
|---|---|---|
| `queue` | order, wake-ups, closing, delivery | 4 values through a `C` of 2 (and a limited queue of 1): the list is longer than `C` and than the cap on pending events; one Pop in Close, two closers, so one loses the Cas; two consumers compete with Close |
| `queue_leak` | does the loop end? | C of 1, one Pop in Close: the smallest queue whose list outlasts Close |
| `queue_on_list` | does the real list carry the queue? | one producer, 4 values: batches that begin and end while a Push is in the middle of linking |
| `queue_race` | and with two? | two producers, one value each |
| `ring` | does each call of the ring do what it does to a queue? | capacities 0 (default), 1 and 2 and the zero value, up to 4 items of 2 values: several growths, in every rotation |
| `timer` | the entries' books, the promises of AddEntry | a singleton due every tick and a job of a single run due every second tick, 3 ticks, 1 user call, 2 unfinished jobs of an entry |
| `timer_close` | does a closed entry stay closed? | the same |
| `pool` | ownership, expiry, closing | 2 Puts, 1 Get, Clear, Close, the checker; times to live -1, 0 and 1 on a clock of 3 instants; with and without ExpireFunc; two pushes of the users, or of a user and the checker, overlap and lose a value |
| `cache` | do the books agree, is every item scheduled, does what has expired leave? | 2 users, 2 keys, 2 calls, one user's also of several keys (`Batchers`); expiry already over or in one second, no capacity or 1; a clock of 3 instants from 3, where a second is 1, a sweep looks at the last 2, and Remove dates its event 3 back: calls overlap each other and every step of a sweep, two pushes tear the list of events, an item's second leaves the window before a sweep comes, the LRU overflows. Tearing the list of gets needs more calls than the bound allows; it moves keys in the LRU only |
| `cache_cap` | does the capacity hold? | 1 user, capacity 1, 3 calls, the same clock: evict, set again, set the other |
| `collections` | is every collection what it should be? | red-black keys 1..7 and a second value of 3 (every case of insertion and deletion), AVL keys 1..5, B-trees of order 3 and 4 with keys 1..9 (three levels; both borrowings, both merges, splits of the root), both orders, probes below, between and above; lists of at most 4 values of 3; two rings of 2 and 1, 3 and 0, or 0 and 1 elements and one value, linked, both used on the elements they then share, turned and cut by -1, 1 and 2 (`RingTurns`); 2 users of 2 maps with one key, a nil and another value, 2 calls each; loop by loop, a tree of up to 6 nodes (the smallest in which every branch of both fix-ups is taken, on both sides; a fix that goes up more than one level needs larger trees, which the proof covers) with keys 1..6, a second value of 3, the comparator -1, Remove of 3 (the polls remove the others), neighbours of 0 and 3 (`RemovedKeys`, `AskedKeys`) |
| `avl` | do an AVL tree's calls return? | keys 1..5 |

The types of the queue, the timer, the pool and the cache are proved and not
checked by a run.

The bounds (`MaxPushes`, `MaxLen`, `MaxTicks`, `MaxCalls`, `MaxJobs`,
`MaxPuts`, `MaxNow`, and the sets of keys, values and turns) are guards of
the actions that would exceed them. The real sizes (a channel of 10000, batches
of 10, a default capacity of 16, a sweep's five seconds, Remove's 1000) are constants, so that
the interesting moments, a full channel or a ring that grows, come after a few
steps. A Put in `Pool` stamps no time after `MaxNow`, so that every item can
expire before the clock stops.

**Fairness.** Goroutines the Go scheduler can run are run: the queue's loop,
the timer's loop (and the ticker behind it), the end of a job, the pool's
checker, the cache's sweeper, and each call that has begun; a user of a hash
map that waits for a lock gets it when it is free; a call on a tree goes through its
loops, as it holds the lock already. Time goes on. Nobody is
obliged to begin a call, and a job need not return. All of it is weak fairness.
`Delivered` assumes, as its hypothesis, that someone is in Pop again and again;
`ProceedEnds` excuses the bound on unfinished jobs.

The clock of `Cache` waits for nobody: a function of the user's may run long, and the
scheduler may delay a call or a sweep. `ExpiredLeave` therefore names the items that were
too late (`late`), instead of assuming that there are none.

### What the violations show

* `queue_leak`, `LoopEnds`. After Close the loop finishes its batch before it
  looks at `closed`. If the batch is longer than what C and Close's ten Pops
  take, the send blocks for ever: the goroutine leaks and C is never closed.
  The comments expect a panic here that nobody causes, as nobody else closes C.
* `queue_race`, `NothingLost`. Two Pushes read the same `root.prev` under their
  read locks; one element ends up outside the ring.
* `timer_close`, `ClosedStaysClosed`. A job's end reads Running, a Close comes
  in between, the end writes Ready: the entry is not removed and runs on.
* `cache_cap`, `CapHolds`. An eviction forgets the key's expire second but
  leaves the key in its expire set. Set again, the key is thrown out of the LRU
  (not of the map: the double check keeps it) by the sweep of the old second;
  the LRU counts one key fewer than the map for good.
* `avl`, `NoPanic`. `remove` rebalances by whether something was removed and not by
  whether a subtree became lower. Put 1..5, remove 3, 2 and 4, put 2: a rotation
  meets a child that is nil.

### Variants that fail

No run holds these, as each needs one constant or property changed only; TLC
finds all of them in seconds.

* `collections` with `Resorts = TRUE`, `SameMap`. SetComparator sets the
  comparator before it iterates the tree in the old order (`tree_map.go:108`), and
  the iteration climbs by the comparator: it ends early, and the other entries
  are lost, or it comes back to a node and never ends (`Hung`), with the lock
  held.
* `collections` with `UsesCleared = TRUE`, `SameCollection`. Clear leaves
  `e.list = l` in the elements it takes off (`linked_list.go:511`); InsertAfter one
  of them makes `len` 1 and changes `root.prev`, in an empty ring. The elements
  that Pop and Remove take off are harmless.
* `collections` with two maps merged into each other in `Merges`,
  `EveryCallReturns`. Each Merge holds its own lock and waits for the other's
  (`hash_map.go:393`).
* `Pool!CloseDestroys` for *all* values: a Put that looked at `closed` before
  Close can push after the checker's last run, and its value is never given to
  ExpireFunc. The property checked names that exception.

## 4. Proofs

`BlockingQueue_proofs` proves, for any producers, consumers, closers, limits and
sizes, that `TypeOK`, `FIFO`, `NoLostWakeup` and `OnlyTheLoopClosesC` are
invariants of `Spec`. None but FIFO is inductive by itself. The invariant adds
the loop's books (`todo` is at most the length of the list, plus one for the
value in its hand, which is there exactly in `send`), who may be where (a
limited queue has no loop and no events), and that C of an unlimited queue is
closed by no closer. NoLostWakeup needs: a loop that is between clearing and
waiting has an event, or the list is empty, or a producer that has pushed has
not sent its event. It rests on `QueueAssumption` (`DefaultQueueSize > 0`:
otherwise no event would ever be sent) and on Pushes not overlapping.

`RingQueue_proofs` proves `TypeOK`, the refinement `IsFifo` and
`GrowsOnlyWhenFull` for any items and capacities. Every step of RingQueue is the step of
`FifoQueue` with the same `call` and `result`, MustBlocks a stutter. The lemmas say what
`Contents` is after one slot is written, after the head moves by `PopCount`,
and after `Grown`.

`Timer_proofs` proves, for any entries, intervals, limits, modes, initial
statuses and numbers of calls, everything `timer` checks but liveness. The
common invariant `Inv` joins to the types: the loop has an entry in its hand
exactly between pop and push (`InHand`); no time exceeds the clock's bound by
more than an interval, so none reaches `MaxInt64`, the priority of an empty queue
(`Bounded`); what is not made is nowhere and what is closed is recorded
(`Filed`); `NextIsHead`; and `Kept`, which needs `Filed` for the entry that
LoopAfter drops. Four invariants stand on it:

* `Counted`, for `TimesKept`: until it is used up, the starts of a limited entry
  and its counter add up to the limit it was created with;
* `Single`, for `OneSingleton`: an unmeddled singleton is ready only while
  nothing of it is under way, where "under way" includes the loop between its
  CAS and the start, and a finished job that has not yet looked at the status;
* `Paced`, for `Spaced`: what the loop has started is due an interval later, and
  what it is about to start was last started an interval ago;
* `Punctual`, for `OnTime`: without Reset a priority in the queue is its entry's
  next ticks, so if the item proceed has popped is not due, none that has run
  before is; it needs `Kept`, `Paced` and `NextIsHead`.

They rest on `TimerAssumption` (positive intervals, and a clock that stays
below `MaxInt64`). TLC has checked these invariants on the instance of `timer`.

`Pool_proofs` proves `TypeOK`, `OneOwner` and `NotTooEarly` for any putters,
getters, times to live and numbers of Puts, however many pushes overlap. `TypeInv`
joins to the types that a call or the checker holds an item exactly between two of
its accesses and that only a closed pool is drained. `Placed` is why a value has one
owner: every value that was put is in exactly one kind of place (a putter's hand, the
list, the checker's hand, a getter, destroyed), or in none if it is in `lost`; one that
was not put is nowhere; and neither two putters nor two getters nor two places in the
list have the same one. Each action moves a value from one place to another, which
is the lemma `Moves`, or unlinks it, `Loses`. `SurvivorsFrom` is what the proof needs of a
torn list: what a push leaves has each item once, none but the pushed one and those
that were linked, and `PushHolds` that the others are the ones it adds to `lost`.
It rests on `PoolAssumption`.

`RingAndMaps_proofs` has two parts. The first proves `RunsOnce` for any users,
maps and keys, mutual merges included: the section that runs the function looks
at the map itself, so a run adds a key that was absent. The invariant is the
types of the books and RunsOnce.

`QueueOnList_proofs` is about Pushes that do not overlap (`OneProducer`: at most
one goroutine pushes; with two, `queue_race` shows the opposite), for any number
of values, consumers and closers. It proves `ListIntact`, the refinement
`IsBlockingQueue`, and what follows for the callers: `FIFO` on the linked list, and
that `NothingLost`, which two producers violate, holds. The invariant `ListInv`
rests on one observation: one producer links its elements in the order in which
it allocates them and the loop takes them from the front, so the list is always
the run of elements `Front..Last`, where `Last` is how many Pushes have been
counted and `Front` is `Last - len + 1`. In the middle of a PushBack, `next` (up to
`Fwd`) may already reach the new element when `prev` (up to `Bwd`) does not, and
neither is counted. `BatchInv` says that a batch asks for no more than the list
holds, without which the loop could take from an empty list, a step that
BlockingQueue does not have. `ChainRound` says that a walk along `next` meets
exactly the ring. Every step of PushBack but the last maps to a stutter; the last
one is `Queue!PushBack`. It rests on `ListAssumption`: `QueueAssumption`, and no
limit (a limited queue has no list).

`Cache_proofs` proves, for any users, keys, durations, capacities and clock, its types
and the three invariants that `cache` checks.

* `BooksAgree` needs that a second noted for a key is positive, because no event
  has a negative expire time (zero would mean "none noted" in the code), and that
  a cache without a capacity has nothing in its LRU and never evicts.
* `LruBooks` needs lemmas about sequences: what is left of a list without one of
  its elements, that a list of distinct keys has as many as their set, and that
  removing a key from the list and pushing it to the front keeps it distinct.
* `Scheduled` is not inductive. `SchedInv` adds who is where: a key that two calls
  are going to push events for (`Pending`) is in `misled` (`OneCaller`); a caller that has set a key and not
  pushed its event will push the time that is in the map (`PushesItsTime`); one
  that found its key missing does not find it alive when it looks again
  (`StillMissing`); and the seconds a sweep has before it were over when it looked
  (`LooksBack`). `Due` then says how an item's deletion comes: a caller under way
  will push an event for its key, or the last event of its key has its expire
  time, or no event is there for its key and its second is in the books. Each
  step of the callers and of the sweeper hands an item from one of these to another.
  A push into a torn list may lose or displace events (`SurvivorsOf`: what it leaves
  comes from the list and the pushed one); the keys of all of them are in
  `misled` then, which is the exception the theorem names, and for every other
  key the list says what it said (`LinkEventSched`). `BucketGrows` is why a sweep's
  seconds stay over while the clock goes on.

The second part of `RingAndMaps_proofs` proves `RingCounts` of `RingSpec`, the
two ring objects by themselves (in `Collections` they share nothing with the others),
for any capacities, values and turns, on circles of their own or on one they share. The
invariant `RingInv` is that circles and objects have their types (`Typed`), that an
object with elements stands on one of them (`Stands`), and that it knows its counts unless
it is dirty, `behind`, or a Link is between its halves (`Knows`). The lemmas say how
many values there are in two pieces put together, in a circle with one element set, in
one read from another place on, and in the two pieces of a cut (`UsedConcat`, `SetAt`,
`Rotation`, `Part`, `Cut`): a count is changed only by what marks the object dirty,
counts the change itself, or leaves the other object behind. `RingAssumption` says that
a value is not the nil of an empty element; the code wraps values, so it is not.

`TreeLoops_proofs` proves, for any set of addresses, keys, values and either
comparator, so for red-black trees of any size, everything that `collections` checks
of `TreeLoops` but that its loops end: `LoopShape`, `LoopContents`, `LoopAnswers` and
`LoopNoNil`.

* The inductive invariant is `IInv`: there *are* a function `U` (the nodes below
  each node), a function `B` (the black nodes on the way down from it) and an
  exception `e` such that `Always(U, B, e)` holds. `LoopShape` computes both by recursion;
  here they are guessed, and the invariant says locally, at each node, what they
  must satisfy (`Shape`: a node's `U` is itself and its children's, which are
  disjoint; `Ordered`; `Balanced`: a node's `B` is its own weight and the `B` of either
  child). Each step's
  lemma says what the new `U` and `B` are, which is one node's value for a
  rotation and those on the path to the root for a node that comes or goes.
* `Always` also says how the tree may differ from a red-black tree while a call
  is under way: in fixAfterInsertion the node `at` and its parent may both be
  red; in fixAfterDeletion a black node is missing below `at`, as if `at` had a
  black too many, which is the exception `e` of `Balanced`; a leaf that is to be
  taken off counts as nothing. Every branch of the fix-ups moves the exception
  up, pays for it, or ends it.
* The loops that go down keep `InFind`, `InEnds`, `InSuccessor` and `InNear`: the key
  that is sought is in the subtree of `at` or nowhere; the way to `at` turned at
  every node above it to where a nearer key could be (`Way`); and on the way up no
  node below `at` is an answer.
* Where a textbook would use induction on the height, the proof takes a least
  counterexample: of the nodes that are wrong, one with the fewest nodes below it
  (`FewestBelow`). That is also how `U` and `B` are shown to be the recursive
  functions `Under` and `Blacks` of `LoopShape`: they satisfy the same equations, and a
  node with the fewest below at which they differ cannot exist.
* `LoopNoNil` needs the counts: a node below which a black one is missing has a
  sibling, as there is a black node to be found on the other side.

It rests on `LoopAssumption`: 0 is nil and no node, keys are integers (any ordered keys
would do), a comparator is 1 or -1. TLC has checked `Always` on the instance
of `collections`, with `U` and `B` computed. A put is made only while an address is free
(a guard of `PutCall`), so the theorems are about trees that fit the memory.

Induction over the naturals is done with `Least` (every set of naturals that is
not empty has a least element), which follows from the library's theorem on well
founded relations; the induction theorems themselves take an operator as
a parameter and cannot be used.

**What is model-checked only.** Liveness (`Delivered`, `CloseReleasesConsumers`,
`CloseReturns`, `ProceedEnds`, `ExpiredLeave`, `CloseDestroys`,
`CloseEndsSweeper`, `EveryCallReturns`): it needs fairness and ENABLED, which the prover
does not handle. The shapes and answers of trees, lists, array lists and sets
(`RedBlackShape`, `AvlShape`, `BTreeShape`, `SameMap`, `SameNeighbours`,
`SameCollection`): their models use recursive operators, as the code recurses over
nodes, and the prover has no SMT backend in a module that reaches one. Of these the
red-black tree has its proof in `TreeLoops`; that `TreeMap` and `TreeLoops` agree is
shown by the runs only in that both are compared with `SortedMap` and with the
same shape.

## 5. Disagreements noticed without a run

What the models leave out on purpose, or show as it is without a property that
fails, where the code does not do what its comments or names say:

* **TreeMap, TreeSet.** FirstEntry and LastEntry of an empty tree return a nil node in
  an interface that is not nil (`tree_map.go:145`, `:992`; `NilInside` in the model), where
  `all_interfaces.go:392` and `:412` promise nil: a caller's test for nil passes, and
  reading the entry's key panics. PollHeadSet and PollTailSet ask
  for the comparator, under the read lock, while they hold the write lock
  (`tree_set.go:334`, `:358`): a safe set blocks itself. IteratorAscFrom and SubMap take the read lock twice
  (`tree_map.go:899`), which blocks when a writer waits; `TreeSet.AddAll(self)`
  blocks itself.
* **AVL tree, B-tree.** IteratorFrom with `match = false` does not begin at the
  next key: nothing is iterated from an absent key of an AVL tree, nor in a
  B-tree when the key's place is past the end of a leaf, and a B-tree's
  descending iteration begins above the key.
* **LinkedList, ArrayList.** Remove and RemoveAll take off the first occurrence of each
  value only (`RemoveFirstOfEach`): `[1, 1].Remove(1)` leaves `[1]`. Their comments
  (`linked_list.go:274`, `:291`) and those of the interface (`all_interfaces.go:54`)
  say "all of this list's elements that are also contained in the specified" slice
  or collection.
* **LinkedList.** PushFronts, PopBacks and PopFronts (`linked_list.go:384`) lock
  and call methods that lock again, and so do PushBacks and the JSON readers:
  with `safe` they block. Several mutators hold the read lock only
  (`QueueOnList`, `TornList`). ContainsAll stops at the first value found; `SameCollection`
  says of it only that true means all are there.
* **LinkedHashMap.** Clone, DeepCopy, Puts and Replace go through a Go map and
  lose the order.
* **HashMap.** Replace and NewHashMapFrom keep the caller's map. A nil value is
  not stored, yet PutIfAbsent answers true; so it does when its second section
  finds a key that was put in between (`hash_map.go:257`).
* **HashSet.** ContainsAll answers true always; Intersect and Diff with several
  sets are the union of the single results; Union with none is empty; Remove
  answers true for what was not there; two sets merged into each other block.
* **ArrayList.** PopLefts and PopRights hand out a slice of the list's own
  array; ContainsAll answers true always; SubSlice with a negative length takes
  what is before the offset; PopRand of an empty list asks for a random number
  below 0.
* **gring.** Link returns its receiver; linked rings share their elements but
  count separately, so that after a Set through one the other's Len is wrong until
  something marks it dirty (`behind`); Unlink by a multiple of the length returns a ring that is
  still part of this one.
* **Cache, pool.** Their lists are pushed to under a read lock: two Sets of different
  keys, or two Puts, can lose an event or a value. An item whose event is processed after
  its second has left the window, as after a long-running call, is never swept.
* **Cache.** A failing function pushes its event over an older item's; an item
  with a duration below -5 s is never swept; Remove's events leave the key in the
  books and in the LRU, where it displaces live ones; gets are applied after all
  events, so the LRU's order is not that of use; SetIfNotExist answers true
  although another's value was kept (`:115`); SetWithFuncLock does not look again
  (`gcache_adapter_memory_data.go:182`).

## 6. What is left to do

* The AVL tree's insertion (its removal is wrong, see `avl`) and the B-tree as loops,
  like `TreeLoops`, for proofs of their shapes.
* Proofs about the collections: the sequence and set operators of `ArrayList` and
  `HashSet` against `ListSpec`, once they are written without recursion.
* The nested locks of the list above as a model of the locks themselves (who
  holds which in which order), for the containers made with `safe = true`.

## 7. What is not modelled

* `gtype`: each type is one atomic, which the models use as such.
* `internal/*` and `utils/*`: conversion, formatting, comparison, errors and
  test helpers. They keep no state that is shared, and their subject is data
  that the models abstract. `internal/rwmutex` is a guard where a lock matters.
* The answers of the cache's reading calls (Keys, Values, Size), which pad with
  zero values for what has expired.
* The Go memory model below atomics, channels and locks, except where it
  matters (`QueueOnList`).
* What callbacks do: they are the user's.
