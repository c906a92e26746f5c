------------------------------- MODULE TreeLoops -------------------------------
(***************************************************************************)
(* g.TreeMap again, as TreeMap has it, but pointer by pointer and loop by  *)
(* loop: an iteration of a loop (the descents from the root, the two       *)
(* fix-ups, the way back up) is a step, and so is every rotation with its  *)
(* recolouring.  A call holds the tree's lock from its first step to its   *)
(* last.  A side stands for the two mirrored halves of the code.           *)
(***************************************************************************)
EXTENDS Integers, FiniteSets

CONSTANTS Nodes,        \* the addresses of nodes
          LoopPairs,    \* the pairs of keys and values that are put
          RemovedKeys,  \* the keys that are removed
          AskedKeys,    \* the keys whose neighbours are asked for
          LoopOrders    \* the comparators: 1 ascending, -1 descending

Nil == 0
LoopKeys == {pair[1] : pair \in LoopPairs} \cup RemovedKeys \cup AskedKeys
LoopValues == {pair[2] : pair \in LoopPairs}

ASSUME LoopAssumption ==
    /\ Nil \notin Nodes
    /\ LoopKeys \subseteq Int
    /\ LoopOrders \subseteq {1, -1}

VARIABLES order, root, size,    \* the tree
          child, parent, color, key, value,   \* the fields of its nodes
          pc, call,     \* where the call is; its operation and arguments
          at, p,        \* the node its loop looks at, and the one before it;
                        \* what a query answers; the p of deleteEntry
          entries       \* what SortedMap says of the tree

fields == <<child, parent, color, key, value>>
loopVars == <<order, root, size, fields, pc, call, at, p, entries>>

Dict == INSTANCE SortedMap WITH dict <- entries

Sides == {"left", "right"}
Other(side) == IF side = "left" THEN "right" ELSE "left"
Live == DOMAIN parent
Before(a, b) == IF order = 1 THEN a < b ELSE b < a
Toward(k, n) == IF Before(k, key[n]) THEN "left" ELSE "right"

(* The nil-safe accessors colorOf and setColor; which child n is. *)
ColorOf(n) == IF n = Nil THEN "black" ELSE color[n]
Updated(f, n, y) == IF n = Nil THEN f ELSE [f EXCEPT ![n] = y]
SideOf(n) == IF child[parent[n]]["left"] = n THEN "left" ELSE "right"

(* A new node, at any free address (the key's own number, if it is free,   *)
(* keeps instances small); a node that nothing points to is no more.       *)
Extended(f, n, y) == [m \in DOMAIN f \cup {n} |-> IF m = n THEN y ELSE f[m]]
Lacking(f, n) == [m \in DOMAIN f \ {n} |-> f[m]]
Fresh(k) == IF k \in Nodes \ Live THEN k ELSE CHOOSE n \in Nodes \ Live : TRUE
NewNode(e, k, v, up, c) ==
    /\ parent' = Extended(parent, e, up)
    /\ color' = Extended(color, e, c)
    /\ key' = Extended(key, e, k)
    /\ value' = Extended(value, e, v)
Drop(n) ==
    /\ color' = Lacking(color, n)
    /\ key' = Lacking(key, n)
    /\ value' = Lacking(value, n)

LoopsInit ==
    /\ order \in LoopOrders /\ root = Nil /\ size = 0
    /\ child = <<>> /\ parent = <<>> /\ color = <<>> /\ key = <<>> /\ value = <<>>
    /\ pc = "idle" /\ call = [op |-> "none"] /\ at = Nil /\ p = Nil
    /\ Dict!Init

Returns == pc' = "idle" /\ call' = [op |-> "none"] /\ at' = Nil /\ p' = Nil
-----------------------------------------------------------------------------
(* The calls, which begin at the root; Clear forgets the nodes. *)
CallWith(c, loop) ==
    /\ pc = "idle" /\ pc' = loop
    /\ call' = c /\ at' = root
    /\ UNCHANGED <<order, root, size, fields, p, entries>>

PutCall(op, k, v) ==
    Nodes # Live /\ CallWith([op |-> op, k |-> k, v |-> v], "find")
RemoveCall(k) == CallWith([op |-> "remove", k |-> k], "find")
PollCall(side) == CallWith([op |-> "poll", side |-> side], "ends")
NearCall(k, side, inclusive) ==
    CallWith([op |-> "near", k |-> k, side |-> side, inclusive |-> inclusive],
             "near")

Clear ==
    /\ pc = "idle"
    /\ root' = Nil /\ size' = 0
    /\ child' = <<>> /\ parent' = <<>> /\ color' = <<>> /\ key' = <<>> /\ value' = <<>>
    /\ Dict!Clear
    /\ UNCHANGED <<order, pc, call, at, p>>
-----------------------------------------------------------------------------
(* rotateLeft, rotateRight: q goes down on that side.  Swapped: what is    *)
(* above q points to r instead.                                            *)
Swapped(q, r) ==
    IF parent[q] = Nil THEN child ELSE [child EXCEPT ![parent[q]][SideOf(q)] = r]
RootFor(q, r) == IF parent[q] = Nil THEN r ELSE root

Rotate(q, side) ==
    LET r == child[q][Other(side)]
        inner == child[r][side]
    IN /\ child' = [Swapped(q, r) EXCEPT ![q][Other(side)] = inner,
                                         ![r][side] = q]
       /\ parent' = [Updated(parent, inner, q) EXCEPT ![r] = parent[q], ![q] = r]
       /\ root' = RootFor(q, r)
       /\ UNCHANGED <<key, value>>
-----------------------------------------------------------------------------
(* getEntry, and the loop of insertEntry: down to the key, or off a leaf. *)
FindDown ==
    /\ pc = "find" /\ at # Nil /\ key[at] # call.k
    /\ p' = at /\ at' = child[at][Toward(call.k, at)]
    /\ UNCHANGED <<order, root, size, fields, pc, call, entries>>

(* deleteEntry of q begins. *)
DeleteEntry(q) ==
    /\ size' = size - 1 /\ p' = q
    /\ IF \A side \in Sides : child[q][side] # Nil
       THEN pc' = "successor" /\ at' = child[q]["right"]
       ELSE pc' = "unlink" /\ at' = q
    /\ UNCHANGED <<order, root, fields, call>>

Overwrite ==
    /\ call.op = "put"
    /\ value' = [value EXCEPT ![at] = call.v]
    /\ Dict!Put(<<call.k, call.v>>)
    /\ Returns /\ UNCHANGED <<order, root, size, child, parent, color, key>>
KeepPresent ==
    /\ call.op = "putIfAbsent"
    /\ Dict!PutIfAbsent(<<call.k, call.v>>)
    /\ Returns /\ UNCHANGED <<order, root, size, fields>>
RemovePresent ==
    call.op = "remove" /\ Dict!RemoveAll({call.k}) /\ DeleteEntry(at)

FindHit ==
    /\ pc = "find" /\ at # Nil /\ key[at] = call.k
    /\ Overwrite \/ KeepPresent \/ RemovePresent

(* Nothing is found: doSetWithLockCheck goes on with insertEntry, which    *)
(* makes the node, the root or a red one below p.                          *)
PutAbsent ==
    /\ call.op = "putIfAbsent"
    /\ call' = [op |-> "put", k |-> call.k, v |-> call.v]
    /\ at' = root /\ p' = Nil
    /\ UNCHANGED <<order, root, size, fields, pc, entries>>
LinkRoot ==
    LET e == Fresh(call.k)
    IN /\ call.op = "put" /\ p = Nil
       /\ NewNode(e, call.k, call.v, Nil, "black")
       /\ child' = Extended(child, e, [side \in Sides |-> Nil])
       /\ root' = e /\ size' = 1
       /\ Dict!Put(<<call.k, call.v>>)
       /\ Returns /\ UNCHANGED order
LinkBelow ==
    LET e == Fresh(call.k)
    IN /\ call.op = "put" /\ p # Nil
       /\ NewNode(e, call.k, call.v, p, "red")
       /\ child' = Extended([child EXCEPT ![p][Toward(call.k, p)] = e],
                            e, [side \in Sides |-> Nil])
       /\ Dict!Put(<<call.k, call.v>>)
       /\ pc' = "insert" /\ at' = e /\ p' = Nil
       /\ UNCHANGED <<order, root, size, call>>
RemoveAbsent ==
    /\ call.op = "remove"
    /\ Dict!RemoveAll({call.k})
    /\ Returns /\ UNCHANGED <<order, root, size, fields>>

FindMissed ==
    /\ pc = "find" /\ at = Nil
    /\ PutAbsent \/ LinkRoot \/ LinkBelow \/ RemoveAbsent

(* leftNode, rightNode, of PollFirstEntry and PollLastEntry. *)
EndsDown ==
    /\ pc = "ends" /\ at # Nil
    /\ p' = at /\ at' = child[at][call.side]
    /\ UNCHANGED <<order, root, size, fields, pc, call, entries>>
EndsFound ==
    /\ pc = "ends" /\ at = Nil /\ p # Nil
    /\ Dict!RemoveAll(Dict!Ends(IF call.side = "left" THEN order ELSE -order))
    /\ DeleteEntry(p)
EndsNone ==
    /\ pc = "ends" /\ at = Nil /\ p = Nil
    /\ Returns /\ UNCHANGED <<order, root, size, fields, entries>>
-----------------------------------------------------------------------------
(* fixAfterInsertion(at): at is red, and so may its parent be. *)
RedBelowRed == at # root /\ color[parent[at]] = "red"

InsertDone ==
    /\ pc = "insert" /\ ~RedBelowRed
    /\ color' = [color EXCEPT ![root] = "black"]
    /\ size' = size + 1
    /\ Returns /\ UNCHANGED <<order, root, child, parent, key, value, entries>>

InsertLoop ==
    /\ pc = "insert" /\ RedBelowRed
    /\ LET up == parent[at]
           top == parent[up]
           side == SideOf(up)
           uncle == child[top][Other(side)]
       IN \/ /\ ColorOf(uncle) = "red"
             /\ color' = [color EXCEPT ![up] = "black", ![uncle] = "black",
                                       ![top] = "red"]
             /\ at' = top
             /\ UNCHANGED <<pc, root, child, parent, key, value>>
          \/ /\ ColorOf(uncle) # "red" /\ at = child[up][Other(side)]
             /\ Rotate(up, side)
             /\ at' = up /\ pc' = "raise" /\ UNCHANGED color
          \/ /\ ColorOf(uncle) # "red" /\ at # child[up][Other(side)]
             /\ pc' = "raise" /\ UNCHANGED <<root, fields, at>>
    /\ UNCHANGED <<order, size, call, p, entries>>

InsertRaise ==
    LET up == parent[at]
        top == parent[up]
    IN /\ pc = "raise" /\ pc' = "insert"
       /\ color' = [color EXCEPT ![up] = "black", ![top] = "red"]
       /\ Rotate(top, Other(SideOf(up)))
       /\ UNCHANGED <<order, size, call, at, p, entries>>
-----------------------------------------------------------------------------
(* deleteEntry(p): p with two children takes its successor's pair, and the *)
(* successor is unlinked instead.                                          *)
SuccessorDown ==
    /\ pc = "successor" /\ child[at]["left"] # Nil
    /\ at' = child[at]["left"]
    /\ UNCHANGED <<order, root, size, fields, pc, call, p, entries>>
SuccessorFound_KeepsValue ==
    /\ pc = "successor" /\ child[at]["left"] = Nil
    /\ key' = [key EXCEPT ![p] = key[at]]
    /\ pc' = "unlink" /\ p' = at
    /\ UNCHANGED <<order, root, size, child, parent, color, value, call, at, entries>>
SuccessorFound ==
    /\ pc = "successor" /\ child[at]["left"] = Nil
    /\ key' = [key EXCEPT ![p] = key[at]]
    /\ value' = [value EXCEPT ![p] = value[at]]
    /\ pc' = "unlink" /\ p' = at
    /\ UNCHANGED <<order, root, size, child, parent, color, call, at, entries>>

(* An only child takes p's place; a leaf stays until the fix is done. *)
Replacement == IF child[p]["left"] # Nil THEN child[p]["left"] ELSE child[p]["right"]

UnlinkInner ==
    /\ pc = "unlink" /\ Replacement # Nil
    /\ child' = Lacking(Swapped(p, Replacement), p)
    /\ parent' = Lacking([parent EXCEPT ![Replacement] = parent[p]], p)
    /\ root' = RootFor(p, Replacement)
    /\ Drop(p)
    /\ IF color[p] = "black"
       THEN pc' = "fix" /\ at' = Replacement /\ p' = Nil /\ UNCHANGED call
       ELSE Returns
    /\ UNCHANGED <<order, size, entries>>
UnlinkOnly ==
    /\ pc = "unlink" /\ Replacement = Nil /\ parent[p] = Nil
    /\ root' = Nil
    /\ child' = Lacking(child, p) /\ parent' = Lacking(parent, p) /\ Drop(p)
    /\ Returns /\ UNCHANGED <<order, size, entries>>
UnlinkLeaf ==
    /\ pc = "unlink" /\ Replacement = Nil /\ parent[p] # Nil
    /\ pc' = (IF color[p] = "black" THEN "fix" ELSE "takeoff") /\ at' = p
    /\ UNCHANGED <<order, root, size, fields, call, p, entries>>
TakeOff ==
    /\ pc = "takeoff"
    /\ IF parent[p] = Nil THEN UNCHANGED fields
       ELSE /\ child' = Lacking(Swapped(p, Nil), p)
            /\ parent' = Lacking(parent, p)
            /\ Drop(p)
    /\ Returns /\ UNCHANGED <<order, root, size, entries>>

(* fixAfterDeletion(at): below at a black node is missing. *)
BlackMissing == at # root /\ color[at] = "black"

FixDone ==
    /\ pc = "fix" /\ ~BlackMissing
    /\ color' = [color EXCEPT ![at] = "black"]
    /\ IF p = Nil THEN Returns ELSE pc' = "takeoff" /\ UNCHANGED <<call, at, p>>
    /\ UNCHANGED <<order, root, size, child, parent, key, value, entries>>

Sibling == child[parent[at]][Other(SideOf(at))]
Near == child[Sibling][SideOf(at)]
Far_Mirrored == child[Sibling][SideOf(at)]
Far == child[Sibling][Other(SideOf(at))]

FixSibling ==
    /\ pc = "fix" /\ BlackMissing
    /\ pc' = "nephews"
    /\ IF ColorOf(Sibling) = "red"
       THEN /\ color' = [color EXCEPT ![Sibling] = "black", ![parent[at]] = "red"]
            /\ Rotate(parent[at], SideOf(at))
       ELSE UNCHANGED <<root, fields>>
    /\ UNCHANGED <<order, size, call, at, p, entries>>
FixUp_BlackSibling ==
    /\ pc = "nephews" /\ ColorOf(Near) = "black" /\ ColorOf(Far) = "black"
    /\ at' = parent[at] /\ pc' = "fix"
    /\ UNCHANGED <<order, root, size, fields, call, p, entries>>
FixUp ==
    /\ pc = "nephews" /\ ColorOf(Near) = "black" /\ ColorOf(Far) = "black"
    /\ color' = Updated(color, Sibling, "red")
    /\ at' = parent[at] /\ pc' = "fix"
    /\ UNCHANGED <<order, root, size, child, parent, key, value, call, p, entries>>
FixNephew ==
    /\ pc = "nephews" /\ ~(ColorOf(Near) = "black" /\ ColorOf(Far) = "black")
    /\ pc' = "pay"
    /\ IF ColorOf(Far) = "black"
       THEN /\ color' = [Updated(color, Near, "black") EXCEPT ![Sibling] = "red"]
            /\ Rotate(Sibling, Other(SideOf(at)))
       ELSE UNCHANGED <<root, fields>>
    /\ UNCHANGED <<order, size, call, at, p, entries>>
FixPay ==
    /\ pc = "pay" /\ pc' = "fix"
    /\ color' = [Updated(color, Far, "black") EXCEPT ![Sibling] = color[parent[at]],
                                                     ![parent[at]] = "black"]
    /\ Rotate(parent[at], SideOf(at))
    /\ at' = root'
    /\ UNCHANGED <<order, size, call, p, entries>>
-----------------------------------------------------------------------------
(* FloorEntry, LowerEntry (side "left"), CeilingEntry, HigherEntry: the    *)
(* last key on that side of k, k itself only if inclusive.                 *)
IsBeyond(n) == IF call.side = "left" THEN Before(key[n], call.k)
               ELSE Before(call.k, key[n])
Matches(n) == call.inclusive /\ key[n] = call.k
NearTurn(n) == IF IsBeyond(n) THEN Other(call.side) ELSE call.side
Answer(n) == pc' = "answered" /\ at' = n

NearDown ==
    /\ pc = "near" /\ at # Nil /\ ~Matches(at)
    /\ LET next == child[at][NearTurn(at)]
       IN IF next # Nil THEN at' = next /\ UNCHANGED pc
          ELSE IF IsBeyond(at) THEN Answer(at) ELSE pc' = "climb" /\ UNCHANGED at
    /\ UNCHANGED <<order, root, size, fields, call, p, entries>>
NearFound ==
    /\ pc = "near" /\ (at # Nil => Matches(at))
    /\ Answer(at)
    /\ UNCHANGED <<order, root, size, fields, call, p, entries>>
NearClimb_OneUp ==
    /\ pc = "climb" /\ Answer(parent[at])
    /\ UNCHANGED <<order, root, size, fields, call, p, entries>>
NearClimb ==
    /\ pc = "climb"
    /\ IF parent[at] # Nil /\ at = child[parent[at]][call.side]
       THEN at' = parent[at] /\ UNCHANGED pc
       ELSE Answer(parent[at])
    /\ UNCHANGED <<order, root, size, fields, call, p, entries>>
NearReturn ==
    /\ pc = "answered"
    /\ Returns /\ UNCHANGED <<order, root, size, fields, entries>>
-----------------------------------------------------------------------------
LoopCall ==
    \/ \E op \in {"put", "putIfAbsent"}, pair \in LoopPairs :
        PutCall(op, pair[1], pair[2])
    \/ \E k \in RemovedKeys : RemoveCall(k)
    \/ \E side \in Sides : PollCall(side)
    \/ \E k \in AskedKeys, side \in Sides, inclusive \in BOOLEAN :
        NearCall(k, side, inclusive)
    \/ Clear

LoopStep ==
    \/ FindDown \/ FindHit \/ FindMissed
    \/ EndsDown \/ EndsFound \/ EndsNone
    \/ InsertDone \/ InsertLoop \/ InsertRaise
    \/ SuccessorDown \/ SuccessorFound
    \/ UnlinkInner \/ UnlinkOnly \/ UnlinkLeaf \/ TakeOff
    \/ FixDone \/ FixSibling \/ FixUp \/ FixNephew \/ FixPay
    \/ NearDown \/ NearFound \/ NearClimb \/ NearReturn

LoopsNext == LoopCall \/ LoopStep

(* A goroutine that holds the lock goes on. *)
LoopsSpec == LoopsInit /\ [][LoopsNext]_loopVars /\ WF_loopVars(LoopStep)
-----------------------------------------------------------------------------
(* The nodes below n, n included; the black ones on the way down to the    *)
(* left.                                                                   *)
Under[n \in Live \cup {Nil}] ==
    IF n = Nil THEN {}
    ELSE {n} \cup Under[child[n]["left"]] \cup Under[child[n]["right"]]
Blacks[n \in Live \cup {Nil}] ==
    IF n = Nil THEN 0
    ELSE (IF color[n] = "black" THEN 1 ELSE 0) + Blacks[child[n]["left"]]

(* Between calls the loops have left a red-black search tree of size       *)
(* nodes: whatever they rotated and recoloured, however far up the fix     *)
(* went, every node is reached from the root, once, and points back to     *)
(* its parent; no red node has a red parent; every way down meets the      *)
(* same number of black nodes.                                             *)
LoopShape == pc = "idle" =>
    /\ Under[root] = Live /\ size = Cardinality(Live)
    /\ root # Nil => parent[root] = Nil /\ color[root] = "black"
    /\ \A n \in Live :
        LET l == child[n]["left"]
            r == child[n]["right"]
        IN /\ \A m \in {l, r} \ {Nil} : parent[m] = n
           /\ Under[l] \cap Under[r] = {} /\ n \notin Under[l] \cup Under[r]
           /\ \A m \in Under[l] : Before(key[m], key[n])
           /\ \A m \in Under[r] : Before(key[n], key[m])
           /\ color[n] = "red" => ColorOf(l) = "black" /\ ColorOf(r) = "black"
           /\ Blacks[l] = Blacks[r]

(* Between calls the nodes hold what the calls have put and not removed.   *)
LoopContents == pc = "idle" =>
    {<<key[n], value[n]>> : n \in Live} = {<<k, entries[k]>> : k \in DOMAIN entries}

(* A query that went down and back up answers the nearest key.             *)
LoopAnswers == pc = "answered" =>
    {key[n] : n \in {at} \ {Nil}} =
        Dict!Nearest(call.k, IF call.side = "left" THEN -order ELSE order,
                     call.inclusive)

(* No loop follows a nil pointer: the grandparent of a red node with a red *)
(* parent is there, and so are the sibling below which a black is missing  *)
(* and the nephew that comes up.                                           *)
LoopNoNil ==
    /\ pc = "insert" /\ RedBelowRed => parent[parent[at]] # Nil
    /\ pc = "raise" => parent[at] # Nil /\ parent[parent[at]] # Nil
    /\ pc = "fix" /\ BlackMissing => parent[at] # Nil /\ Sibling # Nil
    /\ pc = "nephews" => Sibling # Nil
    /\ pc = "pay" => Sibling # Nil /\ Far # Nil
    /\ pc = "takeoff" => parent[p] # Nil

(* Every call returns. *)
LoopsEnd == pc # "idle" ~> pc = "idle"
=============================================================================
