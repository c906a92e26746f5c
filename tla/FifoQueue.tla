------------------------------ MODULE FifoQueue ------------------------------
(***************************************************************************)
(* What gqueue.RingQueue promises of each call: a first-in first-out       *)
(* queue.  `queue' is its contents, `call' the last call that returned,    *)
(* with its argument, and `result' what it returned.                       *)
(***************************************************************************)
EXTENDS Integers, Sequences

CONSTANTS Items,   \* the values that are pushed
          Counts,  \* the arguments PopMulti may get
          Zero,    \* the zero value of T
          Panic    \* "the call panicked"

VARIABLES queue, call, result

Init == queue = <<>> /\ call = <<"New">> /\ result = <<>>

(* Return the first n items, or as many as there are: and remove them, or  *)
(* leave them.                                                             *)
AtMost(n) == IF n <= Len(queue) THEN n ELSE Len(queue)
Take(n) ==
    /\ result' = SubSeq(queue, 1, AtMost(n))
    /\ queue' = SubSeq(queue, AtMost(n) + 1, Len(queue))
Look(n) == result' = SubSeq(queue, 1, AtMost(n)) /\ UNCHANGED queue

(* The Must- forms have an answer of their own on an empty queue. *)
Or(answer, otherwise) ==
    IF queue = <<>> THEN result' = <<answer>> /\ UNCHANGED queue ELSE otherwise

Push(x) ==
    /\ call' = <<"Push", x>>
    /\ queue' = Append(queue, x) /\ result' = <<>>

Clear == call' = <<"Clear">> /\ queue' = <<>> /\ result' = <<>>

Next == \/ \E x \in Items : Push(x)
        \/ call' = <<"Pop">> /\ Take(1)
        \/ \E n \in Counts : call' = <<"PopMulti", n>> /\ Take(n)
        \/ call' = <<"PopAll">> /\ Take(Len(queue))
        \/ call' = <<"Peek">> /\ Look(1)
        \/ call' = <<"Snapshot">> /\ Look(Len(queue))
        \/ Clear
        \/ call' = <<"MustPop">> /\ Or(Zero, Take(1))
        \/ call' = <<"MustPeek">> /\ Or(Panic, Look(1))

Spec == Init /\ [][Next]_<<queue, call, result>>
=============================================================================
