-------------------------------- MODULE Lists --------------------------------
(***************************************************************************)
(* The collections without a comparator under any sequence of calls, each  *)
(* beside the sequence that ListSpec says it should be: LinkedList,        *)
(* LinkedHashMap, ArrayList; and HashSet, which is compared with itself.   *)
(***************************************************************************)
EXTENDS Integers, Sequences, FiniteSets

CONSTANTS ListValues,   \* the values that are put in a list
          Arguments,    \* sequences of values: the arguments of a call
          MaxLen,       \* no call makes a list longer
          MapKeys,      \* the keys of a linked hash map
          MapPairs,     \* sequences of its pairs: the arguments of a call
          UsesCleared   \* whether callers use elements of before a Clear

VARIABLES kind,         \* which collection this is
          obj,          \* the collection
          seq           \* what ListSpec says of it

listVars == <<obj, seq>>

LL == INSTANCE LinkedList
HM == INSTANCE LinkedHashMap
AL == INSTANCE ArrayList
HS == INSTANCE HashSet
Spec == INSTANCE ListSpec
Seqs == INSTANCE SequencesExt

ListKinds == {"linkedlist", "linkedhashmap", "arraylist", "hashset"}
NoList == <<>>
Glue == -1           \* no value

ListsInit ==
    /\ Spec!Init
    /\ obj \in CASE kind \in {"linkedlist", "heldlist"} -> {LL!NewLinkedList}
                 [] kind = "linkedhashmap" -> {HM!NewListMap}
                 [] kind = "arraylist" -> {AL!NewArrayListSize(0, cap) : cap \in 0..2}
                 [] kind = "hashset" -> {{}}
                 [] OTHER -> {NoList}

Fits(n) == Len(seq) + n <= MaxLen
Sizes == -1..2
Places == 0..MaxLen     \* some of them elements of no list
-----------------------------------------------------------------------------
LinkTo(l) == obj' = LL!Renumbered(l)

LinkedListCall ==
    \/ \E vs \in Arguments :
          \/ Fits(Len(vs)) /\ LinkTo(LL!PushBacks(obj, vs)) /\ Spec!AddLast(vs)
          \/ /\ Fits(Len(vs)) /\ LinkTo(LL!PushFronts(obj, vs))
             /\ Spec!AddFirst(Seqs!Reverse(vs))
          \/ Fits(Len(vs)) /\ LinkTo(LL!UnmarshalJSON(obj, vs)) /\ Spec!AddLast(vs)
          \/ LinkTo(LL!RemoveValues(obj, vs)) /\ Spec!RemoveFirstOfEach(vs)
          \/ /\ Fits(Len(vs))
             /\ LinkTo(LL!PushBackList(obj, LL!NewLinkedListFrom(vs)))
             /\ Spec!AddLast(vs)
          \/ /\ Fits(Len(vs))
             /\ LinkTo(LL!PushFrontList(obj, LL!NewLinkedListFrom(vs)))
             /\ Spec!AddFirst(vs)
    \/ \E n \in Sizes :
          LET all == IF n > 0 THEN n ELSE Len(seq)
          IN \/ LinkTo(LL!PopFronts(obj, n)) /\ Spec!RemoveFirstN(all)
             \/ LinkTo(LL!PopBacks(obj, n)) /\ Spec!RemoveLastN(all)
    \/ LinkTo(LL!PopFront(obj)) /\ Spec!RemoveFirstN(1)
    \/ LinkTo(LL!PopBack(obj)) /\ Spec!RemoveLastN(1)
    \/ Fits(Len(seq)) /\ LinkTo(LL!PushBackSelf(obj)) /\ Spec!AddLast(seq)
    \/ Fits(Len(seq)) /\ LinkTo(LL!PushFrontSelf(obj)) /\ Spec!AddFirst(seq)
    \/ /\ \/ LinkTo(LL!PopFrontAll(obj)) \/ LinkTo(LL!PopBackAll(obj))
          \/ LinkTo(LL!Clear(obj))
       /\ Spec!Empty

ElementCall ==
    \E e \in Places :
       \/ LinkTo(LL!MoveToFront(obj, e)) /\ Spec!MoveFirst(e)
       \/ LinkTo(LL!MoveToBack(obj, e)) /\ Spec!MoveLast(e)
       \/ \E mark \in Places :
             \/ LinkTo(LL!MoveBefore(obj, e, mark)) /\ Spec!MoveBefore(e, mark)
             \/ LinkTo(LL!MoveAfter(obj, e, mark)) /\ Spec!MoveAfter(e, mark)
       \/ \E v \in ListValues :
             /\ Fits(1)
             /\ \/ LinkTo(LL!InsertBefore(obj, e, v)) /\ Spec!AddBefore(e, <<v>>)
                \/ LinkTo(LL!InsertAfter(obj, e, v)) /\ Spec!AddAfter(e, <<v>>)
(* A linked list whose callers go on using the elements they have had: seq *)
(* holds its elements, not their values.                                   *)
NewElement == Len(obj.value) + 1
Usable(e) == UsesCleared \/ e \in Seqs!ToSet(seq) \/ obj.next[e] = LL!Nil
Held == {e \in DOMAIN obj.value : Usable(e)}
Place(e) == Seqs!SelectInSeq(seq, LAMBDA d : d = e)
HeldListCall ==
    \/ /\ NewElement <= MaxLen
       /\ \/ obj' = LL!PushBack(obj, 0) /\ Spec!AddLast(<<NewElement>>)
          \/ \E e \in Held : /\ obj' = LL!InsertAfter(obj, e, 0)
                            /\ Spec!AddAfter(Place(e), <<NewElement>>)
    \/ obj' = LL!PopFront(obj) /\ Spec!RemoveFirstN(1)
    \/ obj' = LL!Clear(obj) /\ Spec!Empty
    \/ \E e \in Held :
          \/ obj' = LL!MoveToFront(obj, e) /\ Spec!MoveFirst(Place(e))
          \/ \E mark \in Held : /\ obj' = LL!MoveBefore(obj, e, mark)
                               /\ Spec!MoveBefore(Place(e), Place(mark))
-----------------------------------------------------------------------------
MapTo(m) == obj' = HM!RenumberedMap(m)
KeysOf(pairs) == [i \in DOMAIN pairs |-> pairs[i][1]]

LinkedHashMapCall ==
    \/ \E pairs \in MapPairs :
          \/ MapTo(HM!Puts(obj, pairs)) /\ Spec!PutPairs(seq, pairs)
          \/ MapTo(HM!UnmarshalJSON(obj, pairs)) /\ Spec!PutPairs(seq, pairs)
          \/ MapTo(HM!Replace(obj, pairs)) /\ Spec!PutPairs(<<>>, pairs)
          \/ /\ MapTo(HM!Merge(obj, HM!Puts(HM!NewListMap, pairs)))
             /\ Spec!PutPairs(seq, pairs)
          \/ /\ MapTo(HM!Removes(obj, KeysOf(pairs)))
             /\ Spec!RemoveKeys(Seqs!ToSet(KeysOf(pairs)))
    \/ \E k \in MapKeys, v \in ListValues :
          \/ MapTo(HM!Put(obj, k, v)) /\ Spec!PutPair(k, v)
          \/ MapTo(HM!PutIfAbsent(obj, k, v)) /\ Spec!PutPairIfAbsent(k, v)
    \/ \E k \in MapKeys : MapTo(HM!Remove(obj, k)) /\ Spec!RemoveKeys({k})
    \/ \E size \in Sizes, ks \in SUBSET DOMAIN obj.data :
          /\ Cardinality(ks) = HM!HowMany(obj, size)
          /\ MapTo(HM!Pops(obj, Seqs!SetToSeq(ks))) /\ Spec!RemoveKeys(ks)
    \/ MapTo(HM!Merge(obj, obj)) /\ UNCHANGED seq
    \/ MapTo(HM!FilterEmpty(obj)) /\ Spec!Keep(LAMBDA pair : pair[2] # 0)
    \/ MapTo(HM!Clear(obj)) /\ Spec!Empty
-----------------------------------------------------------------------------
CellsTo(a) == obj' = a
Half(v) == v \div 2
PermutationsOf(n) == {p \in [1..n -> 0..n - 1] :
                          \A i, j \in 1..n : p[i] = p[j] => i = j}

ArrayListCall ==
    \/ \E vs \in Arguments :
          \/ Fits(Len(vs)) /\ CellsTo(AL!PushLeft(obj, vs)) /\ Spec!AddFirst(vs)
          \/ Fits(Len(vs)) /\ CellsTo(AL!PushRight(obj, vs)) /\ Spec!AddLast(vs)
          \/ CellsTo(AL!Remove(obj, vs)) /\ Spec!RemoveFirstOfEach(vs)
          \/ CellsTo(AL!UnmarshalJSON(obj, vs)) /\ Spec!Becomes(vs)
          \/ /\ CellsTo(AL!Filter(obj, Seqs!ToSet(vs)))
             /\ Spec!Keep(LAMBDA v : v \notin Seqs!ToSet(vs))
          \/ \E i \in -1..MaxLen :
                /\ Fits(Len(vs))
                /\ \/ /\ CellsTo(AL!InsertBefore(obj, i, vs))
                      /\ Spec!AddBefore(i + 1, vs)
                   \/ /\ CellsTo(AL!InsertAfter(obj, i, vs))
                      /\ Spec!AddAfter(i + 1, vs)
    \/ \E i \in -1..MaxLen :
          \/ CellsTo(AL!DoRemove(obj, i)) /\ Spec!RemovePlace(i + 1)
          \/ /\ AL!Inside(obj, i)
             /\ CellsTo(AL!PopRand(obj, i)) /\ Spec!RemovePlace(i + 1)
          \/ \E v \in ListValues :
                \/ CellsTo(AL!Set(obj, i, v)) /\ Spec!Overwrite(i + 1, v)
                \/ \E num \in 0..2 :
                      /\ i + num <= MaxLen
                      /\ CellsTo(AL!Fill(obj, i, num, v))
                      /\ Spec!Filled(i + 1, num, v)
    \/ \E n \in -MaxLen..MaxLen :
          \/ CellsTo(AL!PopLefts(obj, n)) /\ Spec!RemoveFirstN(IF n > 0 THEN n ELSE 0)
          \/ CellsTo(AL!PopRights(obj, n)) /\ Spec!RemoveLastN(IF n > 0 THEN n ELSE 0)
          \/ /\ CellsTo(AL!PopRands(obj, [i \in 1..AL!RandsSize(obj, n) |->
                                            Len(seq) - i]))
             /\ Spec!RemoveLastN(IF n > 0 THEN n ELSE 0)
          \/ \E v \in ListValues : CellsTo(AL!Pad(obj, n, v)) /\ Spec!Padded(n, v)
    \/ \E step \in 1..2 :
          /\ CellsTo(AL!NewArrayListRange(0, 2, step))
          /\ Spec!Becomes(SelectSeq(<<0, 1, 2>>, LAMBDA v : v % step = 0))
    \/ CellsTo(AL!PopLeft(obj)) /\ Spec!RemoveFirstN(1)
    \/ CellsTo(AL!PopRight(obj)) /\ Spec!RemoveLastN(1)
    \/ CellsTo(AL!Unique(obj)) /\ Spec!Distinct
    \/ CellsTo(AL!Reverse(obj)) /\ Spec!Reversed
    \/ CellsTo(AL!Sort(obj)) /\ Spec!Sorted
    \/ CellsTo(AL!FilterEmpty(obj)) /\ Spec!Keep(LAMBDA v : v # 0)
    \/ CellsTo(AL!Walk(obj, Half)) /\ Spec!Mapped(Half)
    \/ CellsTo(AL!Clear(obj)) /\ Spec!Empty
    \/ \E p \in PermutationsOf(Len(seq)) :
          CellsTo(AL!Shuffle(obj, p)) /\ seq' = AL!Shuffle(obj, p).cells
-----------------------------------------------------------------------------
HashSetCall ==
    /\ UNCHANGED seq
    /\ \/ \E vs \in Arguments :
             obj' \in {HS!Add(obj, vs), HS!Remove(obj, vs),
                       HS!UnmarshalJSON(obj, vs), HS!Clear(obj),
                       HS!Merge(obj, <<Seqs!ToSet(vs), obj>>)}
       \/ \E size \in Sizes : obj' \in HS!Pops(obj, size)
       \/ obj' = HS!Walk(obj, Half)

ListsNext ==
    \/ kind = "linkedlist" /\ (LinkedListCall \/ ElementCall)
    \/ kind = "heldlist" /\ HeldListCall
    \/ kind = "linkedhashmap" /\ LinkedHashMapCall
    \/ kind = "arraylist" /\ ArrayListCall
    \/ kind = "hashset" /\ HashSetCall
-----------------------------------------------------------------------------
(* What a linked list answers, and its copies. *)
IsZero(v) == v = 0
UpToZero(s) ==
    LET i == Seqs!SelectInSeq(s, IsZero) IN IF i = 0 THEN s ELSE SubSeq(s, 1, i)
Total(s) == Seqs!FoldLeft(LAMBDA n, v : n + v, 0, s)
LinkedListAnswers ==
    /\ LL!FrontAll(obj) = seq /\ LL!BackAll(obj) = Seqs!Reverse(seq)
    /\ LL!ForEachAsc(obj, IsZero) = UpToZero(seq)
    /\ LL!ForEachDesc(obj, IsZero) = UpToZero(Seqs!Reverse(seq))
    /\ seq # <<>> => /\ LL!FrontValue(obj) = Head(seq)
                     /\ LL!BackValue(obj) = seq[Len(seq)]
    /\ LL!Sum(obj) = Total(seq)
    /\ SelectSeq(LL!Join(obj, Glue), LAMBDA v : v # Glue) = seq
    /\ \A vs \in SUBSET ListValues : LL!ContainsAll(obj, vs) => vs \subseteq Seqs!ToSet(seq)
    /\ \A copy \in {LL!Clone(obj), LL!DeepCopy(obj),
                    LL!UnmarshalJSON(LL!NewLinkedList, LL!MarshalJSON(obj))} :
          LL!Intact(copy) /\ LL!Equals(copy, obj)

(* What a linked hash map answers; a copy may have its pairs in any order. *)
LinkedHashMapAnswers ==
    /\ HM!ForEachAsc(obj) = seq
    /\ HM!ForEachDesc(obj) = Seqs!Reverse(seq)
    /\ HM!Keys(obj) = KeysOf(seq)
    /\ HM!Values(obj) = [i \in DOMAIN seq |-> seq[i][2]]
    /\ HM!MarshalJSON(obj) = seq
    /\ \A pair \in Seqs!ToSet(seq) : HM!Get(obj, pair[1]) = pair[2]
    /\ \A pairs \in Seqs!SetToSeqs(Seqs!ToSet(seq)) :
          /\ HM!OfMap(pairs, HM!Map(obj))
          /\ \A copy \in {HM!Clone(obj, pairs), HM!DeepCopy(obj, pairs)} :
                HM!IndexIntact(copy) /\ HM!Map(copy) = HM!Map(obj)

(* What an array list answers: by index, by value, in ranges, in chunks.   *)
ArrayAnswers ==
    /\ AL!ForEachAsc(obj, IsZero) = UpToZero(seq)
    /\ AL!ForEachDesc(obj, IsZero) = UpToZero(Seqs!Reverse(seq))
    /\ AL!Sum(obj) = Total(seq) /\ AL!Slice(obj) = seq
    /\ SelectSeq(AL!Join(obj, Glue), LAMBDA v : v # Glue) = seq
    /\ \A copy \in {AL!Clone(obj), AL!DeepCopy(obj),
                    AL!UnmarshalJSON(obj, AL!MarshalJSON(obj))} : AL!Equals(copy, obj)
    /\ \A i \in -1..MaxLen :
          AL!Get(obj, i) = IF i + 1 \in DOMAIN seq THEN <<seq[i + 1]>> ELSE <<>>
    /\ \A v \in ListValues :
          /\ AL!Search(obj, v) = Seqs!SelectInSeq(seq, LAMBDA w : w = v) - 1
          /\ AL!Contains(obj, v) =>
                AL!CountValues(obj)[v] = Len(SelectSeq(seq, LAMBDA w : w = v))
    /\ \A from \in -1..MaxLen + 1, to \in 0..MaxLen + 1 :
          AL!Range(obj, from, to) =
              SubSeq(seq, IF from < 0 THEN 1 ELSE from + 1,
                     IF to > Len(seq) THEN Len(seq) ELSE to)
    /\ \A offset \in -MaxLen..MaxLen, n \in 0..MaxLen :
          LET from == IF offset < 0 THEN Len(seq) + offset ELSE offset
          IN from >= 0 => AL!SubSlice(obj, offset, n) =
                 SubSeq(seq, from + 1, IF from + n > Len(seq) THEN Len(seq)
                                       ELSE from + n)
    /\ \A size \in 1..3 :
          LET chunks == AL!Chunk(obj, size)
          IN /\ Seqs!FlattenSeq(chunks) = seq
             /\ \A i \in DOMAIN chunks : chunks[i] # <<>> /\ Len(chunks[i]) <= size
             /\ \A i \in 1..Len(chunks) - 1 : Len(chunks[i]) = size

(* What a hash set answers about one other set, and Union about several.   *)
SetAnswers ==
    /\ \A s \in HS!Slices(obj) :
          /\ Seqs!ToSet(s) = obj
          /\ SelectSeq(HS!Join(s, Glue), LAMBDA v : v # Glue) = s
          /\ HS!Sum(obj) = Total(s)
          /\ HS!UnmarshalJSON({}, s) = obj
    /\ \A copy \in {HS!Clone(obj), HS!DeepCopy(obj)} : HS!Equals(copy, obj)
    /\ \A v \in ListValues : HS!Contains(obj, v) <=> v \in obj
    /\ \A others \in {<<Seqs!ToSet(vs), Seqs!ToSet(ws)>> : vs, ws \in Arguments} :
          /\ HS!Union(obj, others) = obj \cup others[1] \cup others[2]
          /\ HS!Diff(obj, <<others[1]>>) = obj \ others[1]
          /\ HS!Intersect(obj, <<others[1]>>) = obj \cap others[1]
          /\ HS!Complement(obj, others[1]) = others[1] \ obj
          /\ HS!Equals(obj, others[1]) <=> obj = others[1]
          /\ HS!IsSubsetOf(obj, others[1]) <=> obj \subseteq others[1]

(* Elements that were taken off a list do no harm to it. *)
HeldListAnswers == LL!Forward(obj) = seq /\ obj.len = Len(seq)

(* Whatever the calls, a collection holds what its specification says, in  *)
(* both directions, its pointers and its index are intact, and it answers  *)
(* what the sequence, or the set, would.  The exceptions: ContainsAll of a *)
(* linked list says too little (true only if all are there, and not always *)
(* then) and of the array list and the hash set, true whatever is there,   *)
(* nothing; a slice that PopLefts or PopRights has handed out is not       *)
(* followed; and elements that Clear took off are used only if UsesCleared.*)
SameCollection ==
    CASE kind = "linkedlist" -> LL!Intact(obj) /\ LinkedListAnswers
      [] kind = "heldlist" -> HeldListAnswers
      [] kind = "linkedhashmap" -> HM!IndexIntact(obj) /\ LinkedHashMapAnswers
      [] kind = "arraylist" -> obj.cells = seq /\ ArrayAnswers
      [] kind = "hashset" -> SetAnswers
      [] OTHER -> TRUE
=============================================================================
