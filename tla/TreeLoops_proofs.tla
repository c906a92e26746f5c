---------------------------- MODULE TreeLoops_proofs ----------------------------
(***************************************************************************)
(* What the loops of the red-black tree keep, proved for every set of      *)
(* addresses, keys and values, both comparators and any sequence of calls. *)
(*                                                                         *)
(* The argument.  U gives every node the set of the nodes below it, and B  *)
(* its black height.  Both are guessed (the invariant says that there are  *)
(* such functions), so that a step only has to change them where it        *)
(* changes the tree, and no induction over the tree is needed: Shape,      *)
(* Ordered and Balanced relate a node to its two children only.  What they *)
(* imply of nodes far apart is proved once, from a node with the fewest    *)
(* nodes below it (FewestBelow).  While a call is under way the invariant  *)
(* says what is not right yet: the new node and its parent may both be     *)
(* red; below one node, e, a black is missing, which counts as if it were  *)
(* an extra black of e; and the leaf that is to be taken off counts as     *)
(* nothing.                                                                *)
(***************************************************************************)
EXTENDS TreeLoops, FiniteSetTheorems, TLAPS

On(o, s, a, b) ==
    IF s = "left" THEN (IF o = 1 THEN a < b ELSE b < a)
    ELSE (IF o = 1 THEN b < a ELSE a < b)

(* The nodes below n, and n's black height, if n is one. *)
Below(U, n) == IF n = Nil THEN {} ELSE U[n]
Height(B, n) == IF n = Nil THEN 0 ELSE B[n]

Shape(N, c, up, rt, U) ==
    /\ Nil \notin N /\ IsFiniteSet(N)
    /\ c \in [N -> [Sides -> N \cup {Nil}]]
    /\ up \in [N -> N \cup {Nil}]
    /\ U \in [N -> SUBSET N]
    /\ rt \in N \cup {Nil}
    /\ rt = Nil => N = {}
    /\ rt # Nil => up[rt] = Nil /\ U[rt] = N
    /\ \A n \in N :
        /\ U[n] = {n} \cup Below(U, c[n]["left"]) \cup Below(U, c[n]["right"])
        /\ n \notin Below(U, c[n]["left"]) \cup Below(U, c[n]["right"])
        /\ Below(U, c[n]["left"]) \cap Below(U, c[n]["right"]) = {}
        /\ \A s \in Sides : c[n][s] # Nil => up[c[n][s]] = n

(* The search order, of every node but d. *)
Ordered(N, c, ks, U, o, d) ==
    \A n \in N \ {d}, s \in Sides : \A m \in Below(U, c[n][s]) \ {d} :
        On(o, s, ks[m], ks[n])

(* No red node has a red parent, x below its parent and the children of y  *)
(* excepted.                                                               *)
Reds(N, up, col, x, y) ==
    \A n \in N : col[n] = "red" /\ n # x /\ up[n] \notin {Nil, y} => col[up[n]] = "black"

(* d counts as nothing, and e has a black too many. *)
Weight(col, d, e, n) ==
    (IF col[n] = "black" /\ n # d THEN 1 ELSE 0) + (IF n = e THEN 1 ELSE 0)
Balanced(N, c, col, d, e, B) ==
    /\ B \in [N -> Nat]
    /\ \A n \in N, s \in Sides : B[n] = Weight(col, d, e, n) + Height(B, c[n][s])

(* The nodes but d hold what ent does. *)
Holds(N, ks, vs, ent, d) ==
    /\ \A n \in N \ {d} : ks[n] \in DOMAIN ent /\ ent[ks[n]] = vs[n]
    /\ \A k \in DOMAIN ent : \E n \in N \ {d} : ks[n] = k
-----------------------------------------------------------------------------
Fixing == pc \in {"fix", "nephews", "pay", "takeoff"}
Deleting == Fixing \/ pc \in {"successor", "unlink"}
Inserting == pc \in {"insert", "raise"}

Typed ==
    /\ order \in {1, -1} /\ size \in Int
    /\ root \in Live \cup {Nil}
    /\ Live \subseteq Nodes
    /\ color \in [Live -> {"red", "black"}]
    /\ key \in [Live -> LoopKeys]
    /\ value \in [Live -> LoopValues]
    /\ at \in Live \cup {Nil} /\ p \in Live \cup {Nil}

Sized ==
    size + (IF Inserting \/ (Deleting /\ p # Nil) THEN 1 ELSE 0) = Cardinality(Live)

Contents == Holds(Live, key, value, entries, IF Deleting THEN p ELSE Nil)

Search ==
    IF Deleting /\ pc # "successor" THEN p ELSE Nil

RedsKept ==
    /\ Reds(Live, parent, color, IF Inserting \/ pc = "fix" THEN at ELSE Nil,
            IF pc = "fix" THEN at ELSE Nil)
    /\ root # Nil /\ ~((Inserting \/ pc = "fix") /\ root = at) => color[root] = "black"

Extra(e) ==
    /\ pc = "fix" => e = at \/ (e = Nil /\ at = root)
    /\ pc \in {"nephews", "pay"} => e = at
    /\ pc \notin {"fix", "nephews", "pay"} => e = Nil

LeafToGo(U) ==
    p # Nil => /\ p # root /\ p \in U[at] /\ color[p] = "black"
               /\ \A s \in Sides : child[p][s] = Nil

(* Where the loops are. *)
InFind(U) == pc = "find" =>
    /\ call.op \in {"put", "putIfAbsent", "remove"} /\ call.k \in LoopKeys
    /\ call.op # "remove" => call.v \in LoopValues /\ Nodes # Live
    /\ p = Nil => at = root
    /\ p # Nil => key[p] # call.k /\ at = child[p][Toward(call.k, p)]
    /\ \A n \in Live, s \in Sides :
        p \in Below(U, child[n][s]) => On(order, s, call.k, key[n])
    /\ \A n \in Live : key[n] = call.k => n \in Below(U, at)
InEnds(U) == pc = "ends" =>
    /\ call.side \in Sides
    /\ p = Nil => at = root
    /\ p # Nil => at = child[p][call.side]
    /\ \A n \in Live : n \in Below(U, at) \/ n = p \/ On(order, call.side, key[p], key[n])
InSuccessor(U) == pc = "successor" =>
    /\ p # Nil /\ at \in Below(U, child[p]["right"])
    /\ child[p]["left"] # Nil
    /\ \A m \in Below(U, child[p]["right"]) :
        m \in U[at] \/ On(order, "left", key[at], key[m])
InUnlink == pc = "unlink" =>
    p # Nil /\ (child[p]["left"] = Nil \/ child[p]["right"] = Nil)
InInsert == Inserting =>
    /\ at # Nil /\ color[at] = "red"
    /\ pc = "raise" =>
        LET up == parent[at]
            top == parent[up]
        IN /\ at # root /\ up # root /\ color[up] = "red"
           /\ at = child[up][SideOf(up)]
           /\ ColorOf(child[top][Other(SideOf(up))]) = "black"
InFix(U) == pc \in {"fix", "nephews", "pay"} =>
    /\ at # Nil /\ LeafToGo(U)
    /\ pc # "fix" => /\ at # root /\ color[at] = "black"
                     /\ Sibling # Nil /\ color[Sibling] = "black"
    /\ pc = "pay" => Far # Nil /\ color[Far] = "red"
InTakeOff == pc = "takeoff" =>
    p # Nil /\ p # root /\ \A s \in Sides : child[p][s] = Nil

Sought == call.k \in LoopKeys /\ call.side \in Sides /\ call.inclusive \in BOOLEAN
Counts(n) == IsBeyond(n) \/ Matches(n)
Way(U) == \A n \in Live, s \in Sides :
    at \in Below(U, child[n][s]) => ~Matches(n) /\ s = NearTurn(n)
InNear(U) == pc \in {"near", "climb"} =>
    /\ Sought /\ Way(U)
    /\ at = Nil => root = Nil
    /\ pc = "climb" => at # Nil /\ \A m \in U[at] : ~Counts(m)
Answered == pc = "answered" => Sought /\ LoopAnswers

Idle == pc = "idle" => at = Nil /\ p = Nil

Tree(U, B, e) ==
    /\ Typed /\ Shape(Live, child, parent, root, U)
    /\ Ordered(Live, child, key, U, order, Search)
    /\ RedsKept
    /\ Balanced(Live, child, color, IF Fixing THEN p ELSE Nil, e, B)
    /\ Contents /\ Sized
Loops(U, e) ==
    /\ Extra(e) /\ Idle
    /\ InFind(U) /\ InEnds(U) /\ InSuccessor(U) /\ InUnlink
    /\ InInsert /\ InFix(U) /\ InTakeOff /\ InNear(U) /\ Answered
Always(U, B, e) == Tree(U, B, e) /\ Loops(U, e)
-----------------------------------------------------------------------------
(* Of any nodes, some have none of the others strictly below them.         *)
LEMMA FewestBelow ==
    ASSUME NEW N, IsFiniteSet(N), NEW U \in [N -> SUBSET N],
           NEW S \in SUBSET N, S # {}
    PROVE  \E n \in S : \A m \in S : U[m] \subseteq U[n] => U[m] = U[n]
<1> DEFINE R == StrictSubsetOrdering(N)
           T == {U[n] : n \in S}
<1>1. T \subseteq SUBSET N /\ T # {}
  OBVIOUS
<1>2. SUBSET N \subseteq FiniteSubsetsOf(N)
  BY FS_FiniteSubsetsOfFinite
<1>3. T \subseteq FiniteSubsetsOf(N)
  BY <1>1, <1>2
<1>4. IsWellFoundedOn(R, FiniteSubsetsOf(N))
  BY FS_StrictSubsetOrderingWellFounded
<1>5. \A a, b \in SUBSET N : a \subseteq b /\ a # b => <<a, b>> \in R
  BY DEF StrictSubsetOrdering
<1> HIDE DEF R
<1>6. PICK b \in T : \A a \in T : ~(<<a, b>> \in R)
  <2> HIDE DEF T
  <2> QED  BY <1>1, <1>3, <1>4, WFMin
<1>7. PICK n \in S : b = U[n]
  BY <1>6
<1>8. ASSUME NEW m \in S, U[m] \subseteq U[n]
      PROVE  U[m] = U[n]
  BY <1>1, <1>5, <1>6, <1>7, <1>8
<1> QED  BY <1>8

(* What Shape says, side by side. *)
LEMMA Kids ==
    ASSUME NEW N, NEW c, NEW up, NEW rt, NEW U, Shape(N, c, up, rt, U),
           NEW n \in N, NEW s \in Sides
    PROVE  /\ n # Nil /\ Other(s) \in Sides /\ Other(Other(s)) = s
           /\ c[n][s] \in N \cup {Nil} /\ up[n] \in N \cup {Nil}
           /\ n \in U[n] /\ U[n] \subseteq N
           /\ U[n] = {n} \cup Below(U, c[n][s]) \cup Below(U, c[n][Other(s)])
           /\ Below(U, c[n][s]) \subseteq U[n] /\ n \notin Below(U, c[n][s])
           /\ Below(U, c[n][s]) \cap Below(U, c[n][Other(s)]) = {}
           /\ c[n][s] # Nil => /\ up[c[n][s]] = n
                               /\ c[n][s] \in Below(U, c[n][s])
                               /\ Below(U, c[n][s]) = U[c[n][s]]
<1>1. /\ n # Nil /\ c[n] \in [Sides -> N \cup {Nil}]
      /\ up[n] \in N \cup {Nil} /\ U[n] \subseteq N
  BY DEF Shape
<1>2. /\ U[n] = {n} \cup Below(U, c[n]["left"]) \cup Below(U, c[n]["right"])
      /\ n \notin Below(U, c[n]["left"]) \cup Below(U, c[n]["right"])
      /\ Below(U, c[n]["left"]) \cap Below(U, c[n]["right"]) = {}
      /\ c[n][s] # Nil => up[c[n][s]] = n
  BY DEF Shape
<1>3. c[n][s] \in N \cup {Nil}
  BY <1>1
<1>4. c[n][s] # Nil => c[n][s] \in U[c[n][s]] /\ Below(U, c[n][s]) = U[c[n][s]]
  BY <1>3 DEF Shape, Below
<1>5. CASE s = "left"
  BY <1>1, <1>2, <1>3, <1>4, <1>5 DEF Other, Sides
<1>6. CASE s = "right"
  BY <1>1, <1>2, <1>3, <1>4, <1>6 DEF Other, Sides
<1> QED  BY <1>5, <1>6 DEF Sides

(* What is below a node below n is below n. *)
LEMMA Nested ==
    ASSUME NEW N, NEW c, NEW up, NEW rt, NEW U, Shape(N, c, up, rt, U),
           NEW n \in N, NEW m \in U[n]
    PROVE  U[m] \subseteq U[n]
<1> DEFINE S == {y \in N : m \in U[y] /\ U[y] \subseteq U[n]}
<1>1. n \in S /\ S \in SUBSET N /\ m \in N
  BY DEF Shape
<1>2. IsFiniteSet(N) /\ U \in [N -> SUBSET N]
  BY DEF Shape
<1>3. PICK y \in S : \A z \in S : U[z] \subseteq U[y] => U[z] = U[y]
  <2> HIDE DEF S
  <2> QED  BY <1>1, <1>2, FewestBelow
<1>4. ASSUME m # y  PROVE FALSE
  <2>1. PICK s \in Sides : m \in Below(U, c[y][s])
    BY <1>3, <1>4 DEF Shape, Sides
  <2>2. c[y][s] # Nil
    BY <2>1 DEF Below
  <2>3. /\ c[y][s] \in N /\ Below(U, c[y][s]) = U[c[y][s]]
        /\ U[c[y][s]] \subseteq U[y] /\ y \notin U[c[y][s]] /\ y \in U[y]
    BY <2>2, Kids
  <2>4. c[y][s] \in S
    BY <1>3, <2>1, <2>3
  <2> QED  BY <1>3, <2>3, <2>4
<1> QED  BY <1>3, <1>4

(* A node below n but n itself has a parent, below n, and is its child. *)
LEMMA ParentBelow ==
    ASSUME NEW N, NEW c, NEW up, NEW rt, NEW U, Shape(N, c, up, rt, U),
           NEW n \in N, NEW m \in U[n], m # n
    PROVE  /\ m \in N /\ up[m] \in U[n] /\ up[m] # Nil /\ up[m] \in N
           /\ \E s \in Sides : c[up[m]][s] = m
<1> DEFINE S == {y \in N : m \in U[y] /\ m # y /\ y \in U[n]}
<1>1. n \in S /\ S \in SUBSET N /\ m \in N
  <2>1. n \in U[n] /\ U[n] \subseteq N
    BY Kids DEF Sides
  <2> QED  BY <2>1
<1>2. IsFiniteSet(N) /\ U \in [N -> SUBSET N]
  BY DEF Shape
<1>3. PICK y \in S : \A z \in S : U[z] \subseteq U[y] => U[z] = U[y]
  <2> HIDE DEF S
  <2> QED  BY <1>1, <1>2, FewestBelow
<1>4. PICK s \in Sides : m \in Below(U, c[y][s])
  BY <1>3 DEF Shape, Sides
<1>5. c[y][s] # Nil
  BY <1>4 DEF Below
<1>6. /\ c[y][s] \in N /\ Below(U, c[y][s]) = U[c[y][s]] /\ up[c[y][s]] = y
      /\ c[y][s] \in U[c[y][s]]
      /\ U[c[y][s]] \subseteq U[y] /\ y \notin U[c[y][s]] /\ y \in U[y] /\ y # Nil
  BY <1>5, Kids
<1>7. c[y][s] \in U[n]
  BY <1>6, Nested
<1>8. c[y][s] = m
  BY <1>3, <1>4, <1>6, <1>7
<1> QED  BY <1>1, <1>3, <1>6, <1>8

(* So has every node but the root. *)
LEMMA ParentThere ==
    ASSUME NEW N, NEW c, NEW up, NEW rt, NEW U, Shape(N, c, up, rt, U),
           NEW n \in N
    PROVE  /\ rt # Nil /\ rt \in N /\ n \in U[rt] /\ up[rt] = Nil
           /\ n # rt => /\ up[n] # Nil /\ up[n] \in N
                        /\ \E s \in Sides : c[up[n]][s] = n
<1>1. rt # Nil /\ rt \in N /\ n \in U[rt] /\ up[rt] = Nil
  BY DEF Shape
<1> QED  BY <1>1, ParentBelow

(* Of two nodes one is below the other, or they are on the two sides of a  *)
(* third.                                                                  *)
LEMMA Fork ==
    ASSUME NEW N, NEW c, NEW up, NEW rt, NEW U, Shape(N, c, up, rt, U),
           NEW n \in N, NEW m \in N
    PROVE  \/ m \in U[n]
           \/ \E y \in N, s \in Sides : /\ n \in Below(U, c[y][s])
                                        /\ m \in {y} \cup Below(U, c[y][Other(s)])
<1> DEFINE S == {y \in N : n \in U[y] /\ m \in U[y]}
<1>1. rt \in S /\ S \in SUBSET N
  BY ParentThere
<1>2. IsFiniteSet(N) /\ U \in [N -> SUBSET N]
  BY DEF Shape
<1>3. PICK y \in S : \A z \in S : U[z] \subseteq U[y] => U[z] = U[y]
  <2> HIDE DEF S
  <2> QED  BY <1>1, <1>2, FewestBelow
<1>4. CASE n = y
  BY <1>3, <1>4
<1>5. CASE n # y
  <2>1. PICK s \in Sides : n \in Below(U, c[y][s])
    BY <1>3, <1>5 DEF Shape, Sides
  <2>2. c[y][s] # Nil
    BY <2>1 DEF Below
  <2>3. /\ c[y][s] \in N /\ Below(U, c[y][s]) = U[c[y][s]]
        /\ U[c[y][s]] \subseteq U[y] /\ y \notin U[c[y][s]] /\ y \in U[y]
        /\ U[y] = {y} \cup Below(U, c[y][s]) \cup Below(U, c[y][Other(s)])
    BY <2>2, Kids
  <2>4. m \notin U[c[y][s]]
    BY <1>3, <2>1, <2>3
  <2> QED  BY <1>3, <2>1, <2>3, <2>4
<1> QED  BY <1>4, <1>5

(* Two nodes are below each other only if they are one. *)
LEMMA Acyclic ==
    ASSUME NEW N, NEW c, NEW up, NEW rt, NEW U, Shape(N, c, up, rt, U),
           NEW n \in N, NEW s \in Sides, c[n][s] # Nil
    PROVE  /\ c[n][s] \in N /\ c[n][s] # n /\ c[n][s] # rt
           /\ c[n][s] # c[n][Other(s)]
           /\ up[n] # c[n][s]
<1>1. /\ c[n][s] \in N /\ up[c[n][s]] = n /\ n # Nil
      /\ c[n][s] \in Below(U, c[n][s]) /\ n \notin Below(U, c[n][s])
      /\ Below(U, c[n][s]) \cap Below(U, c[n][Other(s)]) = {}
      /\ Below(U, c[n][s]) = U[c[n][s]]
  BY Kids
<1>2. c[n][s] # rt
  BY <1>1 DEF Shape
<1>3. ASSUME up[n] = c[n][s]  PROVE FALSE
  <2>1. n # rt
    BY <1>1, <1>3 DEF Shape
  <2>2. PICK t \in Sides : c[up[n]][t] = n
    BY <2>1, ParentThere
  <2>3. n \in U[up[n]]
    <3>1. Below(U, c[up[n]][t]) \subseteq U[up[n]]
      BY <1>1, <1>3, Kids
    <3>2. n \in Below(U, n)
      BY <1>1, Kids DEF Below
    <3> QED  BY <2>2, <3>1, <3>2
  <2> QED  BY <1>1, <1>3, <2>3
<1> QED  BY <1>1, <1>2, <1>3
-----------------------------------------------------------------------------
(* A rotation, pointer by pointer: q goes down on side s of its child r.   *)
Rotated(N, c, up, rt, c1, up1, rt1, q, r, s) ==
    /\ q \in N /\ s \in Sides /\ r = c[q][Other(s)] /\ r # Nil
    /\ c1 \in [N -> [Sides -> N \cup {Nil}]] /\ up1 \in [N -> N \cup {Nil}]
    /\ c1[q][Other(s)] = c[r][s] /\ c1[q][s] = c[q][s]
    /\ c1[r][s] = q /\ c1[r][Other(s)] = c[r][Other(s)]
    /\ \A n \in N \ {q, r}, t \in Sides :
        c1[n][t] = IF c[n][t] = q THEN r ELSE c[n][t]
    /\ up1[q] = r /\ up1[r] = up[q]
    /\ \A n \in N \ {q, r} : up1[n] = IF n = c[r][s] THEN q ELSE up[n]
    /\ rt1 = IF q = rt THEN r ELSE rt

(* Which child of its parent a node is, SideOf knows. *)
LEMMA SideIs ==
    ASSUME NEW U, Shape(Live, child, parent, root, U),
           NEW n \in Live, n # root
    PROVE  /\ parent[n] \in Live /\ parent[n] # Nil
           /\ SideOf(n) \in Sides /\ child[parent[n]][SideOf(n)] = n
           /\ child[parent[n]][Other(SideOf(n))] # n
<1>1. /\ parent[n] # Nil /\ parent[n] \in Live
      /\ \E s \in Sides : child[parent[n]][s] = n
  BY ParentThere
<1>2. SideOf(n) \in Sides /\ child[parent[n]][SideOf(n)] = n
  BY <1>1 DEF SideOf, Sides
<1>3. n # Nil
  BY DEF Shape
<1>4. child[parent[n]][Other(SideOf(n))] # n
  BY <1>1, <1>2, <1>3, Acyclic
<1> QED  BY <1>1, <1>2, <1>4

LEMMA RotateRotates ==
    ASSUME NEW U, Shape(Live, child, parent, root, U),
           NEW q \in Live, NEW s \in Sides, child[q][Other(s)] # Nil, Rotate(q, s)
    PROVE  /\ Live' = Live
           /\ Rotated(Live, child, parent, root, child', parent', root',
                      q, child[q][Other(s)], s)
<1> DEFINE r == child[q][Other(s)]
           inner == child[r][s]
           up == parent[q]
           t == SideOf(q)
           c0 == Swapped(q, r)
           u0 == Updated(parent, inner, q)
<1>1. /\ r \in Live /\ r # q /\ r # root /\ up # r /\ parent[r] = q
      /\ q # Nil /\ Other(s) \in Sides /\ Other(Other(s)) = s /\ Other(s) # s
  BY Kids, Acyclic DEF Other, Sides
<1>2. inner \in Live \cup {Nil} /\ up \in Live \cup {Nil}
  BY <1>1, Kids
<1>3. inner # Nil => inner # q /\ inner # r /\ parent[inner] = r
  BY <1>1, <1>2, Kids, Acyclic
<1>4. /\ child \in [Live -> [Sides -> Live \cup {Nil}]]
      /\ parent \in [Live -> Live \cup {Nil}]
      /\ root \in Live
  BY ParentThere DEF Shape
<1>5. q # root <=> up # Nil
  BY <1>4, ParentThere
<1>6. up # Nil => /\ up \in Live /\ t \in Sides /\ child[up][t] = q
                  /\ child[up][Other(t)] # q /\ up # q
  <2>1. up # Nil => up \in Live /\ t \in Sides /\ child[up][t] = q /\ child[up][Other(t)] # q
    BY <1>5, SideIs
  <2>2. up # Nil => up # q
    BY <2>1, <1>1, Acyclic
  <2> QED  BY <2>1, <2>2
<1>7. ASSUME NEW n \in Live, NEW x \in Sides, child[n][x] = q
      PROVE  up # Nil /\ n = up /\ x = t
  <2>1. n = up /\ n # Nil
    BY <1>1, <1>7, Kids
  <2> QED  BY <1>6, <1>7, <2>1 DEF Sides, Other
<1>8. /\ c0 \in [Live -> [Sides -> Live \cup {Nil}]]
      /\ \A n \in Live, x \in Sides :
            c0[n][x] = IF child[n][x] = q THEN r ELSE child[n][x]
  <2>1. CASE up = Nil
    BY <1>4, <1>7, <2>1 DEF Swapped
  <2>2. CASE up # Nil
    <3>1. c0 = [child EXCEPT ![up][t] = r]
      BY <2>2 DEF Swapped
    <3> HIDE DEF r, up, t, c0
    <3> QED  BY <1>1, <1>4, <1>6, <1>7, <2>2, <3>1
  <2> QED  BY <2>1, <2>2
<1>9. /\ u0 \in [Live -> Live \cup {Nil}]
      /\ \A n \in Live : u0[n] = IF n = inner THEN q ELSE parent[n]
  BY <1>2, <1>4, Kids DEF Updated
<1>10. /\ child' = [c0 EXCEPT ![q][Other(s)] = inner, ![r][s] = q]
       /\ parent' = [u0 EXCEPT ![r] = up, ![q] = r]
       /\ root' = IF up = Nil THEN r ELSE root
  BY DEF Rotate, RootFor
<1>11. r = child[q][Other(s)] /\ inner = child[r][s] /\ up = parent[q]
  OBVIOUS
<1> HIDE DEF r, inner, up, t, c0, u0
<1>12. /\ parent' \in [Live -> Live \cup {Nil}] /\ DOMAIN parent' = Live
       /\ parent'[q] = r /\ parent'[r] = up
       /\ \A n \in Live \ {q, r} : parent'[n] = IF n = inner THEN q ELSE parent[n]
  BY <1>1, <1>2, <1>9, <1>10
<1>13. /\ child' \in [Live -> [Sides -> Live \cup {Nil}]]
       /\ child'[q][Other(s)] = inner /\ child'[q][s] = c0[q][s]
       /\ child'[r][s] = q /\ child'[r][Other(s)] = c0[r][Other(s)]
       /\ \A n \in Live \ {q, r} : child'[n] = c0[n]
  BY <1>1, <1>2, <1>8, <1>10
<1>14. c0[q][s] = child[q][s] /\ c0[r][Other(s)] = child[r][Other(s)]
  <2>1. child[q][s] # q /\ child[r][Other(s)] # q
    BY <1>1, <1>6, <1>7
  <2> QED  BY <1>1, <1>8, <2>1
<1>15. Live' = Live
  BY <1>12 DEF Live
<1>16. \A n \in Live \ {q, r}, x \in Sides :
          child'[n][x] = IF child[n][x] = q THEN r ELSE child[n][x]
  BY <1>8, <1>13
<1>17. Rotated(Live, child, parent, root, child', parent', root', q, r, s)
  BY <1>1, <1>5, <1>10, <1>11, <1>12, <1>13, <1>14, <1>16 DEF Rotated
<1> QED  BY <1>11, <1>15, <1>17

(* The nodes below q and r change, and no others. *)
Turned(U, c, q, r, s) ==
    [U EXCEPT ![r] = U[q],
              ![q] = {q} \cup Below(U, c[q][s]) \cup Below(U, c[r][s])]

LEMMA RotatedShape ==
    ASSUME NEW N, NEW c, NEW up, NEW rt, NEW U, Shape(N, c, up, rt, U),
           NEW c1, NEW up1, NEW rt1, NEW q, NEW r, NEW s,
           Rotated(N, c, up, rt, c1, up1, rt1, q, r, s)
    PROVE  Shape(N, c1, up1, rt1, Turned(U, c, q, r, s))
<1> DEFINE W == Turned(U, c, q, r, s)
           inner == c[r][s]
           outer == c[q][s]
           far == c[r][Other(s)]
<1>0. \A n \in N, t \in Sides :
          /\ U[n] = {n} \cup Below(U, c[n][t]) \cup Below(U, c[n][Other(t)])
          /\ n \notin Below(U, c[n][t]) /\ n \notin Below(U, c[n][Other(t)])
          /\ Below(U, c[n][t]) \cap Below(U, c[n][Other(t)]) = {}
          /\ U[n] \subseteq N /\ Below(U, c[n][t]) \subseteq U[n]
  BY Kids
<1>1. /\ q \in N /\ s \in Sides /\ r = c[q][Other(s)] /\ r # Nil
      /\ c1 \in [N -> [Sides -> N \cup {Nil}]] /\ up1 \in [N -> N \cup {Nil}]
      /\ c1[q][Other(s)] = inner /\ c1[q][s] = outer
      /\ c1[r][s] = q /\ c1[r][Other(s)] = far
      /\ up1[q] = r /\ up1[r] = up[q]
      /\ rt1 = IF q = rt THEN r ELSE rt
  BY DEF Rotated
<1>2. \A n \in N \ {q, r} : up1[n] = IF n = inner THEN q ELSE up[n]
  BY DEF Rotated
<1>3. \A n \in N \ {q, r}, t \in Sides :
          c1[n][t] = IF c[n][t] = q THEN r ELSE c[n][t]
  BY DEF Rotated
<1>4. /\ r \in N /\ r # q /\ r # rt /\ up[q] # r /\ up[r] = q
      /\ q # Nil /\ Other(s) \in Sides /\ Other(Other(s)) = s /\ Other(s) # s
      /\ r # outer
  BY <1>1, Kids, Acyclic DEF Other, Sides
<1>5. /\ U \in [N -> SUBSET N] /\ Nil \notin N /\ IsFiniteSet(N)
      /\ rt \in N /\ up[rt] = Nil /\ U[rt] = N
  BY <1>1 DEF Shape
<1>6. /\ inner \in N \cup {Nil} /\ inner # r /\ inner # q /\ inner # rt
      /\ inner # Nil => up[inner] = r
      /\ inner # far \/ inner = Nil
  <2>1. inner # Nil => inner # r /\ inner # rt /\ up[r] # inner /\ up[inner] = r /\ inner # far
    BY <1>1, <1>4, Kids, Acyclic
  <2>2. inner \in N \cup {Nil}
    BY <1>1, <1>4, Kids
  <2> HIDE DEF inner, far
  <2> QED  BY <1>1, <1>4, <1>5, <2>1, <2>2
<1>7. /\ outer \in N \cup {Nil} /\ outer # q /\ far \in N \cup {Nil} /\ far # r
      /\ outer # Nil => up[outer] = q
      /\ far # Nil => up[far] = r
  <2>1. outer # Nil => outer # q /\ up[outer] = q
    BY <1>1, Kids, Acyclic
  <2>2. far # Nil => far # r /\ up[far] = r
    BY <1>1, <1>4, Kids, Acyclic
  <2>3. outer \in N \cup {Nil}
    BY <1>1, Kids
  <2>4. far \in N \cup {Nil}
    BY <1>1, <1>4, Kids
  <2> HIDE DEF outer, far
  <2> QED  BY <1>1, <1>4, <1>5, <2>1, <2>2, <2>3, <2>4
<1>8. /\ U[q] = {q} \cup Below(U, outer) \cup U[r]
      /\ q \notin Below(U, outer) /\ q \notin U[r] /\ Below(U, outer) \cap U[r] = {}
      /\ Below(U, outer) \subseteq N
  <2>1. Below(U, c[q][Other(s)]) = U[r]
    BY <1>1, <1>4 DEF Below
  <2>2. /\ U[q] = {q} \cup Below(U, c[q][s]) \cup Below(U, c[q][Other(s)])
        /\ q \notin Below(U, c[q][s]) /\ q \notin Below(U, c[q][Other(s)])
        /\ Below(U, c[q][s]) \cap Below(U, c[q][Other(s)]) = {}
        /\ U[q] \subseteq N /\ Below(U, c[q][s]) \subseteq U[q]
    BY <1>0, <1>1
  <2> QED  BY <2>1, <2>2
<1>9. /\ U[r] = {r} \cup Below(U, inner) \cup Below(U, far)
      /\ r \notin Below(U, inner) /\ r \notin Below(U, far)
      /\ Below(U, inner) \cap Below(U, far) = {}
  BY <1>0, <1>1, <1>4
<1> HIDE DEF inner, outer, far
<1>10. /\ W \in [N -> SUBSET N] /\ W[r] = U[q]
       /\ W[q] = {q} \cup Below(U, outer) \cup Below(U, inner)
       /\ \A n \in N \ {q, r} : W[n] = U[n]
  <2>1. {q} \cup Below(U, outer) \cup Below(U, inner) \in SUBSET N
    BY <1>1, <1>4, <1>5, <1>8, <1>9
  <2>2. W = [U EXCEPT ![r] = U[q], ![q] = {q} \cup Below(U, outer) \cup Below(U, inner)]
    BY DEF Turned, outer, inner
  <2> HIDE DEF W
  <2> QED  BY <1>1, <1>4, <1>5, <2>1, <2>2
<1> HIDE DEF W
<1>11. \A n \in N \cup {Nil} : n \notin {q, r} => Below(W, n) = Below(U, n)
  BY <1>10 DEF Below
<1>12. Below(W, q) = W[q] /\ Below(W, r) = U[q]
  BY <1>1, <1>4, <1>10 DEF Below
<1>13. \A n \in {outer, inner, far} : n \in N \cup {Nil} /\ n \notin {q, r}
  <2>1. far # q
    BY <1>4, <1>7, <1>1
  <2> QED  BY <1>1, <1>4, <1>6, <1>7, <2>1
<1>14. ASSUME NEW n \in N \ {q, r}
       PROVE  /\ c[n]["left"] # r /\ c[n]["right"] # r
              /\ \A t \in Sides : Below(W, c1[n][t]) = Below(U, c[n][t])
              /\ \A t \in Sides : c1[n][t] # Nil => up1[c1[n][t]] = n
  <2>1. \A t \in Sides : c[n][t] \in N \cup {Nil} /\ (c[n][t] # Nil => up[c[n][t]] = n)
    BY Kids
  <2>2. \A t \in Sides : c[n][t] # r
    BY <1>1, <1>4, <2>1
  <2>3. \A t \in Sides : c[n][t] = q => Below(U, c[n][t]) = U[q]
    BY <1>4 DEF Below
  <2>4. \A t \in Sides : c[n][t] # inner \/ inner = Nil
    BY <1>6, <2>1
  <2>5. \A t \in Sides : Below(W, c1[n][t]) = Below(U, c[n][t])
    BY <1>3, <1>11, <1>12, <2>1, <2>2, <2>3
  <2>6. ASSUME NEW t \in Sides, c1[n][t] # Nil
        PROVE  up1[c1[n][t]] = n
    <3>1. CASE c[n][t] = q
      <4>1. c1[n][t] = r /\ up[q] = n
        BY <1>3, <1>4, <2>1, <3>1
      <4> QED  BY <1>1, <4>1
    <3>2. CASE c[n][t] # q
      <4>1. c1[n][t] = c[n][t] /\ c[n][t] \in N \ {q, r} /\ up[c[n][t]] = n
        BY <1>3, <2>1, <2>2, <2>6, <3>2
      <4>2. c[n][t] # inner
        BY <2>4, <2>6, <4>1
      <4> QED  BY <1>2, <4>1, <4>2
    <3> QED  BY <3>1, <3>2
  <2> QED  BY <2>2, <2>5, <2>6 DEF Sides
<1> DEFINE Fits(n) ==
        /\ W[n] = {n} \cup Below(W, c1[n]["left"]) \cup Below(W, c1[n]["right"])
        /\ n \notin Below(W, c1[n]["left"]) \cup Below(W, c1[n]["right"])
        /\ Below(W, c1[n]["left"]) \cap Below(W, c1[n]["right"]) = {}
        /\ \A t \in Sides : c1[n][t] # Nil => up1[c1[n][t]] = n
<1>15. ASSUME NEW n \in N \ {q, r}  PROVE Fits(n)
  <2>1. /\ U[n] = {n} \cup Below(U, c[n]["left"]) \cup Below(U, c[n]["right"])
        /\ n \notin Below(U, c[n]["left"]) \cup Below(U, c[n]["right"])
        /\ Below(U, c[n]["left"]) \cap Below(U, c[n]["right"]) = {}
    BY DEF Shape
  <2> QED  BY <1>10, <1>14, <2>1 DEF Sides
<1>16. Fits(q)
  <2>1. Below(W, outer) = Below(U, outer) /\ Below(W, inner) = Below(U, inner)
    BY <1>11, <1>13
  <2>2. /\ W[q] = {q} \cup Below(W, outer) \cup Below(W, inner)
        /\ q \notin Below(W, outer) \cup Below(W, inner)
        /\ Below(W, outer) \cap Below(W, inner) = {}
    BY <1>8, <1>9, <1>10, <2>1
  <2>3. /\ outer # Nil => up1[outer] = q
        /\ inner # Nil => up1[inner] = q
    BY <1>2, <1>7, <1>13
  <2>4. CASE s = "left"
    BY <1>1, <2>2, <2>3, <2>4 DEF Other, Sides
  <2>5. CASE s = "right"
    BY <1>1, <2>2, <2>3, <2>5 DEF Other, Sides
  <2> QED  BY <1>1, <2>4, <2>5 DEF Sides
<1>17. Fits(r)
  <2>1. Below(W, far) = Below(U, far)
    BY <1>11, <1>13
  <2>2. /\ W[r] = {r} \cup Below(W, q) \cup Below(W, far)
        /\ r \notin Below(W, q) \cup Below(W, far)
        /\ Below(W, q) \cap Below(W, far) = {}
    BY <1>4, <1>8, <1>9, <1>10, <1>12, <2>1
  <2>3. up1[q] = r /\ (far # Nil => up1[far] = r)
    BY <1>1, <1>2, <1>6, <1>7, <1>13
  <2>4. CASE s = "left"
    BY <1>1, <2>2, <2>3, <2>4 DEF Other, Sides
  <2>5. CASE s = "right"
    BY <1>1, <2>2, <2>3, <2>5 DEF Other, Sides
  <2> QED  BY <1>1, <2>4, <2>5 DEF Sides
<1>18. \A n \in N : Fits(n)
  BY <1>15, <1>16, <1>17
<1>19. rt1 \in N /\ rt1 # Nil /\ up1[rt1] = Nil /\ W[rt1] = N
  <2>1. CASE q = rt
    BY <1>1, <1>4, <1>5, <1>10, <2>1
  <2>2. CASE q # rt
    BY <1>1, <1>2, <1>4, <1>5, <1>6, <1>10, <2>2
  <2> QED  BY <2>1, <2>2
<1>20. Shape(N, c1, up1, rt1, W)
  BY <1>1, <1>5, <1>10, <1>18, <1>19 DEF Shape
<1> QED  BY <1>20 DEF W

(* The order on the two sides is one order, read either way.               *)
LEMMA OnFacts ==
    ASSUME NEW o \in {1, -1}, NEW s \in Sides, NEW a \in Int, NEW b \in Int
    PROVE  /\ On(o, Other(s), a, b) <=> On(o, s, b, a)
           /\ ~On(o, s, a, a)
           /\ On(o, s, a, b) => ~On(o, s, b, a) /\ a # b
           /\ \A x \in Int : On(o, s, a, b) /\ On(o, s, b, x) => On(o, s, a, x)
BY DEF On, Other, Sides

LEMMA RotatedOrdered ==
    ASSUME NEW N, NEW c, NEW up, NEW rt, NEW U, Shape(N, c, up, rt, U),
           NEW c1, NEW up1, NEW rt1, NEW q, NEW r, NEW s,
           Rotated(N, c, up, rt, c1, up1, rt1, q, r, s),
           NEW o \in {1, -1}, NEW ks \in [N -> Int], NEW d, d # q,
           Ordered(N, c, ks, U, o, d)
    PROVE  Ordered(N, c1, ks, Turned(U, c, q, r, s), o, d)
<1> DEFINE W == Turned(U, c, q, r, s)
<1>0. /\ q \in N /\ s \in Sides /\ Other(s) \in Sides /\ r = c[q][Other(s)] /\ r # Nil
      /\ r \in N /\ q # r
      /\ c1[q][Other(s)] = c[r][s] /\ c1[q][s] = c[q][s]
      /\ c1[r][s] = q /\ c1[r][Other(s)] = c[r][Other(s)]
  <2>1. q \in N /\ s \in Sides /\ r = c[q][Other(s)] /\ r # Nil
    BY DEF Rotated
  <2> QED  BY <2>1, Kids, Acyclic DEF Rotated
<1>1. /\ Nil \notin N /\ U \in [N -> SUBSET N]
      /\ \A n \in N, t \in Sides :
          /\ c[n][t] \in N \cup {Nil} /\ (c[n][t] # Nil => up[c[n][t]] = n)
          /\ Below(U, c[n][t]) \subseteq U[n] /\ U[n] \subseteq N
  <2>1. Nil \notin N /\ U \in [N -> SUBSET N]
    BY DEF Shape
  <2> QED  BY <2>1, Kids
<1>2. /\ W \in [N -> SUBSET N] /\ W[r] = U[q]
      /\ W[q] = {q} \cup Below(U, c[q][s]) \cup Below(U, c[r][s])
      /\ \A n \in N \ {q, r} : W[n] = U[n]
  <2>1. {q} \cup Below(U, c[q][s]) \cup Below(U, c[r][s]) \in SUBSET N
    BY <1>0, <1>1
  <2> QED  BY <1>0, <1>1, <2>1 DEF Turned
<1>3. /\ \A n \in N \ {d}, t \in Sides : \A m \in Below(U, c[n][t]) \ {d} :
            On(o, t, ks[m], ks[n])
      /\ \A n \in N : ks[n] \in Int
  BY DEF Ordered
<1>4. \A m \in Below(U, c[q][s]) : m \in N /\ (m # d => On(o, s, ks[m], ks[q]))
  BY <1>0, <1>1, <1>3
<1>5. U[r] = Below(U, c[q][Other(s)]) /\ r \in U[r]
  BY <1>0, Kids DEF Below
<1>6. \A m \in U[r] : m \in N /\ (m # d => On(o, Other(s), ks[m], ks[q]))
  BY <1>0, <1>1, <1>3, <1>5
<1>7. Below(U, c[r][s]) \subseteq U[r]
  BY <1>0, <1>1
<1>10. \A n \in N, t \in Sides : c[n][t] # Nil =>
          c[n][t] # n /\ c[n][t] # c[n][Other(t)] /\ up[n] # c[n][t]
  BY Acyclic
<1>11. up[r] = q /\ q # Nil
  BY <1>0, <1>1
<1>12. /\ c[q][s] # q /\ c[q][s] # r /\ c[r][s] # q /\ c[r][s] # r
       /\ c[r][Other(s)] # q /\ c[r][Other(s)] # r
  BY <1>0, <1>10, <1>11
<1> HIDE DEF W
<1>8. ASSUME NEW n \in N \ {d}, NEW t \in Sides, NEW m \in Below(W, c1[n][t]) \ {d}
      PROVE  On(o, t, ks[m], ks[n])
  <2>1. CASE n = q
    <3>1. t = s \/ t = Other(s)
      BY <1>0 DEF Sides, Other
    <3>2. c[q][s] \notin {q, r} /\ c[r][s] \notin {q, r}
      BY <1>12
    <3>3. CASE t = s
      <4>1. m \in Below(U, c[q][s])
        BY <1>0, <1>1, <1>2, <1>8, <2>1, <3>2, <3>3 DEF Below
      <4> QED  BY <1>4, <2>1, <3>3, <4>1
    <3>4. CASE t = Other(s)
      <4>1. m \in Below(U, c[r][s])
        BY <1>0, <1>1, <1>2, <1>8, <2>1, <3>2, <3>4 DEF Below
      <4> QED  BY <1>6, <1>7, <2>1, <3>4, <4>1
    <3> QED  BY <3>1, <3>3, <3>4
  <2>2. CASE n = r
    <3>1. t = s \/ t = Other(s)
      BY <1>0 DEF Sides, Other
    <3>2. On(o, s, ks[q], ks[r])
      <4>1. On(o, Other(s), ks[r], ks[q])
        BY <1>5, <1>6, <2>2
      <4> QED  BY <1>0, <1>3, <4>1, OnFacts
    <3>3. CASE t = s
      <4>1. m \in W[q]
        BY <1>0, <1>1, <1>8, <2>2, <3>3 DEF Below
      <4>2. CASE m = q
        BY <2>2, <3>2, <3>3, <4>2
      <4>3. CASE m \in Below(U, c[q][s])
        <5>1. m \in N /\ On(o, s, ks[m], ks[q])
          BY <1>4, <1>8, <4>3
        <5>2. ks[m] \in Int /\ ks[q] \in Int /\ ks[r] \in Int
          BY <1>0, <1>3, <5>1
        <5> QED  BY <1>0, <2>2, <3>2, <3>3, <5>1, <5>2, OnFacts
      <4>4. CASE m \in Below(U, c[r][s])
        BY <1>0, <1>3, <1>8, <2>2, <3>3, <4>4
      <4> QED  BY <1>2, <4>1, <4>2, <4>3, <4>4
    <3>4. CASE t = Other(s)
      <4>1. c[r][Other(s)] \notin {q, r}
        BY <1>12
      <4>2. m \in Below(U, c[r][Other(s)])
        BY <1>0, <1>1, <1>2, <1>8, <2>2, <3>4, <4>1 DEF Below
      <4> QED  BY <1>0, <1>3, <1>8, <2>2, <3>4, <4>2
    <3> QED  BY <3>1, <3>3, <3>4
  <2>3. CASE n \notin {q, r}
    <3>1. c1[n][t] = IF c[n][t] = q THEN r ELSE c[n][t]
      BY <1>8, <2>3 DEF Rotated
    <3>2. c[n][t] # r
      <4>1. up[r] = q
        BY <1>0, <1>1
      <4> QED  BY <1>0, <1>1, <2>3, <4>1
    <3>3. m \in Below(U, c[n][t])
      BY <1>0, <1>1, <1>2, <1>8, <3>1, <3>2 DEF Below
    <3> QED  BY <1>3, <1>8, <3>3
  <2> QED  BY <2>1, <2>2, <2>3
<1>9. Ordered(N, c1, ks, W, o, d)
  BY <1>8 DEF Ordered
<1> QED  BY <1>9 DEF W

(* Heights that fit at q, at r and at their children fit everywhere.       *)
Refitted(N, c, col, col1, d, e, e1, B, B1, q, r, s) ==
    /\ B1 \in [N -> Nat]
    /\ \A n \in N : Weight(col, d, e, n) \in Nat /\ Weight(col1, d, e1, n) \in Nat
    /\ \A n \in N \ {q, r} :
          B1[n] - Weight(col1, d, e1, n) = B[n] - Weight(col, d, e, n)
    /\ \A n \in N \ {q, r, c[q][s], c[r][s], c[r][Other(s)]} : B1[n] = B[n]
    /\ B1[r] = B[q]
    /\ B1[q] = Weight(col1, d, e1, q) + Height(B1, c[q][s])
    /\ B1[q] = Weight(col1, d, e1, q) + Height(B1, c[r][s])
    /\ B1[r] = Weight(col1, d, e1, r) + B1[q]
    /\ B1[r] = Weight(col1, d, e1, r) + Height(B1, c[r][Other(s)])

LEMMA RotatedBalanced ==
    ASSUME NEW N, NEW c, NEW up, NEW rt, NEW U, Shape(N, c, up, rt, U),
           NEW c1, NEW up1, NEW rt1, NEW q, NEW r, NEW s,
           Rotated(N, c, up, rt, c1, up1, rt1, q, r, s),
           NEW col, NEW d, NEW e, NEW B, Balanced(N, c, col, d, e, B),
           NEW col1, NEW e1, NEW B1,
           Refitted(N, c, col, col1, d, e, e1, B, B1, q, r, s)
    PROVE  Balanced(N, c1, col1, d, e1, B1)
<1>5. /\ B1 \in [N -> Nat]
      /\ \A n \in N : Weight(col, d, e, n) \in Nat /\ Weight(col1, d, e1, n) \in Nat
      /\ \A n \in N \ {q, r} :
            B1[n] - Weight(col1, d, e1, n) = B[n] - Weight(col, d, e, n)
      /\ \A n \in N \ {q, r, c[q][s], c[r][s], c[r][Other(s)]} : B1[n] = B[n]
      /\ B1[r] = B[q]
      /\ B1[q] = Weight(col1, d, e1, q) + Height(B1, c[q][s])
      /\ B1[q] = Weight(col1, d, e1, q) + Height(B1, c[r][s])
      /\ B1[r] = Weight(col1, d, e1, r) + B1[q]
      /\ B1[r] = Weight(col1, d, e1, r) + Height(B1, c[r][Other(s)])
  BY DEF Refitted
<1>0. /\ q \in N /\ s \in Sides /\ Other(s) \in Sides /\ r = c[q][Other(s)] /\ r # Nil
      /\ r \in N /\ q # r /\ q # Nil
      /\ c1[q][Other(s)] = c[r][s] /\ c1[q][s] = c[q][s]
      /\ c1[r][s] = q /\ c1[r][Other(s)] = c[r][Other(s)]
  <2>1. q \in N /\ s \in Sides /\ r = c[q][Other(s)] /\ r # Nil
    BY DEF Rotated
  <2> QED  BY <2>1, Kids, Acyclic DEF Rotated
<1>1. \A n \in N, t \in Sides :
          c[n][t] \in N \cup {Nil} /\ (c[n][t] # Nil => up[c[n][t]] = n)
  BY Kids
<1>2. /\ B \in [N -> Nat]
      /\ \A n \in N, t \in Sides : B[n] = Weight(col, d, e, n) + Height(B, c[n][t])
  BY DEF Balanced
<1>3. \A t \in Sides : t = s \/ t = Other(s)
  BY <1>0 DEF Sides, Other
<1>4. ASSUME NEW n \in N, NEW t \in Sides
      PROVE  B1[n] = Weight(col1, d, e1, n) + Height(B1, c1[n][t])
  <2>1. CASE n = q
    BY <1>5, <1>0, <1>3, <2>1
  <2>2. CASE n = r
    BY <1>5, <1>0, <1>3, <2>2 DEF Height
  <2>3. CASE n \notin {q, r}
    <3>1. c1[n][t] = IF c[n][t] = q THEN r ELSE c[n][t]
      BY <2>3 DEF Rotated
    <3>2. c[n][t] \notin {r, c[q][s], c[r][s], c[r][Other(s)]} \/ c[n][t] = Nil
      BY <1>0, <1>1, <2>3
    <3>3. Height(B1, c1[n][t]) = Height(B, c[n][t])
      <4>1. CASE c[n][t] = q
        BY <1>5, <1>0, <3>1, <4>1 DEF Height
      <4>2. CASE c[n][t] = Nil
        BY <1>0, <3>1, <4>2 DEF Height
      <4>3. CASE c[n][t] \notin {q, Nil}
        <5>1. c[n][t] \in N \ {q, r, c[q][s], c[r][s], c[r][Other(s)]}
          BY <1>1, <3>2, <4>3
        <5>2. B1[c[n][t]] = B[c[n][t]]
          BY <1>5, <5>1
        <5> QED  BY <3>1, <4>3, <5>2 DEF Height
      <4> QED  BY <4>1, <4>2, <4>3
    <3>4. Height(B, c[n][t]) \in Nat
      BY <1>1, <1>2 DEF Height
    <3> QED  BY <1>5, <1>2, <2>3, <3>3, <3>4
  <2> QED  BY <2>1, <2>2, <2>3
<1> QED  BY <1>5, <1>4 DEF Balanced
-----------------------------------------------------------------------------
(* A leaf x is linked below h on side s. *)
Linked(N, c, up, N1, c1, up1, h, x, s) ==
    /\ h \in N /\ s \in Sides /\ c[h][s] = Nil
    /\ x \notin N /\ x # Nil /\ N1 = N \cup {x}
    /\ c1 \in [N1 -> [Sides -> N1 \cup {Nil}]] /\ up1 \in [N1 -> N1 \cup {Nil}]
    /\ c1[h][s] = x /\ \A t \in Sides : c1[x][t] = Nil
    /\ \A n \in N, t \in Sides : ~(n = h /\ t = s) => c1[n][t] = c[n][t]
    /\ up1[x] = h /\ \A n \in N : up1[n] = up[n]

Grown(U, N1, h, x) ==
    [n \in N1 |-> IF n = x THEN {x} ELSE IF h \in U[n] THEN U[n] \cup {x} ELSE U[n]]

LEMMA LinkedKids ==
    ASSUME NEW N, NEW c, NEW up, NEW rt, NEW U, Shape(N, c, up, rt, U),
           NEW N1, NEW c1, NEW up1, NEW h, NEW x, NEW s,
           Linked(N, c, up, N1, c1, up1, h, x, s)
    PROVE  /\ Grown(U, N1, h, x) \in [N1 -> SUBSET N1]
           /\ \A n \in N, t \in Sides :
                Below(Grown(U, N1, h, x), c1[n][t]) =
                    IF h \in Below(U, c[n][t]) \/ (n = h /\ t = s)
                    THEN Below(U, c[n][t]) \cup {x} ELSE Below(U, c[n][t])
<1> DEFINE W == Grown(U, N1, h, x)
<1>1. /\ h \in N /\ s \in Sides /\ c[h][s] = Nil
      /\ x \notin N /\ x # Nil /\ N1 = N \cup {x} /\ c1[h][s] = x
      /\ \A n \in N, t \in Sides : ~(n = h /\ t = s) => c1[n][t] = c[n][t]
  BY DEF Linked
<1>2. U \in [N -> SUBSET N] /\ Nil \notin N
  BY DEF Shape
<1>3. /\ W \in [N1 -> SUBSET N1] /\ W[x] = {x}
      /\ \A n \in N : W[n] = IF h \in U[n] THEN U[n] \cup {x} ELSE U[n]
  BY <1>1, <1>2 DEF Grown
<1> HIDE DEF W
<1>4. ASSUME NEW n \in N, NEW t \in Sides
      PROVE  Below(W, c1[n][t]) =
                IF h \in Below(U, c[n][t]) \/ (n = h /\ t = s)
                THEN Below(U, c[n][t]) \cup {x} ELSE Below(U, c[n][t])
  <2>1. CASE n = h /\ t = s
    BY <1>1, <1>3, <2>1 DEF Below
  <2>2. CASE ~(n = h /\ t = s)
    <3>1. c1[n][t] = c[n][t] /\ c[n][t] \in N \cup {Nil}
      BY <1>1, <2>2, Kids
    <3> QED  BY <1>2, <1>3, <2>2, <3>1 DEF Below
  <2> QED  BY <2>1, <2>2
<1> QED  BY <1>3, <1>4 DEF W

LEMMA LinkedShape ==
    ASSUME NEW N, NEW c, NEW up, NEW rt, NEW U, Shape(N, c, up, rt, U),
           NEW N1, NEW c1, NEW up1, NEW h, NEW x, NEW s,
           Linked(N, c, up, N1, c1, up1, h, x, s)
    PROVE  Shape(N1, c1, up1, rt, Grown(U, N1, h, x))
<1> DEFINE W == Grown(U, N1, h, x)
<1>1. /\ h \in N /\ s \in Sides /\ c[h][s] = Nil
      /\ x \notin N /\ x # Nil /\ N1 = N \cup {x} /\ c1[h][s] = x
      /\ c1 \in [N1 -> [Sides -> N1 \cup {Nil}]] /\ up1 \in [N1 -> N1 \cup {Nil}]
      /\ up1[x] = h /\ \A n \in N : up1[n] = up[n]
      /\ \A t \in Sides : c1[x][t] = Nil
  BY DEF Linked
<1>2. \A n \in N, t \in Sides : ~(n = h /\ t = s) => c1[n][t] = c[n][t]
  BY DEF Linked
<1>3. /\ U \in [N -> SUBSET N] /\ Nil \notin N /\ IsFiniteSet(N)
      /\ rt \in N /\ rt # Nil /\ up[rt] = Nil /\ U[rt] = N /\ h \in U[h]
  BY <1>1, ParentThere, Kids DEF Shape
<1>4. /\ W \in [N1 -> SUBSET N1]
      /\ \A n \in N, t \in Sides :
            Below(W, c1[n][t]) = IF h \in Below(U, c[n][t]) \/ (n = h /\ t = s)
                                 THEN Below(U, c[n][t]) \cup {x}
                                 ELSE Below(U, c[n][t])
  <2>1. W \in [N1 -> SUBSET N1]
    BY LinkedKids
  <2>2. \A n \in N, t \in Sides :
            Below(W, c1[n][t]) = IF h \in Below(U, c[n][t]) \/ (n = h /\ t = s)
                                 THEN Below(U, c[n][t]) \cup {x}
                                 ELSE Below(U, c[n][t])
    BY LinkedKids
  <2> QED  BY <2>1, <2>2
<1>5. /\ W[x] = {x}
      /\ \A n \in N : W[n] = IF h \in U[n] THEN U[n] \cup {x} ELSE U[n]
  BY <1>1, <1>3 DEF Grown
<1> HIDE DEF W
<1> DEFINE Fits(n) ==
        /\ W[n] = {n} \cup Below(W, c1[n]["left"]) \cup Below(W, c1[n]["right"])
        /\ n \notin Below(W, c1[n]["left"]) \cup Below(W, c1[n]["right"])
        /\ Below(W, c1[n]["left"]) \cap Below(W, c1[n]["right"]) = {}
        /\ \A t \in Sides : c1[n][t] # Nil => up1[c1[n][t]] = n
<1>6. Fits(x)
  BY <1>1, <1>5 DEF Below, Sides
<1>7. ASSUME NEW n \in N  PROVE Fits(n)
  <2>1. /\ U[n] = {n} \cup Below(U, c[n]["left"]) \cup Below(U, c[n]["right"])
        /\ n \notin Below(U, c[n]["left"]) \cup Below(U, c[n]["right"])
        /\ Below(U, c[n]["left"]) \cap Below(U, c[n]["right"]) = {}
        /\ U[n] \subseteq N
    BY <1>3 DEF Shape
  <2>2. \A t \in Sides : c1[n][t] # Nil => up1[c1[n][t]] = n
    <3>1. \A t \in Sides : /\ c[n][t] \in N \cup {Nil}
                           /\ c[n][t] # Nil => up[c[n][t]] = n
      BY Kids
    <3> QED  BY <1>1, <1>2, <3>1
  <2>3. CASE n = h
    <3>1. /\ Below(W, c1[n][s]) = {x}
          /\ \A t \in Sides : t # s => Below(W, c1[n][t]) = Below(U, c[n][t])
          /\ Below(U, c[n][s]) = {}
      <4>1. Below(U, c[n][s]) = {}
        BY <1>1, <2>3 DEF Below
      <4>2. \A t \in Sides : h \notin Below(U, c[n][t])
        BY <2>1, <2>3 DEF Sides
      <4> QED  BY <1>1, <1>4, <2>3, <4>1, <4>2
    <3>2. W[n] = U[n] \cup {x}
      BY <1>3, <1>5, <2>3
    <3>3. CASE s = "left"
      BY <1>1, <2>1, <2>2, <3>1, <3>2, <3>3 DEF Sides
    <3>4. CASE s = "right"
      BY <1>1, <2>1, <2>2, <3>1, <3>2, <3>4 DEF Sides
    <3> QED  BY <1>1, <3>3, <3>4 DEF Sides
  <2>4. CASE n # h
    <3>1. \A t \in Sides : Below(W, c1[n][t]) =
                IF h \in Below(U, c[n][t])
                THEN Below(U, c[n][t]) \cup {x} ELSE Below(U, c[n][t])
      BY <1>4, <2>4
    <3>2. W[n] = IF h \in U[n] THEN U[n] \cup {x} ELSE U[n]
      BY <1>5
    <3>3. CASE h \in Below(U, c[n]["left"])
      BY <1>1, <2>1, <2>2, <3>1, <3>2, <3>3 DEF Sides
    <3>4. CASE h \in Below(U, c[n]["right"])
      BY <1>1, <2>1, <2>2, <3>1, <3>2, <3>4 DEF Sides
    <3>5. CASE h \notin U[n]
      BY <1>1, <2>1, <2>2, <3>1, <3>2, <3>5 DEF Sides
    <3> QED  BY <2>1, <2>4, <3>3, <3>4, <3>5
  <2> QED  BY <2>3, <2>4
<1>8. \A n \in N1 : Fits(n)
  <2> HIDE DEF Fits
  <2> QED  BY <1>1, <1>6, <1>7
<1>9. up1[rt] = Nil /\ W[rt] = N1 /\ IsFiniteSet(N1) /\ Nil \notin N1 /\ rt \in N1
  <2>1. IsFiniteSet(N1)
    BY <1>1, <1>3, FS_AddElement
  <2> QED  BY <1>1, <1>3, <1>5, <2>1
<1>10. Shape(N1, c1, up1, rt, W)
  BY <1>1, <1>3, <1>4, <1>8, <1>9 DEF Shape
<1> QED  BY <1>10 DEF W

(* The new leaf is in order if its key is, seen from every node above it.  *)
LEMMA LinkedOrdered ==
    ASSUME NEW N, NEW c, NEW up, NEW rt, NEW U, Shape(N, c, up, rt, U),
           NEW N1, NEW c1, NEW up1, NEW h, NEW x, NEW s,
           Linked(N, c, up, N1, c1, up1, h, x, s),
           NEW o, NEW ks, NEW k1, \A n \in N : k1[n] = ks[n],
           Ordered(N, c, ks, U, o, Nil),
           On(o, s, k1[x], ks[h]),
           \A n \in N, t \in Sides : h \in Below(U, c[n][t]) => On(o, t, k1[x], ks[n])
    PROVE  Ordered(N1, c1, k1, Grown(U, N1, h, x), o, Nil)
<1>1. /\ h \in N /\ s \in Sides /\ x \notin N /\ N1 = N \cup {x} /\ x # Nil
      /\ \A t \in Sides : c1[x][t] = Nil
  BY DEF Linked
<1>2. \A n \in N, t \in Sides :
        /\ Below(Grown(U, N1, h, x), c1[n][t]) =
             IF h \in Below(U, c[n][t]) \/ (n = h /\ t = s)
             THEN Below(U, c[n][t]) \cup {x} ELSE Below(U, c[n][t])
        /\ Below(U, c[n][t]) \subseteq N
  <2>1. \A n \in N, t \in Sides : Below(U, c[n][t]) \subseteq N
    BY Kids
  <2> QED  BY <2>1, LinkedKids
<1>3. ASSUME NEW n \in N1 \ {Nil}, NEW t \in Sides,
             NEW m \in Below(Grown(U, N1, h, x), c1[n][t]) \ {Nil}
      PROVE  On(o, t, k1[m], k1[n])
  <2>1. n # x
    BY <1>1, <1>3 DEF Below
  <2>2. n \in N /\ k1[n] = ks[n]
    BY <1>1, <2>1
  <2>3. CASE m = x
    <3>1. h \in Below(U, c[n][t]) \/ (n = h /\ t = s)
      BY <1>1, <1>2, <1>3, <2>2, <2>3
    <3> QED  BY <2>2, <2>3, <3>1
  <2>4. CASE m # x
    <3>1. m \in Below(U, c[n][t]) /\ m \in N
      BY <1>2, <1>3, <2>2, <2>4
    <3> QED  BY <1>3, <2>2, <3>1 DEF Ordered
  <2> QED  BY <2>3, <2>4
<1> QED  BY <1>3 DEF Ordered

(* A red leaf weighs nothing. *)
LEMMA LinkedBalanced ==
    ASSUME NEW N, NEW c, NEW up, NEW rt, NEW U, Shape(N, c, up, rt, U),
           NEW N1, NEW c1, NEW up1, NEW h, NEW x, NEW s,
           Linked(N, c, up, N1, c1, up1, h, x, s),
           NEW col, NEW col1, \A n \in N : col1[n] = col[n], col1[x] = "red",
           NEW B, Balanced(N, c, col, Nil, Nil, B)
    PROVE  Balanced(N1, c1, col1, Nil, Nil, Extended(B, x, 0))
<1>1. /\ h \in N /\ s \in Sides /\ x \notin N /\ N1 = N \cup {x} /\ x # Nil
      /\ c[h][s] = Nil /\ c1[h][s] = x
      /\ \A t \in Sides : c1[x][t] = Nil
      /\ \A n \in N, t \in Sides : ~(n = h /\ t = s) => c1[n][t] = c[n][t]
  BY DEF Linked
<1>2. /\ B \in [N -> Nat]
      /\ \A n \in N, t \in Sides : B[n] = Weight(col, Nil, Nil, n) + Height(B, c[n][t])
  BY DEF Balanced
<1> DEFINE A == Extended(B, x, 0)
<1>3. A \in [N1 -> Nat] /\ A[x] = 0 /\ \A n \in N : A[n] = B[n]
  BY <1>1, <1>2 DEF Extended
<1> HIDE DEF A
<1>4. \A n \in N : Weight(col1, Nil, Nil, n) = Weight(col, Nil, Nil, n)
  BY DEF Weight
<1>5. Weight(col1, Nil, Nil, x) = 0
  BY <1>1 DEF Weight
<1>6. ASSUME NEW n \in N1, NEW t \in Sides
      PROVE  A[n] = Weight(col1, Nil, Nil, n) + Height(A, c1[n][t])
  <2>1. CASE n = x
    BY <1>1, <1>3, <1>5, <2>1 DEF Height
  <2>2. CASE n = h /\ t = s
    BY <1>1, <1>2, <1>3, <1>4, <2>2 DEF Height
  <2>3. CASE n # x /\ ~(n = h /\ t = s)
    <3>1. n \in N /\ c1[n][t] = c[n][t] /\ c[n][t] \in N \cup {Nil}
      BY <1>1, <2>3, Kids
    <3> QED  BY <1>1, <1>2, <1>3, <1>4, <3>1 DEF Height
  <2> QED  BY <2>1, <2>2, <2>3
<1>7. Balanced(N1, c1, col1, Nil, Nil, A)
  BY <1>3, <1>6 DEF Balanced
<1> QED  BY <1>7 DEF A
-----------------------------------------------------------------------------
(* A node d with no child but m is dropped, and m, which may be nil, takes *)
(* its place.                                                              *)
Dropped(N, c, up, rt, N1, c1, up1, rt1, d, m) ==
    /\ d \in N /\ N1 = N \ {d}
    /\ \E s \in Sides : m = c[d][s] /\ c[d][Other(s)] = Nil
    /\ c1 \in [N1 -> [Sides -> N1 \cup {Nil}]] /\ up1 \in [N1 -> N1 \cup {Nil}]
    /\ \A n \in N1, t \in Sides : c1[n][t] = IF c[n][t] = d THEN m ELSE c[n][t]
    /\ \A n \in N1 : up1[n] = IF n = m THEN up[d] ELSE up[n]
    /\ rt1 = IF d = rt THEN m ELSE rt

Shrunk(U, N1, d) == [n \in N1 |-> U[n] \ {d}]

LEMMA DroppedKids ==
    ASSUME NEW N, NEW c, NEW up, NEW rt, NEW U, Shape(N, c, up, rt, U),
           NEW N1, NEW c1, NEW up1, NEW rt1, NEW d, NEW m,
           Dropped(N, c, up, rt, N1, c1, up1, rt1, d, m)
    PROVE  /\ d \in N /\ d # Nil /\ N1 = N \ {d} /\ m \in N1 \cup {Nil}
           /\ U[d] = {d} \cup Below(U, m) /\ d \notin Below(U, m)
           /\ m # Nil => m \in N1 /\ up[m] = d /\ m # rt /\ m # up[d]
           /\ Shrunk(U, N1, d) \in [N1 -> SUBSET N1]
           /\ \A n \in N1, t \in Sides :
                Below(Shrunk(U, N1, d), c1[n][t]) = Below(U, c[n][t]) \ {d}
           /\ \A n \in N1, t \in Sides : c[n][t] = d => up[d] = n
<1> DEFINE W == Shrunk(U, N1, d)
<1>1. /\ d \in N /\ N1 = N \ {d}
      /\ \A n \in N1, t \in Sides : c1[n][t] = IF c[n][t] = d THEN m ELSE c[n][t]
  BY DEF Dropped
<1>2. PICK s \in Sides : m = c[d][s] /\ c[d][Other(s)] = Nil
  BY DEF Dropped
<1>3. U \in [N -> SUBSET N] /\ Nil \notin N
  BY DEF Shape
<1>4. /\ m \in N \cup {Nil} /\ d # Nil
      /\ U[d] = {d} \cup Below(U, m) \cup Below(U, c[d][Other(s)])
      /\ d \notin Below(U, m) /\ (m # Nil => up[m] = d)
  BY <1>1, <1>2, Kids
<1>5. Below(U, c[d][Other(s)]) = {}
  BY <1>2 DEF Below
<1>6. m # Nil => m # d /\ m # rt /\ m # up[d]
  BY <1>1, <1>2, Acyclic
<1>7. m \in N1 \cup {Nil}
  BY <1>1, <1>4, <1>6
<1>8. W \in [N1 -> SUBSET N1] /\ \A n \in N1 : W[n] = U[n] \ {d}
  BY <1>1, <1>3 DEF Shrunk
<1> HIDE DEF W
<1>9. ASSUME NEW n \in N1, NEW t \in Sides
      PROVE  /\ Below(W, c1[n][t]) = Below(U, c[n][t]) \ {d}
             /\ c[n][t] = d => up[d] = n
  <2>1. c[n][t] \in N \cup {Nil} /\ (c[n][t] # Nil => up[c[n][t]] = n)
    BY <1>1, Kids
  <2>2. CASE c[n][t] = d
    <3>1. Below(W, m) = Below(U, m) \ {d}
      BY <1>3, <1>7, <1>8 DEF Below
    <3>2. Below(U, c[n][t]) = {d} \cup Below(U, m)
      BY <1>4, <1>5, <2>2 DEF Below
    <3> QED  BY <1>1, <1>4, <2>1, <2>2, <3>1, <3>2
  <2>3. CASE c[n][t] # d
    BY <1>1, <1>3, <1>8, <2>1, <2>3 DEF Below
  <2> QED  BY <2>2, <2>3
<1>10. U[d] = {d} \cup Below(U, m)
  BY <1>4, <1>5
<1>11. W = Shrunk(U, N1, d)
  BY DEF W
<1>12. /\ \A n \in N1, t \in Sides : Below(W, c1[n][t]) = Below(U, c[n][t]) \ {d}
       /\ \A n \in N1, t \in Sides : c[n][t] = d => up[d] = n
  BY <1>9
<1>13. m # Nil => m \in N1 /\ up[m] = d /\ m # rt /\ m # up[d]
  BY <1>4, <1>6, <1>7
<1>14. Shrunk(U, N1, d) \in [N1 -> SUBSET N1]
  BY <1>8, <1>11
<1> QED  BY ONLY <1>1, <1>4, <1>7, <1>10, <1>11, <1>12, <1>13, <1>14

LEMMA DroppedShape ==
    ASSUME NEW N, NEW c, NEW up, NEW rt, NEW U, Shape(N, c, up, rt, U),
           NEW N1, NEW c1, NEW up1, NEW rt1, NEW d, NEW m,
           Dropped(N, c, up, rt, N1, c1, up1, rt1, d, m)
    PROVE  /\ Shape(N1, c1, up1, rt1, Shrunk(U, N1, d))
           /\ Cardinality(N1) = Cardinality(N) - 1
<1> DEFINE W == Shrunk(U, N1, d)
<1>1. /\ d \in N /\ d # Nil /\ N1 = N \ {d} /\ m \in N1 \cup {Nil}
      /\ U[d] = {d} \cup Below(U, m)
      /\ m # Nil => m \in N1 /\ up[m] = d /\ m # rt /\ m # up[d]
      /\ W \in [N1 -> SUBSET N1]
  BY DroppedKids
<1>2. \A n \in N1, t \in Sides : /\ Below(W, c1[n][t]) = Below(U, c[n][t]) \ {d}
                                 /\ c[n][t] = d => up[d] = n
  BY DroppedKids
<1>3. /\ c1 \in [N1 -> [Sides -> N1 \cup {Nil}]] /\ up1 \in [N1 -> N1 \cup {Nil}]
      /\ \A n \in N1, t \in Sides : c1[n][t] = IF c[n][t] = d THEN m ELSE c[n][t]
      /\ \A n \in N1 : up1[n] = IF n = m THEN up[d] ELSE up[n]
      /\ rt1 = IF d = rt THEN m ELSE rt
  BY DEF Dropped
<1>4. /\ U \in [N -> SUBSET N] /\ Nil \notin N /\ IsFiniteSet(N)
      /\ rt \in N /\ rt # Nil /\ up[rt] = Nil /\ U[rt] = N
  BY <1>1, ParentThere DEF Shape
<1>5. \A n \in N1 : W[n] = U[n] \ {d}
  BY DEF Shrunk
<1> HIDE DEF W
<1> DEFINE Fits(n) ==
        /\ W[n] = {n} \cup Below(W, c1[n]["left"]) \cup Below(W, c1[n]["right"])
        /\ n \notin Below(W, c1[n]["left"]) \cup Below(W, c1[n]["right"])
        /\ Below(W, c1[n]["left"]) \cap Below(W, c1[n]["right"]) = {}
        /\ \A t \in Sides : c1[n][t] # Nil => up1[c1[n][t]] = n
<1>6. ASSUME NEW n \in N1  PROVE Fits(n)
  <2>1. /\ U[n] = {n} \cup Below(U, c[n]["left"]) \cup Below(U, c[n]["right"])
        /\ n \notin Below(U, c[n]["left"]) \cup Below(U, c[n]["right"])
        /\ Below(U, c[n]["left"]) \cap Below(U, c[n]["right"]) = {}
    BY <1>1 DEF Shape
  <2>2. ASSUME NEW t \in Sides, c1[n][t] # Nil
        PROVE  up1[c1[n][t]] = n
    <3>1. c[n][t] \in N \cup {Nil} /\ (c[n][t] # Nil => up[c[n][t]] = n)
      BY <1>1, Kids
    <3>2. CASE c[n][t] = d
      BY <1>1, <1>2, <1>3, <2>2, <3>2
    <3>3. CASE c[n][t] # d
      <4>1. c1[n][t] = c[n][t] /\ c[n][t] \in N1 /\ c[n][t] # m
        BY <1>1, <1>3, <2>2, <3>1, <3>3
      <4> QED  BY <1>3, <2>2, <3>1, <4>1
    <3> QED  BY <3>2, <3>3
  <2>3. W[n] = {n} \cup Below(W, c1[n]["left"]) \cup Below(W, c1[n]["right"])
    BY <1>1, <1>2, <1>5, <2>1 DEF Sides
  <2> QED  BY <1>2, <2>1, <2>2, <2>3 DEF Sides
<1>7. /\ rt1 \in N1 \cup {Nil}
      /\ rt1 = Nil => N1 = {}
      /\ rt1 # Nil => up1[rt1] = Nil /\ W[rt1] = N1
  <2>1. CASE d = rt
    <3>1. rt1 = m /\ N = {d} \cup Below(U, m)
      BY <1>1, <1>3, <1>4, <2>1
    <3>2. CASE m = Nil
      BY <1>1, <3>1, <3>2 DEF Below
    <3>3. CASE m # Nil
      <4>1. m \in N1 /\ U[m] \subseteq N /\ up1[m] = Nil
        BY <1>1, <1>3, <1>4, <2>1, <3>3
      <4>2. W[m] = N1
        BY <1>1, <1>5, <3>1, <3>3, <4>1 DEF Below
      <4> QED  BY <1>1, <1>4, <3>1, <4>1, <4>2
    <3> QED  BY <3>2, <3>3
  <2>2. CASE d # rt
    <3>1. rt1 = rt /\ rt \in N1 /\ rt # m
      BY <1>1, <1>3, <1>4, <2>2
    <3> QED  BY <1>1, <1>3, <1>4, <1>5, <3>1
  <2> QED  BY <2>1, <2>2
<1>8. /\ IsFiniteSet(N1) /\ Nil \notin N1
      /\ Cardinality(N1) = Cardinality(N) - 1
  BY <1>1, <1>4, FS_RemoveElement
<1>9. \A n \in N1 : Fits(n)
  BY <1>6
<1>10. Shape(N1, c1, up1, rt1, W)
  BY <1>1, <1>3, <1>7, <1>8, <1>9 DEF Shape
<1> QED  BY <1>8, <1>10 DEF W

LEMMA DroppedOrdered ==
    ASSUME NEW N, NEW c, NEW up, NEW rt, NEW U, Shape(N, c, up, rt, U),
           NEW N1, NEW c1, NEW up1, NEW rt1, NEW d, NEW m,
           Dropped(N, c, up, rt, N1, c1, up1, rt1, d, m),
           NEW o, NEW ks, NEW k1, \A n \in N1 : k1[n] = ks[n],
           Ordered(N, c, ks, U, o, d)
    PROVE  Ordered(N1, c1, k1, Shrunk(U, N1, d), o, Nil)
<1>1. d \in N /\ d # Nil /\ N1 = N \ {d} /\ Nil \notin N
  <2>1. d \in N /\ d # Nil /\ N1 = N \ {d}
    BY DroppedKids
  <2> QED  BY <2>1 DEF Shape
<1>2. \A n \in N1, t \in Sides :
          Below(Shrunk(U, N1, d), c1[n][t]) = Below(U, c[n][t]) \ {d}
  BY DroppedKids
<1>3. \A n \in N, t \in Sides : Below(U, c[n][t]) \subseteq N
  BY Kids
<1>4. ASSUME NEW n \in N1 \ {Nil}, NEW t \in Sides,
             NEW y \in Below(Shrunk(U, N1, d), c1[n][t]) \ {Nil}
      PROVE  On(o, t, k1[y], k1[n])
  <2>1. n \in N \ {d} /\ y \in Below(U, c[n][t]) \ {d} /\ y \in N1
    <3>1. n \in N1 /\ Below(Shrunk(U, N1, d), c1[n][t]) = Below(U, c[n][t]) \ {d}
      BY <1>2, <1>4
    <3>2. Below(U, c[n][t]) \subseteq N
      BY <1>1, <1>3, <1>4
    <3> QED  BY <1>1, <1>4, <3>1, <3>2
  <2>2. On(o, t, ks[y], ks[n])
    BY <2>1 DEF Ordered
  <2> QED  BY <2>1, <2>2
<1> QED  BY <1>4 DEF Ordered

(* The heights fit when m's new one is what d's was. *)
Resettled(N1, col, col1, d0, e, e1, B, B1, rt, d, m) ==
    /\ B1 \in [N1 -> Nat]
    /\ \A n \in N1 : Weight(col, d0, e, n) \in Nat /\ Weight(col1, Nil, e1, n) \in Nat
    /\ \A n \in N1 : B1[n] - Weight(col1, Nil, e1, n) = B[n] - Weight(col, d0, e, n)
    /\ \A n \in N1 \ {m} : B1[n] = B[n]
    /\ d # rt => Height(B1, m) = B[d]

LEMMA DroppedBalanced ==
    ASSUME NEW N, NEW c, NEW up, NEW rt, NEW U, Shape(N, c, up, rt, U),
           NEW N1, NEW c1, NEW up1, NEW rt1, NEW d, NEW m,
           Dropped(N, c, up, rt, N1, c1, up1, rt1, d, m),
           NEW col, NEW d0, NEW e, NEW B, Balanced(N, c, col, d0, e, B),
           NEW col1, NEW e1, NEW B1,
           Resettled(N1, col, col1, d0, e, e1, B, B1, rt, d, m)
    PROVE  Balanced(N1, c1, col1, Nil, e1, B1)
<1>0. /\ B1 \in [N1 -> Nat]
      /\ \A n \in N1 : Weight(col, d0, e, n) \in Nat /\ Weight(col1, Nil, e1, n) \in Nat
      /\ \A n \in N1 : B1[n] - Weight(col1, Nil, e1, n) = B[n] - Weight(col, d0, e, n)
      /\ \A n \in N1 \ {m} : B1[n] = B[n]
      /\ d # rt => Height(B1, m) = B[d]
  BY DEF Resettled
<1>1. /\ d \in N /\ d # Nil /\ N1 = N \ {d} /\ m \in N1 \cup {Nil}
      /\ m # Nil => m \in N1 /\ up[m] = d
      /\ \A n \in N1, t \in Sides : c[n][t] = d => up[d] = n
  BY DroppedKids
<1>2. \A n \in N1, t \in Sides : c1[n][t] = IF c[n][t] = d THEN m ELSE c[n][t]
  BY DEF Dropped
<1>3. /\ B \in [N -> Nat]
      /\ \A n \in N, t \in Sides : B[n] = Weight(col, d0, e, n) + Height(B, c[n][t])
  BY DEF Balanced
<1>4. Nil \notin N /\ up[rt] = Nil
  BY <1>1, ParentThere DEF Shape
<1>5. ASSUME NEW n \in N1, NEW t \in Sides
      PROVE  B1[n] = Weight(col1, Nil, e1, n) + Height(B1, c1[n][t])
  <2>1. c[n][t] \in N \cup {Nil} /\ (c[n][t] # Nil => up[c[n][t]] = n)
    BY <1>1, Kids
  <2>2. Height(B1, c1[n][t]) = Height(B, c[n][t])
    <3>1. CASE c[n][t] = d
      <4>1. d # rt
        BY <1>1, <1>4, <2>1, <3>1
      <4> QED  BY <1>0, <1>1, <1>2, <3>1, <4>1 DEF Height
    <3>2. CASE c[n][t] # d
      <4>1. c[n][t] # m \/ m = Nil
        BY <1>1, <2>1, <3>2
      <4> QED  BY <1>0, <1>1, <1>2, <2>1, <3>2, <4>1 DEF Height
    <3> QED  BY <3>1, <3>2
  <2>3. Height(B, c[n][t]) \in Nat
    BY <1>3, <2>1 DEF Height
  <2> QED  BY <1>0, <1>1, <1>3, <2>2, <2>3
<1> QED  BY <1>0, <1>5 DEF Balanced
-----------------------------------------------------------------------------
(* The loops that only look.                                               *)
Looking == ~Deleting /\ ~Inserting
Still == UNCHANGED <<order, root, size, fields>>

LEMMA LookingTree ==
    ASSUME NEW U, NEW B, NEW e, Always(U, B, e), Looking, Looking', Still,
           at' \in Live \cup {Nil}, p' \in Live \cup {Nil},
           entries' = entries \/ Holds(Live, key, value, entries', Nil)
    PROVE  Tree(U, B, Nil)' /\ e = Nil /\ Live' = Live
<1>1. Live' = Live /\ Typed'
  BY DEF Always, Tree, Typed, Still, fields, Live
<1>2. e = Nil
  BY DEF Always, Loops, Extra, Looking, Deleting, Fixing
<1>3. /\ Search = Nil /\ Search' = Nil
      /\ ~Fixing /\ ~Fixing' /\ ~Deleting /\ ~Deleting' /\ ~Inserting /\ ~Inserting'
      /\ pc # "fix" /\ pc' # "fix"
  BY DEF Looking, Search, Deleting, Fixing
<1>4. /\ Shape(Live, child, parent, root, U)'
      /\ Ordered(Live, child, key, U, order, Search)'
      /\ Balanced(Live, child, color, IF Fixing THEN p ELSE Nil, Nil, B)'
  BY <1>1, <1>2, <1>3 DEF Always, Tree, Still, fields
<1>5. RedsKept' /\ Sized'
  BY <1>1, <1>3 DEF Always, Tree, Still, fields, RedsKept, Sized
<1>6. Contents'
  BY <1>1, <1>3 DEF Always, Tree, Still, fields, Contents
<1> QED  BY <1>1, <1>2, <1>4, <1>5, <1>6 DEF Tree

LEMMA CallStep ==
    ASSUME LoopAssumption, NEW U, NEW B, NEW e, Always(U, B, e),
           \/ \E op \in {"put", "putIfAbsent"}, k \in LoopKeys, v \in LoopValues :
                PutCall(op, k, v)
           \/ \E k \in LoopKeys : RemoveCall(k)
           \/ \E side \in Sides : PollCall(side)
           \/ \E k \in LoopKeys, side \in Sides, inclusive \in BOOLEAN :
                NearCall(k, side, inclusive)
    PROVE  Always(U, B, Nil)'
<1>1. /\ pc = "idle" /\ pc' \in {"find", "ends", "near"} /\ at' = root
      /\ Still /\ entries' = entries /\ p' = p /\ p = Nil
  BY DEF PutCall, RemoveCall, PollCall, NearCall, CallWith, Still, Always, Loops, Idle
<1>2. Tree(U, B, Nil)' /\ Live' = Live
  <2>1. root \in Live \cup {Nil}
    BY DEF Always, Tree, Typed
  <2>2. Looking /\ Looking'
    BY <1>1 DEF Looking, Deleting, Inserting, Fixing
  <2> QED  BY <1>1, <2>1, <2>2, LookingTree
<1>3. \A n \in Live : n \in Below(U, root)
  <2>1. Shape(Live, child, parent, root, U)
    BY DEF Always, Tree
  <2> QED  BY <2>1 DEF Shape, Below
<1>4. \A n \in Live, s \in Sides :
          Nil \notin Below(U, child[n][s]) /\ root \notin Below(U, child[n][s])
  <2>1. Shape(Live, child, parent, root, U)
    BY DEF Always, Tree
  <2>2. \A n \in Live, s \in Sides :
          /\ child[n][s] \in Live \cup {Nil} /\ Below(U, child[n][s]) \subseteq Live
    BY <2>1, Kids
  <2>3. ASSUME NEW n \in Live, NEW s \in Sides, root \in Below(U, child[n][s])
        PROVE  FALSE
    <3>1. child[n][s] # Nil
      BY <2>3 DEF Below
    <3>2. /\ root \in U[child[n][s]] /\ child[n][s] \in Live /\ child[n][s] # root
      BY <2>1, <2>3, <3>1, Acyclic DEF Below
    <3>3. parent[root] # Nil
      BY <2>1, <3>2, ParentBelow
    <3> QED  BY <2>1, <3>2, <3>3, ParentThere
  <2> QED  BY <2>1, <2>2, <2>3 DEF Shape
<1>5. /\ order' = order /\ root' = root /\ child' = child /\ parent' = parent
      /\ key' = key /\ color' = color
  BY <1>1 DEF Still, fields
<1>6. InFind(U)'
  <2>1. CASE pc' = "find"
    <3>1. /\ call'.op \in {"put", "putIfAbsent", "remove"} /\ call'.k \in LoopKeys
          /\ call'.op # "remove" => call'.v \in LoopValues /\ Nodes # Live
      BY <2>1 DEF PutCall, RemoveCall, PollCall, NearCall, CallWith
    <3> QED  BY <1>1, <1>2, <1>3, <1>4, <1>5, <3>1 DEF InFind
  <2> QED  BY <2>1 DEF InFind
<1>7. InEnds(U)'
  <2>1. CASE pc' = "ends"
    <3>1. call'.side \in Sides
      BY <2>1 DEF PutCall, RemoveCall, PollCall, NearCall, CallWith
    <3> QED  BY <1>1, <1>2, <1>3, <1>5, <3>1 DEF InEnds
  <2> QED  BY <2>1 DEF InEnds
<1>8. InNear(U)'
  <2>1. CASE pc' = "near"
    <3>1. Sought'
      BY <2>1 DEF PutCall, RemoveCall, PollCall, NearCall, CallWith, Sought
    <3>2. Way(U)'
      BY <1>1, <1>2, <1>4, <1>5 DEF Way
    <3> QED  BY <1>1, <1>5, <2>1, <3>1, <3>2 DEF InNear
  <2> QED  BY <1>1, <2>1 DEF InNear
<1>9. Loops(U, Nil)'
  BY <1>1, <1>6, <1>7, <1>8 DEF Loops, Extra, Idle, InSuccessor, InUnlink, InInsert,
     Inserting, InFix, InTakeOff, Answered
<1> QED  BY <1>2, <1>9 DEF Always

(* What is above a child is above its parent, but for the parent itself.   *)
LEMMA AboveChild ==
    ASSUME NEW N, NEW c, NEW up, NEW rt, NEW U, Shape(N, c, up, rt, U),
           NEW h \in N, NEW t \in Sides, c[h][t] # Nil,
           NEW n \in N, NEW s \in Sides, c[h][t] \in Below(U, c[n][s])
    PROVE  (n = h /\ s = t) \/ h \in Below(U, c[n][s])
<1>1. /\ c[n][s] \in N /\ c[n][s] # Nil /\ Below(U, c[n][s]) = U[c[n][s]]
      /\ up[c[n][s]] = n
  BY Kids DEF Below
<1>2. up[c[h][t]] = h /\ c[h][t] \in N
  BY Kids
<1>3. CASE c[h][t] = c[n][s]
  <2>1. n = h
    BY <1>1, <1>2, <1>3
  <2>2. s = t
    <3>1. c[h][t] # c[h][Other(t)]
      BY Acyclic
    <3> QED  BY <1>3, <2>1, <3>1 DEF Sides, Other
  <2> QED  BY <2>1, <2>2
<1>4. CASE c[h][t] # c[n][s]
  BY <1>1, <1>2, <1>4, ParentBelow
<1> QED  BY <1>3, <1>4

LEMMA TowardIs ==
    ASSUME order \in {1, -1}, NEW k \in Int, NEW n, key[n] \in Int, key[n] # k
    PROVE  Toward(k, n) \in Sides /\ On(order, Toward(k, n), k, key[n])
BY DEF Toward, Before, On, Sides

LEMMA Numbers ==
    ASSUME LoopAssumption, Typed
    PROVE  /\ \A n \in Live : key[n] \in LoopKeys /\ key[n] \in Int
           /\ \A k \in LoopKeys : k \in Int
           /\ key \in [Live -> Int] /\ order \in {1, -1}
BY DEF LoopAssumption, Typed

LEMMA FindDownStep ==
    ASSUME LoopAssumption, NEW U, NEW B, NEW e, Always(U, B, e), FindDown
    PROVE  Always(U, B, Nil)'
<1>1. /\ pc = "find" /\ pc' = "find" /\ at # Nil /\ key[at] # call.k
      /\ p' = at /\ at' = child[at][Toward(call.k, at)]
      /\ call' = call /\ Still /\ entries' = entries
  BY DEF FindDown, Still
<1>2. /\ Shape(Live, child, parent, root, U) /\ Typed /\ Nil \notin Live
      /\ Ordered(Live, child, key, U, order, Nil)
  BY <1>1 DEF Always, Tree, Search, Deleting, Fixing, Shape
<1>3. /\ at \in Live /\ call.k \in LoopKeys
      /\ p \in Live \cup {Nil}
      /\ call.op \in {"put", "putIfAbsent", "remove"}
      /\ call.op # "remove" => call.v \in LoopValues /\ Nodes # Live
      /\ p = Nil => at = root
      /\ p # Nil => key[p] # call.k /\ at = child[p][Toward(call.k, p)]
      /\ \A n \in Live, s \in Sides :
          p \in Below(U, child[n][s]) => On(order, s, call.k, key[n])
      /\ \A n \in Live : key[n] = call.k => n \in Below(U, at)
  BY <1>1, <1>2 DEF Always, Loops, InFind, Typed
<1>4. /\ \A n \in Live : key[n] \in Int
      /\ call.k \in Int /\ order \in {1, -1}
  BY <1>2, <1>3, Numbers
<1>5. Toward(call.k, at) \in Sides /\ On(order, Toward(call.k, at), call.k, key[at])
  BY <1>1, <1>3, <1>4, TowardIs
<1>6. at' \in Live \cup {Nil}
  BY <1>1, <1>2, <1>3, <1>5, Kids
<1>7. Tree(U, B, Nil)' /\ Live' = Live
  <2>1. Looking /\ Looking'
    BY <1>1 DEF Looking, Deleting, Inserting, Fixing
  <2> QED  BY <1>1, <1>3, <1>6, <2>1, LookingTree
<1>8. ASSUME NEW n \in Live, NEW s \in Sides, at \in Below(U, child[n][s])
      PROVE  On(order, s, call.k, key[n])
  <2>1. CASE p = Nil
    <3>1. child[n][s] # Nil
      BY <1>8 DEF Below
    <3>2. at \in U[child[n][s]] /\ child[n][s] \in Live /\ child[n][s] # root
      BY <1>2, <1>8, <3>1, Acyclic DEF Below
    <3>3. parent[at] # Nil
      BY <1>2, <1>3, <2>1, <3>2, ParentBelow
    <3> QED  BY <1>2, <1>3, <2>1, <3>3, ParentThere
  <2>2. CASE p # Nil
    <3>1. p \in Live /\ at = child[p][Toward(call.k, p)] /\ key[p] # call.k
      BY <1>3, <2>2
    <3>2. Toward(call.k, p) \in Sides /\ On(order, Toward(call.k, p), call.k, key[p])
      BY <1>4, <3>1, TowardIs
    <3>3. (n = p /\ s = Toward(call.k, p)) \/ p \in Below(U, child[n][s])
      BY <1>1, <1>2, <1>8, <3>1, <3>2, AboveChild
    <3> QED  BY <1>3, <3>2, <3>3
  <2> QED  BY <2>1, <2>2
<1>9. ASSUME NEW n \in Live, key[n] = call.k
      PROVE  n \in Below(U, child[at][Toward(call.k, at)])
  <2>1. n \in U[at] /\ n # at
    BY <1>1, <1>3, <1>9 DEF Below
  <2>2. PICK s \in Sides : n \in Below(U, child[at][s])
    BY <1>2, <1>3, <2>1 DEF Shape, Sides
  <2>3. On(order, s, call.k, key[at])
    BY <1>2, <1>3, <1>9, <2>2 DEF Ordered
  <2>4. s = Toward(call.k, at)
    BY <1>3, <1>4, <1>5, <2>3 DEF On, Sides
  <2> QED  BY <2>2, <2>4
<1>10. /\ order' = order /\ root' = root /\ child' = child /\ key' = key
  BY <1>1 DEF Still, fields
<1>11. InFind(U)'
  <2>1. at' = child'[p'][(IF (IF order' = 1 THEN call'.k < key'[p'] ELSE key'[p'] < call'.k)
                          THEN "left" ELSE "right")]
    BY <1>1, <1>10 DEF Toward, Before
  <2> QED  BY <1>1, <1>3, <1>7, <1>8, <1>9, <1>10, <2>1 DEF InFind, Toward, Before
<1>12. Loops(U, Nil)'
  BY <1>1, <1>11 DEF Loops, Extra, Idle, InSuccessor, InUnlink, InInsert, InEnds, InNear,
     Inserting, InFix, InTakeOff, Answered
<1> QED  BY <1>7, <1>12 DEF Always

(* A call that has returned. *)
LEMMA ReturnedLoops ==
    ASSUME NEW U, pc' = "idle", at' = Nil, p' = Nil
    PROVE  Loops(U, Nil)'
BY DEF Loops, Extra, Idle, InFind, InEnds, InSuccessor, InUnlink, InInsert, Inserting,
   InFix, InTakeOff, InNear, Answered

LEMMA KeysDiffer ==
    ASSUME NEW N, NEW c, NEW up, NEW rt, NEW U, Shape(N, c, up, rt, U),
           NEW o \in {1, -1}, NEW ks \in [N -> Int], Ordered(N, c, ks, U, o, Nil),
           NEW n \in N, NEW m \in N, n # m
    PROVE  ks[n] # ks[m]
<1>0. /\ Nil \notin N /\ \A y \in N : ks[y] \in Int
      /\ \A y \in N, s \in Sides : /\ Below(U, c[y][s]) \subseteq N
                                   /\ Other(s) \in Sides
                                   /\ U[y] = {y} \cup Below(U, c[y][s])
                                               \cup Below(U, c[y][Other(s)])
  <2>1. Nil \notin N
    BY DEF Shape
  <2> QED  BY <2>1, Kids
<1>1. \A y \in N, s \in Sides : \A x \in Below(U, c[y][s]) : On(o, s, ks[x], ks[y])
  BY <1>0 DEF Ordered
<1>2. CASE m \in U[n]
  <2>1. PICK s \in Sides : m \in Below(U, c[n][s])
    BY <1>0, <1>2 DEF Sides
  <2> QED  BY <1>0, <1>1, <2>1, OnFacts
<1>3. ASSUME NEW y \in N, NEW s \in Sides, n \in Below(U, c[y][s]),
             m \in {y} \cup Below(U, c[y][Other(s)])
      PROVE  ks[n] # ks[m]
  <2>1. On(o, s, ks[n], ks[y])
    BY <1>1, <1>3
  <2>2. CASE m = y
    BY <1>0, <2>1, <2>2, OnFacts
  <2>3. CASE m \in Below(U, c[y][Other(s)])
    <3>1. On(o, Other(s), ks[m], ks[y])
      BY <1>0, <1>1, <2>3
    <3>2. On(o, s, ks[y], ks[m])
      BY <1>0, <3>1, OnFacts
    <3> QED  BY <1>0, <2>1, <3>2, OnFacts
  <2> QED  BY <1>3, <2>2, <2>3
<1> QED  BY <1>2, <1>3, Fork

LEMMA OverwriteStep ==
    ASSUME LoopAssumption, NEW U, NEW B, NEW e, Always(U, B, e),
           pc = "find", at # Nil, key[at] = call.k, Overwrite
    PROVE  Always(U, B, Nil)'
<1>1. /\ call.op = "put" /\ value' = [value EXCEPT ![at] = call.v]
      /\ pc' = "idle" /\ at' = Nil /\ p' = Nil
      /\ order' = order /\ root' = root /\ size' = size /\ child' = child
      /\ parent' = parent /\ color' = color /\ key' = key
      /\ entries' = [k \in DOMAIN entries \cup {call.k} |->
                        IF k = call.k THEN call.v ELSE entries[k]]
  BY DEF Overwrite, Returns, Dict!Put, Dict!Extended, Dict!Present
<1>2. /\ Shape(Live, child, parent, root, U) /\ Typed
      /\ Ordered(Live, child, key, U, order, Nil) /\ RedsKept
      /\ Balanced(Live, child, color, Nil, Nil, B)
      /\ Holds(Live, key, value, entries, Nil) /\ Sized
      /\ at \in Live /\ call.v \in LoopValues
  BY <1>1 DEF Always, Tree, Loops, Extra, Search, Deleting, Fixing, InFind, Contents, Typed
<1>3. Live' = Live /\ ~Deleting' /\ ~Inserting' /\ Search' = Nil /\ ~Fixing' /\ pc' # "fix"
  BY <1>1 DEF Live, Deleting, Inserting, Search, Fixing
<1>4. Typed'
  BY <1>1, <1>2, <1>3 DEF Typed
<1>5. \A n \in Live : n # at => key[n] # call.k
  BY <1>2, Numbers, KeysDiffer
<1>6. Holds(Live, key, value', entries', Nil)
  <2>1. Nil \notin Live /\ value \in [Live -> LoopValues]
    BY <1>2 DEF Shape, Typed
  <2>2. \A n \in Live \ {Nil} : key[n] \in DOMAIN entries' /\ entries'[key[n]] = value'[n]
    BY <1>1, <1>2, <1>5, <2>1 DEF Holds
  <2>3. \A k \in DOMAIN entries' : \E n \in Live \ {Nil} : key[n] = k
    BY <1>1, <1>2, <2>1 DEF Holds
  <2> QED  BY <2>2, <2>3 DEF Holds
<1>7. /\ Shape(Live, child, parent, root, U)'
      /\ Ordered(Live, child, key, U, order, Search)'
      /\ Balanced(Live, child, color, IF Fixing THEN p ELSE Nil, Nil, B)'
  BY <1>1, <1>2, <1>3
<1>8. RedsKept' /\ Sized' /\ Contents'
  <2>1. ~Inserting /\ ~Deleting /\ pc # "fix"
    BY DEF Inserting, Deleting, Fixing
  <2>2. RedsKept' /\ Sized'
    BY <1>1, <1>2, <1>3, <2>1 DEF RedsKept, Sized
  <2>3. Contents'
    BY <1>1, <1>3, <1>6 DEF Contents
  <2> QED  BY <2>2, <2>3
<1> QED  BY <1>1, <1>4, <1>7, <1>8, ReturnedLoops DEF Always, Tree

(* A loop that has found or missed returns, or begins again. *)
LEMMA KeepPresentStep ==
    ASSUME NEW U, NEW B, NEW e, Always(U, B, e),
           pc = "find", at # Nil, key[at] = call.k, KeepPresent
    PROVE  Always(U, B, Nil)'
<1>1. /\ pc' = "idle" /\ at' = Nil /\ p' = Nil /\ Still
      /\ Dict!PutIfAbsent(<<call.k, call.v>>)
  BY DEF KeepPresent, Returns, Still
<1>2. Contents /\ at \in Live /\ ~Deleting
  BY DEF Always, Tree, Typed, Deleting, Fixing
<1>3. entries' = entries
  BY <1>1, <1>2 DEF Contents, Holds, Dict!PutIfAbsent, Dict!Present
<1>4. Tree(U, B, Nil)'
  <2>1. Looking /\ Looking'
    BY <1>1 DEF Looking, Deleting, Inserting, Fixing
  <2> QED  BY <1>1, <1>3, <2>1, LookingTree
<1> QED  BY <1>1, <1>4, ReturnedLoops DEF Always

LEMMA RemoveAbsentStep ==
    ASSUME NEW U, NEW B, NEW e, Always(U, B, e),
           pc = "find", at = Nil, RemoveAbsent
    PROVE  Always(U, B, Nil)'
<1>1. /\ pc' = "idle" /\ at' = Nil /\ p' = Nil /\ Still
      /\ entries' = [k \in DOMAIN entries \ {call.k} |-> entries[k]]
  BY DEF RemoveAbsent, Returns, Still, Dict!RemoveAll, Dict!Present
<1>2. Holds(Live, key, value, entries, Nil)
  BY DEF Always, Tree, Contents, Deleting, Fixing
<1>3. \A n \in Live : key[n] # call.k
  BY DEF Always, Loops, InFind, Below
<1>4. Holds(Live, key, value, entries', Nil)
  BY <1>1, <1>2, <1>3 DEF Holds
<1>5. Tree(U, B, Nil)'
  <2>1. Looking /\ Looking'
    BY <1>1 DEF Looking, Deleting, Inserting, Fixing
  <2> QED  BY <1>1, <1>4, <2>1, LookingTree
<1> QED  BY <1>1, <1>5, ReturnedLoops DEF Always

LEMMA AtRoot ==
    ASSUME NEW N, NEW c, NEW up, NEW rt, NEW U, Shape(N, c, up, rt, U)
    PROVE  /\ \A n \in N : n \in Below(U, rt)
           /\ \A n \in N, s \in Sides :
                Nil \notin Below(U, c[n][s]) /\ rt \notin Below(U, c[n][s])
<1>1. \A n \in N : n \in Below(U, rt)
  BY DEF Shape, Below
<1>2. \A n \in N, s \in Sides :
        c[n][s] \in N \cup {Nil} /\ Below(U, c[n][s]) \subseteq N
  BY Kids
<1>3. ASSUME NEW n \in N, NEW s \in Sides, rt \in Below(U, c[n][s])
      PROVE  FALSE
  <2>1. c[n][s] # Nil
    BY <1>3 DEF Below
  <2>2. /\ rt \in U[c[n][s]] /\ c[n][s] \in N /\ c[n][s] # rt
    BY <1>3, <2>1, Acyclic DEF Below
  <2>3. up[rt] # Nil
    BY <2>2, ParentBelow
  <2> QED  BY <2>2, <2>3, ParentThere
<1> QED  BY <1>1, <1>2, <1>3 DEF Shape

LEMMA PutAbsentStep ==
    ASSUME NEW U, NEW B, NEW e, Always(U, B, e),
           pc = "find", at = Nil, PutAbsent
    PROVE  Always(U, B, Nil)'
<1>1. /\ pc' = "find" /\ at' = root /\ p' = Nil /\ Still /\ entries' = entries
      /\ call.op = "putIfAbsent" /\ call' = [op |-> "put", k |-> call.k, v |-> call.v]
  BY DEF PutAbsent, Still
<1>2. /\ Shape(Live, child, parent, root, U) /\ root \in Live \cup {Nil}
      /\ call.k \in LoopKeys /\ call.v \in LoopValues /\ Nodes # Live
  BY <1>1 DEF Always, Tree, Typed, Loops, InFind
<1>3. Tree(U, B, Nil)' /\ Live' = Live
  <2>1. Looking /\ Looking'
    BY <1>1 DEF Looking, Deleting, Inserting, Fixing
  <2> QED  BY <1>1, <1>2, <2>1, LookingTree
<1>4. call'.op \in {"put", "putIfAbsent", "remove"} /\ call'.k = call.k /\ call'.v = call.v
  BY <1>1
<1>5. InFind(U)'
  <2>1. child' = child /\ root' = root
    BY <1>1 DEF Still, fields
  <2> QED  BY <1>1, <1>2, <1>3, <1>4, <2>1, AtRoot DEF InFind
<1>6. Loops(U, Nil)'
  BY <1>1, <1>5 DEF Loops, Extra, Idle, InSuccessor, InUnlink, InInsert, InEnds, InNear,
     Inserting, InFix, InTakeOff, Answered
<1> QED  BY <1>3, <1>6 DEF Always

(* deleteEntry begins at q, whose key entries holds no more. *)
LEMMA DeleteEntryStep ==
    ASSUME LoopAssumption, NEW U, NEW B, NEW e, Always(U, B, e), Looking,
           NEW q \in Live, DeleteEntry(q),
           Holds(Live, key, value, entries', q)
    PROVE  Always(U, B, Nil)'
<1>1. /\ size' = size - 1 /\ p' = q
      /\ order' = order /\ root' = root /\ child' = child /\ parent' = parent
      /\ color' = color /\ key' = key /\ value' = value
      /\ \/ pc' = "successor" /\ at' = child[q]["right"]
            /\ child[q]["right"] # Nil /\ child[q]["left"] # Nil
         \/ /\ pc' = "unlink" /\ at' = q
            /\ child[q]["left"] = Nil \/ child[q]["right"] = Nil
  BY DEF DeleteEntry, fields, Sides
<1>2. /\ Shape(Live, child, parent, root, U) /\ Typed
      /\ Ordered(Live, child, key, U, order, Nil) /\ RedsKept
      /\ Balanced(Live, child, color, Nil, Nil, B) /\ Sized
  BY DEF Always, Tree, Loops, Extra, Looking, Search, Deleting, Fixing
<1>3. /\ Live' = Live /\ Deleting' /\ ~Inserting' /\ ~Fixing'
      /\ q # Nil /\ Search' \in {q, Nil} /\ (pc' = "successor" => Search' = Nil)
  BY <1>1, <1>2 DEF Live, Deleting, Inserting, Search, Fixing, Shape
<1>4. Typed'
  <2>1. child[q]["right"] \in Live \cup {Nil}
    BY <1>2, Kids DEF Sides
  <2> QED  BY <1>1, <1>2, <1>3, <2>1 DEF Typed
<1>5. /\ Shape(Live, child, parent, root, U)'
      /\ Balanced(Live, child, color, IF Fixing THEN p ELSE Nil, Nil, B)'
  BY <1>1, <1>2, <1>3
<1>6. Ordered(Live, child, key, U, order, Search)'
  <2>1. Nil \notin Live /\ \A n \in Live, s \in Sides : Below(U, child[n][s]) \subseteq Live
    <3>1. Nil \notin Live
      BY <1>2 DEF Shape
    <3> QED  BY <1>2, <3>1, Kids
  <2>2. Ordered(Live, child, key, U, order, q)
    BY <1>2, <2>1 DEF Ordered
  <2> QED  BY <1>1, <1>2, <1>3, <2>2
<1>7. RedsKept' /\ Sized' /\ Contents'
  <2>1. pc # "fix" /\ pc' # "fix"
    BY <1>1 DEF Looking, Deleting, Fixing
  <2>2. RedsKept'
    BY <1>1, <1>2, <1>3, <2>1 DEF RedsKept, Looking
  <2>3. Sized'
    BY <1>1, <1>2, <1>3 DEF Sized, Looking, Typed
  <2>4. Contents'
    BY <1>1, <1>3 DEF Contents
  <2> QED  BY <2>2, <2>3, <2>4
<1>8. InSuccessor(U)'
  <2>1. child[q]["right"] # Nil => /\ child[q]["right"] \in Below(U, child[q]["right"])
                                   /\ Below(U, child[q]["right"]) = U[child[q]["right"]]
    BY <1>2, Kids DEF Sides
  <2> QED  BY <1>1, <1>3, <2>1 DEF InSuccessor
<1>9. Loops(U, Nil)'
  BY <1>1, <1>3, <1>8 DEF Loops, Extra, Idle, InFind, InEnds, InUnlink, InInsert,
     Inserting, InFix, InTakeOff, InNear, Answered
<1> QED  BY <1>4, <1>5, <1>6, <1>7, <1>9 DEF Always, Tree

LEMMA RemovePresentStep ==
    ASSUME LoopAssumption, NEW U, NEW B, NEW e, Always(U, B, e),
           pc = "find", at # Nil, key[at] = call.k, RemovePresent
    PROVE  Always(U, B, Nil)'
<1>1. /\ DeleteEntry(at)
      /\ entries' = [k \in DOMAIN entries \ {call.k} |-> entries[k]]
  BY DEF RemovePresent, Dict!RemoveAll, Dict!Present
<1>2. /\ Shape(Live, child, parent, root, U) /\ Typed
      /\ Ordered(Live, child, key, U, order, Nil)
      /\ Holds(Live, key, value, entries, Nil) /\ at \in Live /\ Nil \notin Live
  BY DEF Always, Tree, Search, Deleting, Fixing, Contents, Typed, Shape
<1>3. \A n \in Live : n # at => key[n] # call.k
  BY <1>2, Numbers, KeysDiffer
<1>4. Holds(Live, key, value, entries', at)
  <2>1. \A n \in Live \ {at} : key[n] \in DOMAIN entries' /\ entries'[key[n]] = value[n]
    BY <1>1, <1>2, <1>3 DEF Holds
  <2>2. \A k \in DOMAIN entries' : \E n \in Live \ {at} : key[n] = k
    BY <1>1, <1>2 DEF Holds
  <2> QED  BY <2>1, <2>2 DEF Holds
<1>5. Looking
  BY DEF Looking, Deleting, Inserting, Fixing
<1> QED  BY <1>1, <1>2, <1>4, <1>5, DeleteEntryStep

LEMMA EndsDownStep ==
    ASSUME LoopAssumption, NEW U, NEW B, NEW e, Always(U, B, e), EndsDown
    PROVE  Always(U, B, Nil)'
<1>1. /\ pc = "ends" /\ pc' = "ends" /\ at # Nil
      /\ p' = at /\ at' = child[at][call.side]
      /\ call' = call /\ Still /\ entries' = entries
  BY DEF EndsDown, Still
<1>2. /\ Shape(Live, child, parent, root, U) /\ Typed /\ Nil \notin Live
      /\ Ordered(Live, child, key, U, order, Nil)
  BY <1>1 DEF Always, Tree, Search, Deleting, Fixing, Shape
<1>3. /\ at \in Live /\ call.side \in Sides /\ p \in Live \cup {Nil}
      /\ p = Nil => at = root
      /\ p # Nil => at = child[p][call.side]
      /\ \A n \in Live : n \in U[at] \/ n = p \/ On(order, call.side, key[p], key[n])
  BY <1>1, <1>2 DEF Always, Loops, InEnds, Typed, Below
<1>4. /\ \A n \in Live : key[n] \in Int
      /\ order \in {1, -1}
  BY <1>2, Numbers
<1>5. at' \in Live \cup {Nil}
  BY <1>1, <1>2, <1>3, Kids
<1>6. Tree(U, B, Nil)' /\ Live' = Live
  <2>1. Looking /\ Looking'
    BY <1>1 DEF Looking, Deleting, Inserting, Fixing
  <2> QED  BY <1>1, <1>3, <1>5, <2>1, LookingTree
<1>7. p # Nil => p \in Live /\ On(order, call.side, key[at], key[p])
  <2>1. p # Nil => at \in Below(U, child[p][call.side])
    BY <1>1, <1>2, <1>3, Kids
  <2> QED  BY <1>1, <1>2, <1>3, <2>1 DEF Ordered
<1>8. ASSUME NEW n \in Live, n \notin Below(U, child[at][call.side]), n # at
      PROVE  On(order, call.side, key[at], key[n])
  <2>1. CASE n \in U[at]
    <3>1. n \in Below(U, child[at][Other(call.side)]) /\ Other(call.side) \in Sides
      BY <1>2, <1>3, <1>8, <2>1, Kids
    <3>2. On(order, Other(call.side), key[n], key[at])
      BY <1>2, <1>3, <3>1 DEF Ordered
    <3> QED  BY <1>3, <1>4, <3>2, OnFacts
  <2>2. CASE n \notin U[at]
    <3>1. p # Nil
      BY <1>2, <1>3, <2>2, AtRoot, ParentThere
    <3>2. CASE n = p
      BY <1>7, <3>1, <3>2
    <3>3. CASE n # p
      <4>1. On(order, call.side, key[p], key[n])
        BY <1>3, <2>2, <3>3
      <4> QED  BY <1>3, <1>4, <1>7, <3>1, <4>1, OnFacts
    <3> QED  BY <3>2, <3>3
  <2> QED  BY <2>1, <2>2
<1>9. /\ order' = order /\ root' = root /\ child' = child /\ key' = key
  BY <1>1 DEF Still, fields
<1>10. InEnds(U)'
  BY <1>1, <1>3, <1>6, <1>8, <1>9 DEF InEnds
<1>11. Loops(U, Nil)'
  BY <1>1, <1>10 DEF Loops, Extra, Idle, InSuccessor, InUnlink, InInsert, InFind, InNear,
     Inserting, InFix, InTakeOff, Answered
<1> QED  BY <1>6, <1>11 DEF Always

LEMMA EndsNoneStep ==
    ASSUME NEW U, NEW B, NEW e, Always(U, B, e), EndsNone
    PROVE  Always(U, B, Nil)'
<1>1. /\ pc = "ends" /\ pc' = "idle" /\ at' = Nil /\ p' = Nil /\ Still /\ entries' = entries
  BY DEF EndsNone, Returns, Still
<1>2. Tree(U, B, Nil)'
  <2>1. Looking /\ Looking'
    BY <1>1 DEF Looking, Deleting, Inserting, Fixing
  <2> QED  BY <1>1, <2>1, LookingTree
<1> QED  BY <1>1, <1>2, ReturnedLoops DEF Always

(* The order as SortedMap writes it. *)
LEMMA Unit == \A x \in Int : 1 * x = x /\ (-1) * x = -x
OBVIOUS

LEMMA Times ==
    ASSUME NEW o \in {1, -1}, NEW i \in Int, NEW j \in Int
    PROVE  /\ -o \in {1, -1} /\ -o # o /\ -(-o) = o
           /\ (o * i <= o * j) <=> (i = j \/ On(o, "left", i, j))
           /\ (o * i > o * j) <=> On(o, "left", j, i)
           /\ On(-o, "left", i, j) <=> On(o, "right", i, j)
           /\ i # j => On(o, "left", i, j) \/ On(o, "left", j, i)
<1>1. -o \in {1, -1} /\ -o # o /\ -(-o) = o
  OBVIOUS
<1>2. On(-o, "left", i, j) <=> On(o, "right", i, j)
  BY <1>1 DEF On
<1>3. i # j => On(o, "left", i, j) \/ On(o, "left", j, i)
  BY DEF On
<1>4. CASE o = 1
  <2>1. o * i = i /\ o * j = j
    BY <1>4, Unit
  <2>2. /\ On(o, "left", i, j) <=> i < j
        /\ On(o, "left", j, i) <=> j < i
    BY <1>4 DEF On
  <2> QED  BY <1>1, <1>2, <1>3, <2>1, <2>2
<1>5. CASE o = -1
  <2>1. o * i = -i /\ o * j = -j
    BY <1>5, Unit
  <2>2. /\ On(o, "left", i, j) <=> j < i
        /\ On(o, "left", j, i) <=> i < j
    BY <1>5 DEF On
  <2> QED  BY <1>1, <1>2, <1>3, <2>1, <2>2
<1> QED  BY <1>4, <1>5

LEMMA EndsFoundStep ==
    ASSUME LoopAssumption, NEW U, NEW B, NEW e, Always(U, B, e), EndsFound
    PROVE  Always(U, B, Nil)'
<1> DEFINE o == IF call.side = "left" THEN order ELSE -order
<1>1. /\ pc = "ends" /\ at = Nil /\ p # Nil /\ DeleteEntry(p)
      /\ entries' = [k \in DOMAIN entries \ Dict!Ends(o) |-> entries[k]]
  BY DEF EndsFound, Dict!RemoveAll, Dict!Present
<1>2. /\ Shape(Live, child, parent, root, U) /\ Typed
      /\ Ordered(Live, child, key, U, order, Nil)
      /\ Holds(Live, key, value, entries, Nil) /\ p \in Live /\ Nil \notin Live
  BY <1>1 DEF Always, Tree, Search, Deleting, Fixing, Contents, Typed, Shape
<1>3. /\ call.side \in Sides
      /\ \A n \in Live : n # p => On(order, call.side, key[p], key[n])
  BY <1>1 DEF Always, Loops, InEnds, Below
<1>4. /\ \A n \in Live : key[n] \in Int
      /\ order \in {1, -1} /\ o \in {1, -1}
  BY <1>2, Numbers
<1>5. DOMAIN entries = {key[n] : n \in Live}
  BY <1>2 DEF Holds
<1>6. \A n \in Live : n # p => On(o, "left", key[p], key[n])
  <2>1. CASE call.side = "left"
    BY <1>3, <2>1
  <2>2. CASE call.side = "right"
    BY <1>2, <1>3, <1>4, <2>2, Times
  <2> QED  BY <1>3, <2>1, <2>2 DEF Sides
<1> HIDE DEF o
<1>7. Dict!Ends(o) = {key[p]}
  <2>1. ASSUME NEW n \in Live  PROVE o * key[p] <= o * key[n]
    BY <1>2, <1>4, <1>6, Times
  <2>2. ASSUME NEW n \in Live, n # p  PROVE ~(o * key[n] <= o * key[p])
    <3>1. On(o, "left", key[p], key[n])
      BY <1>6, <2>2
    <3>2. key[n] # key[p] /\ ~On(o, "left", key[n], key[p])
      BY <1>2, <1>4, <3>1, OnFacts DEF Sides
    <3> QED  BY <1>2, <1>4, <3>2, Times
  <2> QED  BY <1>2, <1>5, <2>1, <2>2 DEF Dict!Ends, Dict!Present
<1>8. \A n \in Live : n # p => key[n] # key[p]
  BY <1>2, Numbers, KeysDiffer
<1>9. Holds(Live, key, value, entries', p)
  <2>1. \A n \in Live \ {p} : key[n] \in DOMAIN entries' /\ entries'[key[n]] = value[n]
    BY <1>1, <1>2, <1>7, <1>8 DEF Holds
  <2>2. \A k \in DOMAIN entries' : \E n \in Live \ {p} : key[n] = k
    BY <1>1, <1>2, <1>7 DEF Holds
  <2> QED  BY <2>1, <2>2 DEF Holds
<1>10. Looking
  BY <1>1 DEF Looking, Deleting, Inserting, Fixing
<1> QED  BY <1>1, <1>2, <1>9, <1>10, DeleteEntryStep
-----------------------------------------------------------------------------
(* The loops that put a new node in. *)
LEMMA FreshIs ==
    ASSUME LoopAssumption, Live \subseteq Nodes, Nodes # Live, NEW k
    PROVE  Fresh(k) \in Nodes /\ Fresh(k) \notin Live /\ Fresh(k) # Nil
<1>1. \E n \in Nodes \ Live : TRUE
  OBVIOUS
<1>2. (CHOOSE n \in Nodes \ Live : TRUE) \in Nodes \ Live
  BY <1>1
<1> QED  BY <1>2 DEF Fresh, LoopAssumption

LEMMA LinkRootStep ==
    ASSUME LoopAssumption, NEW U, NEW B, NEW e, Always(U, B, e),
           pc = "find", at = Nil, LinkRoot
    PROVE  \E A, C : Always(A, C, Nil)'
<1> DEFINE x == Fresh(call.k)
<1>1. /\ call.op = "put" /\ p = Nil
      /\ parent' = Extended(parent, x, Nil) /\ color' = Extended(color, x, "black")
      /\ key' = Extended(key, x, call.k) /\ value' = Extended(value, x, call.v)
      /\ child' = Extended(child, x, [side \in Sides |-> Nil])
      /\ root' = x /\ size' = 1 /\ order' = order
      /\ pc' = "idle" /\ at' = Nil /\ p' = Nil
      /\ entries' = [k \in DOMAIN entries \cup {call.k} |->
                        IF k = call.k THEN call.v ELSE entries[k]]
  BY DEF LinkRoot, NewNode, Returns, Dict!Put, Dict!Extended, Dict!Present
<1>2. /\ root = Nil /\ call.k \in LoopKeys /\ call.v \in LoopValues /\ Nodes # Live
  BY <1>1 DEF Always, Loops, InFind
<1>3. /\ Live = {} /\ order \in {1, -1} /\ Live \subseteq Nodes
      /\ Holds(Live, key, value, entries, Nil)
  BY <1>2 DEF Always, Tree, Typed, Shape, Contents, Deleting, Fixing
<1>4. DOMAIN color = {} /\ DOMAIN key = {} /\ DOMAIN value = {} /\ DOMAIN child = {}
      /\ DOMAIN parent = {}
  BY <1>3 DEF Always, Tree, Typed, Shape, Live
<1>5. x \in Nodes /\ x # Nil
  BY <1>2, <1>3, FreshIs
<1> HIDE DEF x
<1>6. /\ parent' = [n \in {x} |-> Nil] /\ color' = [n \in {x} |-> "black"]
      /\ key' = [n \in {x} |-> call.k] /\ value' = [n \in {x} |-> call.v]
      /\ child' = [n \in {x} |-> [side \in Sides |-> Nil]]
      /\ Live' = {x}
  BY <1>1, <1>4 DEF Extended, Live
<1>7. PICK A : A = [n \in {x} |-> {x}]
  OBVIOUS
<1>8. PICK C : C = [n \in {x} |-> 1]
  OBVIOUS
<1>9. ~Deleting' /\ ~Inserting' /\ Search' = Nil /\ ~Fixing' /\ pc' # "fix"
  BY <1>1 DEF Deleting, Inserting, Search, Fixing
<1>10. Typed'
  BY <1>1, <1>2, <1>3, <1>5, <1>6 DEF Typed
<1>11. Shape(Live', child', parent', root', A)
  <2>1. IsFiniteSet({x})
    BY FS_Singleton
  <2> QED  BY <1>1, <1>5, <1>6, <1>7, <2>1 DEF Shape, Below, Sides
<1>12. Ordered(Live', child', key', A, order', Nil)
  BY <1>6 DEF Ordered, Below
<1>13. RedsKept'
  BY <1>1, <1>6, <1>9 DEF RedsKept, Reds
<1>14. Balanced(Live', child', color', Nil, Nil, C)
  BY <1>5, <1>6, <1>8 DEF Balanced, Weight, Height
<1>15. Contents'
  <2>1. Holds({x}, key', value', entries', Nil)
    <3>1. \A k \in DOMAIN entries : FALSE
      BY <1>3 DEF Holds
    <3> QED  BY <1>1, <1>5, <1>6, <3>1 DEF Holds
  <2> QED  BY <1>6, <1>9, <2>1 DEF Contents
<1>16. Sized'
  <2>1. Cardinality({x}) = 1
    BY FS_Singleton
  <2> QED  BY <1>1, <1>6, <1>9, <2>1 DEF Sized
<1>17. Tree(A, C, Nil)'
  BY <1>9, <1>10, <1>11, <1>12, <1>13, <1>14, <1>15, <1>16 DEF Tree
<1>18. Loops(A, Nil)'
  BY <1>1, ReturnedLoops
<1>19. Always(A, C, Nil)'
  BY <1>17, <1>18 DEF Always
<1> QED  BY <1>19

LEMMA LinkBelowStep ==
    ASSUME LoopAssumption, NEW U, NEW B, NEW e, Always(U, B, e),
           pc = "find", at = Nil, LinkBelow
    PROVE  \E A, C : Always(A, C, Nil)'
<1> DEFINE x == Fresh(call.k)
           t == Toward(call.k, p)
<1>1. /\ call.op = "put" /\ p # Nil
      /\ parent' = Extended(parent, x, p) /\ color' = Extended(color, x, "red")
      /\ key' = Extended(key, x, call.k) /\ value' = Extended(value, x, call.v)
      /\ child' = Extended([child EXCEPT ![p][t] = x], x, [side \in Sides |-> Nil])
      /\ root' = root /\ size' = size /\ order' = order
      /\ pc' = "insert" /\ at' = x /\ p' = Nil
      /\ entries' = [k \in DOMAIN entries \cup {call.k} |->
                        IF k = call.k THEN call.v ELSE entries[k]]
  BY DEF LinkBelow, NewNode, Dict!Put, Dict!Extended, Dict!Present
<1>2. /\ Shape(Live, child, parent, root, U) /\ Typed /\ Nil \notin Live
      /\ Ordered(Live, child, key, U, order, Nil) /\ RedsKept
      /\ Balanced(Live, child, color, Nil, Nil, B)
      /\ Holds(Live, key, value, entries, Nil) /\ Sized
  BY <1>1 DEF Always, Tree, Loops, Extra, Search, Deleting, Fixing, Contents, Shape
<1>3. /\ call.k \in LoopKeys /\ call.v \in LoopValues /\ Nodes # Live
      /\ p \in Live /\ key[p] # call.k /\ child[p][t] = Nil
      /\ \A n \in Live, s \in Sides :
          p \in Below(U, child[n][s]) => On(order, s, call.k, key[n])
      /\ \A n \in Live : key[n] # call.k
  BY <1>1, <1>2 DEF Always, Loops, InFind, Typed, Below
<1>4. x \in Nodes /\ x \notin Live /\ x # Nil
  BY <1>2, <1>3, FreshIs DEF Typed
<1>5. t \in Sides /\ On(order, t, call.k, key[p])
  BY <1>2, <1>3, Numbers, TowardIs
<1> HIDE DEF x, t
<1>6. /\ child \in [Live -> [Sides -> Live \cup {Nil}]]
      /\ parent \in [Live -> Live \cup {Nil}] /\ root \in Live /\ root # Nil
      /\ IsFiniteSet(Live)
  BY <1>2, <1>3, ParentThere DEF Shape
<1>7. /\ Live' = Live \cup {x}
      /\ parent' \in [Live' -> Live' \cup {Nil}] /\ parent'[x] = p
      /\ \A n \in Live : parent'[n] = parent[n]
  BY <1>1, <1>3, <1>4, <1>6 DEF Extended, Live
<1>8. /\ child' \in [Live' -> [Sides -> Live' \cup {Nil}]]
      /\ child'[p][t] = x /\ \A s \in Sides : child'[x][s] = Nil
      /\ \A n \in Live, s \in Sides : ~(n = p /\ s = t) => child'[n][s] = child[n][s]
  <2>1. PICK c : c = [child EXCEPT ![p][t] = x]
    OBVIOUS
  <2>2. /\ c \in [Live -> [Sides -> Live' \cup {Nil}]]
        /\ c[p][t] = x
        /\ \A n \in Live, s \in Sides : ~(n = p /\ s = t) => c[n][s] = child[n][s]
    BY <1>3, <1>4, <1>5, <1>6, <1>7, <2>1
  <2>3. child' = [n \in Live \cup {x} |-> IF n = x THEN [side \in Sides |-> Nil] ELSE c[n]]
    BY <1>1, <2>1, <2>2 DEF Extended
  <2> QED  BY <1>3, <1>4, <1>7, <2>2, <2>3
<1>9. /\ color' \in [Live' -> {"red", "black"}] /\ color'[x] = "red"
      /\ key' \in [Live' -> LoopKeys] /\ key'[x] = call.k
      /\ value' \in [Live' -> LoopValues] /\ value'[x] = call.v
      /\ \A n \in Live : color'[n] = color[n] /\ key'[n] = key[n] /\ value'[n] = value[n]
  BY <1>1, <1>2, <1>3, <1>4, <1>7 DEF Extended, Typed
<1>10. Linked(Live, child, parent, Live', child', parent', p, x, t)
  BY <1>3, <1>4, <1>5, <1>7, <1>8 DEF Linked
<1>11. PICK A : A = Grown(U, Live', p, x)
  OBVIOUS
<1>12. PICK C : C = Extended(B, x, 0)
  OBVIOUS
<1>13. ~Deleting' /\ Inserting' /\ Search' = Nil /\ ~Fixing' /\ pc' # "fix"
  BY <1>1 DEF Deleting, Inserting, Search, Fixing
<1>14. Typed'
  BY <1>1, <1>2, <1>4, <1>6, <1>7, <1>9, <1>13 DEF Typed
<1>15. Shape(Live', child', parent', root', A)
  BY <1>1, <1>2, <1>10, <1>11, LinkedShape
<1>16. Ordered(Live', child', key', A, order', Nil)
  <2>1. \A n \in Live, s \in Sides :
          p \in Below(U, child[n][s]) => On(order, s, key'[x], key[n])
    BY <1>3, <1>9
  <2>2. On(order, t, key'[x], key[p]) /\ \A n \in Live : key'[n] = key[n]
    BY <1>5, <1>9
  <2>3. Ordered(Live', child', key', Grown(U, Live', p, x), order, Nil)
    BY <1>2, <1>10, <2>1, <2>2, LinkedOrdered
  <2> QED  BY <1>1, <1>11, <2>3
<1>17. RedsKept'
  <2>1. ~Inserting /\ pc # "fix"
    BY DEF Inserting
  <2>2. Reds(Live, parent, color, Nil, Nil) /\ color[root] = "black"
    BY <1>2, <1>6, <2>1 DEF RedsKept
  <2>3. Reds(Live', parent', color', x, Nil)
    BY <1>2, <1>6, <1>7, <1>9, <2>2 DEF Reds
  <2>4. color'[root'] = "black"
    BY <1>1, <1>6, <1>9, <2>2
  <2> QED  BY <1>1, <1>13, <2>3, <2>4 DEF RedsKept
<1>18. Balanced(Live', child', color', Nil, Nil, C)
  BY <1>2, <1>9, <1>10, <1>12, LinkedBalanced
<1>19. Contents'
  <2>1. /\ DOMAIN entries' = DOMAIN entries \cup {call.k} /\ entries'[call.k] = call.v
        /\ \A y \in DOMAIN entries : y # call.k => entries'[y] = entries[y]
    BY <1>1
  <2>2. Holds(Live \cup {x}, key', value', entries', Nil)
    <3>1. \A n \in Live \cup {x} : /\ key'[n] \in DOMAIN entries'
                                   /\ entries'[key'[n]] = value'[n]
      BY <1>2, <1>3, <1>9, <2>1 DEF Holds
    <3>2. \A y \in DOMAIN entries' : \E n \in (Live \cup {x}) \ {Nil} : key'[n] = y
      BY <1>2, <1>4, <1>9, <2>1 DEF Holds
    <3> QED  BY <3>1, <3>2 DEF Holds
  <2> QED  BY <1>7, <1>13, <2>2 DEF Contents
<1>20. Sized'
  <2>1. Cardinality(Live') = Cardinality(Live) + 1
    BY <1>4, <1>6, <1>7, FS_AddElement
  <2>2. size = Cardinality(Live)
    BY <1>2 DEF Sized, Typed, Inserting, Deleting, Fixing
  <2> QED  BY <1>1, <1>13, <2>1, <2>2 DEF Sized
<1>21. Tree(A, C, Nil)'
  BY <1>13, <1>14, <1>15, <1>16, <1>17, <1>18, <1>19, <1>20 DEF Tree
<1>22. Loops(A, Nil)'
  BY <1>1, <1>4, <1>9 DEF Loops, Extra, Idle, InFind, InEnds, InSuccessor, InUnlink,
     InInsert, InFix, InTakeOff, InNear, Answered
<1>23. Always(A, C, Nil)'
  BY <1>21, <1>22 DEF Always
<1> QED  BY <1>23

(* A rotation in the middle of a call. *)
LEMMA RotateTree ==
    ASSUME LoopAssumption, Typed, NEW U, Shape(Live, child, parent, root, U),
           NEW d, Ordered(Live, child, key, U, order, d),
           NEW q \in Live, d # q, NEW s \in Sides, child[q][Other(s)] # Nil, Rotate(q, s)
    PROVE  /\ Live' = Live /\ key' = key /\ value' = value
           /\ Rotated(Live, child, parent, root, child', parent', root',
                      q, child[q][Other(s)], s)
           /\ Shape(Live, child', parent', root', Turned(U, child, q, child[q][Other(s)], s))
           /\ Ordered(Live, child', key, Turned(U, child, q, child[q][Other(s)], s), order, d)
<1> DEFINE r == child[q][Other(s)]
<1>1. key' = key /\ value' = value
  BY DEF Rotate
<1>2. Live' = Live /\ Rotated(Live, child, parent, root, child', parent', root', q, r, s)
  BY RotateRotates
<1>3. key \in [Live -> Int] /\ order \in {1, -1}
  BY Numbers
<1> HIDE DEF r
<1>4. Shape(Live, child', parent', root', Turned(U, child, q, r, s))
  BY <1>2, RotatedShape
<1>5. Ordered(Live, child', key, Turned(U, child, q, r, s), order, d)
  BY <1>2, <1>3, RotatedOrdered
<1> QED  BY <1>1, <1>2, <1>4, <1>5 DEF r

(* The parent of a node that may be one. *)
LEMMA KidsOf ==
    ASSUME NEW N, NEW c, NEW up, NEW rt, NEW U, Shape(N, c, up, rt, U),
           NEW h \in N, NEW s \in Sides, NEW n \in N, up[n] = h
    PROVE  n \in {c[h][s], c[h][Other(s)]}
<1>1. h # Nil
  BY DEF Shape
<1>2. n # rt
  BY <1>1, ParentThere
<1>3. \E t \in Sides : c[h][t] = n
  BY <1>2, ParentThere
<1> QED  BY <1>3 DEF Sides, Other

LEMMA InsertingFacts ==
    ASSUME NEW U, NEW B, NEW e, Always(U, B, e), Inserting
    PROVE  /\ Shape(Live, child, parent, root, U) /\ Typed /\ Nil \notin Live
           /\ Ordered(Live, child, key, U, order, Nil)
           /\ Reds(Live, parent, color, at, Nil)
           /\ root # at => color[root] = "black"
           /\ Balanced(Live, child, color, Nil, Nil, B)
           /\ Holds(Live, key, value, entries, Nil)
           /\ size + 1 = Cardinality(Live)
           /\ at \in Live /\ color[at] = "red" /\ root \in Live /\ e = Nil /\ InInsert
           /\ color \in [Live -> {"red", "black"}]
<1>1. ~Deleting /\ ~Fixing /\ Search = Nil /\ pc # "fix"
  BY DEF Inserting, Deleting, Fixing, Search
<1>2. /\ Shape(Live, child, parent, root, U) /\ Typed
      /\ Ordered(Live, child, key, U, order, Nil)
      /\ Balanced(Live, child, color, Nil, e, B)
      /\ RedsKept /\ Contents /\ Sized /\ Extra(e) /\ InInsert
  BY <1>1 DEF Always, Tree, Loops
<1>3. e = Nil
  BY <1>1, <1>2 DEF Extra, Inserting
<1>4. at \in Live /\ color[at] = "red"
  BY <1>2 DEF InInsert, Typed
<1>5. root \in Live /\ root # Nil /\ Nil \notin Live
  BY <1>2, <1>4, ParentThere DEF Shape
<1>6. Reds(Live, parent, color, at, Nil) /\ (root # at => color[root] = "black")
  BY <1>1, <1>2, <1>5 DEF RedsKept
<1>7. Holds(Live, key, value, entries, Nil) /\ size + 1 = Cardinality(Live)
  BY <1>1, <1>2 DEF Contents, Sized
<1> QED  BY <1>2, <1>3, <1>4, <1>5, <1>6, <1>7 DEF Typed

(* What has to be shown of a step that goes on with the insertion. *)
Goes(A, C, x, top, s) ==
    /\ pc' \in {"insert", "raise"}
    /\ order' = order /\ size' = size /\ key' = key /\ value' = value /\ p' = p
    /\ entries' = entries /\ Live' = Live /\ color' \in [Live -> {"red", "black"}]
    /\ at' \in Live /\ color'[at'] = "red"
    /\ Shape(Live, child', parent', root', A)
    /\ Ordered(Live, child', key, A, order, Nil)
    /\ Reds(Live, parent', color', at', Nil)
    /\ root' # at' => color'[root'] = "black"
    /\ Balanced(Live, child', color', Nil, Nil, C)
    /\ pc' = "raise" =>
          /\ x = parent'[at'] /\ top = parent'[x] /\ at' # root' /\ x # root'
          /\ color'[x] = "red" /\ child'[x][s] = at' /\ s \in Sides
          /\ child'[top][s] = x /\ child'[top][Other(s)] # x
          /\ child'[top][Other(s)] = Nil \/ color'[child'[top][Other(s)]] = "black"

LEMMA InsertingKept ==
    ASSUME NEW U, NEW B, NEW e, Always(U, B, e), Inserting,
           NEW A, NEW C, NEW x, NEW top, NEW s, Goes(A, C, x, top, s)
    PROVE  Always(A, C, Nil)'
<1>0. /\ pc' \in {"insert", "raise"}
      /\ order' = order /\ size' = size /\ key' = key /\ value' = value /\ p' = p
      /\ entries' = entries /\ Live' = Live /\ color' \in [Live -> {"red", "black"}]
      /\ at' \in Live /\ color'[at'] = "red"
      /\ Shape(Live, child', parent', root', A)
      /\ Ordered(Live, child', key, A, order, Nil)
      /\ Reds(Live, parent', color', at', Nil)
      /\ root' # at' => color'[root'] = "black"
      /\ Balanced(Live, child', color', Nil, Nil, C)
  BY DEF Goes
<1>1. ~Deleting' /\ ~Fixing' /\ Search' = Nil /\ pc' # "fix" /\ Inserting'
  BY <1>0 DEF Inserting, Deleting, Fixing, Search
<1>2. /\ Typed /\ Holds(Live, key, value, entries, Nil) /\ size + 1 = Cardinality(Live)
  BY InsertingFacts
<1>3. Typed' /\ root' # Nil
  <2>1. root' \in Live /\ root' # Nil
    BY <1>0, ParentThere
  <2> QED  BY <1>0, <1>2, <2>1 DEF Typed
<1>4. RedsKept'
  BY <1>0, <1>1, <1>3 DEF RedsKept
<1>5. Contents' /\ Sized'
  BY <1>0, <1>1, <1>2 DEF Contents, Sized
<1>6. Tree(A, C, Nil)'
  BY <1>0, <1>1, <1>3, <1>4, <1>5 DEF Tree
<1>7. at' # Nil /\ Nil \notin Live
  BY <1>0 DEF Shape
<1>8. InInsert'
  <2>1. CASE pc' = "raise"
    <3>1. /\ x = parent'[at'] /\ top = parent'[x] /\ at' # root' /\ x # root'
          /\ color'[x] = "red" /\ child'[x][s] = at'
          /\ child'[top][s] = x /\ child'[top][Other(s)] # x /\ s \in Sides
          /\ child'[top][Other(s)] = Nil \/ color'[child'[top][Other(s)]] = "black"
      BY <2>1 DEF Goes
    <3>2. (IF child'[top]["left"] = x THEN "left" ELSE "right") = s
      BY <3>1 DEF Sides, Other
    <3>3. SideOf(parent[at])' = s
      BY <3>1, <3>2 DEF SideOf
    <3>4. (ColorOf(child[parent[parent[at]]][Other(SideOf(parent[at]))]))' = "black"
      <4>1. (child[parent[parent[at]]][Other(SideOf(parent[at]))])' = child'[top][Other(s)]
        BY <3>1, <3>3 DEF Other
      <4> QED  BY <3>1, <4>1 DEF ColorOf
    <3> QED  BY <1>0, <1>1, <1>7, <3>1, <3>3, <3>4 DEF InInsert
  <2>2. CASE pc' # "raise"
    BY <1>0, <1>1, <1>7, <2>2 DEF InInsert
  <2> QED  BY <2>1, <2>2
<1>9. Loops(A, Nil)'
  BY <1>0, <1>1, <1>8 DEF Loops, Extra, Idle, InFind, InEnds, InSuccessor, InUnlink,
     InFix, InTakeOff, InNear, Answered, Inserting
<1> QED  BY <1>6, <1>9 DEF Always

(* A black root is one black more everywhere. *)
LEMMA RootBlack ==
    ASSUME NEW N, NEW c, NEW up, NEW rt, NEW U, Shape(N, c, up, rt, U), rt \in N,
           NEW col, NEW d, d # rt, NEW e, e \in {Nil, rt}, NEW B, Balanced(N, c, col, d, e, B),
           NEW col1, col1[rt] = "black", \A n \in N : n # rt => col1[n] = col[n]
    PROVE  \E C : Balanced(N, c, col1, d, Nil, C)
<1>1. /\ B \in [N -> Nat] /\ Nil \notin N
      /\ \A n \in N, t \in Sides : B[n] = Weight(col, d, e, n) + Height(B, c[n][t])
  BY DEF Balanced, Shape
<1>2. \A n \in N, t \in Sides : c[n][t] \in N \cup {Nil} /\ c[n][t] # rt
  <2>1. \A n \in N, t \in Sides : c[n][t] # Nil => c[n][t] # rt
    BY Acyclic
  <2>2. \A n \in N, t \in Sides : c[n][t] \in N \cup {Nil}
    BY Kids
  <2> QED  BY <1>1, <2>1, <2>2
<1>3. Height(B, c[rt]["left"]) \in Nat
  BY <1>1, <1>2 DEF Height, Sides
<1>4. PICK h \in Nat : h = Height(B, c[rt]["left"])
  BY <1>3
<1>5. PICK C : C = [B EXCEPT ![rt] = 1 + h]
  OBVIOUS
<1>6. C \in [N -> Nat] /\ C[rt] = 1 + h /\ \A n \in N : n # rt => C[n] = B[n]
  BY <1>1, <1>5
<1>7. \A n \in N, t \in Sides : Height(C, c[n][t]) = Height(B, c[n][t])
  BY <1>2, <1>6 DEF Height
<1>8. \A t \in Sides : Height(B, c[rt][t]) = h
  <2>1. Weight(col, d, e, rt) \in Nat
    BY DEF Weight
  <2>2. \A t \in Sides : Height(B, c[rt][t]) \in Nat
    BY <1>1, <1>2 DEF Height
  <2>3. \A t \in Sides : B[rt] = Weight(col, d, e, rt) + Height(B, c[rt][t])
    BY <1>1
  <2> QED  BY <1>4, <2>1, <2>2, <2>3 DEF Sides
<1>9. Weight(col1, d, Nil, rt) = 1
  BY <1>1 DEF Weight
<1>10. \A n \in N : n # rt => Weight(col1, d, Nil, n) = Weight(col, d, e, n)
  BY <1>1 DEF Weight
<1>11. Balanced(N, c, col1, d, Nil, C)
  BY <1>1, <1>6, <1>7, <1>8, <1>9, <1>10 DEF Balanced
<1> QED  BY <1>11

LEMMA InsertDoneStep ==
    ASSUME NEW U, NEW B, NEW e, Always(U, B, e), InsertDone
    PROVE  \E C : Always(U, C, Nil)'
<1>1. /\ pc = "insert" /\ ~RedBelowRed
      /\ color' = [color EXCEPT ![root] = "black"] /\ size' = size + 1
      /\ pc' = "idle" /\ at' = Nil /\ p' = Nil
      /\ order' = order /\ root' = root /\ child' = child /\ parent' = parent
      /\ key' = key /\ value' = value /\ entries' = entries
  BY DEF InsertDone, Returns
<1>2. Inserting
  BY <1>1 DEF Inserting
<1>3. /\ Shape(Live, child, parent, root, U) /\ Typed /\ Nil \notin Live
      /\ Ordered(Live, child, key, U, order, Nil)
      /\ Reds(Live, parent, color, at, Nil)
      /\ Balanced(Live, child, color, Nil, Nil, B)
      /\ Holds(Live, key, value, entries, Nil)
      /\ size + 1 = Cardinality(Live)
      /\ at \in Live /\ root \in Live /\ color \in [Live -> {"red", "black"}]
  BY <1>2, InsertingFacts
<1>4. Live' = Live /\ ~Deleting' /\ ~Inserting' /\ Search' = Nil /\ ~Fixing' /\ pc' # "fix"
  BY <1>1 DEF Live, Deleting, Inserting, Search, Fixing
<1>5. /\ color' \in [Live -> {"red", "black"}] /\ color'[root] = "black"
      /\ \A n \in Live : n # root => color'[n] = color[n]
  BY <1>1, <1>3
<1>6. PICK C : Balanced(Live, child, color', Nil, Nil, C)
  BY <1>3, <1>5, RootBlack
<1>7. Typed'
  BY <1>1, <1>3, <1>4, <1>5 DEF Typed
<1>8. RedsKept'
  <2>1. at = root \/ color[parent[at]] # "red"
    BY <1>1 DEF RedBelowRed
  <2>2. Reds(Live, parent, color', Nil, Nil)
    <3>1. parent \in [Live -> Live \cup {Nil}]
      BY <1>3 DEF Shape
    <3> QED  BY <1>3, <1>5, <2>1, <3>1 DEF Reds
  <2> QED  BY <1>1, <1>4, <1>5, <2>2 DEF RedsKept
<1>9. Contents' /\ Sized'
  BY <1>1, <1>3, <1>4 DEF Contents, Sized
<1>10. Tree(U, C, Nil)'
  BY <1>1, <1>3, <1>4, <1>6, <1>7, <1>8, <1>9 DEF Tree
<1> QED  BY <1>1, <1>10, ReturnedLoops DEF Always

(* A red node with a red parent has a grandparent, which is black. *)
LEMMA Family ==
    ASSUME NEW U, NEW B, NEW e, Always(U, B, e), Inserting,
           NEW x, x = at, x # root,
           NEW up, up = parent[x], color[up] = "red",
           NEW top, top = parent[up], NEW s, s = SideOf(up)
    PROVE  /\ up \in Live /\ top \in Live /\ up # root /\ up # x /\ top # up /\ top # x
           /\ s \in Sides /\ Other(s) \in Sides /\ Other(Other(s)) = s
           /\ child[top][s] = up
           /\ color[top] = "black"
           /\ child[top][Other(s)] \in Live \cup {Nil}
           /\ child[top][Other(s)] \notin {up, x, top}
           /\ child[top][Other(s)] # Nil => parent[child[top][Other(s)]] = top
           /\ \A n \in Live : parent[n] = top => n \in {up, child[top][Other(s)]}
           /\ \A n \in Live : parent[n] = up /\ n # x => color[n] = "black"
           /\ x \in {child[up][s], child[up][Other(s)]}
<1>1. /\ Shape(Live, child, parent, root, U) /\ Nil \notin Live
      /\ Reds(Live, parent, color, x, Nil)
      /\ root # x => color[root] = "black"
      /\ x \in Live /\ color[x] = "red" /\ root \in Live
      /\ color \in [Live -> {"red", "black"}]
  BY InsertingFacts
<1>2. up \in Live /\ up # root
  BY <1>1, ParentThere
<1>3. /\ top \in Live /\ s \in Sides /\ child[top][s] = up
      /\ child[top][Other(s)] # up
  BY <1>1, <1>2, SideIs
<1>4. Other(s) \in Sides /\ Other(Other(s)) = s
  BY <1>3 DEF Sides, Other
<1>5. \E t \in Sides : child[up][t] = x
  BY <1>1, <1>2, ParentThere
<1>6. up # x /\ top # x
  BY <1>1, <1>2, <1>5, Acyclic
<1>7. /\ top # up
      /\ child[top][Other(s)] # Nil => /\ child[top][Other(s)] # top
                                       /\ parent[child[top][Other(s)]] = top
  BY <1>1, <1>2, <1>3, <1>4, Acyclic, Kids
<1>8. child[top][Other(s)] \in Live \cup {Nil}
  BY <1>1, <1>3, <1>4, Kids
<1>9. child[top][Other(s)] \notin {up, x, top}
  BY <1>1, <1>2, <1>3, <1>7, <1>8
<1>10. color[top] = "black"
  BY <1>1, <1>2, <1>3, <1>6 DEF Reds
<1>11. \A n \in Live : parent[n] = top => n \in {up, child[top][Other(s)]}
  BY <1>1, <1>3, KidsOf
<1>12. \A n \in Live : parent[n] = up /\ n # x => color[n] = "black"
  BY <1>1, <1>2 DEF Reds
<1>13. x \in {child[up][s], child[up][Other(s)]}
  BY <1>1, <1>2, <1>3, KidsOf
<1> QED  BY <1>2, <1>3, <1>4, <1>6, <1>7, <1>8, <1>9, <1>10, <1>11, <1>12, <1>13

(* The children of g are red and become black, and g red. *)
RedUncle(N, c, up, rt, U, col, col1, B, x, f, u, g, s) ==
    /\ Shape(N, c, up, rt, U)
    /\ g \in N /\ f \in N /\ u \in N /\ s \in Sides
    /\ f = c[g][s] /\ u = c[g][Other(s)] /\ up[x] = f
    /\ Reds(N, up, col, x, Nil)
    /\ col[f] = "red" /\ col[u] = "red" /\ col[g] = "black"
    /\ col1[f] = "black" /\ col1[u] = "black" /\ col1[g] = "red"
    /\ \A n \in N \ {f, u, g} : col1[n] = col[n]
    /\ Balanced(N, c, col, Nil, Nil, B)

LEMMA Recoloured ==
    ASSUME NEW N, NEW c, NEW up, NEW rt, NEW U, NEW col, NEW col1, NEW B,
           NEW x, NEW f, NEW u, NEW g, NEW s,
           RedUncle(N, c, up, rt, U, col, col1, B, x, f, u, g, s)
    PROVE  /\ Reds(N, up, col1, g, Nil)
           /\ \E C : Balanced(N, c, col1, Nil, Nil, C)
<1>0. /\ Shape(N, c, up, rt, U)
      /\ g \in N /\ f \in N /\ u \in N /\ s \in Sides
      /\ f = c[g][s] /\ u = c[g][Other(s)] /\ up[x] = f
      /\ Reds(N, up, col, x, Nil)
      /\ col[f] = "red" /\ col[u] = "red" /\ col[g] = "black"
      /\ col1[f] = "black" /\ col1[u] = "black" /\ col1[g] = "red"
      /\ \A n \in N \ {f, u, g} : col1[n] = col[n]
      /\ Balanced(N, c, col, Nil, Nil, B)
  BY DEF RedUncle
<1> USE <1>0
<1>1. /\ up \in [N -> N \cup {Nil}] /\ Nil \notin N
      /\ \A n \in N, t \in Sides : /\ c[n][t] \in N \cup {Nil}
                                   /\ c[n][t] # Nil => up[c[n][t]] = n
  <2>1. up \in [N -> N \cup {Nil}] /\ Nil \notin N
    BY DEF Shape
  <2> QED  BY <2>1, Kids
<1>2. /\ Other(s) \in Sides /\ up[f] = g /\ up[u] = g
      /\ \A t \in Sides : c[g][t] \in {f, u}
      /\ \A n \in N : up[n] = g => n \in {f, u}
  <2>1. Other(s) \in Sides /\ \A t \in Sides : t = s \/ t = Other(s)
    BY DEF Sides, Other
  <2>2. \A n \in N : up[n] = g => n \in {f, u}
    BY KidsOf
  <2> QED  BY <1>1, <2>1, <2>2
<1>3. ASSUME NEW n \in N, col1[n] = "red", n # g, up[n] # Nil
      PROVE  col1[up[n]] = "black"
  <2>1. n \notin {f, u} /\ col[n] = "red" /\ up[n] # g /\ up[n] \in N
    BY <1>1, <1>2, <1>3
  <2>2. CASE n = x
    BY <2>2
  <2>3. CASE n # x
    BY <1>3, <2>1, <2>3 DEF Reds
  <2> QED  BY <2>2, <2>3
<1>4. /\ B \in [N -> Nat]
      /\ \A n \in N, t \in Sides : B[n] = Weight(col, Nil, Nil, n) + Height(B, c[n][t])
  BY DEF Balanced
<1>5. PICK C : C = [n \in N |-> IF n \in {f, u} THEN B[n] + 1 ELSE B[n]]
  OBVIOUS
<1>6. C \in [N -> Nat] /\ \A n \in N : C[n] = IF n \in {f, u} THEN B[n] + 1 ELSE B[n]
  BY <1>4, <1>5
<1>7. \A n \in N : Weight(col1, Nil, Nil, n) =
          IF n \in {f, u} THEN 1 ELSE IF n = g THEN 0 ELSE Weight(col, Nil, Nil, n)
  BY <1>1 DEF Weight
<1>8. \A n \in N : /\ Weight(col, Nil, Nil, n) \in Nat
                   /\ n \in {f, u} => Weight(col, Nil, Nil, n) = 0
                   /\ n = g => Weight(col, Nil, Nil, n) = 1
  BY <1>1 DEF Weight
<1>9. ASSUME NEW n \in N, NEW t \in Sides
      PROVE  C[n] = Weight(col1, Nil, Nil, n) + Height(C, c[n][t])
  <2>1. B[n] = Weight(col, Nil, Nil, n) + Height(B, c[n][t]) /\ Height(B, c[n][t]) \in Nat
    BY <1>1, <1>4 DEF Height
  <2>2. CASE n = g
    <3>1. c[n][t] \in {f, u} /\ n \notin {f, u}
      BY <1>2, <1>8, <2>2
    <3>2. Height(C, c[n][t]) = Height(B, c[n][t]) + 1
      BY <1>1, <1>6, <3>1 DEF Height
    <3> QED  BY <1>6, <1>7, <1>8, <2>1, <2>2, <3>1, <3>2
  <2>3. CASE n # g
    <3>1. c[n][t] \notin {f, u}
      BY <1>1, <1>2, <2>3
    <3>2. Height(C, c[n][t]) = Height(B, c[n][t])
      BY <1>1, <1>6, <3>1 DEF Height
    <3> QED  BY <1>6, <1>7, <1>8, <2>1, <2>3, <3>2
  <2> QED  BY <2>2, <2>3
<1>10. Reds(N, up, col1, g, Nil)
  BY <1>3 DEF Reds
<1> QED  BY <1>6, <1>9, <1>10 DEF Balanced

(* The red x, on the inner side of its red parent f, is turned above it.   *)
LEMMA Straightened ==
    ASSUME NEW N, NEW c, NEW up, NEW rt, NEW U, Shape(N, c, up, rt, U),
           NEW c1, NEW up1, NEW rt1, NEW f, NEW x, NEW s,
           Rotated(N, c, up, rt, c1, up1, rt1, f, x, s),
           NEW g \in N, g = up[f], c[g][s] = f, g # f, g # x,
           NEW col, Reds(N, up, col, x, Nil),
           col[x] = "red", col[f] = "red", col[g] = "black",
           NEW B, Balanced(N, c, col, Nil, Nil, B)
    PROVE  /\ Reds(N, up1, col, f, Nil)
           /\ Balanced(N, c1, col, Nil, Nil, B)
           /\ up1[f] = x /\ up1[x] = g /\ rt1 = rt
           /\ c1[x][s] = f /\ c1[g][s] = x
           /\ c1[g][Other(s)] = c[g][Other(s)] /\ c[g][Other(s)] # x
<1>1. /\ f \in N /\ s \in Sides /\ x = c[f][Other(s)] /\ x # Nil
      /\ c1[x][s] = f /\ up1[f] = x /\ up1[x] = g
      /\ \A n \in N \ {f, x} : up1[n] = IF n = c[x][s] THEN f ELSE up[n]
      /\ \A n \in N \ {f, x}, t \in Sides : c1[n][t] = IF c[n][t] = f THEN x ELSE c[n][t]
      /\ rt1 = IF f = rt THEN x ELSE rt
  BY DEF Rotated
<1>2. /\ Other(s) \in Sides /\ x \in N /\ x # f /\ Nil \notin N /\ up[x] = f
      /\ \A n \in N, t \in Sides : /\ c[n][t] \in N \cup {Nil}
                                   /\ c[n][t] # Nil => up[c[n][t]] = n
  <2>1. Nil \notin N
    BY DEF Shape
  <2>2. \A n \in N, t \in Sides : /\ c[n][t] \in N \cup {Nil}
                                  /\ c[n][t] # Nil => up[c[n][t]] = n
    BY Kids
  <2>3. Other(s) \in Sides /\ x \in N /\ up[x] = f
    <3>1. Other(s) \in Sides
      BY <1>1 DEF Sides, Other
    <3>2. f \in N /\ x = c[f][Other(s)] /\ x # Nil
      BY <1>1
    <3> QED  BY <3>1, <3>2, Kids
  <2>4. x # f
    BY <1>1, <2>3, Acyclic
  <2> QED  BY <2>1, <2>2, <2>3, <2>4
<1>3. f # rt /\ c[g][Other(s)] # f /\ c[g][Other(s)] # x
  <2>1. f # rt
    BY <1>1, <1>2, ParentThere
  <2>2. c[g][Other(s)] # f
    BY <1>1, <1>2, Acyclic
  <2> QED  BY <1>2, <2>1, <2>2
<1>4. c1[g][s] = x /\ c1[g][Other(s)] = c[g][Other(s)]
  BY <1>1, <1>2, <1>3
<1>5. \A n \in N : n = c[x][s] => up[n] = x /\ n # x
  BY <1>1, <1>2, Acyclic
<1>6. ASSUME NEW n \in N, col[n] = "red", n # f, up1[n] # Nil
      PROVE  col[up1[n]] = "black"
  <2>1. CASE n = x
    BY <1>1, <2>1
  <2>2. CASE n # x
    <3>1. n # c[x][s]
      BY <1>2, <1>5, <1>6 DEF Reds
    <3>2. up1[n] = up[n]
      BY <1>1, <1>6, <2>2, <3>1
    <3> QED  BY <1>6, <2>2, <3>2 DEF Reds
  <2> QED  BY <2>1, <2>2
<1>7. Balanced(N, c1, col, Nil, Nil, B)
  <2>1. /\ B \in [N -> Nat]
        /\ \A n \in N, t \in Sides : B[n] = Weight(col, Nil, Nil, n) + Height(B, c[n][t])
    BY DEF Balanced
  <2>2. /\ \A n \in N : Weight(col, Nil, Nil, n) \in Nat
        /\ Weight(col, Nil, Nil, f) = 0 /\ Weight(col, Nil, Nil, x) = 0
    BY <1>1, <1>2 DEF Weight
  <2>3. \A t \in Sides : /\ B[f] = 0 + Height(B, c[f][t]) /\ Height(B, c[f][t]) \in Nat
                         /\ B[x] = 0 + Height(B, c[x][t]) /\ Height(B, c[x][t]) \in Nat
    BY <1>1, <1>2, <2>1, <2>2 DEF Height
  <2>4. Height(B, c[f][Other(s)]) = B[x]
    BY <1>1 DEF Height
  <2>5. B[f] = B[x] /\ B[f] \in Nat
    BY <1>1, <1>2, <2>1, <2>3, <2>4
  <2>6. /\ B[f] = Weight(col, Nil, Nil, f) + Height(B, c[f][s])
        /\ B[f] = Weight(col, Nil, Nil, f) + Height(B, c[x][s])
        /\ B[x] = Weight(col, Nil, Nil, x) + B[f]
        /\ B[x] = Weight(col, Nil, Nil, x) + Height(B, c[x][Other(s)])
    BY <1>1, <1>2, <2>2, <2>3, <2>5
  <2>7. /\ B \in [N -> Nat] /\ B[x] = B[f]
        /\ \A n \in N : Weight(col, Nil, Nil, n) \in Nat /\ Weight(col, Nil, Nil, n) \in Nat
        /\ \A n \in N \ {f, x} :
              B[n] - Weight(col, Nil, Nil, n) = B[n] - Weight(col, Nil, Nil, n)
        /\ \A n \in N \ {f, x, c[f][s], c[x][s], c[x][Other(s)]} : B[n] = B[n]
    BY <2>1, <2>2, <2>5
  <2>8. Refitted(N, c, col, col, Nil, Nil, Nil, B, B, f, x, s)
    BY <2>6, <2>7 DEF Refitted
  <2> QED  BY <2>8, RotatedBalanced
<1> QED  BY <1>1, <1>3, <1>4, <1>6, <1>7 DEF Reds

(* The black g, above the red f and x, is turned down the other way.       *)
LEMMA RaisedBalanced ==
    ASSUME NEW N, NEW c, NEW up, NEW rt, NEW U, Shape(N, c, up, rt, U),
           NEW c1, NEW up1, NEW rt1, NEW g, NEW f, NEW t,
           Rotated(N, c, up, rt, c1, up1, rt1, g, f, t),
           NEW col, col[f] = "red", col[g] = "black",
           NEW col1, col1[f] = "black", col1[g] = "red",
           \A n \in N \ {f, g} : col1[n] = col[n],
           NEW d, NEW e, d \notin {f, g}, e \notin {f, g},
           NEW B, Balanced(N, c, col, d, e, B)
    PROVE  \E C : Balanced(N, c1, col1, d, e, C)
<1>1. g \in N /\ t \in Sides /\ f = c[g][Other(t)] /\ f # Nil
  BY DEF Rotated
<1>2. Other(t) \in Sides /\ f \in N /\ up[f] = g /\ g # Nil /\ f # g
  <2>1. Other(t) \in Sides
    BY <1>1 DEF Sides, Other
  <2> QED  BY <1>1, <2>1, Kids, Acyclic
<1>3. /\ Nil \notin N
      /\ \A n \in N, z \in Sides : c[n][z] \in N \cup {Nil}
      /\ \A n \in N, z \in Sides : c[n][z] # Nil => up[c[n][z]] = n
  <2>1. Nil \notin N
    BY DEF Shape
  <2> QED  BY <1>1, <2>1, Kids
<1>4. c[f][Other(t)] # Nil => c[f][Other(t)] # f /\ c[f][Other(t)] # g
  BY <1>1, <1>2, Acyclic
<1>8. /\ B \in [N -> Nat]
      /\ \A n \in N, z \in Sides : B[n] = Weight(col, d, e, n) + Height(B, c[n][z])
      /\ \A n \in N, z \in Sides : Height(B, c[n][z]) \in Nat
  <2>1. B \in [N -> Nat]
    BY DEF Balanced
  <2>2. \A n \in N, z \in Sides : B[n] = Weight(col, d, e, n) + Height(B, c[n][z])
    BY DEF Balanced
  <2>3. \A n \in N, z \in Sides : Height(B, c[n][z]) \in Nat
    BY <1>3, <2>1 DEF Height
  <2> QED  BY <2>1, <2>2, <2>3
<1>9. PICK C : C = [B EXCEPT ![f] = B[g], ![g] = B[f]]
  OBVIOUS
<1>10. /\ C \in [N -> Nat] /\ C[f] = B[g] /\ C[g] = B[f]
       /\ \A n \in N \ {f, g} : C[n] = B[n]
  BY <1>1, <1>2, <1>8, <1>9
<1>11. /\ \A n \in N : Weight(col, d, e, n) \in Nat /\ Weight(col1, d, e, n) \in Nat
       /\ Weight(col, d, e, f) = 0 /\ Weight(col, d, e, g) = 1
       /\ Weight(col1, d, e, f) = 1 /\ Weight(col1, d, e, g) = 0
       /\ \A n \in N \ {f, g} : Weight(col1, d, e, n) = Weight(col, d, e, n)
  BY <1>1, <1>2, <1>3 DEF Weight
<1>12. /\ B[g] = 1 + B[f] /\ B[g] = 1 + Height(B, c[g][t])
       /\ B[f] = Height(B, c[f][t]) /\ B[f] = Height(B, c[f][Other(t)])
       /\ B[f] \in Nat
  <2>1. /\ \A z \in Sides : B[g] = 1 + Height(B, c[g][z])
        /\ \A z \in Sides : B[f] = 0 + Height(B, c[f][z])
        /\ Height(B, c[g][Other(t)]) = B[f] /\ B[f] \in Nat /\ Height(B, c[f][t]) \in Nat
        /\ Height(B, c[f][Other(t)]) \in Nat
    BY <1>1, <1>2, <1>8, <1>11 DEF Height
  <2> QED  BY <1>1, <1>2, <2>1
<1>13. /\ Height(C, c[g][t]) = Height(B, c[g][t])
       /\ Height(C, c[f][t]) = Height(B, c[f][t])
       /\ Height(C, c[f][Other(t)]) = Height(B, c[f][Other(t)])
  <2>1. c[g][t] \notin {f, g} /\ c[f][t] \notin {f, g} /\ c[f][Other(t)] \notin {f, g}
    <3>1. c[g][t] # Nil => c[g][t] # g /\ c[g][t] # f
      BY <1>1, Acyclic
    <3>2. c[f][t] # Nil => c[f][t] # f /\ c[f][t] # g
      BY <1>1, <1>2, Acyclic
    <3> QED  BY <1>2, <1>3, <1>4, <3>1, <3>2
  <2>2. c[g][t] \in N \cup {Nil} /\ c[f][t] \in N \cup {Nil} /\ c[f][Other(t)] \in N \cup {Nil}
    BY <1>1, <1>2, <1>3
  <2> QED  BY <1>10, <2>1, <2>2 DEF Height
<1>14. Balanced(N, c1, col1, d, e, C)
  <2>1. \A n \in N \ {g, f} :
            C[n] - Weight(col1, d, e, n) = B[n] - Weight(col, d, e, n)
    BY <1>10, <1>11
  <2>2. \A n \in N \ {g, f, c[g][t], c[f][t], c[f][Other(t)]} : C[n] = B[n]
    BY <1>10
  <2>3. /\ C[f] = B[g]
        /\ C[g] = Weight(col1, d, e, g) + Height(C, c[g][t])
        /\ C[g] = Weight(col1, d, e, g) + Height(C, c[f][t])
        /\ C[f] = Weight(col1, d, e, f) + C[g]
        /\ C[f] = Weight(col1, d, e, f) + Height(C, c[f][Other(t)])
    <3>1. C[g] = B[f] /\ C[f] = 1 + B[f] /\ B[f] \in Nat
      BY <1>10, <1>12
    <3>2. Height(C, c[g][t]) = B[f]
      <4>1. Height(B, c[g][t]) \in Nat
        BY <1>1, <1>8
      <4> QED  BY <1>12, <1>13, <4>1
    <3>3. Height(C, c[f][t]) = B[f] /\ Height(C, c[f][Other(t)]) = B[f]
      BY <1>12, <1>13
    <3>4. Weight(col1, d, e, f) = 1 /\ Weight(col1, d, e, g) = 0
      BY <1>11
    <3>5. C[f] = B[g]
      BY <1>10
    <3> QED  BY <3>1, <3>2, <3>3, <3>4, <3>5
  <2>4. /\ C \in [N -> Nat]
        /\ \A n \in N : Weight(col, d, e, n) \in Nat /\ Weight(col1, d, e, n) \in Nat
    BY <1>10, <1>11
  <2>5. Refitted(N, c, col, col1, d, e, e, B, C, g, f, t)
    BY <1>10, <2>1, <2>2, <2>3, <2>4 DEF Refitted
  <2> QED  BY <2>5, RotatedBalanced
<1> QED  BY <1>14

LEMMA Raised ==
    ASSUME NEW N, NEW c, NEW up, NEW rt, NEW U, Shape(N, c, up, rt, U),
           NEW c1, NEW up1, NEW rt1, NEW g, NEW f, NEW t,
           Rotated(N, c, up, rt, c1, up1, rt1, g, f, t),
           NEW x, NEW col, Reds(N, up, col, x, Nil), col[rt] = "black",
           \A n \in {c[g][t], c[f][t]} \ {Nil} : col[n] = "black",
           NEW col1, col1[f] = "black", col1[g] = "red",
           \A n \in N \ {f, g} : col1[n] = col[n]
    PROVE  /\ Reds(N, up1, col1, x, Nil)
           /\ col1[rt1] = "black"
<1>1. /\ g \in N /\ t \in Sides /\ f = c[g][Other(t)] /\ f # Nil
      /\ up1[g] = f /\ up1[f] = up[g]
      /\ \A n \in N \ {g, f} : up1[n] = IF n = c[f][t] THEN g ELSE up[n]
      /\ rt1 = IF g = rt THEN f ELSE rt
  BY DEF Rotated
<1>2. Other(t) \in Sides /\ f \in N /\ up[f] = g /\ g # Nil /\ f # g
  <2>1. Other(t) \in Sides
    BY <1>1 DEF Sides, Other
  <2> QED  BY <1>1, <2>1, Kids, Acyclic
<1>3. /\ up \in [N -> N \cup {Nil}] /\ Nil \notin N /\ rt \in N
      /\ \A n \in N, z \in Sides : c[n][z] \in N \cup {Nil}
      /\ \A n \in N, z \in Sides : c[n][z] # Nil => up[c[n][z]] = n
  <2>1. up \in [N -> N \cup {Nil}] /\ Nil \notin N
    BY DEF Shape
  <2> QED  BY <1>1, <2>1, ParentThere, Kids
<1>5. \A n \in N : up[n] = g => n = f \/ n = c[g][t]
  BY <1>1, KidsOf
<1>6. \A n \in N : n = c[f][t] => up[n] = f /\ col[n] # "red"
  BY <1>1, <1>2, <1>3
<1>7. ASSUME NEW n \in N, col1[n] = "red", n # x, up1[n] # Nil
      PROVE  col1[up1[n]] = "black"
  <2>1. CASE n = g
    BY <1>1, <2>1
  <2>2. CASE n # g
    <3>1. n # f /\ col[n] = "red"
      BY <1>7, <2>2
    <3>2. n # c[f][t] /\ up1[n] = up[n] /\ up[n] \in N
      BY <1>1, <1>3, <1>6, <1>7, <2>2, <3>1
    <3>3. up[n] # g
      <4>1. n # c[g][t]
        BY <1>3, <3>1
      <4> QED  BY <1>5, <3>1, <4>1
    <3>4. col[up[n]] = "black"
      BY <1>3, <1>7, <3>1, <3>2 DEF Reds
    <3> QED  BY <3>2, <3>3, <3>4
  <2> QED  BY <2>1, <2>2
<1>15. Reds(N, up1, col1, x, Nil)
  BY <1>7 DEF Reds
<1>16. col1[rt1] = "black"
  BY <1>1, <1>3
<1> QED  BY <1>15, <1>16

Paint(col, a, b, g) == [col EXCEPT ![a] = "black", ![b] = "black", ![g] = "red"]

LEMMA Painted ==
    ASSUME NEW N, NEW col \in [N -> {"red", "black"}], NEW a \in N, NEW b \in N, NEW g \in N,
           a # b, a # g, b # g, NEW col1,
           col1 = Paint(col, a, b, g)
    PROVE  /\ col1 \in [N -> {"red", "black"}]
           /\ col1[a] = "black" /\ col1[b] = "black" /\ col1[g] = "red"
           /\ \A n \in N \ {a, b, g} : col1[n] = col[n]
BY DEF Paint

LEMMA RecolourStep ==
    ASSUME NEW U, NEW B, NEW e, Always(U, B, e), Inserting, pc' = "insert",
           NEW x, x = at, x # root, NEW up, up = parent[x], color[up] = "red",
           NEW top, top = parent[up], NEW s, s = SideOf(up),
           NEW uncle, uncle = child[top][Other(s)], ColorOf(uncle) = "red",
           color' = Paint(color, up, uncle, top),
           at' = top, order' = order, size' = size, root' = root, child' = child,
           parent' = parent, key' = key, value' = value, p' = p, entries' = entries
    PROVE  \E A, C : Always(A, C, Nil)'
<1>1. /\ Shape(Live, child, parent, root, U) /\ Nil \notin Live
      /\ Ordered(Live, child, key, U, order, Nil)
      /\ Reds(Live, parent, color, x, Nil)
      /\ color[root] = "black"
      /\ Balanced(Live, child, color, Nil, Nil, B)
      /\ root \in Live
      /\ color \in [Live -> {"red", "black"}]
  BY InsertingFacts
<1>2. /\ up \in Live /\ top \in Live /\ up # root /\ up # x /\ top # up /\ top # x
      /\ s \in Sides /\ child[top][s] = up /\ color[top] = "black"
      /\ uncle \in Live \cup {Nil} /\ uncle \notin {up, x, top}
  BY Family
<1>3. uncle \in Live /\ color[uncle] = "red"
  BY <1>2 DEF ColorOf
<1>4. /\ color' \in [Live -> {"red", "black"}]
      /\ color'[up] = "black" /\ color'[uncle] = "black" /\ color'[top] = "red"
      /\ \A n \in Live \ {up, uncle, top} : color'[n] = color[n]
  <2>1. /\ up \in Live /\ uncle \in Live /\ top \in Live
        /\ up # uncle /\ up # top /\ uncle # top
    BY <1>2, <1>3
  <2>2. color \in [Live -> {"red", "black"}]
    BY <1>1
  <2>3. color' = Paint(color, up, uncle, top)
    OBVIOUS
  <2> QED  BY ONLY <2>1, <2>2, <2>3, Painted
<1>5. PICK C : /\ Reds(Live, parent, color', top, Nil)
               /\ Balanced(Live, child, color', Nil, Nil, C)
  <2>1. /\ up = child[top][s] /\ uncle = child[top][Other(s)] /\ parent[x] = up
        /\ color[up] = "red" /\ color[uncle] = "red" /\ color[top] = "black"
    BY <1>2, <1>3
  <2>2. RedUncle(Live, child, parent, root, U, color, color', B, x, up, uncle, top, s)
    BY <1>1, <1>2, <1>3, <1>4, <2>1 DEF RedUncle
  <2> QED  BY <2>2, Recoloured
<1>6. Live' = Live /\ (root' # at' => color'[root'] = "black")
  <2>1. root # uncle
    BY <1>1, <1>3
  <2> QED  BY <1>1, <1>2, <1>4, <2>1 DEF Live
<1>7. Always(U, C, Nil)'
  <2>1. /\ Shape(Live, child', parent', root', U)
        /\ Ordered(Live, child', key, U, order, Nil)
        /\ Reds(Live, parent', color', at', Nil)
        /\ Balanced(Live, child', color', Nil, Nil, C)
    BY <1>1, <1>5
  <2>2. /\ pc' = "insert" /\ pc' # "raise"
        /\ order' = order /\ size' = size /\ key' = key /\ value' = value /\ p' = p
        /\ entries' = entries
    OBVIOUS
  <2>3. at' = top /\ at' \in Live /\ color'[at'] = "red"
    BY <1>2, <1>4
  <2>4. color' \in [Live -> {"red", "black"}]
    BY <1>4
  <2>5. Goes(U, C, x, top, s)
    BY ONLY <1>6, <2>1, <2>2, <2>3, <2>4 DEF Goes
  <2> QED  BY <2>5, InsertingKept
<1> QED  BY <1>7

LEMMA StraightenStep ==
    ASSUME LoopAssumption, NEW U, NEW B, NEW e, Always(U, B, e), Inserting, pc' = "raise",
           NEW x, x = at, x # root, NEW up, up = parent[x], color[up] = "red",
           NEW top, top = parent[up], NEW s, s = SideOf(up),
           ColorOf(child[top][Other(s)]) # "red", child[up][Other(s)] = x,
           Rotate(up, s), at' = up, color' = color,
           order' = order, size' = size, p' = p, entries' = entries
    PROVE  \E A, C : Always(A, C, Nil)'
<1>1. /\ Shape(Live, child, parent, root, U) /\ Nil \notin Live
      /\ Ordered(Live, child, key, U, order, Nil)
      /\ Reds(Live, parent, color, x, Nil)
      /\ color[root] = "black" /\ x \in Live /\ color[x] = "red"
      /\ Balanced(Live, child, color, Nil, Nil, B)
      /\ root \in Live /\ Typed
      /\ color \in [Live -> {"red", "black"}]
  BY InsertingFacts
<1>2. /\ up \in Live /\ top \in Live /\ up # root /\ up # x /\ top # up /\ top # x
      /\ s \in Sides /\ child[top][s] = up /\ color[top] = "black"
      /\ child[top][Other(s)] \in Live \cup {Nil}
  BY Family
<1>3. PICK uncle : uncle = child[top][Other(s)]
  OBVIOUS
<1>4. uncle = Nil \/ color[uncle] = "black"
  BY <1>1, <1>2, <1>3 DEF ColorOf
<1>5. PICK A : A = Turned(U, child, up, x, s)
  OBVIOUS
<1>6. /\ Live' = Live /\ key' = key /\ value' = value
      /\ Rotated(Live, child, parent, root, child', parent', root', up, x, s)
      /\ Shape(Live, child', parent', root', A)
      /\ Ordered(Live, child', key, A, order, Nil)
  BY <1>1, <1>2, <1>5, RotateTree
<1>7. /\ Reds(Live, parent', color, up, Nil)
      /\ Balanced(Live, child', color, Nil, Nil, B)
      /\ parent'[up] = x /\ parent'[x] = top /\ root' = root
      /\ child'[x][s] = up /\ child'[top][s] = x
      /\ child'[top][Other(s)] = uncle /\ uncle # x
  BY <1>1, <1>2, <1>3, <1>6, Straightened
<1>8. Always(A, B, Nil)'
  <2>1. /\ x = parent'[at'] /\ top = parent'[x] /\ at' # root' /\ x # root'
        /\ color'[x] = "red" /\ child'[x][s] = at'
        /\ child'[top][s] = x /\ child'[top][Other(s)] # x
        /\ child'[top][Other(s)] = Nil \/ color'[child'[top][Other(s)]] = "black"
    BY <1>1, <1>2, <1>4, <1>7
  <2>2. /\ root' # at' => color'[root'] = "black"
        /\ at' \in Live /\ color'[at'] = "red" /\ pc' \in {"insert", "raise"}
        /\ color' \in [Live -> {"red", "black"}]
        /\ Reds(Live, parent', color', at', Nil)
        /\ Balanced(Live, child', color', Nil, Nil, B)
    BY <1>1, <1>2, <1>7
  <2>3. Goes(A, B, x, top, s)
    BY <1>2, <1>6, <2>1, <2>2 DEF Goes
  <2> QED  BY <2>3, InsertingKept
<1> QED  BY <1>8

LEMMA OuterStep ==
    ASSUME NEW U, NEW B, NEW e, Always(U, B, e), Inserting, pc' = "raise",
           NEW x, x = at, x # root, NEW up, up = parent[x], color[up] = "red",
           NEW top, top = parent[up], NEW s, s = SideOf(up),
           ColorOf(child[top][Other(s)]) # "red", x # child[up][Other(s)],
           at' = at, order' = order, size' = size, root' = root, child' = child,
           parent' = parent, color' = color, key' = key, value' = value,
           p' = p, entries' = entries
    PROVE  \E A, C : Always(A, C, Nil)'
<1>1. /\ Shape(Live, child, parent, root, U) /\ Nil \notin Live
      /\ Ordered(Live, child, key, U, order, Nil)
      /\ Reds(Live, parent, color, x, Nil)
      /\ color[root] = "black" /\ x \in Live /\ color[x] = "red"
      /\ Balanced(Live, child, color, Nil, Nil, B)
      /\ color \in [Live -> {"red", "black"}]
  BY InsertingFacts
<1>2. /\ up \in Live /\ top \in Live /\ up # root
      /\ s \in Sides /\ child[top][s] = up
      /\ child[top][Other(s)] \in Live \cup {Nil} /\ child[top][Other(s)] # up
      /\ x = child[up][s]
  BY Family
<1>3. child[top][Other(s)] = Nil \/ color[child[top][Other(s)]] = "black"
  BY <1>1, <1>2 DEF ColorOf
<1>4. Live' = Live
  BY DEF Live
<1>5. /\ up = parent'[at'] /\ top = parent'[up] /\ at' # root' /\ up # root'
      /\ color'[up] = "red" /\ child'[up][s] = at'
      /\ child'[top][s] = up /\ child'[top][Other(s)] # up
      /\ child'[top][Other(s)] = Nil \/ color'[child'[top][Other(s)]] = "black"
  BY <1>2, <1>3
<1>6. Always(U, B, Nil)'
  <2>1. Goes(U, B, up, top, s)
    BY <1>1, <1>2, <1>4, <1>5 DEF Goes
  <2> QED  BY <2>1, InsertingKept
<1> QED  BY <1>6

LEMMA InsertLoopStep ==
    ASSUME LoopAssumption, NEW U, NEW B, NEW e, Always(U, B, e), InsertLoop
    PROVE  \E A, C : Always(A, C, Nil)'
<1>1. PICK x, up, top, s, uncle :
        /\ x = at /\ up = parent[x] /\ top = parent[up] /\ s = SideOf(up)
        /\ uncle = child[top][Other(s)]
  OBVIOUS
<1>2. /\ Inserting /\ x # root /\ color[up] = "red" /\ pc = "insert"
      /\ order' = order /\ size' = size /\ p' = p /\ entries' = entries
      /\ \/ /\ ColorOf(uncle) = "red"
            /\ color' = [color EXCEPT ![up] = "black", ![uncle] = "black",
                                      ![top] = "red"]
            /\ at' = top /\ pc' = pc /\ root' = root /\ child' = child
            /\ parent' = parent /\ key' = key /\ value' = value
         \/ /\ ColorOf(uncle) # "red" /\ x = child[up][Other(s)]
            /\ Rotate(up, s)
            /\ at' = up /\ pc' = "raise" /\ color' = color
         \/ /\ ColorOf(uncle) # "red" /\ x # child[up][Other(s)]
            /\ pc' = "raise" /\ root' = root /\ child' = child /\ color' = color
            /\ parent' = parent /\ key' = key /\ value' = value /\ at' = at
  BY <1>1 DEF InsertLoop, Inserting, RedBelowRed, fields
<1>3. CASE ColorOf(uncle) = "red"
  <2>1. color' = Paint(color, up, uncle, top)
    BY <1>2, <1>3 DEF Paint
  <2> QED  BY <1>1, <1>2, <1>3, <2>1, RecolourStep
<1>4. CASE ColorOf(uncle) # "red" /\ x = child[up][Other(s)]
  BY <1>1, <1>2, <1>4, StraightenStep
<1>5. CASE ColorOf(uncle) # "red" /\ x # child[up][Other(s)]
  BY <1>1, <1>2, <1>5, OuterStep
<1> QED  BY <1>3, <1>4, <1>5

LEMMA InsertRaiseStep ==
    ASSUME LoopAssumption, NEW U, NEW B, NEW e, Always(U, B, e), InsertRaise
    PROVE  \E A, C : Always(A, C, Nil)'
<1>1. PICK x, up, top, s, t :
        /\ x = at /\ up = parent[x] /\ top = parent[up] /\ s = SideOf(up) /\ t = Other(s)
  OBVIOUS
<1>2. /\ pc = "raise" /\ pc' = "insert" /\ Inserting
      /\ color' = [color EXCEPT ![up] = "black", ![top] = "red"]
      /\ Rotate(top, t)
      /\ order' = order /\ size' = size /\ p' = p /\ entries' = entries /\ at' = at
  BY <1>1 DEF InsertRaise, Inserting
<1>3. /\ Shape(Live, child, parent, root, U) /\ Nil \notin Live
      /\ Ordered(Live, child, key, U, order, Nil)
      /\ Reds(Live, parent, color, x, Nil)
      /\ root # x => color[root] = "black"
      /\ x \in Live /\ color[x] = "red"
      /\ Balanced(Live, child, color, Nil, Nil, B)
      /\ root \in Live /\ Typed /\ InInsert
      /\ color \in [Live -> {"red", "black"}]
  BY <1>1, <1>2, InsertingFacts
<1>4. /\ x # root /\ up # root /\ color[up] = "red"
      /\ ColorOf(child[top][t]) = "black"
  BY <1>1, <1>2, <1>3 DEF InInsert
<1>14. child[up][s] = x
  BY <1>1, <1>2, <1>3 DEF InInsert
<1>5. /\ up \in Live /\ top \in Live /\ top # up
      /\ s \in Sides /\ Other(s) \in Sides /\ Other(Other(s)) = s
      /\ child[top][s] = up /\ color[top] = "black"
  BY <1>1, <1>2, <1>4, Family
<1>6. t \in Sides /\ up = child[top][Other(t)] /\ x = child[up][Other(t)] /\ up # Nil
  BY <1>1, <1>3, <1>14, <1>5
<1>7. child[top][t] = Nil \/ color[child[top][t]] = "black"
  BY <1>4 DEF ColorOf
<1>8. PICK A : A = Turned(U, child, top, up, t)
  OBVIOUS
<1>9. /\ Live' = Live /\ key' = key /\ value' = value
      /\ Rotated(Live, child, parent, root, child', parent', root', top, up, t)
      /\ Shape(Live, child', parent', root', A)
      /\ Ordered(Live, child', key, A, order, Nil)
  <2>1. top # Nil
    BY <1>3, <1>5
  <2> QED  BY <1>2, <1>3, <1>5, <1>6, <1>8, <2>1, RotateTree
<1>10. /\ color' \in [Live -> {"red", "black"}]
       /\ color'[up] = "black" /\ color'[top] = "red"
       /\ \A n \in Live \ {up, top} : color'[n] = color[n]
  BY <1>2, <1>3, <1>5
<1>15. x # up /\ x # top /\ up # Nil /\ top # Nil
  BY <1>1, <1>2, <1>3, <1>4, <1>5, Family
<1>11. PICK C : Balanced(Live, child', color', Nil, Nil, C)
  BY <1>3, <1>4, <1>5, <1>9, <1>10, <1>15, RaisedBalanced
<1>16. \A n \in {child[top][t], child[up][t]} \ {Nil} : color[n] = "black"
  <2>1. child[up][t] # Nil => child[up][t] \in Live /\ child[up][t] # x
    BY <1>3, <1>5, <1>6, Acyclic
  <2>2. child[up][t] # Nil => parent[child[up][t]] = up
    BY <1>3, <1>5, <1>6, Kids
  <2>3. child[up][t] # Nil => color[child[up][t]] = "black"
    BY <1>3, <1>4, <1>15, <2>1, <2>2 DEF Reds
  <2> QED  BY <1>7, <2>3
<1>17. color[root] = "black"
  BY <1>3, <1>4
<1>12. /\ Reds(Live, parent', color', x, Nil)
       /\ color'[root'] = "black" /\ color'[x] = "red"
  <2>1. Reds(Live, parent', color', x, Nil) /\ color'[root'] = "black"
    BY <1>3, <1>4, <1>9, <1>10, <1>16, <1>17, Raised
  <2> QED  BY <1>3, <1>10, <1>15, <2>1
<1>13. Always(A, C, Nil)'
  <2>1. Goes(A, C, x, top, s)
    BY <1>1, <1>2, <1>3, <1>9, <1>10, <1>11, <1>12 DEF Goes
  <2> QED  BY <1>2, <2>1, InsertingKept
<1> QED  BY <1>13
-----------------------------------------------------------------------------
(* The loops that take a node out. *)
LEMMA UnlinkingFacts ==
    ASSUME NEW U, NEW B, NEW e, Always(U, B, e), pc \in {"successor", "unlink"}
    PROVE  /\ Shape(Live, child, parent, root, U) /\ Typed /\ Nil \notin Live
           /\ Ordered(Live, child, key, U, order, IF pc = "unlink" THEN p ELSE Nil)
           /\ Reds(Live, parent, color, Nil, Nil) /\ root \in Live /\ color[root] = "black"
           /\ Balanced(Live, child, color, Nil, Nil, B)
           /\ Holds(Live, key, value, entries, p) /\ p \in Live /\ p # Nil
           /\ size + 1 = Cardinality(Live) /\ e = Nil
           /\ InSuccessor(U) /\ InUnlink
<1>1. /\ Shape(Live, child, parent, root, U) /\ Typed /\ RedsKept /\ Contents /\ Sized
      /\ Ordered(Live, child, key, U, order, Search)
      /\ Balanced(Live, child, color, IF Fixing THEN p ELSE Nil, e, B)
      /\ Extra(e) /\ InSuccessor(U) /\ InUnlink
  BY DEF Always, Tree, Loops
<1>2. Deleting /\ ~Fixing /\ ~Inserting /\ pc # "fix" /\ pc \notin {"fix", "nephews", "pay"}
  BY DEF Deleting, Fixing, Inserting
<1>3. e = Nil
  BY <1>1, <1>2 DEF Extra
<1>4. p # Nil
  BY <1>1 DEF InSuccessor, InUnlink
<1>5. p \in Live /\ root \in Live /\ root # Nil /\ Nil \notin Live
  BY <1>1, <1>4, ParentThere DEF Typed, Shape
<1>6. Reds(Live, parent, color, Nil, Nil) /\ color[root] = "black"
  BY <1>1, <1>2, <1>5 DEF RedsKept
<1>7. Holds(Live, key, value, entries, p) /\ size + 1 = Cardinality(Live)
  BY <1>1, <1>2, <1>4 DEF Contents, Sized
<1>8. Search = IF pc = "unlink" THEN p ELSE Nil
  BY <1>2 DEF Search
<1> QED  BY <1>1, <1>2, <1>3, <1>4, <1>5, <1>6, <1>7, <1>8

LEMMA SuccessorDownStep ==
    ASSUME LoopAssumption, NEW U, NEW B, NEW e, Always(U, B, e), SuccessorDown
    PROVE  Always(U, B, Nil)'
<1>1. /\ pc = "successor" /\ pc' = pc /\ child[at]["left"] # Nil
      /\ at' = child[at]["left"] /\ p' = p
      /\ order' = order /\ root' = root /\ size' = size /\ child' = child
      /\ parent' = parent /\ color' = color /\ key' = key /\ value' = value
      /\ entries' = entries /\ call' = call
  BY DEF SuccessorDown, fields
<1>2. /\ Shape(Live, child, parent, root, U) /\ Typed /\ Nil \notin Live
      /\ Ordered(Live, child, key, U, order, Nil)
      /\ Reds(Live, parent, color, Nil, Nil) /\ root \in Live /\ color[root] = "black"
      /\ Balanced(Live, child, color, Nil, Nil, B)
      /\ Holds(Live, key, value, entries, p) /\ p \in Live /\ p # Nil
      /\ size + 1 = Cardinality(Live) /\ e = Nil
  BY <1>1, UnlinkingFacts
<1>3. /\ at \in Below(U, child[p]["right"]) /\ child[p]["left"] # Nil
      /\ \A m \in Below(U, child[p]["right"]) :
            m \in U[at] \/ On(order, "left", key[at], key[m])
  BY <1>1, UnlinkingFacts DEF InSuccessor
<1>4. /\ "left" \in Sides /\ "right" \in Sides /\ Other("left") = "right"
      /\ Other("right") = "left"
  BY DEF Sides, Other
<1>5. /\ child[p]["right"] # Nil /\ child[p]["right"] \in Live
      /\ Below(U, child[p]["right"]) = U[child[p]["right"]]
      /\ U[child[p]["right"]] \subseteq Live
  <2>1. child[p]["right"] # Nil
    BY <1>3 DEF Below
  <2>2. child[p]["right"] \in Live
    BY <1>2, <1>4, <2>1, Kids
  <2> QED  BY <1>2, <1>4, <2>1, <2>2, Kids
<1>6. at \in Live /\ U[at] \subseteq U[child[p]["right"]]
  BY <1>2, <1>3, <1>5, Nested
<1>7. /\ child[at]["left"] \in Live /\ child[at]["left"] \in U[at]
      /\ Below(U, child[at]["left"]) = U[child[at]["left"]]
      /\ child[at]["left"] \in Below(U, child[at]["left"])
      /\ U[at] = {at} \cup Below(U, child[at]["left"]) \cup Below(U, child[at]["right"])
  BY <1>1, <1>2, <1>4, <1>6, Kids
<1>8. On(order, "left", key[child[at]["left"]], key[at])
  BY <1>2, <1>4, <1>6, <1>7 DEF Ordered
<1>9. /\ \A n \in Live : key[n] \in Int
      /\ order \in {1, -1}
  BY <1>2, Numbers
<1>10. ASSUME NEW m \in Below(U, child[p]["right"]), m \notin U[child[at]["left"]]
       PROVE  On(order, "left", key[child[at]["left"]], key[m])
  <2>1. m \in Live
    BY <1>5, <1>10
  <2>2. CASE m = at
    BY <1>8, <2>2
  <2>3. CASE m \in Below(U, child[at]["right"])
    <3>1. On(order, "right", key[m], key[at])
      BY <1>2, <1>4, <1>6, <2>1, <2>3 DEF Ordered
    <3>2. On(order, "left", key[at], key[m])
      BY <1>4, <1>6, <1>9, <2>1, <3>1, OnFacts
    <3> QED  BY <1>4, <1>6, <1>7, <1>8, <1>9, <2>1, <3>2, OnFacts
  <2>4. CASE m \notin U[at]
    <3>1. On(order, "left", key[at], key[m])
      BY <1>3, <1>10, <2>4
    <3> QED  BY <1>4, <1>6, <1>7, <1>8, <1>9, <2>1, <3>1, OnFacts
  <2> QED  BY <1>7, <1>10, <2>2, <2>3, <2>4
<1>11. Live' = Live /\ Deleting' /\ ~Inserting' /\ Search' = Nil /\ ~Fixing' /\ pc' # "fix"
  BY <1>1 DEF Live, Deleting, Inserting, Search, Fixing
<1>12. Typed' /\ RedsKept' /\ Contents' /\ Sized'
  <2>1. Typed'
    BY <1>1, <1>2, <1>7, <1>11 DEF Typed
  <2>2. RedsKept'
    BY <1>1, <1>2, <1>11 DEF RedsKept
  <2>3. Contents' /\ Sized'
    BY <1>1, <1>2, <1>11 DEF Contents, Sized
  <2> QED  BY <2>1, <2>2, <2>3
<1>13. Tree(U, B, Nil)'
  BY <1>1, <1>2, <1>11, <1>12 DEF Tree
<1>14. InSuccessor(U)'
  <2>1. child[at]["left"] \in Below(U, child[p]["right"])
    BY <1>5, <1>6, <1>7
  <2> QED  BY <1>1, <1>2, <1>3, <1>10, <2>1 DEF InSuccessor
<1>15. Loops(U, Nil)'
  BY <1>1, <1>11, <1>14 DEF Loops, Extra, Idle, InFind, InEnds, InUnlink, InInsert,
     Inserting, InFix, InTakeOff, InNear, Answered
<1> QED  BY <1>13, <1>15 DEF Always

LEMMA SuccessorFoundStep ==
    ASSUME LoopAssumption, NEW U, NEW B, NEW e, Always(U, B, e), SuccessorFound
    PROVE  Always(U, B, Nil)'
<1>1. /\ pc = "successor" /\ pc' = "unlink" /\ child[at]["left"] = Nil
      /\ key' = [key EXCEPT ![p] = key[at]] /\ value' = [value EXCEPT ![p] = value[at]]
      /\ at' = at /\ p' = at
      /\ order' = order /\ root' = root /\ size' = size /\ child' = child
      /\ parent' = parent /\ color' = color
      /\ entries' = entries /\ call' = call
  BY DEF SuccessorFound
<1>2. /\ Shape(Live, child, parent, root, U) /\ Typed /\ Nil \notin Live
      /\ Ordered(Live, child, key, U, order, Nil)
      /\ Reds(Live, parent, color, Nil, Nil) /\ root \in Live /\ color[root] = "black"
      /\ Balanced(Live, child, color, Nil, Nil, B)
      /\ Holds(Live, key, value, entries, p) /\ p \in Live /\ p # Nil
      /\ size + 1 = Cardinality(Live) /\ e = Nil
  BY <1>1, UnlinkingFacts
<1>3. /\ at \in Below(U, child[p]["right"]) /\ child[p]["left"] # Nil
      /\ \A m \in Below(U, child[p]["right"]) :
            m \in U[at] \/ On(order, "left", key[at], key[m])
  BY <1>1, UnlinkingFacts DEF InSuccessor
<1>4. /\ "left" \in Sides /\ "right" \in Sides /\ Other("left") = "right"
      /\ Other("right") = "left"
  BY DEF Sides, Other
<1>5. at \in Live /\ at # p /\ at \in U[p] /\ at # Nil
  BY <1>2, <1>3, <1>4, Kids
<1>6. /\ \A n \in Live : key[n] \in Int
      /\ order \in {1, -1}
  BY <1>2, Numbers
<1>7. /\ key' \in [Live -> LoopKeys] /\ value' \in [Live -> LoopValues]
      /\ key'[p] = key[at] /\ value'[p] = value[at]
      /\ \A n \in Live : n # p => key'[n] = key[n] /\ value'[n] = value[n]
  <2>1. key \in [Live -> LoopKeys] /\ value \in [Live -> LoopValues]
    BY <1>2 DEF Typed
  <2> QED  BY <1>1, <1>2, <1>5, <2>1
<1>8. \A n \in Live, t \in Sides : \A m \in Below(U, child[n][t]) :
          m \in Live /\ On(order, t, key[m], key[n])
  <2>1. \A n \in Live, t \in Sides : Below(U, child[n][t]) \subseteq Live
    BY <1>2, Kids
  <2> QED  BY <1>2, <2>1 DEF Ordered
<1>9. On(order, "right", key[at], key[p]) /\ On(order, "left", key[p], key[at])
  <2>1. On(order, "right", key[at], key[p])
    BY <1>2, <1>3, <1>4, <1>8
  <2> QED  BY <1>2, <1>4, <1>5, <1>6, <2>1, OnFacts
<1>10. Ordered(Live, child, key', U, order, at)
  <2>1. ASSUME NEW n \in Live \ {at}, NEW t \in Sides, NEW m \in Below(U, child[n][t]) \ {at}
        PROVE  On(order, t, key'[m], key'[n])
    <3>1. m \in Live /\ On(order, t, key[m], key[n]) /\ m # n
      BY <1>2, <1>8, Kids
    <3>2. CASE n = p /\ t = "left"
      <4>1. On(order, "left", key[m], key[p])
        BY <3>1, <3>2
      <4>2. On(order, "left", key[m], key[at])
        BY <1>2, <1>4, <1>5, <1>6, <1>9, <3>1, <4>1, OnFacts
      <4> QED  BY <1>7, <3>1, <3>2, <4>2
    <3>3. CASE n = p /\ t = "right"
      <4>1. On(order, "right", key[m], key[at])
        <5>1. CASE m \in U[at]
          <6>1. m \in Below(U, child[at]["right"])
            <7>1. U[at] = {at} \cup Below(U, child[at]["left"])
                              \cup Below(U, child[at]["right"])
              BY <1>2, <1>4, <1>5, Kids
            <7> QED  BY <1>1, <2>1, <5>1, <7>1 DEF Below
          <6> QED  BY <1>4, <1>5, <1>8, <6>1
        <5>2. CASE m \notin U[at]
          <6>1. On(order, "left", key[at], key[m])
            BY <1>3, <2>1, <3>3, <5>2
          <6> QED  BY <1>4, <1>5, <1>6, <3>1, <6>1, OnFacts
        <5> QED  BY <5>1, <5>2
      <4> QED  BY <1>7, <3>1, <3>3, <4>1
    <3>4. CASE n # p /\ m = p
      <4>1. child[n][t] \in Live /\ Below(U, child[n][t]) = U[child[n][t]]
        <5>1. child[n][t] # Nil
          BY <2>1 DEF Below
        <5> QED  BY <1>2, <5>1, Kids DEF Below
      <4>2. at \in Below(U, child[n][t])
        BY <1>2, <1>5, <2>1, <3>4, <4>1, Nested
      <4> QED  BY <1>7, <1>8, <3>4, <4>2
    <3>5. CASE n # p /\ m # p
      BY <1>7, <3>1, <3>5
    <3> QED  BY <2>1, <3>2, <3>3, <3>4, <3>5 DEF Sides
  <2> QED  BY <2>1 DEF Ordered
<1>11. Holds(Live, key', value', entries', at)
  <2>1. \A n \in Live \ {at} : key'[n] \in DOMAIN entries /\ entries[key'[n]] = value'[n]
    BY <1>2, <1>5, <1>7 DEF Holds
  <2>2. ASSUME NEW k \in DOMAIN entries
        PROVE  \E n \in Live \ {at} : key'[n] = k
    <3>1. PICK n \in Live \ {p} : key[n] = k
      BY <1>2 DEF Holds
    <3>2. CASE n = at
      BY <1>2, <1>5, <1>7, <3>1, <3>2
    <3>3. CASE n # at
      BY <1>7, <3>1, <3>3
    <3> QED  BY <3>2, <3>3
  <2> QED  BY <1>1, <2>1, <2>2 DEF Holds
<1>12. Live' = Live /\ Deleting' /\ ~Inserting' /\ Search' = at /\ ~Fixing' /\ pc' # "fix"
  BY <1>1 DEF Live, Deleting, Inserting, Search, Fixing
<1>13. Typed' /\ RedsKept' /\ Contents' /\ Sized'
  <2>1. Typed'
    BY <1>1, <1>2, <1>5, <1>7, <1>12 DEF Typed
  <2>2. RedsKept'
    BY <1>1, <1>2, <1>12 DEF RedsKept
  <2>3. Contents' /\ Sized'
    BY <1>1, <1>2, <1>5, <1>11, <1>12 DEF Contents, Sized
  <2> QED  BY <2>1, <2>2, <2>3
<1>14. Tree(U, B, Nil)'
  BY <1>1, <1>2, <1>10, <1>12, <1>13 DEF Tree
<1>15. Loops(U, Nil)'
  BY <1>1, <1>5, <1>12 DEF Loops, Extra, Idle, InFind, InEnds, InUnlink, InInsert,
     Inserting, InFix, InTakeOff, InNear, Answered, InSuccessor
<1> QED  BY <1>14, <1>15 DEF Always

(* Whatever points down to q points to r instead. *)
LEMMA SwappedIs ==
    ASSUME NEW U, Shape(Live, child, parent, root, U),
           NEW q \in Live, NEW r \in Live \cup {Nil}
    PROVE  /\ Swapped(q, r) \in [Live -> [Sides -> Live \cup {Nil}]]
           /\ \A n \in Live, x \in Sides :
                Swapped(q, r)[n][x] = IF child[n][x] = q THEN r ELSE child[n][x]
           /\ parent[q] # q
<1>1. /\ child \in [Live -> [Sides -> Live \cup {Nil}]] /\ Nil \notin Live
      /\ parent \in [Live -> Live \cup {Nil}]
  BY DEF Shape
<1>2. PICK up, t : up = parent[q] /\ t = SideOf(q)
  OBVIOUS
<1>3. q # root <=> up # Nil
  BY <1>1, <1>2, ParentThere
<1>4. up # Nil => /\ up \in Live /\ t \in Sides /\ child[up][t] = q
                  /\ child[up][Other(t)] # q /\ up # q
  <2>1. up # Nil => up \in Live /\ t \in Sides /\ child[up][t] = q /\ child[up][Other(t)] # q
    BY <1>2, <1>3, SideIs
  <2>2. up # Nil => up # q
    BY <1>1, <2>1, Acyclic
  <2> QED  BY <2>1, <2>2
<1>5. ASSUME NEW n \in Live, NEW x \in Sides, child[n][x] = q
      PROVE  up # Nil /\ n = up /\ x = t
  <2>1. n = up /\ n # Nil
    BY <1>1, <1>2, <1>5, Kids
  <2> QED  BY <1>4, <1>5, <2>1 DEF Sides, Other
<1>6. CASE up = Nil
  BY <1>1, <1>2, <1>5, <1>6 DEF Swapped
<1>7. CASE up # Nil
  <2>1. PICK c : c = Swapped(q, r)
    OBVIOUS
  <2>2. c = [child EXCEPT ![up][t] = r]
    BY <1>2, <1>7, <2>1 DEF Swapped
  <2>3. /\ c \in [Live -> [Sides -> Live \cup {Nil}]]
        /\ \A n \in Live, x \in Sides : c[n][x] = IF child[n][x] = q THEN r ELSE child[n][x]
    BY <1>1, <1>4, <1>5, <1>7, <2>2
  <2> QED  BY <1>2, <1>4, <1>7, <2>1, <2>3
<1> QED  BY <1>1, <1>2, <1>6, <1>7

LEMMA DropsOut ==
    ASSUME NEW U, Shape(Live, child, parent, root, U),
           NEW q \in Live, NEW s \in Sides, NEW m, m = child[q][s], child[q][Other(s)] = Nil,
           child' = Lacking(Swapped(q, m), q),
           parent' = Lacking(Updated(parent, m, parent[q]), q),
           root' = RootFor(q, m)
    PROVE  /\ Live' = Live \ {q}
           /\ Dropped(Live, child, parent, root, Live', child', parent', root', q, m)
<1>1. /\ child \in [Live -> [Sides -> Live \cup {Nil}]] /\ Nil \notin Live
      /\ parent \in [Live -> Live \cup {Nil}]
  BY DEF Shape
<1>2. m \in Live \cup {Nil} /\ (m # Nil => m # q /\ parent[m] = q)
  BY <1>1, Kids, Acyclic
<1>3. PICK c, u : c = Swapped(q, m) /\ u = Updated(parent, m, parent[q])
  OBVIOUS
<1>4. /\ c \in [Live -> [Sides -> Live \cup {Nil}]] /\ parent[q] # q
      /\ \A n \in Live, x \in Sides : c[n][x] = IF child[n][x] = q THEN m ELSE child[n][x]
  BY <1>2, <1>3, SwappedIs
<1>5. /\ u \in [Live -> Live \cup {Nil}]
      /\ \A n \in Live : u[n] = IF n = m THEN parent[q] ELSE parent[n]
  BY <1>1, <1>2, <1>3 DEF Updated
<1>6. /\ child' = [n \in Live \ {q} |-> c[n]] /\ parent' = [n \in Live \ {q} |-> u[n]]
  BY <1>3, <1>4, <1>5 DEF Lacking
<1>7. Live' = Live \ {q}
  BY <1>6 DEF Live
<1>8. \A n \in Live : n # q /\ parent[n] = q => n = m
  BY <1>1, KidsOf
<1>9. /\ child' \in [Live' -> [Sides -> Live' \cup {Nil}]]
      /\ \A n \in Live', x \in Sides :
            child'[n][x] = IF child[n][x] = q THEN m ELSE child[n][x]
  <2>1. \A n \in Live', x \in Sides : c[n][x] \in Live' \cup {Nil}
    BY <1>1, <1>2, <1>4, <1>7
  <2>2. \A n \in Live' : c[n] \in [Sides -> Live' \cup {Nil}]
    BY <1>4, <1>7, <2>1
  <2> QED  BY <1>4, <1>6, <1>7, <2>2
<1>10. /\ parent' \in [Live' -> Live' \cup {Nil}]
       /\ \A n \in Live' : parent'[n] = IF n = m THEN parent[q] ELSE parent[n]
  BY <1>1, <1>4, <1>5, <1>6, <1>7, <1>8
<1>11. root' = IF q = root THEN m ELSE root
  <2>1. q # root <=> parent[q] # Nil
    BY ParentThere
  <2> QED  BY <2>1 DEF RootFor
<1>12. \E t \in Sides : m = child[q][t] /\ child[q][Other(t)] = Nil
  OBVIOUS
<1>13. Dropped(Live, child, parent, root, Live', child', parent', root', q, m)
  BY <1>7, <1>9, <1>10, <1>11, <1>12 DEF Dropped
<1> QED  BY <1>7, <1>13

(* The node that deleteEntry has chosen is gone, its pair with it. *)
LEMMA DropsPair ==
    ASSUME NEW U, Shape(Live, child, parent, root, U), Typed,
           Ordered(Live, child, key, U, order, p), Holds(Live, key, value, entries, p),
           size + 1 = Cardinality(Live), p \in Live,
           NEW s \in Sides, NEW m, m = child[p][s], child[p][Other(s)] = Nil,
           child' = Lacking(Swapped(p, m), p),
           parent' = Lacking(Updated(parent, m, parent[p]), p),
           root' = RootFor(p, m), Drop(p),
           NEW A, A = Shrunk(U, Live \ {p}, p)
    PROVE  /\ Live' = Live \ {p}
           /\ Dropped(Live, child, parent, root, Live', child', parent', root', p, m)
           /\ Shape(Live', child', parent', root', A)
           /\ Ordered(Live', child', key', A, order, Nil)
           /\ Holds(Live', key', value', entries, Nil)
           /\ size = Cardinality(Live')
           /\ \A n \in Live' : color'[n] = color[n]
           /\ color' \in [Live' -> {"red", "black"}] /\ Live' \subseteq Nodes
           /\ key' \in [Live' -> LoopKeys] /\ value' \in [Live' -> LoopValues]
<1>1. /\ Live' = Live \ {p}
      /\ Dropped(Live, child, parent, root, Live', child', parent', root', p, m)
  BY DropsOut
<1>2. /\ color \in [Live -> {"red", "black"}] /\ Live \subseteq Nodes /\ size \in Int
      /\ key \in [Live -> LoopKeys] /\ value \in [Live -> LoopValues]
  BY DEF Typed
<1>3. /\ color' \in [Live' -> {"red", "black"}]
      /\ key' \in [Live' -> LoopKeys] /\ value' \in [Live' -> LoopValues]
      /\ \A n \in Live' : color'[n] = color[n] /\ key'[n] = key[n] /\ value'[n] = value[n]
  BY <1>1, <1>2 DEF Drop, Lacking
<1>4. Shape(Live', child', parent', root', A) /\ Cardinality(Live') = Cardinality(Live) - 1
  BY <1>1, DroppedShape
<1>5. Ordered(Live', child', key', A, order, Nil)
  <2>1. A = Shrunk(U, Live', p) /\ \A n \in Live' : key'[n] = key[n]
    BY <1>1, <1>3
  <2> QED  BY <1>1, <2>1, DroppedOrdered
<1>6. Holds(Live', key', value', entries, Nil)
  <2>1. Nil \notin Live
    BY DEF Shape
  <2>2. \A n \in Live' \ {Nil} : key'[n] \in DOMAIN entries /\ entries[key'[n]] = value'[n]
    BY <1>1, <1>3 DEF Holds
  <2>3. \A k \in DOMAIN entries : \E n \in Live' \ {Nil} : key'[n] = k
    BY <1>1, <1>3, <2>1 DEF Holds
  <2> QED  BY <2>2, <2>3 DEF Holds
<1>7. size = Cardinality(Live')
  <2>1. Cardinality(Live) = size + 1
    OBVIOUS
  <2> QED  BY <1>2, <1>4, <2>1
<1> QED  BY <1>1, <1>2, <1>3, <1>4, <1>5, <1>6, <1>7

(* What has to be shown of a step that drops p and returns, or leaves the  *)
(* fix of what comes up to do.                                             *)
LEMMA DroppedKept ==
    ASSUME NEW U, NEW A, NEW C, NEW e1,
           Shape(Live', child', parent', root', A),
           Ordered(Live', child', key', A, order, Nil),
           Holds(Live', key', value', entries, Nil), size = Cardinality(Live'),
           color' \in [Live' -> {"red", "black"}], Live' \subseteq Nodes,
           key' \in [Live' -> LoopKeys], value' \in [Live' -> LoopValues],
           Balanced(Live', child', color', Nil, e1, C),
           order' = order, size' = size, entries' = entries, p' = Nil,
           order \in {1, -1}, size \in Int,
           \/ /\ pc' = "idle" /\ e1 = Nil /\ at' = Nil
              /\ Reds(Live', parent', color', Nil, Nil)
              /\ root' # Nil => color'[root'] = "black"
           \/ /\ pc' = "fix" /\ e1 = at' /\ at' \in Live'
              /\ Reds(Live', parent', color', at', at')
              /\ root' # at' => color'[root'] = "black"
    PROVE  Always(A, C, e1)'
<1>1. Nil \notin Live' /\ root' \in Live' \cup {Nil}
  BY DEF Shape
<1>2. Typed'
  BY <1>1 DEF Typed
<1>3. /\ ~Inserting' /\ Search' = Nil
      /\ (IF Fixing THEN p ELSE Nil)' = Nil /\ (IF Deleting THEN p ELSE Nil)' = Nil
  BY DEF Inserting, Search, Fixing, Deleting
<1>4. RedsKept'
  BY <1>1, <1>3 DEF RedsKept
<1>5. Contents' /\ Sized'
  BY <1>3 DEF Contents, Sized
<1>6. Tree(A, C, e1)'
  BY <1>2, <1>3, <1>4, <1>5 DEF Tree
<1>7. Loops(A, e1)'
  BY <1>1 DEF Loops, Extra, Idle, InFind, InEnds, InUnlink, InInsert,
     Inserting, InFix, LeafToGo, InTakeOff, InNear, Answered, InSuccessor
<1> QED  BY <1>6, <1>7 DEF Always

LEMMA UnlinkInnerStep ==
    ASSUME LoopAssumption, NEW U, NEW B, NEW e, Always(U, B, e), UnlinkInner
    PROVE  \E A, C, f : Always(A, C, f)'
<1>1. PICK m : m = Replacement
  OBVIOUS
<1>2. /\ pc = "unlink" /\ m # Nil
      /\ child' = Lacking(Swapped(p, m), p)
      /\ parent' = Lacking(Updated(parent, m, parent[p]), p)
      /\ root' = RootFor(p, m) /\ Drop(p)
      /\ order' = order /\ size' = size /\ entries' = entries /\ p' = Nil
      /\ \/ color[p] = "black" /\ pc' = "fix" /\ at' = m
         \/ color[p] # "black" /\ pc' = "idle" /\ at' = Nil
  BY <1>1 DEF UnlinkInner, Returns, Updated
<1>3. /\ Shape(Live, child, parent, root, U) /\ Typed /\ Nil \notin Live
      /\ Ordered(Live, child, key, U, order, p)
      /\ Reds(Live, parent, color, Nil, Nil) /\ root \in Live /\ color[root] = "black"
      /\ Balanced(Live, child, color, Nil, Nil, B)
      /\ Holds(Live, key, value, entries, p) /\ p \in Live /\ p # Nil
      /\ size + 1 = Cardinality(Live)
      /\ child[p]["left"] = Nil \/ child[p]["right"] = Nil
  BY <1>2, UnlinkingFacts DEF InUnlink
<1>4. PICK s \in Sides : m = child[p][s] /\ child[p][Other(s)] = Nil
  BY <1>1, <1>2, <1>3 DEF Replacement, Sides, Other
<1>5. PICK A : A = Shrunk(U, Live \ {p}, p)
  OBVIOUS
<1>6. /\ Live' = Live \ {p}
      /\ Dropped(Live, child, parent, root, Live', child', parent', root', p, m)
      /\ Shape(Live', child', parent', root', A)
      /\ Ordered(Live', child', key', A, order, Nil)
      /\ Holds(Live', key', value', entries, Nil)
      /\ size = Cardinality(Live')
      /\ \A n \in Live' : color'[n] = color[n]
      /\ color' \in [Live' -> {"red", "black"}] /\ Live' \subseteq Nodes
      /\ key' \in [Live' -> LoopKeys] /\ value' \in [Live' -> LoopValues]
  BY <1>2, <1>3, <1>4, <1>5, DropsPair
<1>7. /\ m \in Live' /\ parent[m] = p /\ order \in {1, -1} /\ size \in Int
      /\ root' = (IF p = root THEN m ELSE root)
      /\ \A n \in Live' : parent'[n] = IF n = m THEN parent[p] ELSE parent[n]
      /\ parent' \in [Live' -> Live' \cup {Nil}]
      /\ color \in [Live -> {"red", "black"}]
  <2>1. m \in Live' /\ parent[m] = p
    BY <1>2, <1>3, <1>6, DroppedKids
  <2> QED  BY <1>3, <1>6, <2>1 DEF Dropped, Typed
<1>8. /\ B \in [Live -> Nat]
      /\ B[p] = (IF color[p] = "black" THEN 1 ELSE 0) + B[m]
  <2>1. /\ B \in [Live -> Nat]
        /\ \A n \in Live, t \in Sides :
              B[n] = Weight(color, Nil, Nil, n) + Height(B, child[n][t])
    BY <1>3 DEF Balanced
  <2>2. Weight(color, Nil, Nil, p) = IF color[p] = "black" THEN 1 ELSE 0
    BY <1>3 DEF Weight
  <2> QED  BY <1>2, <1>3, <1>4, <2>1, <2>2 DEF Height
<1>9. CASE color[p] = "black"
  <2>1. PICK C : C = [n \in Live' |-> IF n = m THEN B[m] + 1 ELSE B[n]]
    OBVIOUS
  <2>2. C \in [Live' -> Nat] /\ C[m] = B[m] + 1 /\ \A n \in Live' \ {m} : C[n] = B[n]
    BY <1>6, <1>7, <1>8, <2>1
  <2>3. /\ \A n \in Live' \ {m} : Weight(color', Nil, m, n) = Weight(color, Nil, Nil, n)
        /\ Weight(color', Nil, m, m) = Weight(color, Nil, Nil, m) + 1
        /\ \A n \in Live' : Weight(color, Nil, Nil, n) \in Nat /\ Weight(color', Nil, m, n) \in Nat
    BY <1>3, <1>6, <1>7 DEF Weight
  <2>4. Resettled(Live', color, color', Nil, Nil, m, B, C, root, p, m)
    <3>1. \A n \in Live' : C[n] - Weight(color', Nil, m, n) = B[n] - Weight(color, Nil, Nil, n)
      BY <1>6, <1>7, <1>8, <2>2, <2>3
    <3>2. Height(C, m) = B[p]
      BY <1>2, <1>7, <1>8, <1>9, <2>2, <1>6 DEF Height
    <3> QED  BY <2>2, <2>3, <3>1, <3>2 DEF Resettled
  <2>5. Balanced(Live', child', color', Nil, m, C)
    BY <1>3, <1>6, <2>4, DroppedBalanced
  <2>6. Reds(Live', parent', color', m, m)
    <3>1. ASSUME NEW n \in Live', color'[n] = "red", n # m, parent'[n] \notin {Nil, m}
          PROVE  color'[parent'[n]] = "black"
      <4>1. parent'[n] = parent[n] /\ parent[n] \in Live'
        BY <1>7, <3>1
      <4> QED  BY <1>3, <1>6, <3>1, <4>1 DEF Reds
    <3> QED  BY <3>1 DEF Reds
  <2>7. root' # m => color'[root'] = "black"
    BY <1>3, <1>6, <1>7
  <2>8. pc' = "fix" /\ m = at' /\ at' \in Live'
    BY <1>2, <1>7, <1>9
  <2>9. Reds(Live', parent', color', at', at') /\ (root' # at' => color'[root'] = "black")
    BY <2>6, <2>7, <2>8
  <2>10. Always(A, C, m)'
    BY <1>2, <1>6, <1>7, <2>5, <2>8, <2>9, DroppedKept
  <2> QED  BY <2>10
<1>10. CASE color[p] # "black"
  <2>1. PICK C : C = [n \in Live' |-> B[n]]
    OBVIOUS
  <2>2. C \in [Live' -> Nat] /\ \A n \in Live' : C[n] = B[n]
    BY <1>6, <1>8, <2>1
  <2>3. \A n \in Live' : /\ Weight(color', Nil, Nil, n) = Weight(color, Nil, Nil, n)
                         /\ Weight(color, Nil, Nil, n) \in Nat
    BY <1>6 DEF Weight
  <2>4. Resettled(Live', color, color', Nil, Nil, Nil, B, C, root, p, m)
    <3>1. Height(C, m) = B[p]
      BY <1>2, <1>7, <1>8, <1>10, <2>2, <1>6 DEF Height
    <3> QED  BY <2>2, <2>3, <3>1 DEF Resettled
  <2>5. Balanced(Live', child', color', Nil, Nil, C)
    BY <1>3, <1>6, <2>4, DroppedBalanced
  <2>6. color[p] = "red" /\ color[m] # "red" /\ p # root
    BY <1>3, <1>6, <1>7, <1>10 DEF Reds
  <2>7. Reds(Live', parent', color', Nil, Nil)
    <3>1. ASSUME NEW n \in Live', color'[n] = "red", parent'[n] # Nil
          PROVE  color'[parent'[n]] = "black"
      <4>1. n # m
        BY <1>6, <2>6, <3>1
      <4>2. parent'[n] = parent[n] /\ parent[n] \in Live'
        BY <1>7, <3>1, <4>1
      <4> QED  BY <1>3, <1>6, <3>1, <4>2 DEF Reds
    <3> QED  BY <3>1 DEF Reds
  <2>8. root' # Nil => color'[root'] = "black"
    BY <1>3, <1>6, <1>7, <2>6
  <2>9. pc' = "idle" /\ at' = Nil
    BY <1>2, <1>10
  <2>10. Always(A, C, Nil)'
    BY <1>2, <1>6, <1>7, <2>5, <2>7, <2>8, <2>9, DroppedKept
  <2> QED  BY <2>10
<1> QED  BY <1>9, <1>10

LEMMA UnlinkOnlyStep ==
    ASSUME LoopAssumption, NEW U, NEW B, NEW e, Always(U, B, e), UnlinkOnly
    PROVE  \E A, C : Always(A, C, Nil)'
<1>1. /\ pc = "unlink" /\ Replacement = Nil /\ parent[p] = Nil /\ root' = Nil
      /\ child' = Lacking(Swapped(p, Nil), p)
      /\ parent' = Lacking(Updated(parent, Nil, parent[p]), p)
      /\ root' = RootFor(p, Nil) /\ Drop(p)
      /\ order' = order /\ size' = size /\ entries' = entries /\ p' = Nil
      /\ pc' = "idle" /\ at' = Nil
  BY DEF UnlinkOnly, Returns, Updated, Swapped, RootFor
<1>2. /\ Shape(Live, child, parent, root, U) /\ Typed /\ Nil \notin Live
      /\ Ordered(Live, child, key, U, order, p)
      /\ Reds(Live, parent, color, Nil, Nil)
      /\ Balanced(Live, child, color, Nil, Nil, B)
      /\ Holds(Live, key, value, entries, p) /\ p \in Live
      /\ size + 1 = Cardinality(Live)
      /\ child[p]["left"] = Nil \/ child[p]["right"] = Nil
  BY <1>1, UnlinkingFacts DEF InUnlink
<1>3. PICK s \in Sides : child[p][s] = Nil /\ child[p][Other(s)] = Nil
  BY <1>1, <1>2 DEF Replacement, Sides, Other
<1>4. PICK A : A = Shrunk(U, Live \ {p}, p)
  OBVIOUS
<1>5. /\ Live' = Live \ {p}
      /\ Shape(Live', child', parent', root', A)
      /\ Ordered(Live', child', key', A, order, Nil)
      /\ Holds(Live', key', value', entries, Nil)
      /\ size = Cardinality(Live')
      /\ color' \in [Live' -> {"red", "black"}] /\ Live' \subseteq Nodes
      /\ key' \in [Live' -> LoopKeys] /\ value' \in [Live' -> LoopValues]
  BY <1>1, <1>2, <1>3, <1>4, DropsPair
<1>6. Live' = {} /\ order \in {1, -1} /\ size \in Int
  BY <1>1, <1>2, <1>5 DEF Shape, Typed
<1>7. PICK C : C = [n \in Live' |-> 0]
  OBVIOUS
<1>8. Balanced(Live', child', color', Nil, Nil, C) /\ Reds(Live', parent', color', Nil, Nil)
  BY <1>6, <1>7 DEF Balanced, Reds
<1>9. Always(A, C, Nil)'
  BY <1>1, <1>5, <1>6, <1>8, DroppedKept
<1> QED  BY <1>9

LEMMA UnlinkLeafStep ==
    ASSUME NEW U, NEW B, NEW e, Always(U, B, e), UnlinkLeaf
    PROVE  \E f : Always(U, B, f)'
<1>1. /\ pc = "unlink" /\ Replacement = Nil /\ parent[p] # Nil
      /\ pc' = (IF color[p] = "black" THEN "fix" ELSE "takeoff") /\ at' = p /\ p' = p
      /\ order' = order /\ root' = root /\ size' = size /\ child' = child
      /\ parent' = parent /\ color' = color /\ key' = key /\ value' = value
      /\ entries' = entries
  BY DEF UnlinkLeaf, fields
<1>2. /\ Shape(Live, child, parent, root, U) /\ Typed /\ Nil \notin Live
      /\ Ordered(Live, child, key, U, order, p)
      /\ Reds(Live, parent, color, Nil, Nil) /\ root \in Live /\ color[root] = "black"
      /\ Balanced(Live, child, color, Nil, Nil, B)
      /\ Holds(Live, key, value, entries, p) /\ p \in Live
      /\ size + 1 = Cardinality(Live)
      /\ child[p]["left"] = Nil \/ child[p]["right"] = Nil
  BY <1>1, UnlinkingFacts DEF InUnlink
<1>3. /\ \A s \in Sides : child[p][s] = Nil
      /\ p # root /\ p \in U[p] /\ p # Nil
  <2>1. \A s \in Sides : child[p][s] = Nil
    BY <1>1, <1>2 DEF Replacement, Sides
  <2>2. p # root
    BY <1>1, <1>2, ParentThere
  <2>3. p \in U[p]
    BY <1>2, Kids DEF Sides
  <2> QED  BY <1>2, <2>1, <2>2, <2>3
<1>4. /\ Live' = Live /\ Deleting' /\ ~Inserting' /\ Search' = p /\ Fixing'
      /\ (IF Fixing THEN p ELSE Nil)' = p /\ (IF Deleting THEN p ELSE Nil)' = p
  BY <1>1 DEF Live, Deleting, Inserting, Search, Fixing
<1>5. PICK f : f = IF color[p] = "black" THEN p ELSE Nil
  OBVIOUS
<1>6. Balanced(Live, child, color, p, f, B)
  <2>1. \A n \in Live : Weight(color, p, f, n) = Weight(color, Nil, Nil, n)
    BY <1>2, <1>5 DEF Weight
  <2> QED  BY <1>2, <2>1 DEF Balanced
<1>7. Typed' /\ RedsKept' /\ Contents' /\ Sized'
  <2>1. Typed'
    BY <1>1, <1>2, <1>4 DEF Typed
  <2>2. RedsKept'
    <3>1. \A x, y : Reds(Live, parent, color, x, y)
      BY <1>2 DEF Reds
    <3> QED  BY <1>1, <1>2, <1>4, <3>1 DEF RedsKept
  <2>3. Contents' /\ Sized'
    BY <1>1, <1>2, <1>3, <1>4 DEF Contents, Sized
  <2> QED  BY <2>1, <2>2, <2>3
<1>8. Tree(U, B, f)'
  BY <1>1, <1>2, <1>4, <1>6, <1>7 DEF Tree
<1>9. Loops(U, f)'
  <2>1. InTakeOff' /\ Extra(f)'
    BY <1>1, <1>3, <1>5 DEF InTakeOff, Extra
  <2>2. InFix(U)'
    BY <1>1, <1>3 DEF InFix, LeafToGo
  <2> QED  BY <1>1, <1>4, <2>1, <2>2 DEF Loops, Idle, InFind, InEnds, InUnlink, InInsert,
     InNear, Answered, InSuccessor
<1> QED  BY <1>8, <1>9 DEF Always

LEMMA TakeOffStep ==
    ASSUME LoopAssumption, NEW U, NEW B, NEW e, Always(U, B, e), TakeOff
    PROVE  \E A, C : Always(A, C, Nil)'
<1>1. /\ Shape(Live, child, parent, root, U) /\ Typed /\ Nil \notin Live
      /\ Ordered(Live, child, key, U, order, p)
      /\ RedsKept /\ Contents /\ Sized
      /\ Balanced(Live, child, color, p, e, B) /\ e = Nil
      /\ p \in Live /\ p # root /\ \A s \in Sides : child[p][s] = Nil
  <2>1. Search = p /\ Fixing
    BY DEF TakeOff, Search, Deleting, Fixing
  <2> QED  BY <2>1 DEF TakeOff, Always, Tree, Loops, Extra, InTakeOff, Typed, Shape
<1>2. Deleting /\ ~Inserting /\ pc # "fix" /\ p # Nil
  BY <1>1 DEF TakeOff, Deleting, Fixing, Inserting
<1>3. parent[p] # Nil /\ root \in Live
  BY <1>1, ParentThere
<1>4. /\ child' = Lacking(Swapped(p, Nil), p)
      /\ parent' = Lacking(Updated(parent, Nil, parent[p]), p)
      /\ root' = RootFor(p, Nil) /\ Drop(p) /\ root' = root
      /\ order' = order /\ size' = size /\ entries' = entries /\ p' = Nil
      /\ pc' = "idle" /\ at' = Nil
  BY <1>3 DEF TakeOff, Returns, Updated, RootFor
<1>5. /\ Holds(Live, key, value, entries, p) /\ size + 1 = Cardinality(Live)
      /\ Reds(Live, parent, color, Nil, Nil) /\ color[root] = "black"
      /\ order \in {1, -1} /\ size \in Int
  BY <1>1, <1>2, <1>3 DEF Contents, Sized, RedsKept, Typed
<1>6. PICK s \in Sides : child[p][s] = Nil /\ child[p][Other(s)] = Nil
  BY <1>1 DEF Sides, Other
<1>7. PICK A : A = Shrunk(U, Live \ {p}, p)
  OBVIOUS
<1>8. /\ Live' = Live \ {p}
      /\ Dropped(Live, child, parent, root, Live', child', parent', root', p, Nil)
      /\ Shape(Live', child', parent', root', A)
      /\ Ordered(Live', child', key', A, order, Nil)
      /\ Holds(Live', key', value', entries, Nil)
      /\ size = Cardinality(Live')
      /\ \A n \in Live' : color'[n] = color[n]
      /\ color' \in [Live' -> {"red", "black"}] /\ Live' \subseteq Nodes
      /\ key' \in [Live' -> LoopKeys] /\ value' \in [Live' -> LoopValues]
  BY <1>1, <1>4, <1>5, <1>6, <1>7, DropsPair
<1>9. /\ \A n \in Live' : parent'[n] = parent[n]
      /\ parent' \in [Live' -> Live' \cup {Nil}]
  BY <1>1, <1>8 DEF Dropped
<1>10. /\ B \in [Live -> Nat] /\ B[p] = 0
  <2>1. /\ B \in [Live -> Nat]
        /\ \A n \in Live, t \in Sides :
              B[n] = Weight(color, p, Nil, n) + Height(B, child[n][t])
    BY <1>1 DEF Balanced
  <2>2. Weight(color, p, Nil, p) = 0
    BY <1>2 DEF Weight
  <2> QED  BY <1>1, <1>6, <2>1, <2>2 DEF Height
<1>11. PICK C : C = [n \in Live' |-> B[n]]
  OBVIOUS
<1>12. C \in [Live' -> Nat] /\ \A n \in Live' : C[n] = B[n]
  BY <1>8, <1>10, <1>11
<1>13. \A n \in Live' : /\ Weight(color', Nil, Nil, n) = Weight(color, p, Nil, n)
                        /\ Weight(color, p, Nil, n) \in Nat
  BY <1>1, <1>8 DEF Weight
<1>14. Resettled(Live', color, color', p, Nil, Nil, B, C, root, p, Nil)
  BY <1>10, <1>12, <1>13 DEF Resettled, Height
<1>15. Balanced(Live', child', color', Nil, Nil, C)
  BY <1>1, <1>8, <1>14, DroppedBalanced
<1>16. Reds(Live', parent', color', Nil, Nil)
  BY <1>5, <1>8, <1>9 DEF Reds
<1>17. root' # Nil => color'[root'] = "black"
  BY <1>1, <1>3, <1>4, <1>5, <1>8
<1>18. Always(A, C, Nil)'
  BY <1>4, <1>5, <1>8, <1>15, <1>16, <1>17, DroppedKept
<1> QED  BY <1>18
-----------------------------------------------------------------------------
(* The loop that makes up for a missing black.                             *)
LEMMA FixingFacts ==
    ASSUME NEW U, NEW B, NEW e, Always(U, B, e), pc \in {"fix", "nephews", "pay"}
    PROVE  /\ Shape(Live, child, parent, root, U) /\ Typed /\ Nil \notin Live
           /\ Ordered(Live, child, key, U, order, p)
           /\ Balanced(Live, child, color, p, e, B)
           /\ Holds(Live, key, value, entries, p)
           /\ at \in Live /\ root \in Live /\ LeafToGo(U) /\ InFix(U)
           /\ size + (IF p # Nil THEN 1 ELSE 0) = Cardinality(Live)
           /\ pc = "fix" => Reds(Live, parent, color, at, at)
           /\ pc # "fix" => Reds(Live, parent, color, Nil, Nil)
           /\ ~(pc = "fix" /\ root = at) => color[root] = "black"
           /\ e = at \/ (pc = "fix" /\ e = Nil /\ at = root)
           /\ color \in [Live -> {"red", "black"}]
<1>1. Deleting /\ Fixing /\ ~Inserting /\ Search = p
  BY DEF Inserting, Deleting, Fixing, Search
<1>2. /\ Shape(Live, child, parent, root, U) /\ Typed
      /\ Ordered(Live, child, key, U, order, p)
      /\ Balanced(Live, child, color, p, e, B)
      /\ RedsKept /\ Contents /\ Sized /\ Extra(e) /\ InFix(U)
  BY <1>1 DEF Always, Tree, Loops
<1>3. at \in Live /\ LeafToGo(U)
  BY <1>2 DEF InFix, Typed
<1>4. root \in Live /\ root # Nil /\ Nil \notin Live
  BY <1>2, <1>3, ParentThere DEF Shape
<1>5. /\ pc = "fix" => Reds(Live, parent, color, at, at)
      /\ pc # "fix" => Reds(Live, parent, color, Nil, Nil)
      /\ ~(pc = "fix" /\ root = at) => color[root] = "black"
  BY <1>1, <1>2, <1>4 DEF RedsKept
<1>6. e = at \/ (pc = "fix" /\ e = Nil /\ at = root)
  BY <1>2 DEF Extra
<1>7. Holds(Live, key, value, entries, p)
  BY <1>1, <1>2 DEF Contents
<1>8. size + (IF p # Nil THEN 1 ELSE 0) = Cardinality(Live)
  BY <1>1, <1>2 DEF Sized
<1> QED  BY <1>2, <1>3, <1>4, <1>5, <1>6, <1>7, <1>8 DEF Typed

(* What has to be shown of a step that goes on with the fix.               *)
Fixes(A, C, f, h, s, b) ==
    /\ pc' \in {"fix", "nephews", "pay"}
    /\ order' = order /\ size' = size /\ key' = key /\ value' = value /\ p' = p
    /\ entries' = entries /\ Live' = Live /\ color' \in [Live -> {"red", "black"}]
    /\ at' \in Live
    /\ Shape(Live, child', parent', root', A)
    /\ Ordered(Live, child', key, A, order, p)
    /\ Balanced(Live, child', color', p, f, C)
    /\ p # Nil => /\ p # root' /\ p \in A[at'] /\ color'[p] = "black"
                  /\ \A z \in Sides : child'[p][z] = Nil
    /\ pc' = "fix" => /\ Reds(Live, parent', color', at', at')
                      /\ root' # at' => color'[root'] = "black"
                      /\ f = at' \/ (f = Nil /\ at' = root')
    /\ pc' # "fix" => /\ Reds(Live, parent', color', Nil, Nil) /\ color'[root'] = "black"
                      /\ f = at' /\ at' # root' /\ color'[at'] = "black"
                      /\ h = parent'[at'] /\ s \in Sides /\ child'[h][s] = at'
                      /\ b = child'[h][Other(s)] /\ b # at' /\ b # Nil /\ color'[b] = "black"
    /\ pc' = "pay" => /\ child'[b][Other(s)] # Nil
                      /\ color'[child'[b][Other(s)]] = "red"

LEMMA FixesKept ==
    ASSUME NEW U, NEW B, NEW e, Always(U, B, e), pc \in {"fix", "nephews", "pay"},
           NEW A, NEW C, NEW f, NEW h, NEW s, NEW b, Fixes(A, C, f, h, s, b)
    PROVE  Always(A, C, f)'
<1>0. /\ pc' \in {"fix", "nephews", "pay"}
      /\ order' = order /\ size' = size /\ key' = key /\ value' = value /\ p' = p
      /\ entries' = entries /\ Live' = Live /\ color' \in [Live -> {"red", "black"}]
      /\ at' \in Live
      /\ Shape(Live, child', parent', root', A)
      /\ Ordered(Live, child', key, A, order, p)
      /\ Balanced(Live, child', color', p, f, C)
  BY DEF Fixes
<1>1. /\ p # Nil => /\ p # root' /\ p \in A[at'] /\ color'[p] = "black"
                    /\ \A z \in Sides : child'[p][z] = Nil
      /\ pc' = "fix" => /\ Reds(Live, parent', color', at', at')
                        /\ root' # at' => color'[root'] = "black"
                        /\ f = at' \/ (f = Nil /\ at' = root')
      /\ pc' # "fix" => /\ Reds(Live, parent', color', Nil, Nil) /\ color'[root'] = "black"
                        /\ f = at'
  BY DEF Fixes
<1>2. /\ Typed /\ Holds(Live, key, value, entries, p)
      /\ size + (IF p # Nil THEN 1 ELSE 0) = Cardinality(Live)
  BY FixingFacts
<1>3. Deleting' /\ Fixing' /\ ~Inserting' /\ Search' = p
  BY <1>0 DEF Inserting, Deleting, Fixing, Search
<1>4. Typed' /\ root' # Nil /\ Nil \notin Live
  <2>1. root' \in Live /\ root' # Nil /\ Nil \notin Live
    BY <1>0, ParentThere DEF Shape
  <2> QED  BY <1>0, <1>2, <2>1 DEF Typed
<1>5. RedsKept'
  BY <1>0, <1>1, <1>3, <1>4 DEF RedsKept
<1>6. Contents' /\ Sized'
  BY <1>0, <1>2, <1>3 DEF Contents, Sized
<1>7. Tree(A, C, f)'
  BY <1>0, <1>3, <1>4, <1>5, <1>6 DEF Tree
<1>8. LeafToGo(A)' /\ Extra(f)'
  BY <1>0, <1>1 DEF LeafToGo, Extra
<1>9. InFix(A)'
  <2>1. CASE pc' = "fix"
    BY <1>0, <1>4, <1>8, <2>1 DEF InFix
  <2>2. CASE pc' # "fix"
    <3>1. /\ at' # root' /\ color'[at'] = "black"
          /\ h = parent'[at'] /\ s \in Sides /\ child'[h][s] = at'
          /\ b = child'[h][Other(s)] /\ b # at' /\ b # Nil /\ color'[b] = "black"
          /\ pc' = "pay" => /\ child'[b][Other(s)] # Nil
                            /\ color'[child'[b][Other(s)]] = "red"
      BY <2>2 DEF Fixes
    <3>2. (IF child'[h]["left"] = at' THEN "left" ELSE "right") = s
      BY <3>1 DEF Sides, Other
    <3>3. SideOf(at)' = s
      BY <3>1, <3>2 DEF SideOf
    <3>4. Sibling' = b
      BY <3>1, <3>3 DEF Sibling, Other
    <3>5. Far' = child'[b][Other(s)]
      BY <3>3, <3>4 DEF Far, Other
    <3> QED  BY <1>0, <1>4, <1>8, <3>1, <3>4, <3>5 DEF InFix
  <2> QED  BY <2>1, <2>2
<1>10. Loops(A, f)'
  BY <1>0, <1>3, <1>8, <1>9 DEF Loops, Idle, InFind, InEnds, InUnlink, InInsert,
     InTakeOff, InNear, Answered, InSuccessor
<1> QED  BY <1>7, <1>10 DEF Always

LEMMA FixDoneStep ==
    ASSUME NEW U, NEW B, NEW e, Always(U, B, e), FixDone
    PROVE  \E C : Always(U, C, Nil)'
<1>1. /\ pc = "fix" /\ ~BlackMissing
      /\ color' = [color EXCEPT ![at] = "black"]
      /\ order' = order /\ root' = root /\ size' = size /\ child' = child
      /\ parent' = parent /\ key' = key /\ value' = value /\ entries' = entries
      /\ p' = p
      /\ \/ p = Nil /\ pc' = "idle" /\ at' = Nil
         \/ p # Nil /\ pc' = "takeoff" /\ at' = at
  BY DEF FixDone, Returns
<1>2. /\ Shape(Live, child, parent, root, U) /\ Typed /\ Nil \notin Live
      /\ Ordered(Live, child, key, U, order, p)
      /\ Balanced(Live, child, color, p, e, B)
      /\ Holds(Live, key, value, entries, p)
      /\ at \in Live /\ root \in Live /\ LeafToGo(U)
      /\ size + (IF p # Nil THEN 1 ELSE 0) = Cardinality(Live)
      /\ Reds(Live, parent, color, at, at)
      /\ root # at => color[root] = "black"
      /\ e = at \/ (e = Nil /\ at = root)
      /\ color \in [Live -> {"red", "black"}]
  BY <1>1, FixingFacts
<1>3. /\ color' \in [Live -> {"red", "black"}] /\ color'[at] = "black"
      /\ \A n \in Live : n # at => color'[n] = color[n]
  BY <1>1, <1>2
<1>4. Live' = Live
  BY <1>1 DEF Live
<1>5. PICK C : Balanced(Live, child, color', p, Nil, C)
  <2>1. CASE at = root
    <3>1. p # root
      BY <1>2 DEF LeafToGo
    <3> QED  BY <1>2, <1>3, <2>1, <3>1, RootBlack
  <2>2. CASE at # root
    <3>1. color[at] = "red" /\ e = at
      BY <1>1, <1>2, <2>2 DEF BlackMissing
    <3>2. at # p
      BY <1>2, <3>1 DEF LeafToGo
    <3>3. \A n \in Live : Weight(color', p, Nil, n) = Weight(color, p, e, n)
      BY <1>2, <1>3, <3>1, <3>2 DEF Weight
    <3> QED  BY <1>2, <3>3 DEF Balanced
  <2> QED  BY <2>1, <2>2
<1>6. Reds(Live, parent, color', Nil, Nil) /\ color'[root] = "black"
  <2>1. Reds(Live, parent, color', Nil, Nil)
    <3>1. \A n \in Live : parent[n] \in Live \cup {Nil}
      BY <1>2 DEF Shape
    <3> QED  BY <1>2, <1>3, <3>1 DEF Reds
  <2> QED  BY <1>2, <1>3, <2>1
<1>7. /\ (IF Fixing THEN p ELSE Nil)' = p /\ (IF Deleting THEN p ELSE Nil)' = p
      /\ ~Inserting' /\ Search' = p /\ pc' # "fix"
  BY <1>1 DEF Inserting, Search, Fixing, Deleting
<1>8. Typed'
  BY <1>1, <1>2, <1>3, <1>4 DEF Typed
<1>9. RedsKept'
  BY <1>1, <1>4, <1>6, <1>7 DEF RedsKept
<1>10. Contents' /\ Sized'
  <2>1. p # Nil => Deleting'
    BY <1>1 DEF Deleting, Fixing
  <2> QED  BY <1>1, <1>2, <1>4, <1>7, <2>1 DEF Contents, Sized
<1>11. Tree(U, C, Nil)'
  BY <1>1, <1>2, <1>4, <1>5, <1>7, <1>8, <1>9, <1>10 DEF Tree
<1>12. Loops(U, Nil)'
  <2>1. CASE pc' = "idle"
    BY <1>1, <2>1, ReturnedLoops
  <2>2. CASE pc' = "takeoff"
    <3>1. p # Nil /\ p # root /\ \A z \in Sides : child[p][z] = Nil
      BY <1>1, <1>2, <2>2 DEF LeafToGo
    <3> QED  BY <1>1, <1>7, <2>2, <3>1 DEF Loops, Extra, Idle, InFind, InEnds, InUnlink,
         InInsert, InFix, InTakeOff, InNear, Answered, InSuccessor
  <2> QED  BY <1>1, <2>1, <2>2
<1> QED  BY <1>11, <1>12 DEF Always

(* A node below which a black is missing has a sibling.                    *)
SiblingOf(U, B, x, h, s, b) ==
    /\ x \in Live /\ h \in Live /\ b \in Live /\ Nil \notin {x, h, b}
    /\ s \in Sides /\ Other(s) \in Sides /\ Other(Other(s)) = s
    /\ child[h][s] = x /\ child[h][Other(s)] = b /\ parent[x] = h /\ parent[b] = h
    /\ b \notin {x, h, root} /\ x # h
    /\ Reds(Live, parent, color, Nil, Nil) /\ color[root] = "black" /\ root \in Live
    /\ p \notin {h, b} /\ p \notin U[b]
    /\ B \in [Live -> Nat] /\ B[b] = B[x] /\ B[x] >= 1
    /\ Balanced(Live, child, color, p, x, B)
    /\ \A n \in Live : parent[n] = h => n \in {x, b}

LEMMA Twins ==
    ASSUME NEW N, NEW c, NEW up, NEW rt, NEW U, Shape(N, c, up, rt, U),
           NEW h \in N, NEW s \in Sides, NEW x \in N, c[h][s] = x
    PROVE  /\ U[x] \subseteq N /\ x \in U[x]
           /\ Below(U, x) = U[x] /\ U[x] \cap Below(U, c[h][Other(s)]) = {}
           /\ h \notin Below(U, c[h][Other(s)]) /\ h \notin U[x]
           /\ c[h][Other(s)] \in N \cup {Nil}
           /\ c[h][Other(s)] # Nil => /\ up[c[h][Other(s)]] = h
                                     /\ c[h][Other(s)] \in U[c[h][Other(s)]]
                                     /\ Below(U, c[h][Other(s)]) = U[c[h][Other(s)]]
<1>1. Nil \notin N /\ Other(s) \in Sides
  BY DEF Shape, Sides, Other
<1>2. x # Nil /\ Below(U, x) = U[x]
  BY <1>1 DEF Below
<1>3. /\ h \notin Below(U, c[h][s])
      /\ Below(U, c[h][s]) \cap Below(U, c[h][Other(s)]) = {}
  <2>1. h \notin Below(U, c[h][s])
    BY Kids
  <2>2. Below(U, c[h][s]) \cap Below(U, c[h][Other(s)]) = {}
    BY Kids
  <2> QED  BY <2>1, <2>2
<1>4. U[x] \subseteq N /\ x \in U[x]
  BY <1>1, Kids
<1>5. /\ h \notin Below(U, c[h][Other(s)])
      /\ c[h][Other(s)] \in N \cup {Nil}
      /\ c[h][Other(s)] # Nil => /\ up[c[h][Other(s)]] = h
                                /\ c[h][Other(s)] \in Below(U, c[h][Other(s)])
                                /\ Below(U, c[h][Other(s)]) = U[c[h][Other(s)]]
  BY <1>1, Kids
<1> QED  BY <1>2, <1>3, <1>4, <1>5

LEMMA SiblingIs ==
    ASSUME NEW U, NEW B, NEW e, Always(U, B, e), pc \in {"fix", "nephews", "pay"},
           NEW x, x = at, x # root, color[x] = "black",
           NEW h, h = parent[x], NEW s, s = SideOf(x), NEW b, b = child[h][Other(s)]
    PROVE  SiblingOf(U, B, x, h, s, b)
<1>1. /\ Shape(Live, child, parent, root, U) /\ Nil \notin Live
      /\ Balanced(Live, child, color, p, e, B)
      /\ x \in Live /\ root \in Live /\ LeafToGo(U)
      /\ Reds(Live, parent, color, Nil, Nil) \/ Reds(Live, parent, color, x, x)
      /\ color[root] = "black" /\ e = x
  BY FixingFacts
<1>2. h \in Live /\ h # Nil /\ s \in Sides /\ child[h][s] = x /\ b # x
  BY <1>1, SideIs
<1>3. Other(s) \in Sides /\ Other(Other(s)) = s
  BY <1>2 DEF Sides, Other
<1>4. /\ U[x] \subseteq Live /\ x \in U[x]
      /\ Below(U, x) = U[x] /\ U[x] \cap Below(U, b) = {}
      /\ h \notin Below(U, b) /\ h \notin U[x]
      /\ b \in Live \cup {Nil} /\ (b # Nil => parent[b] = h /\ b \in U[b] /\ Below(U, b) = U[b])
  <2>1. Shape(Live, child, parent, root, U) /\ h \in Live /\ s \in Sides /\ x \in Live
        /\ child[h][s] = x
    BY <1>1, <1>2
  <2>2. /\ U[x] \subseteq Live /\ x \in U[x]
        /\ Below(U, x) = U[x] /\ U[x] \cap Below(U, child[h][Other(s)]) = {}
        /\ h \notin Below(U, child[h][Other(s)]) /\ h \notin U[x]
        /\ child[h][Other(s)] \in Live \cup {Nil}
        /\ child[h][Other(s)] # Nil => /\ parent[child[h][Other(s)]] = h
                                      /\ child[h][Other(s)] \in U[child[h][Other(s)]]
                                      /\ Below(U, child[h][Other(s)]) = U[child[h][Other(s)]]
    BY <2>1, <1>3, Twins
  <2> QED  BY <2>2
<1>5. B \in [Live -> Nat] /\ B[x] >= 1 /\ B[x] = Height(B, b)
  <2>1. /\ B \in [Live -> Nat]
        /\ B[x] = Weight(color, p, x, x) + Height(B, child[x]["left"])
        /\ B[h] = Weight(color, p, x, h) + Height(B, x)
        /\ B[h] = Weight(color, p, x, h) + Height(B, b)
    BY <1>1, <1>2, <1>3 DEF Balanced, Sides
  <2>2. Height(B, child[x]["left"]) \in Nat
    <3>1. child[x]["left"] \in Live \cup {Nil}
      BY <1>1, Kids DEF Sides
    <3> QED  BY <2>1, <3>1 DEF Height
  <2>3. Weight(color, p, x, x) \in {1, 2} /\ Weight(color, p, x, h) \in Nat
    BY DEF Weight
  <2>4. B[x] \in Nat /\ Height(B, x) = B[x] /\ Height(B, b) \in Nat
    BY <1>1, <1>4, <2>1 DEF Height
  <2>5. B[x] >= 1
    BY <2>1, <2>2, <2>3
  <2>6. B[x] = Height(B, b)
    BY <2>1, <2>3, <2>4
  <2> QED  BY <2>1, <2>5, <2>6
<1>6. b # Nil /\ B[b] = B[x]
  BY <1>5 DEF Height
<1>7. b # h /\ b # root /\ x # h
  BY <1>1, <1>4, <1>6, <1>2, <1>3, Acyclic
<1>8. Reds(Live, parent, color, Nil, Nil)
  BY <1>1 DEF Reds
<1>9. p \notin {h, b} /\ p \notin U[b]
  <2>1. CASE p = Nil
    <3>1. U[b] \subseteq Live
      BY <1>1, <1>4, <1>6, Kids DEF Sides
    <3> QED  BY <1>1, <1>2, <1>4, <1>6, <2>1, <3>1
  <2>2. CASE p # Nil
    <3>1. p \in U[x]
      BY <1>1, <2>2 DEF LeafToGo
    <3> QED  BY <1>4, <1>6, <3>1
  <2> QED  BY <2>1, <2>2
<1>10. \A n \in Live : parent[n] = h => n \in {x, b}
  BY <1>1, <1>2, KidsOf
<1> QED  BY <1>1, <1>2, <1>3, <1>4, <1>5, <1>6, <1>7, <1>8, <1>9, <1>10 DEF SiblingOf

(* A leaf stays one when other nodes are rotated.                          *)
LEMMA LeafStays ==
    ASSUME NEW N, NEW c, NEW up, NEW rt, NEW U, Shape(N, c, up, rt, U),
           NEW c1, NEW up1, NEW rt1, NEW q, NEW r, NEW s,
           Rotated(N, c, up, rt, c1, up1, rt1, q, r, s),
           NEW d \in N, d \notin {q, r}, d # rt, \A z \in Sides : c[d][z] = Nil
    PROVE  d # rt1 /\ \A z \in Sides : c1[d][z] = Nil
<1>1. Nil \notin N
  BY DEF Shape
<1> QED  BY <1>1 DEF Rotated

LEMMA FixUpStep ==
    ASSUME NEW U, NEW B, NEW e, Always(U, B, e), FixUp
    PROVE  \E C, f : Always(U, C, f)'
<1>1. PICK x, h, s, b : x = at /\ h = parent[x] /\ s = SideOf(x) /\ b = child[h][Other(s)]
  OBVIOUS
<1>2. /\ pc = "nephews" /\ pc' = "fix" /\ at' = h
      /\ color' = Updated(color, b, "red")
      /\ ColorOf(child[b][s]) = "black" /\ ColorOf(child[b][Other(s)]) = "black"
      /\ order' = order /\ root' = root /\ size' = size /\ child' = child
      /\ parent' = parent /\ key' = key /\ value' = value /\ p' = p /\ entries' = entries
  BY <1>1 DEF FixUp, Sibling, Near, Far
<1>3. /\ Shape(Live, child, parent, root, U) /\ Nil \notin Live
      /\ Ordered(Live, child, key, U, order, p)
      /\ LeafToGo(U) /\ color \in [Live -> {"red", "black"}]
      /\ x # root /\ color[x] = "black" /\ color[b] = "black"
  BY <1>1, <1>2, FixingFacts DEF InFix, Sibling
<1>4. SiblingOf(U, B, x, h, s, b)
  BY <1>1, <1>2, <1>3, SiblingIs
<1>5. /\ x \in Live /\ h \in Live /\ b \in Live /\ Nil \notin {x, h, b}
      /\ s \in Sides /\ Other(s) \in Sides /\ Other(Other(s)) = s
      /\ child[h][s] = x /\ child[h][Other(s)] = b /\ parent[x] = h /\ parent[b] = h
      /\ b \notin {x, h, root} /\ x # h
      /\ Reds(Live, parent, color, Nil, Nil) /\ color[root] = "black" /\ root \in Live
      /\ p \notin {h, b}
      /\ B \in [Live -> Nat] /\ B[b] = B[x] /\ B[x] >= 1
      /\ Balanced(Live, child, color, p, x, B)
  BY <1>4 DEF SiblingOf
<1>6. /\ color' \in [Live -> {"red", "black"}] /\ color'[b] = "red"
      /\ \A n \in Live : n # b => color'[n] = color[n]
      /\ Live' = Live
  BY <1>2, <1>3, <1>5 DEF Updated, Live
<1>7. PICK C : C = [B EXCEPT ![b] = B[b] - 1, ![x] = B[x] - 1]
  OBVIOUS
<1>8. /\ C \in [Live -> Nat] /\ C[b] = B[b] - 1 /\ C[x] = B[x] - 1
      /\ \A n \in Live \ {b, x} : C[n] = B[n]
  <2>1. B[b] - 1 \in Nat /\ B[x] - 1 \in Nat
    BY <1>5
  <2> QED  BY <1>5, <1>7, <2>1
<1>9. Balanced(Live, child, color', p, h, C)
  <2> SUFFICES ASSUME NEW n \in Live, NEW z \in Sides
               PROVE  C[n] = Weight(color', p, h, n) + Height(C, child[n][z])
    BY <1>8 DEF Balanced
  <2>1. /\ B[n] = Weight(color, p, x, n) + Height(B, child[n][z])
        /\ child[n][z] \in Live \cup {Nil}
        /\ child[n][z] # Nil => parent[child[n][z]] = n
    BY <1>3, <1>5, Kids DEF Balanced
  <2>2. Height(B, child[n][z]) \in Nat /\ Weight(color, p, x, n) \in Nat
    BY <1>5, <2>1 DEF Height, Weight
  <2>3. CASE n = h
    <3>1. Weight(color', p, h, n) = Weight(color, p, x, n) + 1
      BY <1>5, <1>6, <2>3 DEF Weight
    <3>2. child[n][z] = x \/ child[n][z] = b
      BY <1>5, <2>3 DEF Sides, Other
    <3>3. Height(C, child[n][z]) = Height(B, child[n][z]) - 1
      BY <1>5, <1>8, <3>2 DEF Height
    <3>4. C[n] = B[n]
      BY <1>5, <1>8, <2>3
    <3> QED  BY <2>1, <2>2, <3>1, <3>3, <3>4
  <2>4. CASE n # h
    <3>1. child[n][z] # x /\ child[n][z] # b
      BY <1>5, <2>1, <2>4
    <3>2. Height(C, child[n][z]) = Height(B, child[n][z])
      BY <1>8, <2>1, <3>1 DEF Height
    <3>3. CASE n = b \/ n = x
      <4>1. Weight(color', p, h, n) = Weight(color, p, x, n) - 1
        BY <1>3, <1>5, <1>6, <2>4, <3>3 DEF Weight
      <4>2. C[n] = B[n] - 1 /\ B[n] \in Nat
        BY <1>5, <1>8, <3>3
      <4> QED  BY <2>1, <2>2, <3>2, <4>1, <4>2
    <3>4. CASE n # b /\ n # x
      <4>1. Weight(color', p, h, n) = Weight(color, p, x, n)
        BY <1>5, <1>6, <2>4, <3>4 DEF Weight
      <4>2. C[n] = B[n]
        BY <1>8, <3>4
      <4> QED  BY <2>1, <3>2, <4>1, <4>2
    <3> QED  BY <3>3, <3>4
  <2> QED  BY <2>3, <2>4
<1>10. Reds(Live, parent, color', h, h)
  <2> SUFFICES ASSUME NEW n \in Live, color'[n] = "red", n # h, parent[n] \notin {Nil, h}
               PROVE  color'[parent[n]] = "black"
    BY DEF Reds
  <2>1. n # b /\ color[n] = "red" /\ parent[n] \in Live
    BY <1>3, <1>5, <1>6, Kids DEF Sides
  <2>2. color[parent[n]] = "black"
    BY <1>3, <2>1 , <1>5 DEF Reds
  <2>3. parent[n] # b
    <3>1. parent[n] = b => n \in {child[b][s], child[b][Other(s)]}
      BY <1>3, <1>5, KidsOf
    <3>2. \A m \in Live : m \in {child[b][s], child[b][Other(s)]} => color[m] = "black"
      BY <1>2, <1>3 DEF ColorOf
    <3> QED  BY <2>1, <3>1, <3>2
  <2> QED  BY <1>6, <2>1, <2>2, <2>3
<1>11. p # Nil => /\ p # root /\ p \in U[h] /\ color'[p] = "black"
                  /\ \A z \in Sides : child[p][z] = Nil
  <2>1. p # Nil => /\ p # root /\ p \in U[x] /\ color[p] = "black"
                   /\ \A z \in Sides : child[p][z] = Nil
    BY <1>1, <1>3 DEF LeafToGo
  <2>2. U[x] \subseteq U[h] /\ U[h] \subseteq Live
    BY <1>3, <1>5, Kids
  <2> QED  BY <1>5, <1>6, <2>1, <2>2
<1>12. color'[root] = "black"
  BY <1>5, <1>6
<1>13. Fixes(U, C, h, h, s, b)
  BY <1>2, <1>3, <1>5, <1>6, <1>9, <1>10, <1>11, <1>12 DEF Fixes
<1> QED  BY <1>2, <1>13, FixesKept

Lift(col, f, g) == [col EXCEPT ![f] = "black", ![g] = "red"]

(* The sibling is red: the parent goes down above it, and the sibling's    *)
(* child on that side, which is black, becomes the sibling.                *)
LEMMA RedSiblingStep ==
    ASSUME LoopAssumption, NEW U, NEW B, NEW e, Always(U, B, e), pc = "fix", pc' = "nephews",
           NEW x, x = at, x # root, color[x] = "black",
           NEW h, NEW s, NEW b, SiblingOf(U, B, x, h, s, b),
           color[b] = "red", color' = Lift(color, b, h),
           Rotate(h, s), at' = at, order' = order, size' = size, p' = p, entries' = entries
    PROVE  \E A, C, f : Always(A, C, f)'
<1>1. /\ x \in Live /\ h \in Live /\ b \in Live /\ Nil \notin {x, h, b}
      /\ s \in Sides /\ Other(s) \in Sides /\ Other(Other(s)) = s
      /\ child[h][s] = x /\ child[h][Other(s)] = b /\ parent[x] = h /\ parent[b] = h
      /\ b \notin {x, h, root} /\ x # h
      /\ Reds(Live, parent, color, Nil, Nil) /\ color[root] = "black" /\ root \in Live
      /\ p \notin {h, b} /\ p \notin U[b]
      /\ B \in [Live -> Nat] /\ B[b] = B[x] /\ B[x] >= 1
      /\ Balanced(Live, child, color, p, x, B)
  BY DEF SiblingOf
<1>2. /\ Shape(Live, child, parent, root, U) /\ Nil \notin Live /\ Typed
      /\ Ordered(Live, child, key, U, order, p)
      /\ LeafToGo(U) /\ color \in [Live -> {"red", "black"}]
  BY FixingFacts
<1>3. color[h] = "black"
  BY <1>1, <1>2 DEF Reds
<1>4. PICK nb : nb = child[b][s]
  OBVIOUS
<1>5. nb \in Live /\ nb # Nil /\ nb # b /\ nb # h /\ nb # x /\ color[nb] = "black"
  <2>1. nb \in Live \cup {Nil} /\ (nb # Nil => parent[nb] = b /\ nb # b /\ nb # h)
    <3>1. nb # Nil => parent[nb] = b
      BY <1>1, <1>2, <1>4, Kids
    <3>2. nb \in Live \cup {Nil}
      BY <1>1, <1>2, <1>4, Kids
    <3>3. nb # Nil => nb # b /\ nb # h
      BY <1>1, <1>2, <1>4, Acyclic
    <3> QED  BY <3>1, <3>2, <3>3
  <2>2. nb # Nil
    <3>1. B[b] = Weight(color, p, x, b) + Height(B, nb)
      BY <1>1, <1>4 DEF Balanced
    <3>2. Weight(color, p, x, b) = 0
      BY <1>1 DEF Weight
    <3>3. Height(B, nb) # 0
      BY <1>1, <3>1, <3>2
    <3> QED  BY <3>3 DEF Height
  <2>3. color[nb] = "black"
    BY <1>1, <1>2, <2>1, <2>2 DEF Reds
  <2> QED  BY <1>1, <1>2, <2>1, <2>2, <2>3
<1>6. PICK A : A = Turned(U, child, h, b, s)
  OBVIOUS
<1>7. /\ Live' = Live /\ key' = key /\ value' = value
      /\ Rotated(Live, child, parent, root, child', parent', root', h, b, s)
      /\ Shape(Live, child', parent', root', A)
      /\ Ordered(Live, child', key, A, order, p)
  BY <1>1, <1>2, <1>6, RotateTree
<1>8. /\ color' \in [Live -> {"red", "black"}]
      /\ color'[b] = "black" /\ color'[h] = "red"
      /\ \A n \in Live \ {b, h} : color'[n] = color[n]
  BY <1>1, <1>2 DEF Lift
<1>9. PICK C : Balanced(Live, child', color', p, x, C)
  <2>1. Balanced(Live, child, color, p, x, B) /\ p \notin {b, h} /\ x \notin {b, h}
    BY <1>1
  <2>2. Rotated(Live, child, parent, root, child', parent', root', h, b, s)
    BY <1>7
  <2>3. Shape(Live, child, parent, root, U)
    BY <1>2
  <2> QED  BY <1>3, <1>8, <2>1, <2>2, <2>3, RaisedBalanced
<1>10. \A n \in {child[h][s], child[b][s]} \ {Nil} : color[n] = "black"
  BY <1>1, <1>4, <1>5
<1>11. Reds(Live, parent', color', Nil, Nil) /\ color'[root'] = "black"
  <2>1. Reds(Live, parent, color, Nil, Nil) /\ color[root] = "black"
    BY <1>1
  <2>2. Rotated(Live, child, parent, root, child', parent', root', h, b, s)
    BY <1>7
  <2>3. Shape(Live, child, parent, root, U)
    BY <1>2
  <2> QED  BY <1>8, <1>10, <2>1, <2>2, <2>3, Raised
<1>12. /\ parent'[x] = h /\ child'[h][s] = x /\ child'[h][Other(s)] = nb
       /\ root' \in {root, b}
  BY <1>1, <1>4, <1>5, <1>7 DEF Rotated
<1>13. A[x] = U[x]
  BY <1>1, <1>2, <1>6 DEF Turned, Shape
<1>14. p # Nil => /\ p # root' /\ p \in A[x] /\ color'[p] = "black"
                  /\ \A z \in Sides : child'[p][z] = Nil
  <2> HAVE p # Nil
  <2>1. /\ p # root /\ p \in U[x] /\ color[p] = "black" /\ p \in Live
        /\ \A z \in Sides : child[p][z] = Nil
    BY <1>2 DEF LeafToGo, Typed
  <2>2. p # root' /\ \A z \in Sides : child'[p][z] = Nil
    BY <1>1, <1>2, <1>7, <2>1, LeafStays
  <2> QED  BY <1>1, <1>8, <1>13, <2>1, <2>2
<1>15. Fixes(A, C, x, h, s, nb)
  <2>1. x # root' /\ color'[x] = "black" /\ color'[nb] = "black"
    BY <1>1, <1>5, <1>8, <1>12
  <2> QED  BY <1>1, <1>5, <1>7, <1>8, <1>9, <1>11, <1>12, <1>14, <2>1 DEF Fixes
<1> QED  BY <1>15, FixesKept

(* The sibling is black, or the nephew on the far side is red: nothing     *)
(* has to be turned before the next part of the fix.                       *)
LEMMA NothingToTurn ==
    ASSUME NEW U, NEW B, NEW e, Always(U, B, e), pc \in {"fix", "nephews"},
           pc' \in {"nephews", "pay"},
           NEW x, x = at, x # root, color[x] = "black",
           NEW h, NEW s, NEW b, SiblingOf(U, B, x, h, s, b), color[b] = "black",
           pc' = "pay" => child[b][Other(s)] # Nil /\ color[child[b][Other(s)]] = "red",
           at' = at, order' = order, size' = size, p' = p, entries' = entries,
           root' = root, child' = child, parent' = parent, color' = color,
           key' = key, value' = value
    PROVE  \E f : Always(U, B, f)'
<1>1. /\ x \in Live /\ Nil \notin {x, h, b} /\ s \in Sides
      /\ child[h][s] = x /\ child[h][Other(s)] = b /\ parent[x] = h /\ b # x
      /\ Reds(Live, parent, color, Nil, Nil) /\ color[root] = "black"
      /\ Balanced(Live, child, color, p, x, B)
  BY DEF SiblingOf
<1>2. /\ Shape(Live, child, parent, root, U)
      /\ Ordered(Live, child, key, U, order, p)
      /\ LeafToGo(U) /\ color \in [Live -> {"red", "black"}]
  BY FixingFacts
<1>3. Live' = Live
  BY DEF Live
<1>4. p # Nil => /\ p # root /\ p \in U[x] /\ color[p] = "black"
                 /\ \A z \in Sides : child[p][z] = Nil
  BY <1>2 DEF LeafToGo
<1>5. Fixes(U, B, x, h, s, b)
  BY <1>1, <1>2, <1>3, <1>4 DEF Fixes
<1> QED  BY <1>5, FixesKept

LEMMA FixSiblingStep ==
    ASSUME LoopAssumption, NEW U, NEW B, NEW e, Always(U, B, e), FixSibling
    PROVE  \E A, C, f : Always(A, C, f)'
<1>1. PICK x, h, s, b : x = at /\ h = parent[x] /\ s = SideOf(x) /\ b = child[h][Other(s)]
  OBVIOUS
<1>2. /\ pc = "fix" /\ pc' = "nephews" /\ x # root /\ color[x] = "black"
      /\ at' = at /\ order' = order /\ size' = size /\ p' = p /\ entries' = entries
      /\ \/ /\ ColorOf(b) = "red"
            /\ color' = [color EXCEPT ![b] = "black", ![h] = "red"]
            /\ Rotate(h, s)
         \/ /\ ColorOf(b) # "red"
            /\ root' = root /\ child' = child /\ parent' = parent /\ color' = color
            /\ key' = key /\ value' = value
  BY <1>1 DEF FixSibling, BlackMissing, Sibling, fields
<1>3. SiblingOf(U, B, x, h, s, b)
  BY <1>1, <1>2, SiblingIs
<1>4. ColorOf(b) = color[b] /\ color[b] \in {"red", "black"}
  <2>1. b # Nil /\ b \in Live
    BY <1>3 DEF SiblingOf
  <2> QED  BY <1>2, <2>1, FixingFacts DEF ColorOf
<1>5. CASE color[b] = "red"
  BY <1>1, <1>2, <1>3, <1>4, <1>5, RedSiblingStep DEF Lift
<1>6. CASE color[b] = "black"
  BY <1>1, <1>2, <1>3, <1>4, <1>6, NothingToTurn
<1> QED  BY <1>4, <1>5, <1>6

(* The nephew on the far side is black, the one on the near side red: the  *)
(* near one comes up above the sibling, and is the sibling from then on.   *)
LEMMA RedNephewStep ==
    ASSUME LoopAssumption, NEW U, NEW B, NEW e, Always(U, B, e), pc = "nephews", pc' = "pay",
           NEW x, x = at, x # root, color[x] = "black",
           NEW h, NEW s, NEW b, SiblingOf(U, B, x, h, s, b), color[b] = "black",
           NEW nb, child[b][s] = nb, nb # Nil, color[nb] = "red",
           ColorOf(child[b][Other(s)]) = "black", color' = Lift(color, nb, b),
           Rotate(b, Other(s)),
           at' = at, order' = order, size' = size, p' = p, entries' = entries
    PROVE  \E A, C, f : Always(A, C, f)'
<1>1. /\ x \in Live /\ h \in Live /\ b \in Live /\ Nil \notin {x, h, b}
      /\ s \in Sides /\ Other(s) \in Sides /\ Other(Other(s)) = s
      /\ child[h][s] = x /\ child[h][Other(s)] = b /\ parent[x] = h /\ parent[b] = h
      /\ b \notin {x, h, root} /\ x # h
      /\ Reds(Live, parent, color, Nil, Nil) /\ color[root] = "black" /\ root \in Live
      /\ p \notin {h, b} /\ p \notin U[b]
      /\ Balanced(Live, child, color, p, x, B)
  BY DEF SiblingOf
<1>2. /\ Shape(Live, child, parent, root, U) /\ Nil \notin Live /\ Typed
      /\ Ordered(Live, child, key, U, order, p)
      /\ LeafToGo(U) /\ color \in [Live -> {"red", "black"}]
  BY FixingFacts
<1>3. PICK t : t = Other(s)
  OBVIOUS
<1>4. /\ t \in Sides /\ Other(t) = s /\ child[b][Other(t)] = nb
      /\ nb \in Live /\ nb \notin {b, h, x, root} /\ p # nb /\ parent[nb] = b
  <2>1. t \in Sides /\ Other(t) = s
    BY <1>1, <1>3
  <2>2. parent[nb] = b /\ nb \in Below(U, nb) /\ Below(U, nb) \subseteq U[b]
    BY <1>1, <1>2, Kids
  <2>3. nb \in Live /\ nb # b /\ nb # root /\ nb # h
    BY <1>1, <1>2, Acyclic
  <2> QED  BY <1>1, <2>1, <2>2, <2>3
<1>5. \A n \in {child[b][t], child[nb][t]} \ {Nil} : color[n] = "black"
  <2>1. child[b][t] # Nil => color[child[b][t]] = "black"
    BY <1>3 DEF ColorOf
  <2>2. child[nb][t] \in Live \cup {Nil} /\ (child[nb][t] # Nil => parent[child[nb][t]] = nb)
    BY <1>2, <1>4, Kids
  <2>3. child[nb][t] # Nil => color[child[nb][t]] = "black"
    BY <1>2, <1>4, <2>2 DEF Reds, SiblingOf
  <2> QED  BY <2>1, <2>3
<1>6. PICK A : A = Turned(U, child, b, nb, t)
  OBVIOUS
<1>7. /\ Live' = Live /\ key' = key /\ value' = value
      /\ Rotated(Live, child, parent, root, child', parent', root', b, nb, t)
      /\ Shape(Live, child', parent', root', A)
      /\ Ordered(Live, child', key, A, order, p)
  <2>1. Rotate(b, t) /\ child[b][Other(t)] # Nil /\ p # b
    BY <1>1, <1>3, <1>4
  <2> QED  BY <1>1, <1>2, <1>4, <1>6, <2>1, RotateTree
<1>8. /\ color' \in [Live -> {"red", "black"}]
      /\ color'[nb] = "black" /\ color'[b] = "red"
      /\ \A n \in Live \ {nb, b} : color'[n] = color[n]
  BY <1>1, <1>2, <1>4 DEF Lift
<1>9. PICK C : Balanced(Live, child', color', p, x, C)
  <2>1. Balanced(Live, child, color, p, x, B) /\ p \notin {nb, b} /\ x \notin {nb, b}
    BY <1>1, <1>4
  <2> QED  BY <1>2, <1>7, <1>8, <2>1, RaisedBalanced
<1>10. Reds(Live, parent', color', Nil, Nil) /\ color'[root'] = "black"
  BY <1>1, <1>2, <1>5, <1>7, <1>8, Raised
<1>11. /\ parent'[x] = h /\ child'[h][s] = x /\ child'[h][Other(s)] = nb
       /\ root' = root /\ child'[nb][Other(s)] = b
  <2>1. child[nb][t] # h /\ x # child[nb][t]
    <3>1. child[nb][t] # Nil => parent[child[nb][t]] = nb
      BY <1>2, <1>4, Kids
    <3>2. child[nb][t] # h
      <4>1. h \notin U[b] /\ U[nb] \subseteq U[b] /\ Below(U, child[nb][t]) \subseteq U[nb]
        <5>1. h \notin Below(U, child[h][Other(s)]) /\ Below(U, child[h][Other(s)]) = U[b]
          BY <1>1, <1>2, Kids
        <5>2. Below(U, child[b][s]) \subseteq U[b] /\ Below(U, child[b][s]) = U[nb]
          BY <1>1, <1>2, Kids
        <5>3. Below(U, child[nb][t]) \subseteq U[nb]
          BY <1>2, <1>4, Kids
        <5> QED  BY <5>1, <5>2, <5>3
      <4>2. child[nb][t] # Nil => child[nb][t] \in Below(U, child[nb][t])
        BY <1>2, <1>4, Kids
      <4> QED  BY <1>1, <4>1, <4>2
    <3> QED  BY <1>1, <1>4, <3>1, <3>2
  <2> QED  BY <1>1, <1>3, <1>4, <1>7, <2>1 DEF Rotated
<1>12. A[x] = U[x]
  BY <1>1, <1>2, <1>4, <1>6 DEF Turned, Shape
<1>13. p # Nil => /\ p # root' /\ p \in A[x] /\ color'[p] = "black"
                  /\ \A z \in Sides : child'[p][z] = Nil
  <2> HAVE p # Nil
  <2>1. /\ p # root /\ p \in U[x] /\ color[p] = "black" /\ p \in Live
        /\ \A z \in Sides : child[p][z] = Nil
    BY <1>2 DEF LeafToGo, Typed
  <2>2. p # root' /\ \A z \in Sides : child'[p][z] = Nil
    BY <1>1, <1>2, <1>4, <1>7, <2>1, LeafStays
  <2> QED  BY <1>1, <1>4, <1>8, <1>12, <2>1, <2>2
<1>14. Fixes(A, C, x, h, s, nb)
  <2>1. x # root' /\ color'[x] = "black"
    BY <1>1, <1>4, <1>8, <1>11
  <2> QED  BY <1>1, <1>4, <1>7, <1>8, <1>9, <1>10, <1>11, <1>13, <2>1 DEF Fixes
<1> QED  BY <1>14, FixesKept

LEMMA FixNephewStep ==
    ASSUME LoopAssumption, NEW U, NEW B, NEW e, Always(U, B, e), FixNephew
    PROVE  \E A, C, f : Always(A, C, f)'
<1>1. PICK x, h, s, b : x = at /\ h = parent[x] /\ s = SideOf(x) /\ b = child[h][Other(s)]
  OBVIOUS
<1>2. PICK nb, far : child[b][s] = nb /\ far = child[b][Other(s)]
  OBVIOUS
<1>3. /\ pc = "nephews" /\ pc' = "pay"
      /\ ~(ColorOf(nb) = "black" /\ ColorOf(far) = "black")
      /\ at' = at /\ order' = order /\ size' = size /\ p' = p /\ entries' = entries
      /\ \/ /\ ColorOf(far) = "black"
            /\ color' = [Updated(color, nb, "black") EXCEPT ![b] = "red"]
            /\ Rotate(b, Other(s))
         \/ /\ ColorOf(far) # "black"
            /\ root' = root /\ child' = child /\ parent' = parent /\ color' = color
            /\ key' = key /\ value' = value
  BY <1>1, <1>2 DEF FixNephew, Sibling, Near, Far, fields
<1>4. /\ Shape(Live, child, parent, root, U) /\ Nil \notin Live
      /\ color \in [Live -> {"red", "black"}]
      /\ x # root /\ color[x] = "black" /\ color[b] = "black"
  BY <1>1, <1>3, FixingFacts DEF InFix, Sibling
<1>5. SiblingOf(U, B, x, h, s, b)
  BY <1>1, <1>3, <1>4, SiblingIs
<1>6. nb \in Live \cup {Nil} /\ far \in Live \cup {Nil}
  <2>1. b \in Live /\ s \in Sides /\ Other(s) \in Sides
    BY <1>5 DEF SiblingOf
  <2> QED  BY <1>2, <1>4, <2>1, Kids
<1>7. CASE ColorOf(far) = "black"
  <2>1. nb # Nil /\ color[nb] = "red"
    BY <1>3, <1>4, <1>6, <1>7 DEF ColorOf
  <2>2. color' = Lift(color, nb, b)
    BY <1>3, <1>7, <2>1 DEF Updated, Lift
  <2> QED  BY <1>1, <1>2, <1>3, <1>4, <1>5, <1>7, <2>1, <2>2, RedNephewStep
<1>8. CASE ColorOf(far) # "black"
  <2>1. far # Nil /\ color[far] = "red"
    BY <1>4, <1>6, <1>8 DEF ColorOf
  <2> QED  BY <1>1, <1>2, <1>3, <1>4, <1>5, <1>8, <2>1, NothingToTurn
<1> QED  BY <1>7, <1>8

(* The sibling comes up above the parent and takes its colour; the parent  *)
(* and the nephew on the far side are black from then on.                  *)
Pay(col, f, b, h) == [Updated(col, f, "black") EXCEPT ![b] = col[h], ![h] = "black"]

Paid(N, c, col, col1, x, far, h, b, s) ==
    /\ x = c[h][s] /\ x # Nil /\ far = c[b][Other(s)] /\ far # Nil
    /\ col[x] = "black" /\ col[b] = "black" /\ col[far] = "red"
    /\ col1[b] = col[h] /\ col1[h] = "black" /\ col1[far] = "black"
    /\ \A n \in N \ {far, b, h} : col1[n] = col[n]

LEMMA PaidBalanced ==
    ASSUME NEW N, NEW c, NEW up, NEW rt, NEW U, Shape(N, c, up, rt, U),
           NEW c1, NEW up1, NEW rt1, NEW h, NEW b, NEW s,
           Rotated(N, c, up, rt, c1, up1, rt1, h, b, s),
           NEW x, NEW far, NEW col, NEW col1, Paid(N, c, col, col1, x, far, h, b, s),
           NEW d, d \notin {h, b, far}, NEW B, Balanced(N, c, col, d, x, B), B[x] >= 1
    PROVE  \E C : Balanced(N, c1, col1, d, Nil, C)
<1>1. h \in N /\ s \in Sides /\ b = c[h][Other(s)] /\ b # Nil
  BY DEF Rotated
<1>0. /\ c[h][s] = x /\ x # Nil /\ c[b][Other(s)] = far /\ far # Nil
      /\ col[x] = "black" /\ col[b] = "black" /\ col[far] = "red"
      /\ col1[b] = col[h] /\ col1[h] = "black" /\ col1[far] = "black"
      /\ \A n \in N \ {far, b, h} : col1[n] = col[n]
  BY DEF Paid
<1>2. Other(s) \in Sides /\ Other(Other(s)) = s
  BY <1>1 DEF Sides, Other
<1>3. /\ Nil \notin N /\ b \in N /\ b # h /\ x \in N /\ x # h /\ x # b /\ up[b] = h
      /\ up[x] = h
  <2>1. Nil \notin N
    BY DEF Shape
  <2>2. b \in N /\ b # h /\ x \in N /\ x # h /\ x # b
    BY <1>0, <1>1, <1>2, Acyclic
  <2>3. up[b] = h /\ up[x] = h
    BY <1>0, <1>1, <1>2, Kids
  <2> QED  BY <2>1, <2>2, <2>3
<1>4. /\ far \in N /\ far # b /\ far # h /\ far # x /\ up[far] = b
      /\ far # c[b][s]
  <2>1. far \in N /\ far # b /\ far # h /\ far # c[b][s]
    BY <1>0, <1>1, <1>2, <1>3, Acyclic
  <2>2. up[far] = b
    BY <1>0, <1>2, <1>3, Kids
  <2> QED  BY <1>3, <2>1, <2>2
<1>5. PICK nb : nb = c[b][s]
  OBVIOUS
<1>6. nb \in N \cup {Nil} /\ nb \notin {h, b, x, far}
  <2>1. nb \in N \cup {Nil} /\ (nb # Nil => up[nb] = b)
    BY <1>0, <1>1, <1>3, <1>5, Kids
  <2>2. nb # Nil => nb # b /\ nb # h
    BY <1>0, <1>1, <1>3, <1>5, Acyclic
  <2>3. nb = Nil => nb \notin {h, b, x, far}
    BY <1>0, <1>1, <1>3, <1>4
  <2>4. nb # Nil => nb # x /\ nb # far
    BY <1>3, <1>4, <1>5, <2>1
  <2> QED  BY <2>1, <2>2, <2>3, <2>4
<1>7. PICK C : C = [B EXCEPT ![b] = B[h], ![h] = B[b], ![far] = B[far] + 1, ![x] = B[x] - 1]
  OBVIOUS
<1>8. /\ B \in [N -> Nat]
      /\ B[h] = Weight(col, d, x, h) + B[x]
      /\ B[h] = Weight(col, d, x, h) + B[b]
      /\ B[b] = Weight(col, d, x, b) + Height(B, nb)
      /\ B[b] = Weight(col, d, x, b) + B[far]
  <2>1. /\ B \in [N -> Nat]
        /\ \A n \in N, z \in Sides : B[n] = Weight(col, d, x, n) + Height(B, c[n][z])
    BY DEF Balanced
  <2>2. /\ B[h] = Weight(col, d, x, h) + Height(B, x)
        /\ B[h] = Weight(col, d, x, h) + Height(B, b)
        /\ B[b] = Weight(col, d, x, b) + Height(B, nb)
        /\ B[b] = Weight(col, d, x, b) + Height(B, far)
    BY <1>0, <1>1, <1>2, <1>3, <1>5, <2>1
  <2> QED  BY <1>0, <1>1, <2>1, <2>2 DEF Height
<1>9. /\ C \in [N -> Nat] /\ C[b] = B[h] /\ C[h] = B[b] /\ C[far] = B[far] + 1
      /\ C[x] = B[x] - 1 /\ \A n \in N \ {b, h, far, x} : C[n] = B[n]
  <2>1. B[x] - 1 \in Nat /\ B[far] + 1 \in Nat /\ B[h] \in Nat /\ B[b] \in Nat
    BY <1>0, <1>1, <1>3, <1>4, <1>8
  <2> QED  BY <1>0, <1>1, <1>3, <1>4, <1>7, <1>8, <2>1
<1>10. /\ \A n \in N : Weight(col, d, x, n) \in Nat /\ Weight(col1, d, Nil, n) \in Nat
       /\ Weight(col1, d, Nil, h) = 1 /\ Weight(col, d, x, b) = 1
       /\ Weight(col1, d, Nil, b) = Weight(col, d, x, h)
       /\ Weight(col1, d, Nil, far) = Weight(col, d, x, far) + 1
       /\ Weight(col1, d, Nil, x) = Weight(col, d, x, x) - 1
       /\ \A n \in N \ {b, h, far, x} : Weight(col1, d, Nil, n) = Weight(col, d, x, n)
  BY <1>0, <1>1, <1>3, <1>4 DEF Weight
<1>11. /\ B[b] \in Nat /\ B[h] \in Nat /\ B[far] \in Nat /\ B[x] \in Nat /\ Height(B, nb) \in Nat
       /\ Height(C, nb) = Height(B, nb) /\ Height(C, x) = C[x] /\ Height(C, far) = C[far]
       /\ Weight(col, d, x, h) \in Nat
  BY <1>0, <1>1, <1>3, <1>4, <1>6, <1>8, <1>9, <1>10 DEF Height
<1>12. Refitted(N, c, col, col1, d, x, Nil, B, C, h, b, s)
  <2>1. \A n \in N \ {h, b} :
            C[n] - Weight(col1, d, Nil, n) = B[n] - Weight(col, d, x, n)
    <3> TAKE n \in N \ {h, b}
    <3>1. B[n] \in Nat /\ Weight(col, d, x, n) \in Nat
      BY <1>8, <1>10
    <3> QED  BY <1>9, <1>10, <3>1
  <2>2. \A n \in N \ {h, b, x, nb, far} : C[n] = B[n]
    BY <1>9
  <2>3. C[h] = 1 + C[x] /\ C[h] = 1 + Height(C, nb)
    BY <1>0, <1>8, <1>9, <1>10, <1>11
  <2>4. C[b] = Weight(col, d, x, h) + C[h] /\ C[b] = Weight(col, d, x, h) + C[far]
    BY <1>0, <1>8, <1>9, <1>10, <1>11
  <2>5. /\ C[h] = Weight(col1, d, Nil, h) + Height(C, x)
        /\ C[h] = Weight(col1, d, Nil, h) + Height(C, nb)
        /\ C[b] = Weight(col1, d, Nil, b) + C[h]
        /\ C[b] = Weight(col1, d, Nil, b) + Height(C, far)
    BY <1>10, <1>11, <2>3, <2>4
  <2> QED  BY <1>0, <1>5, <1>9, <1>10, <2>1, <2>2, <2>5 DEF Refitted
<1>13. Balanced(N, c1, col1, d, Nil, C)
  BY <1>12, RotatedBalanced
<1> QED  BY <1>13

LEMMA PaidReds ==
    ASSUME NEW N, NEW c, NEW up, NEW rt, NEW U, Shape(N, c, up, rt, U),
           NEW c1, NEW up1, NEW rt1, NEW h, NEW b, NEW s,
           Rotated(N, c, up, rt, c1, up1, rt1, h, b, s),
           NEW far, far = c[b][Other(s)], far # Nil,
           NEW col, Reds(N, up, col, Nil, Nil),
           NEW col1 \in [N -> {"red", "black"}],
           col1[b] = col[h], col1[h] = "black", col1[far] = "black",
           \A n \in N \ {far, b, h} : col1[n] = col[n]
    PROVE  \A y : Reds(N, up1, col1, y, y)
<1>1. /\ h \in N /\ s \in Sides /\ b = c[h][Other(s)] /\ b # Nil
      /\ up1[h] = b /\ up1[b] = up[h] /\ up1 \in [N -> N \cup {Nil}]
      /\ \A n \in N \ {h, b} : up1[n] = IF n = c[b][s] THEN h ELSE up[n]
  BY DEF Rotated
<1>2. Other(s) \in Sides /\ Other(Other(s)) = s /\ Nil \notin N
  BY <1>1 DEF Sides, Other, Shape
<1>3. b \in N /\ b # h /\ up[b] = h /\ up[h] # b
  <2>1. b \in N /\ b # h /\ up[h] # b
    BY <1>1, <1>2, Acyclic
  <2>2. up[b] = h
    BY <1>1, <1>2, Kids
  <2> QED  BY <2>1, <2>2
<1>4. \A n \in N : up[n] = b => n = far \/ n = c[b][s]
  BY <1>1, <1>2, <1>3, KidsOf
<1>5. \A n \in N : col[n] = "red" /\ up[n] # Nil => col[up[n]] = "black"
  BY <1>2 DEF Reds
<1>6. ASSUME NEW n \in N, col1[n] = "red", up1[n] # Nil
      PROVE  col1[up1[n]] = "black"
  <2>1. n # h /\ n # far /\ up1[n] \in N
    BY <1>1, <1>6
  <2>2. CASE n = b
    <3>1. col[up[h]] = "black" /\ up1[n] = up[h] /\ up[h] # b
      BY <1>1, <1>3, <1>5, <1>6, <2>2
    <3> QED  BY <2>1, <3>1
  <2>3. CASE n # b
    <3>1. col[n] = "red"
      BY <1>6, <2>1, <2>3
    <3>2. CASE n = c[b][s]
      BY <1>1, <2>1, <2>3, <3>2
    <3>3. CASE n # c[b][s]
      <4>1. up1[n] = up[n] /\ up[n] # b
        BY <1>1, <1>4, <2>1, <2>3, <3>3
      <4>2. col[up[n]] = "black"
        BY <1>5, <1>6, <3>1, <4>1
      <4> QED  BY <2>1, <4>1, <4>2
    <3> QED  BY <3>2, <3>3
  <2> QED  BY <2>2, <2>3
<1> QED  BY <1>6 DEF Reds

LEMMA FixPayStep ==
    ASSUME LoopAssumption, NEW U, NEW B, NEW e, Always(U, B, e), FixPay
    PROVE  \E A, C, f : Always(A, C, f)'
<1>1. PICK x, h, s, b : x = at /\ h = parent[x] /\ s = SideOf(x) /\ b = child[h][Other(s)]
  OBVIOUS
<1>2. PICK far : far = child[b][Other(s)]
  OBVIOUS
<1>3. /\ pc = "pay" /\ pc' = "fix" /\ at' = root'
      /\ color' = Pay(color, far, b, h) /\ Rotate(h, s)
      /\ order' = order /\ size' = size /\ p' = p /\ entries' = entries
  BY <1>1, <1>2 DEF FixPay, Sibling, Far, Pay
<1>4. /\ Shape(Live, child, parent, root, U) /\ Nil \notin Live /\ Typed
      /\ Ordered(Live, child, key, U, order, p)
      /\ LeafToGo(U) /\ color \in [Live -> {"red", "black"}]
      /\ x # root /\ color[x] = "black" /\ color[b] = "black"
      /\ far # Nil /\ color[far] = "red"
  BY <1>1, <1>2, <1>3, FixingFacts DEF InFix, Sibling, Far
<1>5. SiblingOf(U, B, x, h, s, b)
  BY <1>1, <1>3, <1>4, SiblingIs
<1>6. /\ x \in Live /\ h \in Live /\ b \in Live /\ Nil \notin {x, h, b}
      /\ s \in Sides /\ Other(s) \in Sides /\ Other(Other(s)) = s
      /\ child[h][s] = x /\ child[h][Other(s)] = b /\ parent[b] = h
      /\ b \notin {x, h, root}
      /\ Reds(Live, parent, color, Nil, Nil)
      /\ p \notin {h, b} /\ p \notin U[b]
      /\ Balanced(Live, child, color, p, x, B) /\ B[x] >= 1
  BY <1>5 DEF SiblingOf
<1>7. far \in Live /\ far # b /\ far # h /\ p # far
  <2>1. far \in Live /\ far # b /\ far # h
    BY <1>2, <1>4, <1>6, Acyclic
  <2>2. far \in U[b]
    BY <1>2, <1>4, <1>6, Kids
  <2> QED  BY <1>6, <2>1, <2>2
<1>8. PICK A : A = Turned(U, child, h, b, s)
  OBVIOUS
<1>9. /\ Live' = Live /\ key' = key /\ value' = value
      /\ Rotated(Live, child, parent, root, child', parent', root', h, b, s)
      /\ Shape(Live, child', parent', root', A)
      /\ Ordered(Live, child', key, A, order, p)
  <2>1. Ordered(Live, child, key, U, order, p) /\ p # h /\ child[h][Other(s)] # Nil
    BY <1>4, <1>6
  <2> QED  BY <1>3, <1>4, <1>6, <1>8, <2>1, RotateTree
<1>10. /\ color' \in [Live -> {"red", "black"}]
       /\ color'[b] = color[h] /\ color'[h] = "black" /\ color'[far] = "black"
       /\ \A n \in Live \ {far, b, h} : color'[n] = color[n]
  BY <1>3, <1>4, <1>6, <1>7 DEF Pay, Updated
<1>11. PICK C : Balanced(Live, child', color', p, Nil, C)
  <2>1. p \notin {h, b, far} /\ Paid(Live, child, color, color', x, far, h, b, s)
    BY <1>2, <1>4, <1>6, <1>7, <1>10 DEF Paid
  <2>2. Balanced(Live, child, color, p, x, B) /\ B[x] >= 1
    BY <1>6
  <2> QED  BY <1>4, <1>9, <2>1, <2>2, PaidBalanced
<1>12. Reds(Live, parent', color', at', at')
  <2>1. Reds(Live, parent, color, Nil, Nil)
    BY <1>6
  <2> QED  BY <1>2, <1>4, <1>9, <1>10, <2>1, PaidReds
<1>13. root' \in Live /\ A[root'] = Live
  <2>1. root' \in Live /\ root' # Nil
    BY <1>6, <1>9, ParentThere
  <2> QED  BY <1>9, <2>1 DEF Shape
<1>14. p # Nil => /\ p # root' /\ p \in A[root'] /\ color'[p] = "black"
                  /\ \A z \in Sides : child'[p][z] = Nil
  <2> HAVE p # Nil
  <2>1. /\ p # root /\ color[p] = "black" /\ p \in Live
        /\ \A z \in Sides : child[p][z] = Nil
    BY <1>4 DEF LeafToGo, Typed
  <2>2. p # root' /\ \A z \in Sides : child'[p][z] = Nil
    BY <1>4, <1>6, <1>9, <2>1, LeafStays
  <2> QED  BY <1>6, <1>7, <1>10, <1>13, <2>1, <2>2
<1>15. Fixes(A, C, Nil, h, s, b)
  BY <1>3, <1>9, <1>10, <1>11, <1>12, <1>13, <1>14 DEF Fixes
<1> QED  BY <1>3, <1>15, FixesKept
-----------------------------------------------------------------------------
(* The queries.                                                            *)
Reach == IF call.side = "left" THEN -order ELSE order

LEMMA ReachIs ==
    ASSUME order \in {1, -1}, call.side \in Sides, NEW i \in Int, NEW j \in Int
    PROVE  /\ (Reach * i > Reach * j) <=> On(order, call.side, i, j)
           /\ (Reach * j <= Reach * i) <=> (i = j \/ On(order, call.side, i, j))
<1>1. CASE call.side = "left"
  <2>1. Reach = -order /\ -order \in {1, -1}
    BY <1>1, Times DEF Reach
  <2>2. /\ (-order * i > -order * j) <=> On(-order, "left", j, i)
        /\ (-order * j <= -order * i) <=> (j = i \/ On(-order, "left", j, i))
    BY <2>1, Times
  <2>3. On(-order, "left", j, i) <=> On(order, "left", i, j)
    BY <1>1 DEF On
  <2> QED  BY <1>1, <2>1, <2>2, <2>3
<1>2. CASE call.side = "right"
  <2>1. Reach = order
    BY <1>2 DEF Reach
  <2>2. /\ (order * i > order * j) <=> On(order, "left", j, i)
        /\ (order * j <= order * i) <=> (j = i \/ On(order, "left", j, i))
    BY Times
  <2>3. On(order, "left", j, i) <=> On(order, "right", i, j)
    BY DEF On
  <2> QED  BY <1>2, <2>1, <2>2, <2>3
<1> QED  BY <1>1, <1>2 DEF Sides

LEMMA CountsIs ==
    ASSUME call.side \in Sides, order \in {1, -1}, NEW n
    PROVE  /\ IsBeyond(n) <=> On(order, call.side, key[n], call.k)
           /\ IsBeyond(n) => NearTurn(n) = Other(call.side)
           /\ ~IsBeyond(n) => NearTurn(n) = call.side
           /\ Counts(n) <=> IsBeyond(n) \/ Matches(n)
  BY DEF IsBeyond, NearTurn, Counts, Sides, Before, On

(* What is known of a tree that a query looks at.                          *)
Queried(U) ==
    /\ Shape(Live, child, parent, root, U) /\ Typed /\ Nil \notin Live
    /\ Ordered(Live, child, key, U, order, Nil)
    /\ Holds(Live, key, value, entries, Nil) /\ Sought
    /\ \A n \in Live : key[n] \in Int
    /\ call.k \in Int /\ call.side \in Sides /\ Other(call.side) \in Sides
    /\ order \in {1, -1} /\ p \in Live \cup {Nil} /\ root \in Live \cup {Nil}

LEMMA QueriedIs ==
    ASSUME LoopAssumption, NEW U, NEW B, NEW e, Always(U, B, e), pc \in {"near", "climb"}
    PROVE  Queried(U) /\ InNear(U) /\ Looking
<1>1. ~Deleting /\ ~Inserting /\ Search = Nil /\ pc # "fix"
  BY DEF Deleting, Inserting, Fixing, Search
<1>2. /\ Shape(Live, child, parent, root, U) /\ Typed
      /\ Ordered(Live, child, key, U, order, Nil)
      /\ Contents /\ InNear(U) /\ Sought
  BY <1>1 DEF Always, Tree, Loops, InNear
<1>3. Holds(Live, key, value, entries, Nil)
  BY <1>1, <1>2 DEF Contents
<1>4. /\ \A n \in Live : key[n] \in Int
      /\ call.k \in Int /\ order \in {1, -1}
  BY <1>2, Numbers DEF Sought
<1>5. Other(call.side) \in Sides /\ call.side \in Sides
  BY <1>2 DEF Sought, Other, Sides
<1> QED  BY <1>1, <1>2, <1>3, <1>4, <1>5 DEF Queried, Typed, Shape, Looking

(* The keys that count, in the words of SortedMap.                         *)
LEMMA NearestIs ==
    ASSUME NEW U, Queried(U), NEW a \in Live, Counts(a),
           \A m \in Live : Counts(m) => m = a \/ On(order, call.side, key[m], key[a])
    PROVE  {key[a]} = Dict!Nearest(call.k, Reach, call.inclusive)
<1>1. DOMAIN entries = {key[n] : n \in Live}
  BY DEF Queried, Holds
<1>2. /\ \A n \in Live : key[n] \in Int
      /\ call.k \in Int /\ call.side \in Sides /\ order \in {1, -1}
  BY DEF Queried
<1>3. ASSUME NEW n \in Live
      PROVE  key[n] \in Dict!Beyond(call.k, Reach, call.inclusive) <=> Counts(n)
  <2>1. (Reach * key[n] > Reach * call.k) <=> IsBeyond(n)
    BY <1>2, ReachIs, CountsIs
  <2>2. key[n] \in DOMAIN entries
    BY <1>1
  <2> QED  BY <2>1, <2>2 DEF Dict!Beyond, Dict!Present, Counts, Matches
<1>4. \A j \in Dict!Beyond(call.k, Reach, call.inclusive) : \E n \in Live : j = key[n] /\ Counts(n)
  <2>1. \A j \in Dict!Beyond(call.k, Reach, call.inclusive) : j \in DOMAIN entries
    BY DEF Dict!Beyond, Dict!Present
  <2> QED  BY <1>1, <1>3, <2>1
<1>5. ASSUME NEW m \in Live, Counts(m)
      PROVE  Reach * key[a] <= Reach * key[m]
  <2>1. key[m] = key[a] \/ On(order, call.side, key[m], key[a])
    BY <1>5
  <2> QED  BY <1>2, <2>1, ReachIs
<1>6. ASSUME NEW m \in Live, Counts(m), key[m] # key[a]
      PROVE  ~(Reach * key[m] <= Reach * key[a])
  <2>1. On(order, call.side, key[m], key[a])
    BY <1>6
  <2>2. ~On(order, call.side, key[a], key[m])
    BY <1>2, <2>1, OnFacts
  <2> QED  BY <1>2, <1>6, <2>2, ReachIs
<1>7. key[a] \in Dict!Nearest(call.k, Reach, call.inclusive)
  BY <1>3, <1>4, <1>5 DEF Dict!Nearest
<1>8. \A j \in Dict!Nearest(call.k, Reach, call.inclusive) : j = key[a]
  <2> TAKE j \in Dict!Nearest(call.k, Reach, call.inclusive)
  <2>1. /\ j \in Dict!Beyond(call.k, Reach, call.inclusive)
        /\ \A i \in Dict!Beyond(call.k, Reach, call.inclusive) : Reach * j <= Reach * i
    BY DEF Dict!Nearest
  <2>2. PICK m \in Live : j = key[m] /\ Counts(m)
    BY <1>4, <2>1
  <2>3. Reach * key[m] <= Reach * key[a]
    BY <1>3, <2>1, <2>2
  <2> QED  BY <1>6, <2>2, <2>3
<1> QED  BY <1>7, <1>8

LEMMA NoneNear ==
    ASSUME NEW U, Queried(U), \A m \in Live : ~Counts(m)
    PROVE  {} = Dict!Nearest(call.k, Reach, call.inclusive)
<1>1. DOMAIN entries = {key[n] : n \in Live}
  BY DEF Queried, Holds
<1>2. /\ \A n \in Live : key[n] \in Int
      /\ call.k \in Int /\ call.side \in Sides /\ order \in {1, -1}
  BY DEF Queried
<1>3. ASSUME NEW n \in Live
      PROVE  key[n] \notin Dict!Beyond(call.k, Reach, call.inclusive)
  <2>1. (Reach * key[n] > Reach * call.k) <=> IsBeyond(n)
    BY <1>2, ReachIs, CountsIs
  <2> QED  BY <2>1 DEF Dict!Beyond, Dict!Present, Counts, Matches
<1>4. Dict!Beyond(call.k, Reach, call.inclusive) = {}
  <2>1. \A j \in Dict!Beyond(call.k, Reach, call.inclusive) : j \in DOMAIN entries
    BY DEF Dict!Beyond, Dict!Present
  <2> QED  BY <1>1, <1>3, <2>1
<1> QED  BY <1>4 DEF Dict!Nearest

(* On the other side of a node that does not count none does.              *)
LEMMA NoneBeyond ==
    ASSUME NEW U, Queried(U), NEW y \in Live, ~Counts(y),
           NEW m \in Below(U, child[y][Other(call.side)])
    PROVE  ~Counts(m)
<1>1. m \in Live /\ m # Nil
  <2>1. Below(U, child[y][Other(call.side)]) \subseteq U[y] /\ U[y] \subseteq Live
    BY Kids DEF Queried
  <2> QED  BY <2>1 DEF Queried
<1>2. On(order, Other(call.side), key[m], key[y])
  BY <1>1 DEF Queried, Ordered
<1>3. /\ \A n \in Live : key[n] \in Int
      /\ call.k \in Int /\ call.side \in Sides /\ order \in {1, -1}
  BY DEF Queried
<1>4. On(order, call.side, key[y], key[m])
  BY <1>1, <1>2, <1>3, OnFacts
<1>5. ~On(order, call.side, key[y], call.k)
  BY <1>3, CountsIs
<1>6. ~On(order, call.side, key[m], call.k)
  BY <1>1, <1>3, <1>4, <1>5, OnFacts
<1>7. key[m] # call.k
  BY <1>4, <1>5
<1> QED  BY <1>3, <1>6, <1>7, CountsIs DEF Matches

(* A node that counts, to which the turns of the query lead, is the        *)
(* nearest if none below it that counts lies between it and k.             *)
LeadsTo(U, a) == \A n \in Live, s \in Sides :
    a \in Below(U, child[n][s]) => ~Matches(n) /\ s = NearTurn(n)

LEMMA LastIs ==
    ASSUME NEW U, Queried(U), NEW a \in Live, Counts(a), LeadsTo(U, a),
           \A m \in Below(U, child[a][Other(call.side)]) : ~Counts(m)
    PROVE  {key[a]} = Dict!Nearest(call.k, Reach, call.inclusive)
<1>1. /\ \A n \in Live : key[n] \in Int
      /\ call.k \in Int /\ call.side \in Sides /\ order \in {1, -1}
      /\ Other(call.side) \in Sides
      /\ Shape(Live, child, parent, root, U) /\ Ordered(Live, child, key, U, order, Nil)
      /\ Nil \notin Live
  BY DEF Queried
<1>2. Other(Other(call.side)) = call.side /\ Other(call.side) # call.side
  BY <1>1 DEF Sides, Other
<1>3. \A n \in Live, s \in Sides, m \in Live :
          m \in Below(U, child[n][s]) => On(order, s, key[m], key[n])
  BY <1>1 DEF Ordered
<1>4. ASSUME NEW m \in Live, Counts(m), m # a
      PROVE  On(order, call.side, key[m], key[a])
  <2>1. CASE m \in U[a]
    <3>1. U[a] = {a} \cup Below(U, child[a][call.side])
                     \cup Below(U, child[a][Other(call.side)])
      BY <1>1, Kids
    <3>2. m \in Below(U, child[a][call.side])
      BY <1>4, <2>1, <3>1
    <3> QED  BY <1>1, <1>3, <3>2
  <2>2. CASE m \notin U[a]
    <3>1. PICK y \in Live, s \in Sides : /\ a \in Below(U, child[y][s])
                                         /\ m \in {y} \cup Below(U, child[y][Other(s)])
      BY <1>1, <2>2, Fork
    <3>2. ~Matches(y) /\ s = NearTurn(y)
      BY <3>1 DEF LeadsTo
    <3>3. CASE IsBeyond(y)
      <4>1. s = Other(call.side) /\ Other(s) = call.side
        BY <1>1, <1>2, <3>2, <3>3, CountsIs
      <4>2. On(order, call.side, key[y], key[a])
        <5>1. On(order, Other(call.side), key[a], key[y])
          BY <1>3, <3>1, <4>1
        <5> QED  BY <1>1, <5>1, OnFacts
      <4>3. m = y \/ On(order, call.side, key[m], key[y])
        BY <1>1, <1>3, <3>1, <4>1
      <4> QED  BY <1>1, <4>2, <4>3, OnFacts
    <3>4. CASE ~IsBeyond(y)
      <4>1. s = call.side /\ ~Counts(y)
        BY <1>1, <3>2, <3>4, CountsIs
      <4>2. m # y
        BY <1>4, <4>1
      <4>3. m \in Below(U, child[y][Other(call.side)])
        BY <3>1, <4>1, <4>2
      <4> QED  BY <1>4, <4>1, <4>3, NoneBeyond
    <3> QED  BY <3>3, <3>4
  <2> QED  BY <2>1, <2>2
<1> QED  BY <1>4, NearestIs

LEMMA MatchIs ==
    ASSUME NEW U, Queried(U), NEW a \in Live, Matches(a)
    PROVE  {key[a]} = Dict!Nearest(call.k, Reach, call.inclusive)
<1>1. /\ \A n \in Live : key[n] \in Int
      /\ call.k \in Int /\ call.side \in Sides /\ order \in {1, -1}
      /\ Shape(Live, child, parent, root, U) /\ Ordered(Live, child, key, U, order, Nil)
      /\ Typed
  BY DEF Queried
<1>2. Counts(a) /\ key[a] = call.k
  BY <1>1, CountsIs DEF Matches
<1>3. ASSUME NEW m \in Live, Counts(m), m # a
      PROVE  On(order, call.side, key[m], key[a])
  <2>1. key \in [Live -> Int]
    BY <1>1 DEF Typed
  <2>2. key[m] # key[a]
    BY <1>1, <1>3, <2>1, KeysDiffer
  <2>3. IsBeyond(m)
    BY <1>2, <1>3, <2>2 DEF Counts, Matches
  <2> QED  BY <1>1, <1>2, <2>3, CountsIs
<1> QED  BY <1>2, <1>3, NearestIs

(* What has to be shown of a step of a query.                              *)
LEMMA QueryGoesOn ==
    ASSUME LoopAssumption, NEW U, NEW B, NEW e, Always(U, B, e), pc \in {"near", "climb"},
           Still, call' = call, p' = p, entries' = entries,
           pc' \in {"near", "climb"}, at' \in Live, LeadsTo(U, at'),
           pc' = "climb" => \A m \in U[at'] : ~Counts(m)
    PROVE  Always(U, B, Nil)'
<1>1. /\ Queried(U) /\ Looking
      /\ Sought /\ Nil \notin Live /\ p \in Live \cup {Nil} /\ at' # Nil
  BY QueriedIs DEF Queried
<1>2. Looking'
  BY DEF Looking, Deleting, Inserting, Fixing
<1>3. Tree(U, B, Nil)' /\ Live' = Live
  BY <1>1, <1>2, LookingTree
<1>4. order' = order /\ child' = child /\ key' = key /\ root' = root
  BY DEF Still, fields
<1>5. Way(U)' /\ Sought'
  BY <1>1, <1>3, <1>4 DEF Way, LeadsTo, Sought, Matches, NearTurn, IsBeyond, Before
<1>6. InNear(U)'
  <2>1. pc' = "climb" => \A m \in U[at'] : ~Counts(m)'
    BY <1>4 DEF Counts, Matches, IsBeyond, Before
  <2> QED  BY <1>1, <1>5, <2>1 DEF InNear
<1>7. Loops(U, Nil)'
  BY <1>6 DEF Loops, Extra, Idle, InFind, InEnds, InSuccessor, InUnlink, InInsert,
     Inserting, InFix, InTakeOff, Answered
<1> QED  BY <1>3, <1>7 DEF Always

LEMMA QueryAnswers ==
    ASSUME LoopAssumption, NEW U, NEW B, NEW e, Always(U, B, e), pc \in {"near", "climb"},
           Still, call' = call, p' = p, entries' = entries,
           pc' = "answered", at' \in Live \cup {Nil},
           {key[n] : n \in {at'} \ {Nil}} = Dict!Nearest(call.k, Reach, call.inclusive)
    PROVE  Always(U, B, Nil)'
<1>1. /\ Queried(U) /\ Looking
      /\ Sought /\ p \in Live \cup {Nil}
  BY QueriedIs DEF Queried
<1>2. Looking'
  BY DEF Looking, Deleting, Inserting, Fixing
<1>3. Tree(U, B, Nil)' /\ Live' = Live
  BY <1>1, <1>2, LookingTree
<1>4. order' = order /\ key' = key
  BY DEF Still, fields
<1>5. Sought'
  BY <1>1 DEF Sought
<1>6. LoopAnswers'
  BY <1>4 DEF LoopAnswers, Reach, Dict!Nearest, Dict!Beyond, Dict!Present
<1>7. Loops(U, Nil)'
  BY <1>5, <1>6 DEF Loops, Extra, Idle, InFind, InEnds, InSuccessor, InUnlink, InInsert,
     Inserting, InFix, InTakeOff, InNear, Answered
<1> QED  BY <1>3, <1>7 DEF Always

LEMMA NearFoundStep ==
    ASSUME LoopAssumption, NEW U, NEW B, NEW e, Always(U, B, e), NearFound
    PROVE  Always(U, B, Nil)'
<1>1. /\ pc = "near" /\ (at # Nil => Matches(at)) /\ pc' = "answered" /\ at' = at
      /\ Still /\ call' = call /\ p' = p /\ entries' = entries
  BY DEF NearFound, Answer, Still
<1>2. Queried(U) /\ InNear(U)
  BY <1>1, QueriedIs
<1>3. at \in Live \cup {Nil} /\ Nil \notin Live /\ (root = Nil => Live = {})
  BY <1>2 DEF Queried, Typed, Shape
<1>4. {key[n] : n \in {at} \ {Nil}} = Dict!Nearest(call.k, Reach, call.inclusive)
  <2>1. CASE at = Nil
    <3>1. Live = {}
      BY <1>1, <1>2, <1>3, <2>1 DEF InNear
    <3>2. {} = Dict!Nearest(call.k, Reach, call.inclusive)
      BY <1>2, <3>1, NoneNear
    <3>3. {key[n] : n \in {at} \ {Nil}} = {}
      BY <2>1
    <3> QED  BY <3>2, <3>3
  <2>2. CASE at # Nil
    <3>1. {key[at]} = Dict!Nearest(call.k, Reach, call.inclusive)
      BY <1>1, <1>2, <1>3, <2>2, MatchIs
    <3>2. {key[n] : n \in {at} \ {Nil}} = {key[at]}
      BY <2>2
    <3> QED  BY <3>1, <3>2
  <2> QED  BY <2>1, <2>2
<1> QED  BY <1>1, <1>3, <1>4, QueryAnswers

LEMMA NearDownStep ==
    ASSUME LoopAssumption, NEW U, NEW B, NEW e, Always(U, B, e), NearDown
    PROVE  Always(U, B, Nil)'
<1>1. /\ pc = "near" /\ at # Nil /\ ~Matches(at)
      /\ Still /\ call' = call /\ p' = p /\ entries' = entries
      /\ \/ /\ child[at][NearTurn(at)] # Nil
            /\ at' = child[at][NearTurn(at)] /\ pc' = pc
         \/ /\ child[at][NearTurn(at)] = Nil /\ IsBeyond(at)
            /\ pc' = "answered" /\ at' = at
         \/ /\ child[at][NearTurn(at)] = Nil /\ ~IsBeyond(at)
            /\ pc' = "climb" /\ at' = at
  BY DEF NearDown, Answer, Still
<1>2. Queried(U) /\ Way(U)
  BY <1>1, QueriedIs DEF InNear
<1>3. /\ Shape(Live, child, parent, root, U) /\ at \in Live
      /\ call.side \in Sides /\ Other(call.side) \in Sides /\ order \in {1, -1}
  BY <1>1, <1>2 DEF Queried, Typed
<1>4. LeadsTo(U, at)
  BY <1>2 DEF Way, LeadsTo
<1>5. CASE child[at][NearTurn(at)] # Nil
  <2>1. NearTurn(at) \in Sides
    BY <1>3, CountsIs
  <2>2. child[at][NearTurn(at)] \in Live
    BY <1>3, <1>5, <2>1, Acyclic
  <2>3. LeadsTo(U, child[at][NearTurn(at)])
    <3> SUFFICES ASSUME NEW n \in Live, NEW s \in Sides,
                        child[at][NearTurn(at)] \in Below(U, child[n][s])
                 PROVE  ~Matches(n) /\ s = NearTurn(n)
      BY DEF LeadsTo
    <3>1. (n = at /\ s = NearTurn(at)) \/ at \in Below(U, child[n][s])
      BY <1>3, <1>5, <2>1, AboveChild
    <3> QED  BY <1>1, <1>4, <3>1 DEF LeadsTo
  <2> QED  BY <1>1, <1>5, <2>2, <2>3, QueryGoesOn
<1>6. CASE child[at][NearTurn(at)] = Nil /\ IsBeyond(at)
  <2>1. NearTurn(at) = Other(call.side) /\ Counts(at)
    BY <1>3, <1>6, CountsIs
  <2>2. \A m \in Below(U, child[at][Other(call.side)]) : ~Counts(m)
    BY <1>6, <2>1 DEF Below
  <2>3. {key[at]} = Dict!Nearest(call.k, Reach, call.inclusive)
    BY <1>2, <1>3, <1>4, <2>1, <2>2, LastIs
  <2>4. {key[n] : n \in {at} \ {Nil}} = {key[at]}
    BY <1>1
  <2> QED  BY <1>1, <1>3, <1>6, <2>3, <2>4, QueryAnswers
<1>7. CASE child[at][NearTurn(at)] = Nil /\ ~IsBeyond(at)
  <2>1. NearTurn(at) = call.side /\ ~Counts(at)
    BY <1>1, <1>3, <1>7, CountsIs
  <2>2. \A m \in U[at] : ~Counts(m)
    <3>1. U[at] = {at} \cup Below(U, child[at][call.side])
                       \cup Below(U, child[at][Other(call.side)])
      BY <1>3, Kids
    <3>2. Below(U, child[at][call.side]) = {}
      BY <1>7, <2>1 DEF Below
    <3> QED  BY <1>2, <1>3, <2>1, <3>1, <3>2, NoneBeyond
  <2> QED  BY <1>1, <1>3, <1>4, <1>7, <2>2, QueryGoesOn
<1> QED  BY <1>1, <1>5, <1>6, <1>7

LEMMA NearClimbStep ==
    ASSUME LoopAssumption, NEW U, NEW B, NEW e, Always(U, B, e), NearClimb
    PROVE  Always(U, B, Nil)'
<1>1. /\ pc = "climb"
      /\ Still /\ call' = call /\ p' = p /\ entries' = entries /\ at' = parent[at]
      /\ \/ parent[at] # Nil /\ at = child[parent[at]][call.side] /\ pc' = pc
         \/ ~(parent[at] # Nil /\ at = child[parent[at]][call.side]) /\ pc' = "answered"
  BY DEF NearClimb, Answer, Still
<1>2. /\ Queried(U) /\ Way(U) /\ at # Nil
      /\ \A m \in U[at] : ~Counts(m)
  BY <1>1, QueriedIs DEF InNear
<1>3. /\ Shape(Live, child, parent, root, U) /\ at \in Live /\ Nil \notin Live
      /\ call.side \in Sides /\ Other(call.side) \in Sides /\ order \in {1, -1}
  BY <1>2 DEF Queried, Typed
<1>4. CASE at = root
  <2>1. parent[at] = Nil /\ U[at] = Live
    BY <1>3, <1>4 DEF Shape
  <2>2. {} = Dict!Nearest(call.k, Reach, call.inclusive)
    BY <1>2, <2>1, NoneNear
  <2>3. {key[n] : n \in {Nil} \ {Nil}} = {}
    OBVIOUS
  <2> QED  BY <1>1, <2>1, <2>2, <2>3, QueryAnswers
<1>5. CASE at # root
  <2>1. PICK y : y = parent[at]
    OBVIOUS
  <2>2. PICK s \in Sides : y \in Live /\ y # Nil /\ child[y][s] = at
    BY <1>3, <1>5, <2>1, ParentThere
  <2>3. /\ at \in Below(U, child[y][s]) /\ Below(U, child[y][s]) = U[at]
        /\ Other(s) \in Sides /\ child[y][Other(s)] # at
    <3>1. at \in Below(U, child[y][s]) /\ Below(U, child[y][s]) = U[at] /\ Other(s) \in Sides
      BY <1>2, <1>3, <2>2, Kids
    <3>2. child[y][s] # child[y][Other(s)]
      BY <1>2, <1>3, <2>2, Acyclic
    <3> QED  BY <2>2, <3>1, <3>2
  <2>4. ~Matches(y) /\ s = NearTurn(y)
    BY <1>2, <2>2, <2>3 DEF Way
  <2>5. LeadsTo(U, y)
    <3> SUFFICES ASSUME NEW n \in Live, NEW z \in Sides, y \in Below(U, child[n][z])
                 PROVE  ~Matches(n) /\ z = NearTurn(n)
      BY DEF LeadsTo
    <3>1. child[n][z] # Nil /\ Below(U, child[n][z]) = U[child[n][z]] /\ child[n][z] \in Live
      BY <1>3, Kids DEF Below
    <3>2. U[y] \subseteq U[child[n][z]]
      BY <1>3, <3>1, Nested
    <3>3. at \in U[y]
      BY <1>3, <2>2, <2>3, Kids
    <3>4. at \in Below(U, child[n][z])
      BY <3>1, <3>2, <3>3
    <3> QED  BY <1>2, <3>4 DEF Way
  <2>6. CASE at = child[y][call.side]
    <3>1. s = call.side
      BY <1>3, <2>2, <2>3, <2>6 DEF Sides, Other
    <3>2. ~Counts(y)
      <4>1. Other(call.side) # call.side
        BY <1>3 DEF Sides, Other
      <4> QED  BY <1>3, <2>4, <3>1, <4>1, CountsIs
    <3>3. \A m \in U[y] : ~Counts(m)
      <4>1. U[y] = {y} \cup Below(U, child[y][call.side])
                       \cup Below(U, child[y][Other(call.side)])
        BY <1>3, <2>2, Kids
      <4> QED  BY <1>2, <2>2, <2>3, <3>1, <3>2, <4>1, NoneBeyond
    <3> QED  BY <1>1, <2>1, <2>2, <2>5, <2>6, <3>3, QueryGoesOn
  <2>7. CASE at # child[y][call.side]
    <3>1. s = Other(call.side)
      BY <1>3, <2>2, <2>7 DEF Sides, Other
    <3>2. IsBeyond(y) /\ Counts(y)
      <4>1. Other(call.side) # call.side
        BY <1>3 DEF Sides, Other
      <4> QED  BY <1>3, <2>4, <3>1, <4>1, CountsIs
    <3>3. {key[y]} = Dict!Nearest(call.k, Reach, call.inclusive)
      BY <1>2, <2>2, <2>3, <2>5, <3>1, <3>2, LastIs
    <3>4. {key[n] : n \in {y} \ {Nil}} = {key[y]}
      BY <2>2
    <3> QED  BY <1>1, <2>1, <2>2, <2>7, <3>3, <3>4, QueryAnswers
  <2> QED  BY <2>6, <2>7
<1> QED  BY <1>4, <1>5

LEMMA NearReturnStep ==
    ASSUME NEW U, NEW B, NEW e, Always(U, B, e), NearReturn
    PROVE  Always(U, B, Nil)'
<1>1. /\ pc = "answered" /\ pc' = "idle" /\ at' = Nil /\ p' = Nil
      /\ Still /\ entries' = entries
  BY DEF NearReturn, Returns, Still
<1>2. Looking /\ Looking'
  BY <1>1 DEF Looking, Deleting, Inserting, Fixing
<1>3. Tree(U, B, Nil)'
  BY <1>1, <1>2, LookingTree
<1>4. Loops(U, Nil)'
  BY <1>1, ReturnedLoops
<1> QED  BY <1>3, <1>4 DEF Always
-----------------------------------------------------------------------------
(* The empty tree.                                                         *)
LEMMA Blank ==
    ASSUME NEW f, f = <<>>, NEW S
    PROVE  DOMAIN f = {} /\ f \in [{} -> S]
<1>1. DOMAIN f = {}
  OBVIOUS
<1>2. f = [z \in {} |-> f[z]]
  BY <1>1
<1> QED  BY <1>1, <1>2

LEMMA EmptyShape ==
    ASSUME NEW f, f = <<>>, NEW o, NEW d, NEW e, NEW x, NEW y
    PROVE  /\ Shape({}, f, f, Nil, f) /\ Ordered({}, f, f, f, o, d)
           /\ Reds({}, f, f, x, y) /\ Balanced({}, f, f, d, e, f)
           /\ Holds({}, f, f, f, d) /\ Cardinality({}) = 0
<1>1. DOMAIN f = {} /\ \A S : f \in [{} -> S]
  BY Blank
<1>2. IsFiniteSet({}) /\ Cardinality({}) = 0
  BY FS_EmptySet
<1> QED  BY <1>1, <1>2 DEF Shape, Ordered, Reds, Balanced, Holds

LEMMA InitAlways ==
    ASSUME LoopAssumption, LoopsInit
    PROVE  Always(<<>>, <<>>, Nil)
<1>1. /\ order \in {1, -1} /\ root = Nil /\ size = 0
      /\ child = <<>> /\ parent = <<>> /\ color = <<>> /\ key = <<>> /\ value = <<>>
      /\ pc = "idle" /\ at = Nil /\ p = Nil /\ entries = <<>>
  BY DEF LoopsInit, LoopAssumption, Dict!Init
<1>2. Live = {}
  BY <1>1, Blank DEF Live
<1>3. /\ color \in [{} -> {"red", "black"}] /\ key \in [{} -> LoopKeys]
      /\ value \in [{} -> LoopValues]
  BY <1>1, Blank
<1>4. Typed
  BY <1>1, <1>2, <1>3 DEF Typed
<1>5. ~Deleting /\ ~Inserting /\ ~Fixing /\ Search = Nil
  BY <1>1 DEF Deleting, Inserting, Fixing, Search
<1>6. /\ Shape(Live, child, parent, root, <<>>)
      /\ Ordered(Live, child, key, <<>>, order, Search)
      /\ Reds(Live, parent, color, Nil, Nil)
      /\ Balanced(Live, child, color, IF Fixing THEN p ELSE Nil, Nil, <<>>)
      /\ Holds(Live, key, value, entries, Nil) /\ Cardinality(Live) = 0
  BY <1>1, <1>2, <1>5, EmptyShape
<1>7. RedsKept /\ Contents /\ Sized
  BY <1>1, <1>5, <1>6 DEF RedsKept, Contents, Sized
<1>8. Loops(<<>>, Nil)
  BY <1>1 DEF Loops, Extra, Idle, InFind, InEnds, InSuccessor, InUnlink, InInsert,
     Inserting, InFix, InTakeOff, InNear, Answered
<1> QED  BY <1>4, <1>6, <1>7, <1>8 DEF Always, Tree

LEMMA ClearStep ==
    ASSUME NEW U, NEW B, NEW e, Always(U, B, e), Clear
    PROVE  Always(<<>>, <<>>, Nil)'
<1>1. /\ order' = order /\ root' = Nil /\ size' = 0
      /\ child' = <<>> /\ parent' = <<>> /\ color' = <<>> /\ key' = <<>> /\ value' = <<>>
      /\ pc' = "idle" /\ p' = p /\ at' = at /\ entries' = <<>> /\ pc = "idle"
  BY DEF Clear, Dict!Clear
<1>2. Live' = {}
  BY <1>1, Blank DEF Live
<1>3. /\ color' \in [{} -> {"red", "black"}] /\ key' \in [{} -> LoopKeys]
      /\ value' \in [{} -> LoopValues]
  BY <1>1, Blank
<1>4. at = Nil /\ p = Nil /\ order \in {1, -1}
  BY <1>1 DEF Always, Tree, Typed, Loops, Idle
<1>5. Typed'
  BY <1>1, <1>2, <1>3, <1>4 DEF Typed
<1>6. ~Deleting' /\ ~Inserting' /\ ~Fixing' /\ Search' = Nil
  BY <1>1 DEF Deleting, Inserting, Fixing, Search
<1>7. /\ Shape(Live', child', parent', root', <<>>)
      /\ Ordered(Live', child', key', <<>>, order', Search')
      /\ Reds(Live', parent', color', Nil, Nil)
      /\ Balanced(Live', child', color', IF Fixing' THEN p' ELSE Nil, Nil, <<>>)
      /\ Holds(Live', key', value', entries', Nil) /\ Cardinality(Live') = 0
  BY <1>1, <1>2, <1>6, EmptyShape
<1>8. RedsKept' /\ Contents' /\ Sized'
  BY <1>1, <1>6, <1>7 DEF RedsKept, Contents, Sized
<1>9. Loops(<<>>, Nil)'
  BY <1>1, <1>4, ReturnedLoops
<1> QED  BY <1>5, <1>7, <1>8, <1>9 DEF Always, Tree

LEMMA Stutter ==
    ASSUME NEW U, NEW B, NEW e, Always(U, B, e), UNCHANGED loopVars
    PROVE  Always(U, B, e)'
<1>1. /\ order' = order /\ root' = root /\ size' = size /\ child' = child
      /\ parent' = parent /\ color' = color /\ key' = key /\ value' = value
      /\ pc' = pc /\ call' = call /\ at' = at /\ p' = p /\ entries' = entries
  BY DEF loopVars, fields
<1>2. /\ Live' = Live /\ Search' = Search
      /\ Fixing' = Fixing /\ Deleting' = Deleting /\ Inserting' = Inserting
  BY <1>1 DEF Live, Search, Fixing, Deleting, Inserting
<1>3. Tree(U, B, e)'
  <2>1. Typed' /\ RedsKept' /\ Contents' /\ Sized'
    BY <1>1, <1>2 DEF Always, Tree, Typed, RedsKept, Contents, Sized
  <2> QED  BY <1>1, <1>2, <2>1 DEF Always, Tree
<1>4. Loops(U, e)'
  <2>1. Extra(e)' /\ Idle' /\ InUnlink' /\ InTakeOff' /\ InEnds(U)' /\ InSuccessor(U)'
    BY <1>1, <1>2 DEF Always, Loops, Extra, Idle, InUnlink, InTakeOff, InEnds, InSuccessor
  <2>2. InFind(U)'
    BY <1>1, <1>2 DEF Always, Loops, InFind, Toward, Before
  <2>3. InInsert' /\ InFix(U)'
    BY <1>1, <1>2 DEF Always, Loops, InInsert, InFix, LeafToGo, SideOf, ColorOf,
       Sibling, Far
  <2>4. InNear(U)'
    BY <1>1, <1>2 DEF Always, Loops, InNear, Sought, Way, Counts, Matches, NearTurn,
       IsBeyond, Before
  <2>5. Answered'
    BY <1>1, <1>2 DEF Always, Loops, Answered, Sought, LoopAnswers, Dict!Nearest,
       Dict!Beyond, Dict!Present
  <2> QED  BY <2>1, <2>2, <2>3, <2>4, <2>5 DEF Loops
<1> QED  BY <1>3, <1>4 DEF Always
-----------------------------------------------------------------------------
(* The inductive invariant: there are such sets, heights and such a node.  *)
IInv == \E U, B, e : Always(U, B, e)

LEMMA InvariantKept ==
    ASSUME LoopAssumption, IInv, [LoopsNext]_loopVars
    PROVE  IInv'
<1>1. PICK U, B, e : Always(U, B, e)
  BY DEF IInv
<1> SUFFICES \E A, C, f : Always(A, C, f)'
  BY DEF IInv
<1>2. CASE LoopCall
  <2>1. CASE Clear
    BY <1>1, <2>1, ClearStep
  <2>2. CASE ~Clear
    <3>1. /\ \A pair \in LoopPairs : pair[1] \in LoopKeys /\ pair[2] \in LoopValues
          /\ RemovedKeys \subseteq LoopKeys /\ AskedKeys \subseteq LoopKeys
      BY DEF LoopKeys, LoopValues
    <3>2. \/ \E op \in {"put", "putIfAbsent"}, k \in LoopKeys, v \in LoopValues :
              PutCall(op, k, v)
          \/ \E k \in LoopKeys : RemoveCall(k)
          \/ \E side \in Sides : PollCall(side)
          \/ \E k \in LoopKeys, side \in Sides, inclusive \in BOOLEAN :
              NearCall(k, side, inclusive)
      BY <1>2, <2>2, <3>1 DEF LoopCall
    <3> QED  BY <1>1, <3>2, CallStep
  <2> QED  BY <2>1, <2>2
<1>3. CASE FindDown
  BY <1>1, <1>3, FindDownStep
<1>4. CASE FindHit
  BY <1>1, <1>4, OverwriteStep, KeepPresentStep, RemovePresentStep DEF FindHit
<1>5. CASE FindMissed
  BY <1>1, <1>5, PutAbsentStep, LinkRootStep, LinkBelowStep, RemoveAbsentStep
     DEF FindMissed
<1>6. CASE EndsDown \/ EndsFound \/ EndsNone
  BY <1>1, <1>6, EndsDownStep, EndsFoundStep, EndsNoneStep
<1>7. CASE InsertDone
  BY <1>1, <1>7, InsertDoneStep
<1>8. CASE InsertLoop \/ InsertRaise
  BY <1>1, <1>8, InsertLoopStep, InsertRaiseStep
<1>9. CASE SuccessorDown \/ SuccessorFound
  BY <1>1, <1>9, SuccessorDownStep, SuccessorFoundStep
<1>10. CASE UnlinkInner \/ UnlinkOnly
  BY <1>1, <1>10, UnlinkInnerStep, UnlinkOnlyStep
<1>11. CASE UnlinkLeaf \/ TakeOff
  BY <1>1, <1>11, UnlinkLeafStep, TakeOffStep
<1>12. CASE FixDone \/ FixUp
  BY <1>1, <1>12, FixDoneStep, FixUpStep
<1>13. CASE FixSibling \/ FixNephew \/ FixPay
  BY <1>1, <1>13, FixSiblingStep, FixNephewStep, FixPayStep
<1>14. CASE NearDown \/ NearFound \/ NearClimb \/ NearReturn
  BY <1>1, <1>14, NearDownStep, NearFoundStep, NearClimbStep, NearReturnStep
<1>15. CASE UNCHANGED loopVars
  BY <1>1, <1>15, Stutter
<1> QED
  BY <1>2, <1>3, <1>4, <1>5, <1>6, <1>7, <1>8, <1>9, <1>10, <1>11, <1>12, <1>13, <1>14,
     <1>15 DEF LoopsNext, LoopStep
-----------------------------------------------------------------------------
(* Under and Blacks are the only functions that relate a node to its       *)
(* children as U and B do.                                                 *)
Unders(N, c, g) == [n \in N \cup {Nil} |->
    IF n = Nil THEN {} ELSE {n} \cup g[c[n]["left"]] \cup g[c[n]["right"]]]

LEMMA UndersIs ==
    ASSUME NEW N, NEW c, NEW up, NEW rt, NEW U, Shape(N, c, up, rt, U),
           NEW g, g = Unders(N, c, g), NEW n \in N \cup {Nil}
    PROVE  g[n] = Below(U, n)
<1>1. /\ IsFiniteSet(N) /\ U \in [N -> SUBSET N] /\ Nil \notin N
      /\ g[Nil] = {}
      /\ \A m \in N : g[m] = {m} \cup g[c[m]["left"]] \cup g[c[m]["right"]]
  BY DEF Shape, Unders
<1>2. PICK S : S = {m \in N : g[m] # U[m]}
  OBVIOUS
<1>3. S = {}
  <2> SUFFICES ASSUME S # {}  PROVE FALSE
    OBVIOUS
  <2>1. PICK m \in S : \A y \in S : U[y] \subseteq U[m] => U[y] = U[m]
    BY <1>1, <1>2, FewestBelow
  <2>2. m \in N /\ g[m] # U[m]
    BY <1>2, <2>1
  <2>3. ASSUME NEW s \in Sides  PROVE g[c[m][s]] = Below(U, c[m][s])
    <3>1. CASE c[m][s] = Nil
      BY <1>1, <3>1 DEF Below
    <3>2. CASE c[m][s] # Nil
      <4>1. c[m][s] \in N
        BY <2>2, <3>2, Acyclic
      <4>2. U[c[m][s]] \subseteq U[m] /\ m \notin U[c[m][s]] /\ m \in U[m]
        BY <2>2, <3>2, Kids
      <4>3. c[m][s] \notin S
        BY <2>1, <4>2
      <4> QED  BY <1>2, <3>2, <4>1, <4>3 DEF Below
    <3> QED  BY <3>1, <3>2
  <2>4. U[m] = {m} \cup Below(U, c[m]["left"]) \cup Below(U, c[m]["right"])
    BY <2>2 DEF Shape
  <2> QED  BY <1>1, <2>2, <2>3, <2>4 DEF Sides
<1> QED  BY <1>1, <1>2, <1>3 DEF Below

Counted(N, c, col, g) == [n \in N \cup {Nil} |->
    IF n = Nil THEN 0
    ELSE (IF col[n] = "black" THEN 1 ELSE 0) + g[c[n]["left"]]]

LEMMA CountedIs ==
    ASSUME NEW N, NEW c, NEW up, NEW rt, NEW U, Shape(N, c, up, rt, U),
           NEW col, NEW B, Balanced(N, c, col, Nil, Nil, B),
           NEW g, g = Counted(N, c, col, g), NEW n \in N \cup {Nil}
    PROVE  g[n] = Height(B, n)
<1>1. /\ IsFiniteSet(N) /\ U \in [N -> SUBSET N] /\ Nil \notin N
      /\ g[Nil] = 0
      /\ \A m \in N : g[m] = (IF col[m] = "black" THEN 1 ELSE 0) + g[c[m]["left"]]
  BY DEF Shape, Counted
<1>2. PICK S : S = {m \in N : g[m] # B[m]}
  OBVIOUS
<1>3. S = {}
  <2> SUFFICES ASSUME S # {}  PROVE FALSE
    OBVIOUS
  <2>1. PICK m \in S : \A y \in S : U[y] \subseteq U[m] => U[y] = U[m]
    BY <1>1, <1>2, FewestBelow
  <2>2. m \in N /\ g[m] # B[m]
    BY <1>2, <2>1
  <2>3. g[c[m]["left"]] = Height(B, c[m]["left"])
    <3>1. CASE c[m]["left"] = Nil
      BY <1>1, <3>1 DEF Height
    <3>2. CASE c[m]["left"] # Nil
      <4>1. c[m]["left"] \in N
        BY <2>2, <3>2, Acyclic DEF Sides
      <4>2. U[c[m]["left"]] \subseteq U[m] /\ m \notin U[c[m]["left"]] /\ m \in U[m]
        BY <2>2, <3>2, Kids DEF Sides
      <4>3. c[m]["left"] \notin S
        BY <2>1, <4>2
      <4> QED  BY <1>2, <3>2, <4>1, <4>3 DEF Height
    <3> QED  BY <3>1, <3>2
  <2>4. B[m] = Weight(col, Nil, Nil, m) + Height(B, c[m]["left"])
    BY <2>2 DEF Balanced, Sides
  <2>5. Weight(col, Nil, Nil, m) = IF col[m] = "black" THEN 1 ELSE 0
    BY <1>1, <2>2 DEF Weight
  <2> QED  BY <1>1, <2>2, <2>3, <2>4, <2>5
<1> QED  BY <1>1, <1>2, <1>3 DEF Height

LEMMA UnderIs ==
    ASSUME NEW U, Shape(Live, child, parent, root, U), NEW n \in Live \cup {Nil}
    PROVE  Under[n] = Below(U, n)
<1>1. PICK g : g = [m \in Live \cup {Nil} |-> Below(U, m)]
  OBVIOUS
<1>2. g = Unders(Live, child, g)
  <2>1. \A m \in Live : /\ child[m]["left"] \in Live \cup {Nil} /\ m # Nil
                        /\ child[m]["right"] \in Live \cup {Nil}
                        /\ U[m] = {m} \cup Below(U, child[m]["left"])
                                      \cup Below(U, child[m]["right"])
    BY DEF Shape, Sides
  <2>2. \A m \in Live \cup {Nil} :
            g[m] = IF m = Nil THEN {} ELSE {m} \cup g[child[m]["left"]] \cup g[child[m]["right"]]
    BY <1>1, <2>1 DEF Below
  <2> QED  BY <1>1, <2>2 DEF Unders
<1>3. Under = Unders(Live, child, Under)
  BY <1>2 DEF Under, Unders
<1> QED  BY <1>3, UndersIs

LEMMA BlacksIs ==
    ASSUME NEW U, Shape(Live, child, parent, root, U),
           NEW B, Balanced(Live, child, color, Nil, Nil, B), NEW n \in Live \cup {Nil}
    PROVE  Blacks[n] = Height(B, n)
<1>1. PICK g : g = [m \in Live \cup {Nil} |-> Height(B, m)]
  OBVIOUS
<1>2. g = Counted(Live, child, color, g)
  <2>1. Nil \notin Live
    BY DEF Shape
  <2>2. \A m \in Live : /\ child[m]["left"] \in Live \cup {Nil}
                        /\ B[m] = Weight(color, Nil, Nil, m) + Height(B, child[m]["left"])
    BY DEF Shape, Balanced, Sides
  <2>3. \A m \in Live : Weight(color, Nil, Nil, m) = IF color[m] = "black" THEN 1 ELSE 0
    BY <2>1 DEF Weight
  <2>4. \A m \in Live \cup {Nil} :
            g[m] = IF m = Nil THEN 0
                   ELSE (IF color[m] = "black" THEN 1 ELSE 0) + g[child[m]["left"]]
    BY <1>1, <2>1, <2>2, <2>3 DEF Height
  <2> QED  BY <1>1, <2>4 DEF Counted
<1>3. Blacks = Counted(Live, child, color, Blacks)
  BY <1>2 DEF Blacks, Counted
<1> QED  BY <1>3, CountedIs
-----------------------------------------------------------------------------
LEMMA IdleFacts ==
    ASSUME NEW U, NEW B, NEW e, Always(U, B, e), pc = "idle"
    PROVE  /\ Shape(Live, child, parent, root, U) /\ Typed
           /\ Ordered(Live, child, key, U, order, Nil)
           /\ Reds(Live, parent, color, Nil, Nil)
           /\ root # Nil => color[root] = "black"
           /\ Balanced(Live, child, color, Nil, Nil, B)
           /\ Holds(Live, key, value, entries, Nil) /\ size = Cardinality(Live)
<1>1. /\ ~Inserting /\ ~Deleting /\ ~Fixing /\ Search = Nil /\ pc # "fix"
      /\ pc \notin {"fix", "nephews", "pay"}
  BY DEF Inserting, Deleting, Fixing, Search
<1>2. /\ Shape(Live, child, parent, root, U) /\ Typed /\ Contents /\ Sized /\ RedsKept
      /\ Ordered(Live, child, key, U, order, Nil)
      /\ Balanced(Live, child, color, Nil, e, B) /\ e = Nil
  BY <1>1 DEF Always, Tree, Loops, Extra
<1>3. Holds(Live, key, value, entries, Nil) /\ size = Cardinality(Live)
  BY <1>1, <1>2 DEF Contents, Sized, Typed
<1> QED  BY <1>1, <1>2, <1>3 DEF RedsKept

LEMMA ShapeFollows ==
    ASSUME LoopAssumption, IInv
    PROVE  LoopShape
<1> SUFFICES ASSUME pc = "idle"
             PROVE  LoopShape
  BY DEF LoopShape
<1>1. PICK U, B, e : Always(U, B, e)
  BY DEF IInv
<1>2. /\ Shape(Live, child, parent, root, U) /\ Typed
      /\ Ordered(Live, child, key, U, order, Nil)
      /\ Reds(Live, parent, color, Nil, Nil)
      /\ root # Nil => color[root] = "black"
      /\ Balanced(Live, child, color, Nil, Nil, B)
      /\ size = Cardinality(Live)
  BY <1>1, IdleFacts
<1>3. /\ Nil \notin Live /\ root \in Live \cup {Nil}
      /\ color \in [Live -> {"red", "black"}] /\ order \in {1, -1}
  BY <1>2 DEF Shape, Typed
<1>4. \A n \in Live \cup {Nil} : Under[n] = Below(U, n) /\ Blacks[n] = Height(B, n)
  BY <1>2, UnderIs, BlacksIs
<1>5. Under[root] = Live /\ (root # Nil => parent[root] = Nil)
  <2>1. /\ root # Nil => U[root] = Live /\ parent[root] = Nil
        /\ root = Nil => Live = {}
    BY <1>2 DEF Shape
  <2> QED  BY <1>3, <1>4, <2>1 DEF Below
<1>6. ASSUME NEW n \in Live
      PROVE  LET l == child[n]["left"]
                 r == child[n]["right"]
             IN /\ \A m \in {l, r} \ {Nil} : parent[m] = n
                /\ Under[l] \cap Under[r] = {} /\ n \notin Under[l] \cup Under[r]
                /\ \A m \in Under[l] : Before(key[m], key[n])
                /\ \A m \in Under[r] : Before(key[n], key[m])
                /\ color[n] = "red" => ColorOf(l) = "black" /\ ColorOf(r) = "black"
                /\ Blacks[l] = Blacks[r]
  <2>1. PICK l, r : child[n]["left"] = l /\ child[n]["right"] = r
    OBVIOUS
  <2>2. /\ l \in Live \cup {Nil} /\ r \in Live \cup {Nil}
        /\ \A m \in {l, r} \ {Nil} : parent[m] = n
        /\ Below(U, l) \cap Below(U, r) = {} /\ n \notin Below(U, l) \cup Below(U, r)
        /\ Below(U, l) \cup Below(U, r) \subseteq Live
    <3>1. U \in [Live -> SUBSET Live]
      BY <1>2 DEF Shape
    <3>2. n \notin Below(U, l) \cup Below(U, r) /\ Below(U, l) \cap Below(U, r) = {}
      BY <1>2, <2>1 DEF Shape
    <3>3. l \in Live \cup {Nil} /\ r \in Live \cup {Nil}
      BY <1>2, <2>1 DEF Shape, Sides
    <3>4. \A m \in {l, r} \ {Nil} : parent[m] = n
      BY <1>2, <2>1 DEF Shape, Sides
    <3> QED  BY <3>1, <3>2, <3>3, <3>4 DEF Below
  <2>3. Under[l] = Below(U, l) /\ Under[r] = Below(U, r)
    BY <1>4, <2>2
  <2>4. /\ \A m \in Under[l] : Before(key[m], key[n])
        /\ \A m \in Under[r] : Before(key[n], key[m])
    <3>1. /\ \A m \in Below(U, l) : On(order, "left", key[m], key[n])
          /\ \A m \in Below(U, r) : On(order, "right", key[m], key[n])
      BY <1>2, <1>3, <2>1, <2>2 DEF Ordered, Sides
    <3> QED  BY <1>3, <2>3, <3>1 DEF On, Before
  <2>5. color[n] = "red" => ColorOf(l) = "black" /\ ColorOf(r) = "black"
    <3>1. ASSUME NEW m \in {l, r}, m # Nil, color[n] = "red"
          PROVE  color[m] = "black"
      <4>1. m \in Live /\ parent[m] = n /\ n # Nil
        BY <1>3, <2>2, <3>1
      <4>2. color[m] # "red"
        BY <1>2, <3>1, <4>1 DEF Reds
      <4> QED  BY <1>3, <4>1, <4>2
    <3> QED  BY <3>1 DEF ColorOf
  <2>6. Blacks[l] = Blacks[r]
    <3>1. /\ B[n] = Weight(color, Nil, Nil, n) + Height(B, l)
          /\ B[n] = Weight(color, Nil, Nil, n) + Height(B, r)
          /\ B \in [Live -> Nat]
      BY <1>2, <2>1 DEF Balanced, Sides
    <3>2. /\ Weight(color, Nil, Nil, n) \in Nat
          /\ Height(B, l) \in Nat /\ Height(B, r) \in Nat
      BY <2>2, <3>1 DEF Weight, Height
    <3>3. Height(B, l) = Height(B, r)
      BY <3>1, <3>2
    <3> QED  BY <1>4, <2>2, <3>3
  <2> QED  BY <2>1, <2>2, <2>3, <2>4, <2>5, <2>6
<1> QED  BY <1>2, <1>5, <1>6 DEF LoopShape

LEMMA ContentsFollow ==
    ASSUME IInv
    PROVE  LoopContents
<1> SUFFICES ASSUME pc = "idle"
             PROVE  {<<key[n], value[n]>> : n \in Live} =
                        {<<k, entries[k]>> : k \in DOMAIN entries}
  BY DEF LoopContents
<1>1. Holds(Live, key, value, entries, Nil) /\ Nil \notin Live
  BY IdleFacts DEF IInv, Shape
<1>2. /\ \A n \in Live : key[n] \in DOMAIN entries /\ entries[key[n]] = value[n]
      /\ \A k \in DOMAIN entries : \E n \in Live : key[n] = k
  BY <1>1 DEF Holds
<1>3. ASSUME NEW k \in DOMAIN entries
      PROVE  \E n \in Live : <<k, entries[k]>> = <<key[n], value[n]>>
  <2>1. PICK n \in Live : key[n] = k
    BY <1>2
  <2> QED  BY <1>2, <2>1
<1> QED  BY <1>2, <1>3

LEMMA NoNilFollows ==
    ASSUME LoopAssumption, IInv
    PROVE  LoopNoNil
<1>1. PICK U, B, e : Always(U, B, e)
  BY DEF IInv
<1>2. ASSUME Inserting
      PROVE  /\ pc = "insert" /\ RedBelowRed => parent[parent[at]] # Nil
             /\ pc = "raise" => parent[at] # Nil /\ parent[parent[at]] # Nil
  <2>1. /\ Shape(Live, child, parent, root, U) /\ Nil \notin Live
        /\ at \in Live /\ InInsert /\ (root # at => color[root] = "black")
    BY <1>1, <1>2, InsertingFacts
  <2>2. at # root => parent[at] \in Live /\ parent[at] # Nil
    BY <2>1, ParentThere
  <2>3. at # root /\ parent[at] # root => parent[parent[at]] # Nil
    BY <2>1, <2>2, ParentThere
  <2>4. pc = "insert" /\ RedBelowRed => at # root /\ parent[at] # root
    BY <2>1 DEF RedBelowRed
  <2>5. pc = "raise" => at # root /\ parent[at] # root
    BY <1>2, <2>1 DEF InInsert
  <2> QED  BY <2>2, <2>3, <2>4, <2>5
<1>3. pc = "fix" /\ BlackMissing => parent[at] # Nil /\ Sibling # Nil
  <2> SUFFICES ASSUME pc = "fix", at # root, color[at] = "black"
               PROVE  parent[at] # Nil /\ Sibling # Nil
    BY DEF BlackMissing
  <2>1. PICK x, h, s, b : /\ x = at /\ h = parent[x] /\ s = SideOf(x)
                          /\ b = child[h][Other(s)]
    OBVIOUS
  <2>2. SiblingOf(U, B, x, h, s, b)
    BY <1>1, <2>1, SiblingIs
  <2> QED  BY <2>1, <2>2 DEF SiblingOf, Sibling
<1>4. /\ pc = "nephews" => Sibling # Nil
      /\ pc = "pay" => Sibling # Nil /\ Far # Nil
  BY <1>1 DEF Always, Loops, InFix
<1>5. pc = "takeoff" => parent[p] # Nil
  <2> SUFFICES ASSUME pc = "takeoff"
               PROVE  parent[p] # Nil
    OBVIOUS
  <2>1. Shape(Live, child, parent, root, U) /\ p \in Live /\ p # root
    BY <1>1 DEF Always, Tree, Loops, InTakeOff, Typed
  <2> QED  BY <2>1, ParentThere
<1> QED  BY <1>2, <1>3, <1>4, <1>5 DEF LoopNoNil, Inserting
-----------------------------------------------------------------------------
(* The fields always have their types, and between the steps of any call   *)
(* there are sets U and heights B for which the tree is what it should be  *)
(* but for what the call still has to put right: the inductive invariant.  *)
THEOREM LoopsInvariant == LoopsSpec => []IInv
<1>1. LoopsInit => IInv
  BY LoopAssumption, InitAlways DEF IInv
<1>2. IInv /\ [LoopsNext]_loopVars => IInv'
  BY LoopAssumption, InvariantKept
<1> QED  BY <1>1, <1>2, PTL DEF LoopsSpec

(* Whatever insertEntry and deleteEntry rotate and recolour, however far   *)
(* up fixAfterInsertion and fixAfterDeletion go, they leave a red-black    *)
(* search tree of size nodes.                                              *)
THEOREM LoopsKeepShape == LoopsSpec => []LoopShape
<1>1. IInv => LoopShape
  BY LoopAssumption, ShapeFollows
<1> QED  BY <1>1, LoopsInvariant, PTL

(* The nodes hold what has been put and not removed: neither the           *)
(* successor's pair that deleteEntry copies nor a rotation loses one.      *)
THEOREM LoopsKeepContents == LoopsSpec => []LoopContents
<1>1. IInv => LoopContents
  BY ContentsFollow
<1> QED  BY <1>1, LoopsInvariant, PTL

(* FloorEntry, CeilingEntry, LowerEntry and HigherEntry, which go down and *)
(* then up again, answer the nearest key, and none only if there is none.  *)
THEOREM LoopsAnswerNearest == LoopsSpec => []LoopAnswers
<1>1. IInv => LoopAnswers
  BY DEF IInv, Always, Loops, Answered, LoopAnswers
<1> QED  BY <1>1, LoopsInvariant, PTL

(* The fix-ups and the rotations never follow a nil pointer: the code does *)
(* not test for one, it relies on the red-black rules.                     *)
THEOREM LoopsMeetNoNil == LoopsSpec => []LoopNoNil
<1>1. IInv => LoopNoNil
  BY LoopAssumption, NoNilFollows
<1> QED  BY <1>1, LoopsInvariant, PTL
=============================================================================
