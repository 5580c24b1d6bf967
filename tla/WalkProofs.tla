------------------------------ MODULE WalkProofs -------------------------------
(******************************************************************************)
(* The answers of search and ls for any tree, any call and any changes by      *)
(* others while the tree is being walked.                                      *)
(******************************************************************************)
EXTENDS ReadingProofs, WellFoundedInduction

(* The types of the two walks.                                                *)
LineFound == [file : Nodes, line : Nat, content : Lines, context : Seq(Lines) \X Seq(Lines)]
SearchState ==
  [pc : {"idle", "walk", "names", "scan", "done"}, path : Nodes,
   re : {{}} \cup {r.re : r \in SearchRequests},
   include : {Nodes} \cup {r.include : r \in SearchRequests},
   exclude : {{}} \cup {r.exclude : r \in SearchRequests},
   context : Ints, max : Int, pending : Seq(Nodes), matches : Seq(LineFound)]
TodoItem   == [do : {"read", "stat"}, node : Nodes, dir : BOOLEAN, level : Nat]
Entry      == [node : Nodes, dir : BOOLEAN]
ListState  ==
  [pc : {"idle", "list", "done", "error"}, path : Nodes, depth : Int,
   pattern : {Nodes} \cup {r.pattern : r \in ListRequests}, hidden : BOOLEAN,
   todo : Seq(TodoItem), shown : Seq(Entry)]

SearchTypes ==
  /\ search \in SearchState
  /\ search.pc \in {"names", "scan"} => search.pending # <<>>
  /\ search.pc \in {"idle", "done"} => search.pending = <<>>

-------------------------------------------------------------------------------
(* search: what the walk has still before it is in subtrees that are apart and  *)
(* that it has reached through directories that can be read.                   *)
Apart(s)    == \A k, l \in DOMAIN s : k # l => Below(s[k]) \cap Below(s[l]) = {}
Reached(n)  ==
  /\ n \in Below(search.path)
  /\ \A m \in UpFrom[n] \ {n} : m \in Below(search.path) => CanRead(m)
WalkInv ==
  /\ Apart(search.pending)
  /\ \A k \in DOMAIN search.pending : Reached(search.pending[k])

(* What the walk has seen of the name that it is at.                           *)
AtInv ==
  /\ search.pc = "names" => Visited \in touched \/ IsDir(Visited)
  /\ search.pc = "scan" =>
       ~Full /\ Selected(Visited) /\ (Visited \in touched \/ IsFile(Visited))

(* What has been found is right, and nothing is found in what is still ahead.   *)
RightMatch(f) ==
  /\ Searched(f.file) /\ f.line < Len(tree[f.file])
  /\ tree[f.file][f.line + 1] \in search.re
  /\ f.content = tree[f.file][f.line + 1]
  /\ f.context = Context(tree[f.file], f.line, search.context)
FoundInv ==
  /\ Len(search.matches) <= (IF search.max < 0 THEN 0 ELSE search.max)
  /\ \A k \in DOMAIN search.matches :
       LET f == search.matches[k]
       IN  f.file \notin Ahead /\ (Stable(f.file) => RightMatch(f))
  /\ \A k, l \in DOMAIN search.matches :
       k < l /\ search.matches[k].file = search.matches[l].file =>
         search.matches[k].line < search.matches[l].line

(* What is not ahead any more has been found, as far as there was room for it.  *)
Hit(n, i) == i \in 0..(Len(tree[n]) - 1) /\ tree[n][i + 1] \in search.re
Found(n, i) ==
  \E k \in DOMAIN search.matches : search.matches[k].file = n /\ search.matches[k].line = i
BehindInv ==
  search.pc # "idle" =>
  \A n \in Nodes \ Ahead : Stable(n) /\ Searched(n) =>
    \A i \in Int : Hit(n, i) /\ ~Found(n, i) =>
      Full /\ \A j \in Int : Found(n, j) => j < i

SearchInv == SearchTypes /\ WalkInv /\ AtInv /\ FoundInv /\ BehindInv

-------------------------------------------------------------------------------
(* ls: what is still to be listed comes in the order of the names.             *)
InTurn(s) ==
  \A k, l \in DOMAIN s : k < l => \A m \in Region(s[k]), n \in Region(s[l]) : Before(m, n)
Shown(n)  == listing.hidden \/ n \notin Hidden
ItemInv(e) ==
  /\ e.node \in Below(listing.path)
  /\ Cardinality(Inside(e.node)) - 1 = IF e.do = "read" THEN e.level ELSE e.level + 1
  /\ \A m \in Inside(e.node) \ {e.node} : CanRead(m)
  /\ \A m \in Inside(e.node) \ {listing.path} : Shown(m)
  /\ e.do = "read" /\ e.level > 0 => e.node \in touched \/ IsDir(e.node)
  /\ e.do = "stat" =>
       /\ e.level < listing.depth /\ e.node # listing.path
       /\ \/ e.node \in touched
          \/ tree[e.node] # Absent /\ e.dir = IsDir(e.node)
             /\ (e.node \in listing.pattern \/ IsDir(e.node))

ItemsInv ==
  /\ \A k \in DOMAIN listing.todo : ItemInv(listing.todo[k])
  /\ InTurn(listing.todo)

(* What has been listed, in order before all that is still to come.            *)
ShownInv ==
  /\ \A k \in DOMAIN listing.shown :
       LET e == listing.shown[k]
       IN  /\ \A n \in StillToList : Before(e.node, n)
           /\ Stable(e.node) => Listed(e.node) /\ e.dir = IsDir(e.node)
  /\ \A k, l \in DOMAIN listing.shown :
       k < l => Before(listing.shown[k].node, listing.shown[l].node)

(* What should be listed and is not still to come has been listed.             *)
ListedInv ==
  listing.pc \in {"list", "done"} =>
    \A n \in Nodes \ StillToList :
      Stable(n) /\ Listed(n) => \E k \in DOMAIN listing.shown : listing.shown[k].node = n

ListTypes ==
  /\ listing \in ListState
  /\ listing.pc # "list" => listing.todo = <<>>

ListInv == ListTypes /\ ItemsInv /\ ShownInv /\ ListedInv

-------------------------------------------------------------------------------
(* The tree of names.                                                          *)

(* UpFrom is well defined: what is in every set that has n and the directory of *)
(* each of its members satisfies its equation.                                 *)
LEMMA UpFromEquation ==
  /\ Root \in Nodes /\ UpFrom[Root] = {Root}
  /\ \A n \in Nodes \ {Root} : Parent[n] \in Nodes /\ UpFrom[n] = {n} \cup UpFrom[Parent[n]]
<1> DEFINE Closed(S) == \A x \in S : x # Root => Parent[x] \in S
           U == [n \in Nodes |->
                  {m \in Nodes : \A S \in SUBSET Nodes : n \in S /\ Closed(S) => m \in S}]
<1>1. Root \in Nodes /\ \A n \in Nodes \ {Root} : Parent[n] \in Nodes
  BY FileTreeAssumption
<1>2. ASSUME NEW n \in Nodes
      PROVE  n \in U[n] /\ U[n] \in SUBSET Nodes /\ Closed(U[n])
  BY <1>1
<1>3. ASSUME NEW n \in Nodes, NEW S \in SUBSET Nodes, n \in S, Closed(S)
      PROVE  U[n] \subseteq S
  BY <1>3
<1>4. ASSUME NEW n \in Nodes
      PROVE  U[n] = IF n = Root THEN {n} ELSE {n} \cup U[Parent[n]]
  <2>1. CASE n = Root
    <3>1. Closed({Root})
      OBVIOUS
    <3>2. U[n] \subseteq {Root}
      BY <1>1, <1>3, <2>1, <3>1
    <3> QED
      BY <1>2, <2>1, <3>2
  <2>2. CASE n # Root
    <3>1. Parent[n] \in Nodes
      BY <1>1, <2>2
    <3>2. Parent[n] \in U[n]
      BY <1>2, <2>2
    <3>3. U[Parent[n]] \subseteq U[n]
      BY <1>2, <1>3, <3>1, <3>2
    <3>4. Closed({n} \cup U[Parent[n]])
      BY <1>2, <3>1
    <3>5. U[n] \subseteq {n} \cup U[Parent[n]]
      <4>1. {n} \cup U[Parent[n]] \in SUBSET Nodes
        BY <1>2, <3>1
      <4> QED
        BY <1>3, <3>4, <4>1
    <3>6. U[n] = {n} \cup U[Parent[n]]
      <4> HIDE DEF U
      <4> QED
        BY <1>2, <3>3, <3>5
    <3> QED
      BY <2>2, <3>6
  <2> QED
    BY <2>1, <2>2
<1>5. U = [n \in Nodes |-> IF n = Root THEN {n} ELSE {n} \cup U[Parent[n]]]
  BY <1>4
<1> HIDE DEF U
<1>6. UpFrom = [n \in Nodes |-> IF n = Root THEN {n} ELSE {n} \cup UpFrom[Parent[n]]]
  BY <1>5 DEF UpFrom
<1>7. UpFrom[Root] = {Root}
  BY <1>1, <1>6
<1>8. \A n \in Nodes \ {Root} : UpFrom[n] = {n} \cup UpFrom[Parent[n]]
  BY <1>6
<1> QED
  BY <1>1, <1>7, <1>8

(* Where a name stands in the order of all names.                              *)
Place(n) == CHOOSE i \in DOMAIN Order : Order[i] = n

LEMMA Places ==
  /\ DOMAIN Order = 1..Len(Order) /\ Len(Order) \in Nat
  /\ \A n \in Nodes : Place(n) \in 1..Len(Order) /\ Order[Place(n)] = n
  /\ \A i \in 1..Len(Order) : Order[i] \in Nodes /\ Place(Order[i]) = i
<1>1. DOMAIN Order = 1..Len(Order) /\ Len(Order) \in Nat
  BY FileTreeAssumption, LenProperties
<1>2. \A n \in Nodes : \E i \in DOMAIN Order : Order[i] = n
  BY FileTreeAssumption
<1>3. \A i \in DOMAIN Order : Order[i] \in Nodes
  BY FileTreeAssumption
<1>4. \A i, j \in DOMAIN Order : Order[i] = Order[j] => i = j
  BY FileTreeAssumption
<1> QED
  BY <1>1, <1>2, <1>3, <1>4 DEF Place

LEMMA BeforeIsPlace ==
  ASSUME NEW m \in Nodes, NEW n \in Nodes
  PROVE  Before(m, n) <=> Place(m) < Place(n)
BY Places DEF Before

LEMMA FoldersFirst ==
  ASSUME NEW n \in Nodes \ {Root}
  PROVE  Parent[n] \in Nodes /\ Place(Parent[n]) < Place(n)
<1>1. Parent[n] \in Nodes
  BY FileTreeAssumption
<1>2. \A i, j \in DOMAIN Order :
        Order[j] # Root /\ Order[i] = Parent[Order[j]] => i < j
  BY FileTreeAssumption
<1> QED
  BY <1>1, <1>2, Places

LEMMA LeastNumber ==
  ASSUME NEW S \in SUBSET Nat, S # {}
  PROVE  \E i \in S : \A j \in S : i <= j
<1> DEFINE R == OpToRel(<, Nat)
<1>1. IsWellFoundedOn(R, Nat)
  BY NatLessThanWellFounded
<1>2. \A m, n \in Nat : m < n => <<m, n>> \in R
  BY DEF OpToRel
<1> HIDE DEF R
<1>3. PICK i \in S : \A j \in S : ~(<<j, i>> \in R)
  BY <1>1, WFMin
<1>4. ASSUME NEW j \in S PROVE i <= j
  <2>1. i \in Nat /\ j \in Nat /\ ~(j < i)
    BY <1>2, <1>3
  <2> QED
    BY <2>1
<1> QED
  BY <1>4

(* What holds of Root, and of a node when it holds of its folder, holds of all. *)
LEMMA TreeInduction ==
  ASSUME NEW S \in SUBSET Nodes,
         \A n \in Nodes : n = Root \/ Parent[n] \in S => n \in S
  PROVE  S = Nodes
<1> SUFFICES ASSUME S # Nodes PROVE FALSE
  OBVIOUS
<1> DEFINE B == {i \in 1..Len(Order) : Order[i] \notin S}
<1>1. B \in SUBSET Nat /\ B # {}
  <2>1. PICK n \in Nodes : n \notin S
    OBVIOUS
  <2>2. Place(n) \in B
    BY <2>1, Places
  <2> QED
    BY <2>2
<1>2. PICK i \in B : \A j \in B : i <= j
  BY <1>1, LeastNumber
<1>3. Order[i] \in Nodes \ {Root} /\ Parent[Order[i]] \in Nodes \ S
  BY <1>2, Places, FoldersFirst
<1>4. Place(Parent[Order[i]]) \in B /\ Place(Parent[Order[i]]) < i
  BY <1>2, <1>3, Places, FoldersFirst
<1> QED
  BY <1>1, <1>2, <1>4

LEMMA UpFromNodes ==
  ASSUME NEW n \in Nodes
  PROVE  n \in UpFrom[n] /\ UpFrom[n] \subseteq Nodes
<1> DEFINE S == {x \in Nodes : UpFrom[x] \subseteq Nodes}
<1>1. ASSUME NEW x \in Nodes, x = Root \/ Parent[x] \in S PROVE x \in S
  <2>1. CASE x = Root
    BY <2>1, UpFromEquation
  <2>2. CASE x # Root /\ Parent[x] \in S
    BY <2>2, UpFromEquation
  <2> QED
    BY <1>1, <2>1, <2>2
<1>2. S = Nodes
  BY <1>1, TreeInduction
<1>3. n \in UpFrom[n]
  <2>1. CASE n = Root
    BY <2>1, UpFromEquation
  <2>2. CASE n # Root
    BY <2>2, UpFromEquation
  <2> QED
    BY <2>1, <2>2
<1> QED
  BY <1>2, <1>3

LEMMA BelowIsUp ==
  ASSUME NEW n \in Nodes, NEW m
  PROVE  m \in Below(n) <=> m \in Nodes /\ n \in UpFrom[m]
BY UpFromNodes DEF Below

LEMMA UpFromTransitive ==
  ASSUME NEW n \in Nodes, NEW m \in UpFrom[n]
  PROVE  UpFrom[m] \subseteq UpFrom[n]
<1> DEFINE S == {x \in Nodes : \A y \in UpFrom[x] : UpFrom[y] \subseteq UpFrom[x]}
<1>1. ASSUME NEW x \in Nodes, x = Root \/ Parent[x] \in S PROVE x \in S
  <2>1. CASE x = Root
    BY <2>1, UpFromEquation
  <2>2. CASE x # Root /\ Parent[x] \in S
    <3>1. UpFrom[x] = {x} \cup UpFrom[Parent[x]] /\ Parent[x] \in UpFrom[Parent[x]]
      BY <2>2, UpFromEquation, UpFromNodes
    <3> QED
      BY <2>2, <3>1
  <2> QED
    BY <1>1, <2>1, <2>2
<1>2. S = Nodes
  BY <1>1, TreeInduction
<1> QED
  BY <1>2

LEMMA UpIsEarlier ==
  ASSUME NEW n \in Nodes, NEW m \in UpFrom[n]
  PROVE  m \in Nodes /\ Place(m) <= Place(n)
<1> DEFINE S == {x \in Nodes : \A y \in UpFrom[x] : y \in Nodes /\ Place(y) <= Place(x)}
<1>1. ASSUME NEW x \in Nodes, x = Root \/ Parent[x] \in S PROVE x \in S
  <2>1. CASE x = Root
    <3>1. \A y \in UpFrom[x] : y = x
      BY <2>1, UpFromEquation
    <3>2. Place(x) \in Int
      BY Places
    <3> QED
      BY <3>1, <3>2
  <2>2. CASE x # Root /\ Parent[x] \in S
    <3>1. Parent[x] \in Nodes /\ Place(Parent[x]) < Place(x)
      BY <2>2, FoldersFirst
    <3>2. \A y \in Nodes : Place(y) \in Int
      BY Places
    <3>3. UpFrom[x] = {x} \cup UpFrom[Parent[x]]
      BY <2>2, UpFromEquation
    <3>4. ASSUME NEW y \in UpFrom[x] PROVE y \in Nodes /\ Place(y) <= Place(x)
      BY <2>2, <3>1, <3>2, <3>3
    <3> QED
      BY <3>4
  <2> QED
    BY <1>1, <2>1, <2>2
<1>2. S = Nodes
  BY <1>1, TreeInduction
<1> QED
  BY <1>2

(* The folders above a node are above each other.                              *)
LEMMA UpIsAChain ==
  ASSUME NEW n \in Nodes, NEW l \in UpFrom[n], NEW m \in UpFrom[n]
  PROVE  l \in UpFrom[m] \/ m \in UpFrom[l]
<1> DEFINE S == {x \in Nodes : \A y, z \in UpFrom[x] : y \in UpFrom[z] \/ z \in UpFrom[y]}
<1>1. ASSUME NEW x \in Nodes, x = Root \/ Parent[x] \in S PROVE x \in S
  <2>1. CASE x = Root
    BY <2>1, UpFromEquation
  <2>2. CASE x # Root /\ Parent[x] \in S
    <3>1. UpFrom[x] = {x} \cup UpFrom[Parent[x]] /\ Parent[x] \in UpFrom[Parent[x]]
      BY <2>2, UpFromEquation, UpFromNodes
    <3> QED
      BY <2>2, <3>1
  <2> QED
    BY <1>1, <2>1, <2>2
<1>2. S = Nodes
  BY <1>1, TreeInduction
<1> QED
  BY <1>2

(* The way down from m to a node n below it goes through a child of m.          *)
LEMMA WayDown ==
  ASSUME NEW n \in Nodes, NEW m \in UpFrom[n], m # n
  PROVE  \E c \in UpFrom[n] : c # Root /\ Parent[c] = m
<1> DEFINE S == {x \in Nodes : \A y \in UpFrom[x] :
                   y # x => \E c \in UpFrom[x] : c # Root /\ Parent[c] = y}
<1>1. ASSUME NEW x \in Nodes, x = Root \/ Parent[x] \in S PROVE x \in S
  <2>1. CASE x = Root
    BY <2>1, UpFromEquation
  <2>2. CASE x # Root /\ Parent[x] \in S
    <3>1. UpFrom[x] = {x} \cup UpFrom[Parent[x]] /\ Parent[x] \in UpFrom[Parent[x]]
      BY <2>2, UpFromEquation, UpFromNodes
    <3> QED
      BY <2>2, <3>1
  <2> QED
    BY <1>1, <2>1, <2>2
<1>2. S = Nodes
  BY <1>1, TreeInduction
<1> QED
  BY <1>2

LEMMA Siblings ==
  ASSUME NEW a \in Nodes \ {Root}, NEW b \in Nodes \ {Root}, Parent[a] = Parent[b], a # b
  PROVE  Below(a) \cap Below(b) = {} /\ a \notin UpFrom[b]
<1>1. ASSUME NEW x \in Nodes \ {Root}, NEW y \in Nodes \ {Root}, Parent[x] = Parent[y], x # y
      PROVE  x \notin UpFrom[y]
  <2> SUFFICES ASSUME x \in UpFrom[y] PROVE FALSE
    OBVIOUS
  <2>1. x \in UpFrom[Parent[x]]
    BY <1>1, UpFromEquation
  <2>2. Place(x) <= Place(Parent[x]) /\ Place(Parent[x]) < Place(x) /\ Parent[x] \in Nodes
    BY <2>1, UpIsEarlier, FoldersFirst
  <2> QED
    BY <2>2, Places
<1> QED
  BY <1>1, UpIsAChain, BelowIsUp

(* What is below siblings is in the order of the siblings.                     *)
LEMMA SubtreesInOrder ==
  ASSUME NEW a \in Nodes \ {Root}, NEW b \in Nodes \ {Root}, Parent[a] = Parent[b],
         Before(a, b), NEW m \in Below(a), NEW n \in Below(b)
  PROVE  Before(m, n)
<1>1. /\ m \in Nodes /\ n \in Nodes /\ Place(a) < Place(b)
      /\ Place(a) <= Place(m) /\ Place(b) <= Place(n)
  BY UpIsEarlier, BeforeIsPlace, BelowIsUp
<1>2. Place(m) \in Int /\ Place(n) \in Int /\ Place(a) \in Int /\ Place(b) \in Int
  BY <1>1, Places
<1>3. a # b
  BY <1>1, <1>2
<1>4. ASSUME Place(b) <= Place(m) PROVE FALSE
  <2>1. \A i, j \in DOMAIN Order : \A k \in i..j :
          Order[j] \in Below(Order[i]) => Order[k] \in Below(Order[i])
    BY FileTreeAssumption
  <2>2. Place(b) \in Place(a)..Place(m)
    BY <1>1, <1>2, <1>4
  <2>3. b \in Below(a)
    BY <1>1, <2>1, <2>2, Places
  <2> QED
    BY <1>3, <2>3, Siblings, BelowIsUp
<1>5. Place(m) < Place(n)
  BY <1>1, <1>2, <1>4
<1> QED
  BY <1>1, <1>5, BeforeIsPlace

-------------------------------------------------------------------------------
(* Sets in order.                                                              *)
SmallerIn(S, x) == {y \in S : y < x}

LEMMA InOrderIsOrder ==
  ASSUME NEW S \in SUBSET Int, IsFiniteSet(S)
  PROVE  /\ Cardinality(S) \in Nat /\ DOMAIN InOrder(S) = 1..Cardinality(S)
         /\ \A k \in 1..Cardinality(S) : InOrder(S)[k] \in S
         /\ \A k, l \in 1..Cardinality(S) : k < l => InOrder(S)[k] < InOrder(S)[l]
         /\ \A x \in S : \E k \in 1..Cardinality(S) : InOrder(S)[k] = x
<1> DEFINE c == Cardinality(S)
           rank(x) == Cardinality(SmallerIn(S, x))
           place == [x \in S |-> rank(x) + 1]
<1>1. c \in Nat
  BY FS_CardinalityType
<1>2. ASSUME NEW x \in S PROVE rank(x) \in Nat /\ rank(x) < c
  <2>1. SmallerIn(S, x) \in SUBSET S /\ x \notin SmallerIn(S, x) /\ x \in Int
    BY DEF SmallerIn
  <2>2. IsFiniteSet(SmallerIn(S, x)) /\ rank(x) <= c /\ (c = rank(x) => S = SmallerIn(S, x))
    BY <2>1, FS_Subset
  <2>3. rank(x) \in Nat
    BY <2>2, FS_CardinalityType
  <2> QED
    BY <1>1, <2>1, <2>2, <2>3
<1>3. ASSUME NEW x \in S, NEW z \in S, x < z PROVE rank(x) < rank(z)
  <2>1. x \in Int /\ z \in Int
    OBVIOUS
  <2>2. SmallerIn(S, x) \in SUBSET SmallerIn(S, z)
    <3>1. ASSUME NEW y \in S, y < x PROVE y < z
      <4>1. y \in Int
        OBVIOUS
      <4> QED
        BY <1>3, <2>1, <3>1, <4>1
    <3> QED
      BY <3>1 DEF SmallerIn
  <2>3. x \in SmallerIn(S, z) /\ x \notin SmallerIn(S, x)
    BY <1>3, <2>1 DEF SmallerIn
  <2>4. IsFiniteSet(SmallerIn(S, z))
    <3>1. SmallerIn(S, z) \in SUBSET S
      BY DEF SmallerIn
    <3> QED
      BY <3>1, FS_Subset
  <2>5. rank(x) <= rank(z) /\ (rank(z) = rank(x) => SmallerIn(S, z) = SmallerIn(S, x))
    BY <2>2, <2>4, FS_Subset
  <2> QED
    BY <1>2, <2>3, <2>5
<1> HIDE DEF c, rank
<1>4. place \in Injection(S, 1..c)
  <2>1. place \in [S -> 1..c]
    BY <1>1, <1>2
  <2>2. ASSUME NEW x \in S, NEW z \in S, place[x] = place[z] PROVE x = z
    <3>1. rank(x) = rank(z) /\ x \in Int /\ z \in Int
      BY <1>2, <2>2
    <3> QED
      BY <1>2, <1>3, <3>1
  <2> QED
    BY <2>1, <2>2 DEF Injection, IsInjective
<1>5. place \in Surjection(S, 1..c)
  <2>1. IsFiniteSet(1..c) /\ Cardinality(1..c) = c
    BY <1>1, FS_Interval
  <2> QED
    BY <1>4, <2>1, FS_Injection DEF c
<1>6. \A k \in 1..c : \E x \in S : rank(x) = k - 1
  <2> SUFFICES ASSUME NEW k \in 1..c PROVE \E x \in S : rank(x) = k - 1
    OBVIOUS
  <2>1. PICK x \in S : place[x] = k
    BY <1>5 DEF Surjection
  <2>2. rank(x) + 1 = k /\ rank(x) \in Nat /\ k \in Int
    BY <1>1, <1>2, <2>1
  <2>3. rank(x) = k - 1
    BY <2>2
  <2> QED
    BY <2>3
<1>7. ASSUME NEW k \in 1..c
      PROVE  InOrder(S)[k] \in S /\ rank(InOrder(S)[k]) = k - 1
  <2>1. InOrder(S)[k] = CHOOSE x \in S : rank(x) = k - 1
    BY DEF InOrder, c, rank, SmallerIn
  <2>2. \E x \in S : rank(x) = k - 1
    BY <1>6
  <2> QED
    BY <2>1, <2>2
<1>8. ASSUME NEW k \in 1..c, NEW l \in 1..c, k < l
      PROVE  InOrder(S)[k] < InOrder(S)[l]
  <2> DEFINE x == InOrder(S)[k]
             z == InOrder(S)[l]
  <2>4. x \in S /\ z \in S /\ rank(x) = k - 1 /\ rank(z) = l - 1
    BY <1>7
  <2>1. x \in S /\ z \in S /\ rank(x) < rank(z) /\ x \in Int /\ z \in Int
    <3>1. k - 1 < l - 1
      BY <1>1, <1>8
    <3> QED
      BY <2>4, <3>1
  <2> HIDE DEF x, z
  <2>2. rank(x) \in Nat /\ rank(z) \in Nat /\ (z < x => rank(z) < rank(x)) /\ x # z
    BY <1>2, <1>3, <2>1
  <2>3. x < z
    BY <2>1, <2>2
  <2> QED
    BY <2>3 DEF x, z
<1>9. ASSUME NEW x \in S PROVE \E k \in 1..c : InOrder(S)[k] = x
  <2> DEFINE k == rank(x) + 1
             z == InOrder(S)[k]
  <2>1. k \in 1..c
    BY <1>1, <1>2
  <2>2. z \in S /\ rank(z) = rank(x) /\ x \in Int /\ z \in Int
    <3>1. z \in S /\ rank(z) = k - 1
      BY <1>7, <2>1
    <3>2. k - 1 = rank(x)
      BY <1>2
    <3> QED
      BY <3>1, <3>2
  <2> HIDE DEF z
  <2>3. z = x
    BY <1>2, <1>3, <2>2
  <2> QED
    BY <2>1, <2>3 DEF z
<1>10. DOMAIN InOrder(S) = 1..c
  BY DEF InOrder, c
<1> QED
  BY <1>1, <1>7, <1>8, <1>9, <1>10 DEF c

LEMMA SortedIsOrder ==
  ASSUME NEW N \in SUBSET Nodes
  PROVE  /\ Sorted(N) \in Seq(N)
         /\ \A n \in N : \E k \in DOMAIN Sorted(N) : Sorted(N)[k] = n
         /\ \A k, l \in DOMAIN Sorted(N) : k < l => Before(Sorted(N)[k], Sorted(N)[l])
<1> DEFINE I == {i \in DOMAIN Order : Order[i] \in N}
           s == Sorted(N)
<1>1. I \in SUBSET (1..Len(Order)) /\ I \in SUBSET Int
  BY Places
<1>2. IsFiniteSet(I)
  <2>1. IsFiniteSet(1..Len(Order))
    BY Places, FS_Interval
  <2> QED
    BY <1>1, <2>1, FS_Subset
<1>3. Cardinality(N) = Cardinality(I)
  <2> DEFINE f == [i \in I |-> Order[i]]
  <2>1. f \in [I -> N]
    OBVIOUS
  <2>2. ASSUME NEW i \in I, NEW j \in I, f[i] = f[j] PROVE i = j
    BY <2>2, Places
  <2>3. ASSUME NEW n \in N PROVE \E i \in I : f[i] = n
    <3>1. Place(n) \in I /\ Order[Place(n)] = n
      BY Places
    <3> QED
      BY <3>1
  <2> HIDE DEF I
  <2>4. f \in Bijection(I, N)
    BY <2>1, <2>2, <2>3 DEF Bijection, Injection, Surjection, IsInjective
  <2> HIDE DEF f
  <2> QED
    BY <1>2, <2>4, FS_Bijection DEF ExistsBijection
<1> DEFINE c == Cardinality(I)
           at == InOrder(I)
<1>4. /\ c \in Nat /\ \A k \in 1..c : at[k] \in I
      /\ \A k, l \in 1..c : k < l => at[k] < at[l]
      /\ \A i \in I : \E k \in 1..c : at[k] = i
  BY <1>1, <1>2, InOrderIsOrder
<1>5. s = [k \in 1..c |-> Order[at[k]]]
  BY <1>3 DEF Sorted
<1>6. \A i \in I : i \in 1..Len(Order) /\ Order[i] \in N /\ Place(Order[i]) = i
  BY Places
<1>7. \A n \in N : Place(n) \in I /\ Order[Place(n)] = n
  BY Places
<1> HIDE DEF c, at, s, I
<1>8. s \in Seq(N) /\ DOMAIN s = 1..c
  <2>1. \A k \in 1..c : Order[at[k]] \in N
    BY <1>4, <1>6
  <2>2. s \in [1..c -> N]
    BY <1>5, <2>1
  <2> QED
    BY <1>4, <2>2
<1>9. \A n \in N : \E k \in 1..c : s[k] = n
  BY <1>4, <1>5, <1>7
<1>10. ASSUME NEW k \in 1..c, NEW l \in 1..c, k < l PROVE Before(s[k], s[l])
  <2>1. s[k] = Order[at[k]] /\ s[l] = Order[at[l]] /\ at[k] < at[l]
    BY <1>4, <1>5, <1>10
  <2>2. at[k] \in DOMAIN Order /\ at[l] \in DOMAIN Order
    BY <1>4, <1>6, Places
  <2> QED
    BY <2>1, <2>2 DEF Before
<1> QED
  BY <1>8, <1>9, <1>10 DEF s

-------------------------------------------------------------------------------
(* What others do to the tree.                                                 *)

LEMMA TreeTypeInit == Init => TreeTypeOK
<1> SUFFICES ASSUME Init PROVE TreeTypeOK
  OBVIOUS
<1>1. tree \in Trees /\ locked \in LockedSets /\ touched = {}
  BY DEF Init
<1>2. \A n \in Nodes \ {Root} : tree[n] # Absent => tree[Parent[n]] = Dir
  BY <1>1, ReadingToolsAssumption
<1> QED
  BY <1>1, <1>2, ReadingToolsAssumption DEF TreeTypeOK, IsDir

LEMMA OthersKeepTypes ==
  ASSUME TreeTypeOK, Others
  PROVE  TreeTypeOK'
<1> DEFINE Folded(t) == \A n \in Nodes \ {Root} : t[n] # Absent => t[Parent[n]] = Dir
<1>1. TreeInv /\ locked \subseteq Nodes /\ touched \subseteq Nodes /\ Folded(tree)
  BY DEF TreeTypeOK, TreeInv, IsDir
<1>2. PICK u \in Unstable : Rewrite(u) \/ MakeDir(u) \/ Remove(u)
  BY DEF Others
<1>3. u \in Nodes \ {Root} /\ Parent[u] \in Nodes /\ Parent[u] # u
  BY FileTreeAssumption, FoldersFirst, Places
<1>4. locked' = locked /\ touched' = touched \cup Below(u) /\ Below(u) \subseteq Nodes
  BY <1>2 DEF Rewrite, MakeDir, Remove, Touch, Below
<1>5. TreeInv'
  BY <1>1, <1>2, OthersKeepTree
<1>6. \A n \in Nodes \ {Root} : Parent[n] \in Nodes
  BY FileTreeAssumption
<1>7. ASSUME NEW x, Put(u, x), ~IsDir(u) PROVE Folded(tree')
  <2>1. tree[Parent[u]] = Dir /\ tree' = [tree EXCEPT ![u] = x]
    BY <1>7 DEF Put
  <2>2. \A n \in Nodes : tree'[n] = IF n = u THEN x ELSE tree[n]
    BY <1>1, <2>1 DEF TreeInv
  <2>3. ASSUME NEW n \in Nodes \ {Root}, tree'[n] # Absent PROVE tree'[Parent[n]] = Dir
    <3>1. CASE n = u
      BY <1>3, <2>1, <2>2, <3>1
    <3>2. CASE n # u
      <4>1. tree[Parent[n]] = Dir /\ Parent[n] # u
        BY <1>1, <1>7, <2>2, <2>3, <3>2 DEF IsDir
      <4> QED
        BY <1>6, <2>2, <4>1
    <3> QED
      BY <3>1, <3>2
  <2> QED
    BY <2>3
<1>8. ASSUME Rewrite(u) PROVE Folded(tree')
  BY <1>7, <1>8 DEF Rewrite
<1>9. ASSUME MakeDir(u) PROVE Folded(tree')
  BY <1>7, <1>9, FileTreeAssumption DEF MakeDir, IsDir
<1>10. ASSUME Remove(u) PROVE Folded(tree')
  <2>1. \A n \in Nodes : tree'[n] = IF n \in Below(u) THEN Absent ELSE tree[n]
    BY <1>10 DEF Remove
  <2>2. ASSUME NEW n \in Nodes \ {Root}, tree'[n] # Absent PROVE tree'[Parent[n]] = Dir
    <3>1. n \notin Below(u) /\ tree[Parent[n]] = Dir /\ Parent[n] \in Nodes
      BY <1>1, <1>6, <2>1, <2>2
    <3>2. Parent[n] \notin Below(u)
      BY <1>3, <3>1, BelowIsUp, UpFromEquation
    <3> QED
      BY <2>1, <3>1, <3>2
  <2> QED
    BY <2>2
<1>11. Folded(tree')
  BY <1>2, <1>8, <1>9, <1>10
<1> QED
  BY <1>1, <1>4, <1>5, <1>11 DEF TreeTypeOK, TreeInv, IsDir

LEMMA TreeTypeNext ==
  ASSUME TreeTypeOK, [Next]_vars
  PROVE  TreeTypeOK'
<1>1. ASSUME Begin \/ Step \/ UNCHANGED vars PROVE TreeTypeOK'
  BY <1>1, ToolsKeepTree DEF TreeTypeOK, IsDir, treeVars, vars
<1>2. ASSUME Change PROVE TreeTypeOK'
  BY <1>2, OthersKeepTypes DEF Change
<1> QED
  BY <1>1, <1>2 DEF Next

LEMMA FoldersAbove ==
  ASSUME TreeTypeOK, NEW n \in Nodes, tree[n] # Absent, NEW m \in UpFrom[n], m # n
  PROVE  IsDir(m)
<1> DEFINE S == {x \in Nodes : tree[x] # Absent =>
                   \A y \in UpFrom[x] : y # x => tree[y] = Dir}
<1>1. ASSUME NEW x \in Nodes, x = Root \/ Parent[x] \in S PROVE x \in S
  <2>1. CASE x = Root
    BY <2>1, UpFromEquation
  <2>2. CASE x # Root /\ Parent[x] \in S
    <3>1. /\ Parent[x] \in Nodes /\ UpFrom[x] = {x} \cup UpFrom[Parent[x]]
          /\ tree[x] # Absent => tree[Parent[x]] = Dir
      BY <2>2, UpFromEquation DEF TreeTypeOK, IsDir
    <3>2. Dir # Absent
      BY FileTreeAssumption
    <3> QED
      BY <2>2, <3>1, <3>2
  <2> QED
    BY <1>1, <2>1, <2>2
<1>2. S = Nodes
  BY <1>1, TreeInduction
<1> QED
  BY <1>2 DEF IsDir

(* Where nothing has been touched up to the root, nothing has changed.         *)
LEMMA StableIsKept ==
  ASSUME TreeTypeOK, Others, NEW n \in Nodes, Stable(n)'
  PROVE  /\ Stable(n) /\ locked' = locked
         /\ \A m \in UpFrom[n] : m \notin touched' /\ m \notin touched /\ tree'[m] = tree[m]
<1>1. TreeInv /\ UpFrom[n] \subseteq Nodes /\ n \in UpFrom[n]
  BY UpFromNodes DEF TreeTypeOK, TreeInv
<1>2. UpFrom[n] \cap touched' = {}
  BY DEF Stable
<1>3. \A m \in UpFrom[n] : m \notin touched' /\ m \notin touched /\ tree'[m] = tree[m]
  BY <1>1, <1>2, UntouchedIsKept
<1>4. locked' = locked
  BY DEF Others, Rewrite, MakeDir, Remove, Touch
<1> QED
  BY <1>3, <1>4 DEF Stable

-------------------------------------------------------------------------------
(* Sequences of subtrees.                                                      *)

LEMMA AllBelowIsIn ==
  ASSUME NEW s \in Seq(Nodes), NEW n
  PROVE  n \in AllBelow(s) <=> \E k \in 1..Len(s) : n \in Below(s[k])
BY LenProperties DEF AllBelow

LEMMA AllBelowConcat ==
  ASSUME NEW s \in Seq(Nodes), NEW t \in Seq(Nodes)
  PROVE  AllBelow(s \o t) = AllBelow(s) \cup AllBelow(t)
<1>1. /\ s \o t \in Seq(Nodes) /\ Len(s) \in Nat /\ Len(t) \in Nat
      /\ Len(s \o t) = Len(s) + Len(t)
      /\ \A i \in 1..(Len(s) + Len(t)) :
           (s \o t)[i] = IF i <= Len(s) THEN s[i] ELSE t[i - Len(s)]
  BY ConcatProperties, LenProperties
<1>2. ASSUME NEW n, \E k \in 1..Len(s \o t) : n \in Below((s \o t)[k])
      PROVE  (\E k \in 1..Len(s) : n \in Below(s[k])) \/ \E k \in 1..Len(t) : n \in Below(t[k])
  <2>1. PICK k \in 1..Len(s \o t) : n \in Below((s \o t)[k])
    BY <1>2
  <2>2. CASE k <= Len(s)
    BY <1>1, <2>1, <2>2
  <2>3. CASE k > Len(s)
    <3>1. k - Len(s) \in 1..Len(t) /\ (s \o t)[k] = t[k - Len(s)]
      BY <1>1, <2>1, <2>3
    <3> QED
      BY <2>1, <3>1
  <2> QED
    BY <1>1, <2>2, <2>3
<1>3. ASSUME NEW n, NEW k \in 1..Len(s), n \in Below(s[k])
      PROVE  \E i \in 1..Len(s \o t) : n \in Below((s \o t)[i])
  <2>1. k \in 1..Len(s \o t) /\ (s \o t)[k] = s[k]
    BY <1>1
  <2> QED
    BY <1>3, <2>1
<1>4. ASSUME NEW n, NEW k \in 1..Len(t), n \in Below(t[k])
      PROVE  \E i \in 1..Len(s \o t) : n \in Below((s \o t)[i])
  <2>1. k + Len(s) \in 1..Len(s \o t) /\ (s \o t)[k + Len(s)] = t[k]
    <3>1. k + Len(s) \in 1..(Len(s) + Len(t)) /\ ~(k + Len(s) <= Len(s)) /\ k + Len(s) - Len(s) = k
      BY <1>1
    <3> QED
      BY <1>1, <3>1
  <2> QED
    BY <1>4, <2>1
<1> QED
  BY <1>1, <1>2, <1>3, <1>4, AllBelowIsIn

(* A sequence is its first element and the others.                             *)
LEMMA HeadAndTail ==
  ASSUME NEW S, NEW s \in Seq(S), s # <<>>
  PROVE  /\ Head(s) = s[1] /\ 1 \in 1..Len(s) /\ Tail(s) \in Seq(S)
         /\ \A k \in 1..Len(Tail(s)) : k + 1 \in 1..Len(s) /\ Tail(s)[k] = s[k + 1]
         /\ \A k \in 1..Len(s) : k # 1 => k - 1 \in 1..Len(Tail(s)) /\ Tail(s)[k - 1] = s[k]
<1>1. /\ Len(s) \in Nat /\ Len(s) # 0
  BY EmptySeq
<1>2. Tail(s) \in Seq(S) /\ Len(Tail(s)) = Len(s) - 1
      /\ \A i \in 1..Len(Tail(s)) : Tail(s)[i] = s[i + 1]
  BY HeadTailProperties
<1>3. Head(s) = s[1]
  OBVIOUS
<1>4. ASSUME NEW k \in 1..Len(s), k # 1
      PROVE  k - 1 \in 1..Len(Tail(s)) /\ Tail(s)[k - 1] = s[k]
  <2>1. k - 1 \in 1..Len(Tail(s)) /\ (k - 1) + 1 = k
    BY <1>1, <1>2, <1>4
  <2> QED
    BY <1>2, <2>1
<1> QED
  BY <1>1, <1>2, <1>3, <1>4

LEMMA AllBelowTail ==
  ASSUME NEW s \in Seq(Nodes), s # <<>>
  PROVE  /\ Tail(s) \in Seq(Nodes) /\ Head(s) \in Nodes
         /\ AllBelow(s) = Below(Head(s)) \cup AllBelow(Tail(s))
         /\ Apart(s) => /\ Apart(Tail(s))
                        /\ Below(Head(s)) \cap AllBelow(Tail(s)) = {}
<1>1. /\ Head(s) = s[1] /\ 1 \in 1..Len(s) /\ Tail(s) \in Seq(Nodes)
      /\ \A k \in 1..Len(Tail(s)) : k + 1 \in 1..Len(s) /\ Tail(s)[k] = s[k + 1]
      /\ \A k \in 1..Len(s) : k # 1 => k - 1 \in 1..Len(Tail(s)) /\ Tail(s)[k - 1] = s[k]
  BY HeadAndTail
<1>2. AllBelow(s) = Below(Head(s)) \cup AllBelow(Tail(s))
  <2>1. ASSUME NEW n, n \in AllBelow(s) PROVE n \in Below(Head(s)) \cup AllBelow(Tail(s))
    <3>1. PICK k \in 1..Len(s) : n \in Below(s[k])
      BY <2>1, AllBelowIsIn
    <3> QED
      BY <1>1, <3>1, AllBelowIsIn
  <2>2. ASSUME NEW n, n \in AllBelow(Tail(s)) PROVE n \in AllBelow(s)
    <3>1. PICK k \in 1..Len(Tail(s)) : n \in Below(Tail(s)[k])
      BY <1>1, <2>2, AllBelowIsIn
    <3> QED
      BY <1>1, <3>1, AllBelowIsIn
  <2>3. Below(Head(s)) \subseteq AllBelow(s)
    BY <1>1, AllBelowIsIn
  <2> QED
    BY <2>1, <2>2, <2>3
<1>3. ASSUME Apart(s) PROVE Apart(Tail(s)) /\ Below(Head(s)) \cap AllBelow(Tail(s)) = {}
  <2>1. DOMAIN s = 1..Len(s) /\ DOMAIN Tail(s) = 1..Len(Tail(s))
    BY <1>1, LenProperties
  <2>2. \A k, l \in 1..Len(s) : k # l => Below(s[k]) \cap Below(s[l]) = {}
    BY <1>3, <2>1 DEF Apart
  <2>3. ASSUME NEW k \in 1..Len(Tail(s)), NEW l \in 1..Len(Tail(s)), k # l
        PROVE  Below(Tail(s)[k]) \cap Below(Tail(s)[l]) = {}
    <3>1. k + 1 # l + 1
      BY <2>3
    <3> QED
      BY <1>1, <2>2, <3>1
  <2>4. ASSUME NEW k \in 1..Len(Tail(s)) PROVE Below(Head(s)) \cap Below(Tail(s)[k]) = {}
    <3>1. k + 1 # 1
      OBVIOUS
    <3> QED
      BY <1>1, <2>2, <3>1
  <2>5. Below(Head(s)) \cap AllBelow(Tail(s)) = {}
    BY <1>1, <2>4, AllBelowIsIn
  <2> QED
    BY <2>1, <2>3, <2>5 DEF Apart
<1>4. Head(s) \in Nodes
  BY <1>1, ElementOfSeq
<1> QED
  BY <1>1, <1>2, <1>3, <1>4

LEMMA ApartConcat ==
  ASSUME NEW s \in Seq(Nodes), NEW t \in Seq(Nodes), Apart(s), Apart(t),
         AllBelow(s) \cap AllBelow(t) = {}
  PROVE  Apart(s \o t)
<1>1. /\ s \o t \in Seq(Nodes) /\ Len(s) \in Nat /\ Len(t) \in Nat
      /\ DOMAIN (s \o t) = 1..(Len(s) + Len(t))
      /\ \A i \in 1..(Len(s) + Len(t)) :
           (s \o t)[i] = IF i <= Len(s) THEN s[i] ELSE t[i - Len(s)]
  BY ConcatProperties, LenProperties
<1>2. /\ \A k, l \in 1..Len(s) : k # l => Below(s[k]) \cap Below(s[l]) = {}
      /\ \A k, l \in 1..Len(t) : k # l => Below(t[k]) \cap Below(t[l]) = {}
  BY LenProperties DEF Apart
<1>3. \A k \in 1..Len(s), l \in 1..Len(t) : Below(s[k]) \cap Below(t[l]) = {}
  BY AllBelowIsIn
<1>4. \A i \in 1..(Len(s) + Len(t)) :
        \/ i \in 1..Len(s) /\ (s \o t)[i] = s[i]
        \/ i \notin 1..Len(s) /\ i - Len(s) \in 1..Len(t) /\ (s \o t)[i] = t[i - Len(s)]
  BY <1>1
<1>5. ASSUME NEW k \in 1..(Len(s) + Len(t)), NEW l \in 1..(Len(s) + Len(t)), k # l
      PROVE  Below((s \o t)[k]) \cap Below((s \o t)[l]) = {}
  <2>1. k - Len(s) # l - Len(s)
    BY <1>1, <1>5
  <2>2. CASE k \in 1..Len(s) /\ l \in 1..Len(s)
    BY <1>2, <1>4, <1>5, <2>2
  <2>3. CASE k \in 1..Len(s) /\ l \notin 1..Len(s)
    BY <1>3, <1>4, <1>5, <2>3
  <2>4. CASE k \notin 1..Len(s) /\ l \in 1..Len(s)
    BY <1>3, <1>4, <1>5, <2>4
  <2>5. CASE k \notin 1..Len(s) /\ l \notin 1..Len(s)
    <3>1. /\ k - Len(s) \in 1..Len(t) /\ (s \o t)[k] = t[k - Len(s)]
          /\ l - Len(s) \in 1..Len(t) /\ (s \o t)[l] = t[l - Len(s)]
      BY <1>4, <2>5
    <3> QED
      BY <1>2, <2>1, <3>1
  <2> QED
    BY <2>2, <2>3, <2>4, <2>5
<1> QED
  BY <1>1, <1>5 DEF Apart

(* The entries of a directory, sorted: apart from each other, inside of the     *)
(* directory, and with everything there is below it.                           *)
LEMMA ChildrenInTurn ==
  ASSUME NEW d \in Nodes, NEW N \in SUBSET Children(d)
  PROVE  LET s == Sorted(N)
         IN  /\ s \in Seq(Nodes) /\ s \in Seq(N) /\ Apart(s)
             /\ AllBelow(s) \subseteq Below(d) \ {d}
             /\ \A c \in N : Below(c) \subseteq AllBelow(s)
<1> DEFINE s == Sorted(N)
<1>1. \A c \in N : c \in Nodes \ {Root} /\ Parent[c] = d
  BY DEF Children
<1>2. N \in SUBSET Nodes
  BY <1>1
<1>3. /\ s \in Seq(N) /\ \A n \in N : \E k \in DOMAIN s : s[k] = n
      /\ \A k, l \in DOMAIN s : k < l => Before(s[k], s[l])
  BY <1>2, SortedIsOrder
<1> HIDE DEF s
<1>4. s \in Seq(Nodes) /\ DOMAIN s = 1..Len(s) /\ \A k \in 1..Len(s) : s[k] \in N
  BY <1>2, <1>3, SeqMonotonic, LenProperties, ElementOfSeq
<1>5. ASSUME NEW k \in DOMAIN s, NEW l \in DOMAIN s, k # l
      PROVE  Below(s[k]) \cap Below(s[l]) = {}
  <2>1. Before(s[k], s[l]) \/ Before(s[l], s[k])
    <3>1. k < l \/ l < k
      BY <1>4, <1>5
    <3> QED
      BY <1>3, <3>1
  <2>2. /\ s[k] \in Nodes \ {Root} /\ s[l] \in Nodes \ {Root} /\ Parent[s[k]] = Parent[s[l]]
        /\ Place(s[k]) \in Int /\ Place(s[l]) \in Int
    BY <1>1, <1>4, Places
  <2>3. s[k] # s[l]
    BY <2>1, <2>2, BeforeIsPlace
  <2> QED
    BY <2>2, <2>3, Siblings
<1>6. ASSUME NEW n, n \in AllBelow(s) PROVE n \in Below(d) \ {d}
  <2>1. PICK k \in 1..Len(s) : n \in Below(s[k])
    BY <1>4, <1>6, AllBelowIsIn
  <2>2. s[k] \in Nodes \ {Root} /\ Parent[s[k]] = d
    BY <1>1, <1>4
  <2>3. n \in Nodes /\ s[k] \in UpFrom[n] /\ d \in UpFrom[s[k]]
    BY <2>1, <2>2, BelowIsUp, UpFromEquation, UpFromNodes
  <2>4. d \in UpFrom[n]
    BY <2>3, UpFromTransitive
  <2>5. n # d
    <3> SUFFICES ASSUME n = d PROVE FALSE
      OBVIOUS
    <3>1. Place(s[k]) <= Place(d) /\ Place(d) < Place(s[k]) /\ Place(d) \in Int
      BY <2>2, <2>3, UpIsEarlier, FoldersFirst, Places
    <3> QED
      BY <2>2, <3>1, Places
  <2> QED
    BY <2>3, <2>4, <2>5, BelowIsUp
<1>7. ASSUME NEW c \in N PROVE Below(c) \subseteq AllBelow(s)
  BY <1>3 DEF AllBelow
<1> QED
  BY <1>3, <1>4, <1>5, <1>6, <1>7 DEF Apart, s

-------------------------------------------------------------------------------
(* searchInFile.                                                               *)

LEMMA ContextHasType ==
  ASSUME NEW t, IsText(t), NEW i \in 0..(Len(t) - 1), NEW c \in Ints
  PROVE  Context(t, i, c) \in Seq(Lines) \X Seq(Lines)
<1> DEFINE from == IF i - c < 0 THEN 0 ELSE i - c
           to == IF ContextEnd(i, c) > Len(t) THEN Len(t) ELSE ContextEnd(i, c)
<1>1. /\ t \in Seq(Lines) /\ Len(t) \in Nat /\ MaxInt \in Nat /\ c \in Int /\ i \in Int
      /\ \A k \in 1..Len(t) : t[k] \in Lines
  BY FileTreeAssumption, LenProperties, ElementOfSeq DEF IsText, Ints
<1>2. ContextEnd(i, c) \in Int
  BY <1>1 DEF ContextEnd, Int64
<1>3. CASE c > 0
  <2>1. from \in Nat /\ to \in Int /\ to <= Len(t)
    BY <1>1, <1>2
  <2> HIDE DEF from, to
  <2>2. (\A k \in (from + 1)..i : k \in 1..Len(t)) /\ (\A k \in (i + 2)..to : k \in 1..Len(t))
    BY <1>1, <2>1
  <2>3. SubSeq(t, from + 1, i) \in Seq(Lines) /\ SubSeq(t, i + 2, to) \in Seq(Lines)
    BY <1>1, <2>1, <2>2, SubSeqProperties
  <2>4. Context(t, i, c) = <<SubSeq(t, from + 1, i), SubSeq(t, i + 2, to)>>
    BY <1>3 DEF Context, from, to
  <2>5. <<SubSeq(t, from + 1, i), SubSeq(t, i + 2, to)>> \in Seq(Lines) \X Seq(Lines)
    BY <2>3
  <2> QED
    BY <2>4, <2>5
<1>4. CASE ~(c > 0)
  BY <1>4, EmptySeq DEF Context
<1> QED
  BY <1>3, <1>4

(* The matching lines in order, as many as there is room for.                  *)
LEMMA SearchInFileFinds ==
  ASSUME TreeInv, NEW n \in Nodes, IsFile(n), NEW limit \in Nat, search.context \in Ints
  PROVE  LET s == SearchInFile(n, limit)
         IN  /\ s \in Seq(LineFound) /\ Len(s) <= limit
             /\ \A k \in 1..Len(s) : s[k] = Match(n, s[k].line) /\ Hit(n, s[k].line)
             /\ \A k, l \in 1..Len(s) : k < l => s[k].line < s[l].line
             /\ \A i \in Int : Hit(n, i) /\ (\A k \in 1..Len(s) : s[k].line # i) =>
                  Len(s) = limit /\ \A k \in 1..Len(s) : s[k].line < i
<1> DEFINE t == tree[n]
           H == {i \in 0..(Len(t) - 1) : t[i + 1] \in search.re}
           c == Cardinality(H)
           hits == InOrder(H)
           taken == IF c > limit THEN limit ELSE c
           s == SearchInFile(n, limit)
<1>1. /\ IsText(t) /\ t \in Seq(Lines) /\ Len(t) \in Nat
      /\ \A k \in 1..Len(t) : t[k] \in Lines
  BY FilesAreContents, ContentsAreTexts, LenProperties, ElementOfSeq DEF IsText
<1>2. /\ H \in SUBSET Int /\ \A i : i \in H <=> Hit(n, i)
      /\ \A i \in H : i \in 0..(Len(t) - 1) /\ i \in Nat /\ i + 1 \in 1..Len(t)
  BY <1>1 DEF Hit
<1>3. IsFiniteSet(H)
  <2>1. IsFiniteSet(0..(Len(t) - 1)) /\ H \in SUBSET (0..(Len(t) - 1))
    BY <1>1, FS_Interval
  <2> QED
    BY <2>1, FS_Subset
<1> HIDE DEF H
<1>4. /\ c \in Nat /\ DOMAIN hits = 1..c /\ \A k \in 1..c : hits[k] \in H
      /\ \A k, l \in 1..c : k < l => hits[k] < hits[l]
      /\ \A i \in H : \E k \in 1..c : hits[k] = i
  BY <1>2, <1>3, InOrderIsOrder
<1>5. Len(hits) = c
  <2>1. hits = [k \in 1..c |-> hits[k]]
    BY DEF InOrder
  <2>2. hits \in [1..c -> H]
    BY <1>4, <2>1
  <2>3. hits \in Seq(H)
    BY <1>4, <2>2
  <2> QED
    BY <1>4, <2>3, LenProperties
<1>6. s = [k \in 1..taken |-> Match(n, hits[k])]
  BY <1>5 DEF SearchInFile, H
<1>7. taken \in Nat /\ taken <= limit /\ taken <= c /\ (taken # limit => taken = c)
  BY <1>4
<1> HIDE DEF c, hits, taken, s, t
<1>8. ASSUME NEW i \in H PROVE Match(n, i) \in LineFound /\ Match(n, i).line = i
  <2>1. /\ t[i + 1] \in Lines /\ Context(t, i, search.context) \in Seq(Lines) \X Seq(Lines)
        /\ i \in Nat
    BY <1>1, <1>2, ContextHasType
  <2> QED
    BY <2>1 DEF Match, LineFound, t
<1>9. \A k \in 1..taken : k \in 1..c /\ hits[k] \in H /\ s[k] = Match(n, hits[k]) /\ s[k].line = hits[k]
  BY <1>4, <1>6, <1>7, <1>8
<1>10. s \in Seq(LineFound) /\ Len(s) = taken
  <2>1. s \in [1..taken -> LineFound]
    BY <1>6, <1>8, <1>9
  <2>2. s \in Seq(LineFound)
    BY <1>7, <2>1
  <2> QED
    BY <1>7, <2>1, <2>2, LenProperties
<1>11. \A k \in 1..taken : s[k] = Match(n, s[k].line) /\ Hit(n, s[k].line)
  BY <1>2, <1>9
<1>12. \A k, l \in 1..taken : k < l => s[k].line < s[l].line
  BY <1>4, <1>9
<1>13. ASSUME NEW i \in Int, Hit(n, i), \A k \in 1..taken : s[k].line # i
       PROVE  taken = limit /\ \A k \in 1..taken : s[k].line < i
  <2>1. PICK l \in 1..c : hits[l] = i
    BY <1>2, <1>4, <1>13
  <2>2. l \notin 1..taken
    BY <1>9, <1>13, <2>1
  <2>3. l > taken /\ taken # c
    BY <1>4, <1>7, <2>2
  <2>4. \A k \in 1..taken : k < l
    BY <1>4, <1>7, <2>3
  <2> QED
    BY <1>4, <1>7, <1>9, <2>1, <2>3, <2>4
<1> QED
  BY <1>7, <1>10, <1>11, <1>12, <1>13 DEF s

-------------------------------------------------------------------------------
(* search: the steps.                                                          *)

LEMMA SearchInvInit == Init => SearchInv
<1> SUFFICES ASSUME Init PROVE SearchInv
  OBVIOUS
<1>1. search = NoSearch /\ (\A X : <<>> \in Seq(X)) /\ Len(<<>>) = 0 /\ DOMAIN <<>> = {}
  BY EmptySeq DEF Init
<1>2. 0 \in Ints /\ Root \in Nodes
  BY FileTreeAssumption DEF Ints
<1>3. search \in SearchState /\ search.pc = "idle" /\ search.pending = <<>>
      /\ search.matches = <<>> /\ search.max = 100
  BY <1>1, <1>2 DEF NoSearch, SearchState
<1> QED
  BY <1>1, <1>3 DEF SearchInv, SearchTypes, WalkInv, Apart, AtInv, FoundInv, BehindInv

LEMMA SearchInvBegin ==
  ASSUME SearchInv, NEW r \in SearchRequests, BeginSearch(r)
  PROVE  SearchInv'
<1>1. /\ (\A X : <<>> \in Seq(X)) /\ Len(<<>>) = 0 /\ DOMAIN <<>> = {}
  BY EmptySeq
<1>2. r.path \in Nodes /\ r.context \in Ints /\ r.max \in Int
  BY FileSearchAssumption
<1>3. <<r.path>> \in Seq(Nodes) /\ DOMAIN <<r.path>> = {1} /\ <<r.path>>[1] = r.path
  BY <1>2
<1>4. search' = [pc |-> "walk", path |-> r.path, re |-> r.re, include |-> r.include,
                 exclude |-> r.exclude, context |-> r.context, max |-> r.max,
                 pending |-> <<r.path>>, matches |-> <<>>]
  BY DEF BeginSearch, NoSearch
<1>5. /\ search' \in SearchState /\ search'.pc = "walk" /\ search'.pending = <<r.path>>
      /\ search'.matches = <<>> /\ search'.max = r.max /\ search'.path = r.path
  BY <1>1, <1>2, <1>3, <1>4 DEF SearchState
<1>6. WalkInv'
  <2>1. r.path \in Below(r.path)
    BY <1>2, BelowIsUp, UpFromNodes
  <2>2. Apart(<<r.path>>)
    BY <1>3 DEF Apart
  <2>3. \A m \in UpFrom[r.path] \ {r.path} : m \notin Below(r.path)
    <3> SUFFICES ASSUME NEW m \in UpFrom[r.path] \ {r.path}, m \in Below(r.path) PROVE FALSE
      OBVIOUS
    <3>1. m \in Nodes /\ r.path \in UpFrom[m]
      BY <1>2, BelowIsUp
    <3>2. Place(m) <= Place(r.path) /\ Place(r.path) <= Place(m)
          /\ Place(m) \in Int /\ Place(r.path) \in Int
      BY <1>2, <3>1, UpIsEarlier, Places
    <3>3. m = r.path
      BY <1>2, <3>1, <3>2, Places
    <3> QED
      BY <3>3
  <2> QED
    BY <1>3, <1>5, <2>1, <2>2, <2>3 DEF WalkInv, Reached
<1>7. BehindInv'
  <2> SUFFICES ASSUME NEW n \in Nodes, n \notin Ahead', Searched(n)' PROVE FALSE
    BY DEF BehindInv
  <2>1. n \in Below(r.path)
    BY <1>5 DEF Searched
  <2>2. n \in AllBelow(<<r.path>>)
    BY <1>3, <2>1 DEF AllBelow
  <2> QED
    BY <1>5, <2>2 DEF Ahead
<1>8. FoundInv' /\ AtInv'
  BY <1>1, <1>2, <1>5 DEF FoundInv, AtInv
<1>9. SearchTypes'
  BY <1>5 DEF SearchTypes
<1> QED
  BY <1>6, <1>7, <1>8, <1>9 DEF SearchInv

(* What a step of the walk leaves alone.                                       *)
LEMMA GoOnKeeps ==
  ASSUME SearchTypes, NEW to \in {"walk", "names", "scan", "done"},
         NEW rest \in Seq(Nodes), NEW found \in Seq(LineFound), GoOn(to, rest, found)
  PROVE  /\ search' \in SearchState /\ search'.pc = to
         /\ search'.pending = rest /\ search'.matches = search.matches \o found
         /\ search'.path = search.path /\ search'.re = search.re
         /\ search'.include = search.include /\ search'.exclude = search.exclude
         /\ search'.context = search.context /\ search'.max = search.max
         /\ tree' = tree /\ locked' = locked /\ touched' = touched
         /\ \A n : /\ Stable(n)' <=> Stable(n)
                   /\ Searched(n)' <=> Searched(n)
                   /\ Reached(n)' <=> Reached(n)
                   /\ \A i : Hit(n, i)' <=> Hit(n, i)
         /\ \A f : RightMatch(f)' <=> RightMatch(f)
<1>1. search \in SearchState /\ search.matches \in Seq(LineFound)
  BY DEF SearchTypes, SearchState
<1>2. search.matches \o found \in Seq(LineFound)
  BY <1>1, ConcatProperties
<1>3. search' = [search EXCEPT !.pc = to, !.pending = rest,
                               !.matches = search.matches \o found]
  BY DEF GoOn
<1>4. /\ search' \in SearchState /\ search'.pc = to
      /\ search'.pending = rest /\ search'.matches = search.matches \o found
      /\ search'.path = search.path /\ search'.re = search.re
      /\ search'.include = search.include /\ search'.exclude = search.exclude
      /\ search'.context = search.context /\ search'.max = search.max
  BY <1>1, <1>2, <1>3 DEF SearchState
<1>5. tree' = tree /\ locked' = locked /\ touched' = touched
  BY DEF GoOn, treeVars
<1>6. ASSUME NEW n
      PROVE  /\ Stable(n)' <=> Stable(n)
             /\ Searched(n)' <=> Searched(n)
             /\ Reached(n)' <=> Reached(n)
             /\ \A i : Hit(n, i)' <=> Hit(n, i)
  BY <1>4, <1>5 DEF Stable, Searched, Reached, Hit, CanRead, IsFile, Selected
<1>7. ASSUME NEW f PROVE RightMatch(f)' <=> RightMatch(f)
  BY <1>4, <1>5, <1>6 DEF RightMatch
<1> QED
  BY <1>4, <1>5, <1>6, <1>7

(* A step that finds nothing: what it passes over holds nothing to be found,    *)
(* or there is no room for it.                                                 *)
LEMMA PassOver ==
  ASSUME SearchInv, search.pc # "idle",
         NEW to \in {"walk", "names", "scan", "done"}, NEW rest \in Seq(Nodes),
         GoOn(to, rest, <<>>),
         Apart(rest), \A k \in DOMAIN rest : Reached(rest[k]),
         AllBelow(rest) \subseteq Ahead,
         \A n \in Ahead \ AllBelow(rest) : Stable(n) /\ Searched(n) => Full,
         to \in {"names", "scan"} => rest # <<>>, to = "done" => rest = <<>>,
         to = "names" => Head(rest) \in touched \/ IsDir(Head(rest)),
         to = "scan" => /\ ~Full /\ Selected(Head(rest))
                        /\ Head(rest) \in touched \/ IsFile(Head(rest))
  PROVE  SearchInv'
<1>1. /\ SearchTypes /\ FoundInv /\ BehindInv
      /\ search.matches \in Seq(LineFound) /\ search.matches \o <<>> = search.matches
      /\ <<>> \in Seq(LineFound)
  BY ConcatEmptySeq, EmptySeq DEF SearchInv, SearchTypes, SearchState
<1>2. /\ search' \in SearchState /\ search'.pc = to
      /\ search'.pending = rest /\ search'.matches = search.matches
      /\ search'.path = search.path /\ search'.re = search.re
      /\ search'.include = search.include /\ search'.exclude = search.exclude
      /\ search'.context = search.context /\ search'.max = search.max
      /\ tree' = tree /\ locked' = locked /\ touched' = touched
      /\ \A n : /\ Stable(n)' <=> Stable(n)
                /\ Searched(n)' <=> Searched(n)
                /\ Reached(n)' <=> Reached(n)
                /\ \A i : Hit(n, i)' <=> Hit(n, i)
      /\ \A f : RightMatch(f)' <=> RightMatch(f)
  BY <1>1, GoOnKeeps
<1>3. Ahead' = AllBelow(rest) /\ (Full' <=> Full)
  BY <1>2 DEF Ahead, Full
<1>4. SearchTypes'
  BY <1>2 DEF SearchTypes
<1>5. WalkInv'
  BY <1>2 DEF WalkInv
<1>6. AtInv'
  BY <1>2, <1>3 DEF AtInv, Visited, Selected, IsDir, IsFile
<1>7. FoundInv'
  <2>1. \A k \in DOMAIN search.matches :
          LET f == search.matches[k]
          IN  f.file \notin AllBelow(rest) /\ (Stable(f.file)' => RightMatch(f)')
    BY <1>1, <1>2 DEF FoundInv
  <2>2. /\ Len(search.matches) <= (IF search.max < 0 THEN 0 ELSE search.max)
        /\ \A k, l \in DOMAIN search.matches :
             k < l /\ search.matches[k].file = search.matches[l].file =>
               search.matches[k].line < search.matches[l].line
    BY <1>1 DEF FoundInv
  <2> QED
    BY <1>2, <1>3, <2>1, <2>2 DEF FoundInv
<1>8. \A n, i : Found(n, i)' <=> Found(n, i)
  BY <1>2 DEF Found
<1>9. BehindInv'
  <2> SUFFICES ASSUME NEW n \in Nodes \ Ahead', Stable(n)', Searched(n)',
                      NEW i \in Int, Hit(n, i)', ~Found(n, i)'
               PROVE  Full' /\ \A j \in Int : Found(n, j)' => j < i
    BY DEF BehindInv
  <2>1. Stable(n) /\ Searched(n) /\ Hit(n, i) /\ ~Found(n, i)
    BY <1>2, <1>8
  <2>2. CASE n \in Ahead
    <3>1. Full
      BY <1>3, <2>1, <2>2
    <3>2. \A j \in Int : ~Found(n, j)
      BY <1>1, <2>2 DEF FoundInv, Found
    <3> QED
      BY <1>3, <1>8, <3>1, <3>2
  <2>3. CASE n \notin Ahead
    <3>1. Full /\ \A j \in Int : Found(n, j) => j < i
      BY <1>1, <2>1, <2>3 DEF BehindInv
    <3> QED
      BY <1>3, <1>8, <3>1
  <2> QED
    BY <2>2, <2>3
<1> QED
  BY <1>4, <1>5, <1>6, <1>7, <1>9 DEF SearchInv

(* What the walk is at, and the rest.                                          *)
LEMMA AtVisited ==
  ASSUME SearchInv, search.pending # <<>>
  PROVE  LET rest == Tail(search.pending)
         IN  /\ search.pending \in Seq(Nodes) /\ rest \in Seq(Nodes)
             /\ Visited \in Nodes /\ Reached(Visited)
             /\ Apart(search.pending) /\ Apart(rest)
             /\ \A k \in DOMAIN search.pending : Reached(search.pending[k])
             /\ \A k \in DOMAIN rest : Reached(rest[k])
             /\ Ahead = Below(Visited) \cup AllBelow(rest)
             /\ Below(Visited) \cap AllBelow(rest) = {}
             /\ Visited \in Below(Visited)
<1> DEFINE rest == Tail(search.pending)
<1>1. /\ search.pending \in Seq(Nodes) /\ Apart(search.pending)
      /\ \A k \in DOMAIN search.pending : Reached(search.pending[k])
  BY DEF SearchInv, SearchTypes, SearchState, WalkInv
<1>2. /\ rest \in Seq(Nodes) /\ Visited \in Nodes /\ Apart(rest)
      /\ Ahead = Below(Visited) \cup AllBelow(rest)
      /\ Below(Visited) \cap AllBelow(rest) = {}
  BY <1>1, AllBelowTail DEF Ahead, Visited
<1>3. /\ DOMAIN search.pending = 1..Len(search.pending) /\ DOMAIN rest = 1..Len(rest)
      /\ Visited = search.pending[1] /\ 1 \in 1..Len(search.pending)
      /\ \A k \in 1..Len(rest) : k + 1 \in 1..Len(search.pending)
                                 /\ rest[k] = search.pending[k + 1]
  BY <1>1, <1>2, HeadAndTail, LenProperties DEF Visited
<1>4. Reached(Visited) /\ \A k \in DOMAIN rest : Reached(rest[k])
  BY <1>1, <1>3
<1>5. Visited \in Below(Visited)
  BY <1>2 DEF Below
<1> QED
  BY <1>1, <1>2, <1>4, <1>5

(* A file below a name that is not a directory is that name.                   *)
LEMMA OnlyFoldersHold ==
  ASSUME TreeTypeOK, NEW m \in Nodes, NEW n \in Below(m), tree[n] # Absent, ~IsDir(m)
  PROVE  n = m
BY BelowIsUp, FoldersAbove

LEMMA SearchInvSkip ==
  ASSUME SearchInv, search.pc # "idle", search.pending # <<>>, Skip,
         \A n \in Below(Visited) : ~(Stable(n) /\ Searched(n))
  PROVE  SearchInv'
<1> DEFINE rest == Tail(search.pending)
<1>1. /\ rest \in Seq(Nodes) /\ Apart(rest) /\ \A k \in DOMAIN rest : Reached(rest[k])
      /\ Ahead = Below(Visited) \cup AllBelow(rest)
  BY AtVisited
<1>2. GoOn("walk", rest, <<>>)
  BY DEF Skip
<1>3. \A n \in Ahead \ AllBelow(rest) : Stable(n) /\ Searched(n) => Full
  BY <1>1
<1>4. AllBelow(rest) \subseteq Ahead
  BY <1>1
<1> HIDE DEF rest
<1> QED
  BY <1>1, <1>2, <1>3, <1>4, PassOver

LEMMA SearchInvVisit ==
  ASSUME SearchInv, TreeTypeOK, VisitNext
  PROVE  SearchInv'
<1> DEFINE P == search.pending
<1>1. search.pc = "walk" /\ P # <<>>
  BY DEF VisitNext
<1>2. /\ P \in Seq(Nodes) /\ Apart(P) /\ \A k \in DOMAIN P : Reached(P[k])
      /\ Visited \in Nodes /\ Visited = Head(P) /\ Ahead = AllBelow(P)
  BY <1>1, AtVisited DEF Visited, Ahead
<1>3. ASSUME ~IsDir(Visited), tree[Visited] = Absent \/ ~Selected(Visited), Skip
      PROVE  SearchInv'
  <2>1. ASSUME NEW n \in Below(Visited), Searched(n) PROVE FALSE
    <3>1. tree[n] # Absent /\ Selected(n)
      BY <2>1 DEF Searched, IsFile
    <3> QED
      BY <1>2, <1>3, <2>1, <3>1, OnlyFoldersHold
  <2> QED
    BY <1>1, <1>3, <2>1, SearchInvSkip
<1> HIDE DEF P
<1>4. CASE IsDir(Visited) /\ GoOn("names", P, <<>>)
  BY <1>1, <1>2, <1>4, PassOver
<1>5. CASE /\ IsFile(Visited) /\ Selected(Visited) /\ ~Full
           /\ GoOn("scan", P, <<>>)
  BY <1>1, <1>2, <1>5, PassOver
<1>6. CASE Full /\ GoOn("done", <<>>, <<>>)
  <2>1. <<>> \in Seq(Nodes) /\ DOMAIN <<>> = {} /\ AllBelow(<<>>) = {} /\ Apart(<<>>)
    BY EmptySeq DEF AllBelow, Apart
  <2> QED
    BY <1>1, <1>6, <2>1, PassOver
<1>7. tree[Visited] = Absent => ~IsDir(Visited)
  BY FileTreeAssumption DEF IsDir
<1> QED
  BY <1>3, <1>4, <1>5, <1>6, <1>7 DEF VisitNext, IsFile, IsDir, P

LEMMA SearchInvNames ==
  ASSUME SearchInv, TreeTypeOK, ReadNames
  PROVE  SearchInv'
<1> DEFINE P == search.pending
           below == Sorted(Children(Visited))
           rest == Tail(P)
<1>1. search.pc = "names" /\ P # <<>>
  BY DEF ReadNames, SearchInv, SearchTypes
<1>2. /\ rest \in Seq(Nodes) /\ Visited \in Nodes /\ Reached(Visited) /\ Apart(rest)
      /\ \A k \in DOMAIN rest : Reached(rest[k])
      /\ Ahead = Below(Visited) \cup AllBelow(rest)
      /\ Below(Visited) \cap AllBelow(rest) = {}
  BY <1>1, AtVisited
<1>3. CASE IsDir(Visited) /\ CanRead(Visited) /\ GoOn("walk", below \o rest, <<>>)
  <2>1. Children(Visited) \in SUBSET Children(Visited)
    OBVIOUS
  <2>2. /\ below \in Seq(Nodes) /\ below \in Seq(Children(Visited)) /\ Apart(below)
        /\ AllBelow(below) \subseteq Below(Visited) \ {Visited}
        /\ \A c \in Children(Visited) : Below(c) \subseteq AllBelow(below)
    BY <1>2, <2>1, ChildrenInTurn
  <2> HIDE DEF below, rest
  <2>3. /\ below \o rest \in Seq(Nodes) /\ Apart(below \o rest)
        /\ AllBelow(below \o rest) = AllBelow(below) \cup AllBelow(rest)
    BY <1>2, <2>2, ConcatProperties, ApartConcat, AllBelowConcat
  <2>4. ASSUME NEW c \in Children(Visited) PROVE Reached(c)
    <3>1. c \in Nodes \ {Root} /\ Parent[c] = Visited
      BY DEF Children
    <3>2. UpFrom[c] = {c} \cup UpFrom[Visited] /\ Visited \in UpFrom[Visited]
      BY <1>2, <3>1, UpFromEquation, UpFromNodes
    <3>3. search.path \in Nodes /\ search.path \in UpFrom[Visited]
      BY <1>2, BelowIsUp DEF Reached, SearchInv, SearchTypes, SearchState
    <3>4. c \in Below(search.path)
      BY <3>1, <3>2, <3>3, BelowIsUp
    <3> QED
      BY <1>2, <1>3, <3>2, <3>4 DEF Reached
  <2>5. \A k \in DOMAIN (below \o rest) : Reached((below \o rest)[k])
    <3>1. /\ Len(below) \in Nat /\ Len(rest) \in Nat
          /\ DOMAIN below = 1..Len(below) /\ DOMAIN rest = 1..Len(rest)
          /\ DOMAIN (below \o rest) = 1..(Len(below) + Len(rest))
          /\ \A i \in 1..(Len(below) + Len(rest)) :
               (below \o rest)[i] = IF i <= Len(below) THEN below[i] ELSE rest[i - Len(below)]
      BY <1>2, <2>2, <2>3, ConcatProperties, LenProperties
    <3>2. \A k \in 1..Len(below) : below[k] \in Children(Visited)
      BY <2>2, ElementOfSeq
    <3>3. ASSUME NEW i \in 1..(Len(below) + Len(rest)) PROVE Reached((below \o rest)[i])
      <4>1. CASE i <= Len(below)
        BY <2>4, <3>1, <3>2, <4>1
      <4>2. CASE ~(i <= Len(below))
        <5>1. i - Len(below) \in 1..Len(rest)
          BY <3>1, <4>2
        <5> QED
          BY <1>2, <3>1, <4>2, <5>1
      <4> QED
        BY <4>1, <4>2
    <3> QED
      BY <3>1, <3>3
  <2>6. ASSUME NEW n \in Ahead \ AllBelow(below \o rest), Searched(n) PROVE FALSE
    <3>1. n \in Below(Visited) /\ n \notin AllBelow(below)
      BY <1>2, <2>3, <2>6
    <3>2. IsFile(n) /\ tree[n] # Absent /\ n # Visited /\ n \in Nodes /\ Visited \in UpFrom[n]
      BY <1>2, <1>3, <2>6, <3>1, BelowIsUp DEF Searched, IsFile, IsDir
    <3>3. PICK c \in UpFrom[n] : c # Root /\ Parent[c] = Visited
      BY <3>2, WayDown
    <3>4. c \in Nodes /\ n \in Below(c)
      BY <3>2, <3>3, UpFromNodes, BelowIsUp
    <3>5. tree[c] # Absent
      <4>1. Dir # Absent
        BY FileTreeAssumption
      <4> QED
        BY <3>2, <3>3, <4>1, FoldersAbove DEF IsDir
    <3>6. c \in Children(Visited)
      BY <3>3, <3>4, <3>5 DEF Children
    <3> QED
      BY <2>2, <3>1, <3>4, <3>6
  <2>7. AllBelow(below \o rest) \subseteq Ahead
    BY <1>2, <2>2, <2>3
  <2> QED
    BY <1>1, <1>3, <2>3, <2>5, <2>6, <2>7, PassOver
<1>4. CASE ~(IsDir(Visited) /\ CanRead(Visited)) /\ Skip
  <2>1. ASSUME NEW n \in Below(Visited), Stable(n), Searched(n) PROVE FALSE
    <3>1. n \in Nodes /\ Visited \in UpFrom[n] /\ Visited \notin touched
      BY <1>2, <2>1, BelowIsUp DEF Stable
    <3>2. IsDir(Visited)
      BY <1>1, <3>1 DEF SearchInv, AtInv
    <3>3. CanRead(Visited)
      BY <1>2, <2>1, <3>1 DEF Searched, Reached
    <3> QED
      BY <1>4, <3>2, <3>3
  <2> QED
    BY <1>1, <1>4, <2>1, SearchInvSkip
<1> QED
  BY <1>3, <1>4 DEF ReadNames

(* What is found in the file that the walk is at comes after what has been      *)
(* found so far, and no line of it was there before.                           *)
LEMMA SearchInvScan ==
  ASSUME SearchInv, TreeTypeOK, Scan
  PROVE  SearchInv'
<1> DEFINE P == search.pending
           rest == Tail(P)
           old == search.matches
           s == SearchInFile(Visited, Room)
<1>1. search.pc = "scan" /\ P # <<>>
  BY DEF Scan, SearchInv, SearchTypes
<1>2. /\ rest \in Seq(Nodes) /\ Visited \in Nodes /\ Reached(Visited) /\ Apart(rest)
      /\ \A k \in DOMAIN rest : Reached(rest[k])
      /\ Ahead = Below(Visited) \cup AllBelow(rest)
      /\ Below(Visited) \cap AllBelow(rest) = {} /\ Visited \in Below(Visited)
  BY <1>1, AtVisited
<1>3. /\ ~Full /\ Selected(Visited) /\ (Visited \in touched \/ IsFile(Visited))
      /\ search.path \in Nodes
  BY <1>1 DEF SearchInv, AtInv, SearchTypes, SearchState
<1>4. CASE ~(IsFile(Visited) /\ CanRead(Visited)) /\ Skip
  <2>1. ASSUME NEW n \in Below(Visited), Stable(n), Searched(n) PROVE FALSE
    <3>1. n \in Nodes /\ Visited \in UpFrom[n] /\ Visited \notin touched
      BY <1>2, <2>1, BelowIsUp DEF Stable
    <3>2. IsFile(Visited)
      BY <1>3, <3>1
    <3>3. CanRead(Visited)
      BY <1>2, <2>1, <3>1 DEF Searched, Reached
    <3> QED
      BY <1>4, <3>2, <3>3
  <2> QED
    BY <1>1, <1>4, <2>1, SearchInvSkip
<1>5. CASE IsFile(Visited) /\ CanRead(Visited) /\ GoOn("walk", rest, s)
  <2>1. /\ old \in Seq(LineFound) /\ Len(old) \in Nat /\ DOMAIN old = 1..Len(old)
        /\ search.max \in Int /\ search.context \in Ints /\ TreeInv
    BY LenProperties DEF SearchInv, SearchTypes, SearchState, TreeTypeOK, TreeInv
  <2>2. Room \in Nat /\ Room = search.max - Len(old) /\ search.max > 0
    BY <1>3, <2>1 DEF Room, Full
  <2>3. /\ s \in Seq(LineFound) /\ Len(s) <= Room
        /\ \A k \in 1..Len(s) : s[k] = Match(Visited, s[k].line) /\ Hit(Visited, s[k].line)
        /\ \A k, l \in 1..Len(s) : k < l => s[k].line < s[l].line
        /\ \A i \in Int : Hit(Visited, i) /\ (\A k \in 1..Len(s) : s[k].line # i) =>
             Len(s) = Room /\ \A k \in 1..Len(s) : s[k].line < i
    BY <1>2, <1>5, <2>1, <2>2, SearchInFileFinds
  <2> HIDE DEF s, rest
  <2>4. /\ search' \in SearchState /\ search'.pc = "walk"
        /\ search'.pending = rest /\ search'.matches = old \o s
        /\ search'.max = search.max
        /\ \A n : /\ Stable(n)' <=> Stable(n)
                  /\ Searched(n)' <=> Searched(n)
                  /\ Reached(n)' <=> Reached(n)
                  /\ \A i : Hit(n, i)' <=> Hit(n, i)
        /\ \A f : RightMatch(f)' <=> RightMatch(f)
    <3>1. SearchTypes
      BY DEF SearchInv
    <3> QED
      BY <1>2, <1>5, <2>3, <3>1, GoOnKeeps
  <2>5. /\ Len(s) \in Nat /\ Len(old \o s) = Len(old) + Len(s)
        /\ DOMAIN (old \o s) = 1..(Len(old) + Len(s))
        /\ \A i \in 1..(Len(old) + Len(s)) :
             (old \o s)[i] = IF i <= Len(old) THEN old[i] ELSE s[i - Len(old)]
    BY <2>1, <2>3, ConcatProperties, LenProperties
  <2>6. \A i \in 1..(Len(old) + Len(s)) :
          \/ i \in 1..Len(old) /\ (old \o s)[i] = old[i]
          \/ i > Len(old) /\ i - Len(old) \in 1..Len(s) /\ (old \o s)[i] = s[i - Len(old)]
    BY <2>1, <2>5
  <2>7. \A k \in 1..Len(s) : k + Len(old) \in 1..(Len(old) + Len(s))
                             /\ (old \o s)[k + Len(old)] = s[k]
    <3> SUFFICES ASSUME NEW k \in 1..Len(s)
                 PROVE  k + Len(old) \in 1..(Len(old) + Len(s))
                        /\ (old \o s)[k + Len(old)] = s[k]
      OBVIOUS
    <3>1. /\ k + Len(old) \in 1..(Len(old) + Len(s)) /\ ~(k + Len(old) <= Len(old))
          /\ k + Len(old) - Len(old) = k
      BY <2>1, <2>5
    <3> QED
      BY <2>5, <3>1
  <2>8. /\ \A k \in 1..Len(s) : s[k].file = Visited
        /\ \A k \in 1..Len(s) : s[k].line \in Int
    <3>1. \A k \in 1..Len(s) : s[k].file = Visited
      <4>1. \A n, i : Match(n, i).file = n
        BY DEF Match
      <4> QED
        BY <2>3, <4>1
    <3>2. \A k \in 1..Len(s) : s[k] \in LineFound
      BY <2>3, ElementOfSeq
    <3> QED
      BY <3>1, <3>2 DEF LineFound
  <2>9. \A k \in 1..Len(old) :
          LET f == old[k]
          IN  f.file \notin Ahead /\ f.file # Visited /\ (Stable(f.file) => RightMatch(f))
    BY <1>2, <2>1 DEF SearchInv, FoundInv
  <2>10. Searched(Visited)
    <3>1. \A m \in UpFrom[Visited] : m \in Below(search.path) => CanRead(m)
      BY <1>2, <1>5 DEF Reached
    <3> QED
      BY <1>2, <1>3, <1>5, <3>1 DEF Searched, Reached
  <2>11. \A k \in 1..Len(s) : RightMatch(s[k])
    <3> SUFFICES ASSUME NEW k \in 1..Len(s) PROVE RightMatch(s[k])
      OBVIOUS
    <3>1. s[k] = Match(Visited, s[k].line) /\ Hit(Visited, s[k].line) /\ s[k].file = Visited
      BY <2>3, <2>8
    <3>2. /\ s[k].content = tree[Visited][s[k].line + 1]
          /\ s[k].context = Context(tree[Visited], s[k].line, search.context)
      BY <3>1 DEF Match
    <3>3. s[k].line < Len(tree[Visited]) /\ tree[Visited][s[k].line + 1] \in search.re
      <4>1. IsText(tree[Visited])
        BY <1>2, <1>5, <2>1, FilesAreContents, ContentsAreTexts
      <4>2. Len(tree[Visited]) \in Nat
        BY <4>1, LenProperties DEF IsText
      <4> QED
        BY <3>1, <4>2 DEF Hit
    <3> QED
      BY <2>10, <3>1, <3>2, <3>3 DEF RightMatch
  <2>12. Ahead' = AllBelow(rest)
    BY <2>4 DEF Ahead
  <2>13. FoundInv'
    <3>1. Len(old \o s) <= (IF search.max < 0 THEN 0 ELSE search.max)
      BY <2>1, <2>2, <2>3, <2>5
    <3>2. ASSUME NEW k \in 1..(Len(old) + Len(s))
          PROVE  \A f : f = (old \o s)[k] =>
                   f.file \notin Ahead' /\ (Stable(f.file)' => RightMatch(f)')
      <4>1. CASE k \in 1..Len(old) /\ (old \o s)[k] = old[k]
        BY <1>2, <2>4, <2>9, <2>12, <4>1
      <4>2. CASE k - Len(old) \in 1..Len(s) /\ (old \o s)[k] = s[k - Len(old)]
        BY <1>2, <2>4, <2>8, <2>11, <2>12, <4>2
      <4> QED
        BY <2>6, <4>1, <4>2
    <3>3. ASSUME NEW k \in 1..(Len(old) + Len(s)), NEW l \in 1..(Len(old) + Len(s)), k < l,
                 (old \o s)[k].file = (old \o s)[l].file
          PROVE  (old \o s)[k].line < (old \o s)[l].line
      <4>1. CASE /\ k \in 1..Len(old) /\ (old \o s)[k] = old[k]
                 /\ l \in 1..Len(old) /\ (old \o s)[l] = old[l]
        BY <2>1, <3>3, <4>1 DEF SearchInv, FoundInv
      <4>2. CASE /\ k \in 1..Len(old) /\ (old \o s)[k] = old[k]
                 /\ l - Len(old) \in 1..Len(s) /\ (old \o s)[l] = s[l - Len(old)]
        BY <2>8, <2>9, <3>3, <4>2
      <4>3. CASE /\ k - Len(old) \in 1..Len(s) /\ (old \o s)[k] = s[k - Len(old)]
                 /\ l - Len(old) \in 1..Len(s) /\ (old \o s)[l] = s[l - Len(old)]
        <5>1. k - Len(old) < l - Len(old)
          BY <2>1, <3>3
        <5> QED
          BY <2>3, <4>3, <5>1
      <4>4. ~(k > Len(old) /\ l \in 1..Len(old))
        BY <2>1, <3>3
      <4> QED
        BY <2>6, <4>1, <4>2, <4>3, <4>4
    <3>4. DOMAIN search'.matches = 1..(Len(old) + Len(s)) /\ search'.matches = old \o s
      BY <2>4, <2>5
    <3> HIDE DEF old
    <3> QED
      BY <2>4, <3>1, <3>2, <3>3, <3>4 DEF FoundInv
  <2>14. /\ \A n, i : n # Visited => (Found(n, i)' <=> Found(n, i))
         /\ \A n, i : n = Visited => (Found(n, i)' <=> \E k \in 1..Len(s) : s[k].line = i)
    <3>1. ASSUME NEW n, NEW i
          PROVE  Found(n, i)' <=> \/ Found(n, i)
                                  \/ n = Visited /\ \E k \in 1..Len(s) : s[k].line = i
      <4>1. Found(n, i)' <=> \E k \in 1..(Len(old) + Len(s)) :
                               (old \o s)[k].file = n /\ (old \o s)[k].line = i
        BY <2>4, <2>5 DEF Found
      <4>2. Found(n, i) <=> \E k \in 1..Len(old) : old[k].file = n /\ old[k].line = i
        BY <2>1 DEF Found
      <4>3. \A k \in 1..Len(old) : k \in 1..(Len(old) + Len(s)) /\ (old \o s)[k] = old[k]
        BY <2>1, <2>5
      <4>4. ASSUME Found(n, i)' PROVE Found(n, i) \/ (n = Visited /\ \E k \in 1..Len(s) : s[k].line = i)
        <5>1. PICK k \in 1..(Len(old) + Len(s)) :
                 (old \o s)[k].file = n /\ (old \o s)[k].line = i
          BY <4>1, <4>4
        <5>2. CASE k \in 1..Len(old) /\ (old \o s)[k] = old[k]
          BY <4>2, <5>1, <5>2
        <5>3. CASE k - Len(old) \in 1..Len(s) /\ (old \o s)[k] = s[k - Len(old)]
          BY <2>8, <5>1, <5>3
        <5> QED
          BY <2>6, <5>2, <5>3
      <4>5. ASSUME Found(n, i) PROVE Found(n, i)'
        <5>1. PICK k \in 1..Len(old) : old[k].file = n /\ old[k].line = i
          BY <4>2, <4>5
        <5> QED
          BY <4>1, <4>3, <5>1
      <4>6. ASSUME n = Visited, NEW k \in 1..Len(s), s[k].line = i PROVE Found(n, i)'
        <5>1. s[k].file = n
          BY <2>8, <4>6
        <5> QED
          BY <2>7, <4>1, <4>6, <5>1
      <4> QED
        BY <4>4, <4>5, <4>6
    <3>2. \A i : ~Found(Visited, i)
      BY <2>1, <2>9 DEF Found
    <3>3. ASSUME NEW n, NEW i, n # Visited PROVE Found(n, i)' <=> Found(n, i)
      BY <3>1, <3>3
    <3>4. ASSUME NEW n, NEW i, n = Visited
          PROVE  Found(n, i)' <=> \E k \in 1..Len(s) : s[k].line = i
      BY <3>1, <3>2, <3>4
    <3> QED
      BY <3>3, <3>4
  <2>15. BehindInv'
    <3> SUFFICES ASSUME NEW n \in Nodes \ Ahead', Stable(n)', Searched(n)',
                        NEW i \in Int, Hit(n, i)', ~Found(n, i)'
                 PROVE  Full' /\ \A j \in Int : Found(n, j)' => j < i
      BY DEF BehindInv
    <3>1. Stable(n) /\ Searched(n) /\ Hit(n, i)
      BY <2>4
    <3>2. CASE n = Visited
      <4>1. \A k \in 1..Len(s) : s[k].line # i
        BY <2>14, <3>2
      <4>2. Len(s) = Room /\ \A k \in 1..Len(s) : s[k].line < i
        BY <2>3, <3>1, <3>2, <4>1
      <4>3. Full'
        BY <2>1, <2>2, <2>4, <2>5, <4>2 DEF Full
      <4> QED
        BY <2>14, <3>2, <4>2, <4>3
    <3>3. CASE n # Visited
      <4>1. n \notin Ahead
        <5>1. ASSUME n \in Below(Visited) PROVE FALSE
          <6>1. tree[n] # Absent /\ ~IsDir(Visited)
            BY <1>5, <3>1 DEF Searched, IsFile, IsDir
          <6> QED
            BY <1>2, <3>3, <5>1, <6>1, OnlyFoldersHold
        <5> QED
          BY <1>2, <2>12, <5>1
      <4>2. Full
        BY <1>1, <2>14, <3>1, <3>3, <4>1 DEF SearchInv, BehindInv
      <4> QED
        BY <1>3, <4>2
    <3> QED
      BY <3>2, <3>3
  <2>16. SearchTypes' /\ WalkInv' /\ AtInv'
    BY <1>2, <2>4 DEF SearchTypes, WalkInv, AtInv
  <2> QED
    BY <2>13, <2>15, <2>16 DEF SearchInv
<1> QED
  BY <1>4, <1>5 DEF Scan

LEMMA SearchInvDone ==
  ASSUME SearchInv, WalkDone
  PROVE  SearchInv'
<1>1. /\ search.pc = "walk" /\ search.pending = <<>> /\ GoOn("done", <<>>, <<>>)
  BY DEF WalkDone
<1>2. /\ <<>> \in Seq(Nodes) /\ DOMAIN <<>> = {} /\ AllBelow(<<>>) = {} /\ Apart(<<>>)
  BY EmptySeq DEF AllBelow, Apart
<1>3. Ahead = {}
  BY <1>1, <1>2 DEF Ahead
<1> QED
  BY <1>1, <1>2, <1>3, PassOver

(* What others do is not seen in what nobody has touched.                      *)
LEMMA SearchInvOthers ==
  ASSUME SearchInv, TreeTypeOK, Others, search' = search
  PROVE  SearchInv'
<1>1. /\ TreeInv /\ touched \subseteq touched' /\ locked' = locked
  BY DEF TreeTypeOK, TreeInv, Others, Rewrite, MakeDir, Remove, Touch
<1>2. /\ search \in SearchState
      /\ \A k \in DOMAIN search.matches : search.matches[k].file \in Nodes
  <2>1. search \in SearchState /\ search.matches \in Seq(LineFound)
    BY DEF SearchInv, SearchTypes, SearchState
  <2>2. \A k \in DOMAIN search.matches : search.matches[k] \in LineFound
    BY <2>1, LenProperties, ElementOfSeq
  <2> QED
    BY <2>1, <2>2 DEF LineFound
<1>3. ASSUME NEW n \in Nodes, Stable(n)'
      PROVE  /\ Stable(n) /\ tree'[n] = tree[n] /\ locked' = locked
             /\ Searched(n)' <=> Searched(n)
  <2>1. /\ Stable(n) /\ tree'[n] = tree[n]
    BY <1>3, StableIsKept, UpFromNodes
  <2> QED
    BY <1>1, <2>1 DEF Searched, CanRead, IsFile, Selected
<1>4. Ahead' = Ahead /\ (Full' <=> Full) /\ \A n, i : Found(n, i)' <=> Found(n, i)
  BY DEF Ahead, Full, Found
<1>5. SearchTypes'
  BY DEF SearchInv, SearchTypes
<1>6. WalkInv'
  BY <1>1 DEF SearchInv, WalkInv, Reached, CanRead
<1>7. AtInv'
  <2>1. ASSUME search.pc \in {"names", "scan"}, Visited \notin touched'
        PROVE  tree'[Visited] = tree[Visited] /\ Visited \notin touched
    <3>1. Visited \in Nodes
      BY <2>1, AtVisited DEF SearchInv, SearchTypes
    <3> QED
      BY <1>1, <2>1, <3>1, UntouchedIsKept
  <2>2. AtInv
    BY DEF SearchInv
  <2>3. search.pc = "names" => Visited \in touched' \/ tree'[Visited] = Dir
    BY <2>1, <2>2 DEF AtInv, IsDir
  <2>4. search.pc = "scan" => Visited \in touched' \/ tree'[Visited] \notin {Absent, Dir}
    BY <2>1, <2>2 DEF AtInv, IsFile
  <2> QED
    BY <1>4, <2>2, <2>3, <2>4 DEF AtInv, IsDir, IsFile, Visited, Selected
<1>8. FoundInv'
  <2>1. FoundInv
    BY DEF SearchInv
  <2>2. ASSUME NEW f, f.file \in Nodes, Stable(f.file) => RightMatch(f), Stable(f.file)'
        PROVE  RightMatch(f)'
    BY <1>3, <2>2 DEF RightMatch
  <2> QED
    BY <1>2, <1>4, <2>1, <2>2 DEF FoundInv
<1>9. BehindInv'
  <2> SUFFICES ASSUME search.pc # "idle", NEW n \in Nodes \ Ahead', Stable(n)', Searched(n)',
                      NEW i \in Int, Hit(n, i)', ~Found(n, i)'
               PROVE  Full' /\ \A j \in Int : Found(n, j)' => j < i
    BY DEF BehindInv
  <2>1. Stable(n) /\ Searched(n) /\ Hit(n, i) /\ ~Found(n, i) /\ n \notin Ahead
    BY <1>3, <1>4 DEF Hit
  <2>2. Full /\ \A j \in Int : Found(n, j) => j < i
    BY <2>1 DEF SearchInv, BehindInv
  <2> QED
    BY <1>4, <2>2
<1> QED
  BY <1>5, <1>6, <1>7, <1>8, <1>9 DEF SearchInv

(* What a step that is not search's leaves as it is.                           *)
LEMMA SearchInvSame ==
  ASSUME SearchInv, UNCHANGED <<tree, locked, touched, search>>
  PROVE  SearchInv'
BY DEF SearchInv, SearchTypes, WalkInv, Reached, CanRead, AtInv, FoundInv, BehindInv, Ahead,
       Full, Selected, Visited, IsDir, IsFile, Stable, RightMatch, Searched, Hit, Found

LEMMA SearchInvNext ==
  ASSUME SearchInv, TreeTypeOK, [Next]_vars
  PROVE  SearchInv'
<1>1. ASSUME SearchStep PROVE SearchInv'
  BY <1>1, SearchInvVisit, SearchInvNames, SearchInvScan, SearchInvDone DEF SearchStep
<1>2. ASSUME Begin PROVE SearchInv'
  <2>1. CASE \E r \in SearchRequests : BeginSearch(r)
    BY <2>1, SearchInvBegin
  <2>2. CASE UNCHANGED search
    <3>1. UNCHANGED treeVars
      BY <1>2, ToolsKeepTree
    <3> QED
      BY <2>2, <3>1, SearchInvSame DEF treeVars
  <2> QED
    BY <1>2, <2>1, <2>2 DEF Begin
<1>3. ASSUME Step PROVE SearchInv'
  <2>1. CASE UNCHANGED search
    <3>1. UNCHANGED treeVars
      BY <1>3, ToolsKeepTree
    <3> QED
      BY <2>1, <3>1, SearchInvSame DEF treeVars
  <2> QED
    BY <1>1, <1>3, <2>1 DEF Step
<1>4. ASSUME Change PROVE SearchInv'
  BY <1>4, SearchInvOthers DEF Change
<1>5. ASSUME UNCHANGED vars PROVE SearchInv'
  BY <1>5, SearchInvSame DEF vars
<1> QED
  BY <1>2, <1>3, <1>4, <1>5 DEF Next

-------------------------------------------------------------------------------
(* The state of a search, whatever happens to the tree: what it has still to    *)
(* visit is in subtrees apart from each other and from what it has found.       *)
THEOREM SearchInvariant == Spec => [](TreeTypeOK /\ SearchInv)
<1>1. Init => TreeTypeOK /\ SearchInv
  BY TreeTypeInit, SearchInvInit
<1>2. TreeTypeOK /\ SearchInv /\ [Next]_vars => (TreeTypeOK /\ SearchInv)'
  BY TreeTypeNext, SearchInvNext
<1> QED
  BY <1>1, <1>2, PTL DEF Spec

(* The answer never holds more results than asked for, and unless it says that *)
(* it is truncated, every matching line of every file that nobody changed is   *)
(* in it exactly once, in order, whatever else was unreadable or changed       *)
(* (tool_search.go, the callback of filepath.Walk and searchInFile).           *)
LEMMA SearchInvImpliesComplete == SearchInv => SearchIsComplete
<1> SUFFICES ASSUME SearchInv, search.pc = "done" PROVE
      /\ Len(search.matches) <= (IF search.max < 0 THEN 0 ELSE search.max)
      /\ \A n \in Nodes : Stable(n) =>
           LET lines == {search.matches[k].line : k \in FoundIn(n)}
               hits  == IF ~Searched(n) THEN {}
                        ELSE {i \in 0..(Len(tree[n]) - 1) : tree[n][i + 1] \in search.re}
           IN  /\ \A k, l \in FoundIn(n) :
                    k < l => search.matches[k].line < search.matches[l].line
               /\ lines \subseteq hits
               /\ \A i \in hits \ lines : Full /\ \A j \in lines : j < i
  BY DEF SearchIsComplete
<1>1. Len(search.matches) <= (IF search.max < 0 THEN 0 ELSE search.max)
  BY DEF SearchInv, FoundInv
<1>2. ASSUME NEW n \in Nodes, Stable(n)
      PROVE  LET lines == {search.matches[k].line : k \in FoundIn(n)}
                 hits  == IF ~Searched(n) THEN {}
                          ELSE {i \in 0..(Len(tree[n]) - 1) : tree[n][i + 1] \in search.re}
             IN  /\ \A k, l \in FoundIn(n) :
                      k < l => search.matches[k].line < search.matches[l].line
                 /\ lines \subseteq hits
                 /\ \A i \in hits \ lines : Full /\ \A j \in lines : j < i
  <2> DEFINE lines == {search.matches[k].line : k \in FoundIn(n)}
             hits  == IF ~Searched(n) THEN {}
                      ELSE {i \in 0..(Len(tree[n]) - 1) : tree[n][i + 1] \in search.re}
  <2>1. \A i : i \in lines <=> Found(n, i)
    BY DEF FoundIn, Found
  <2>2. \A k, l \in FoundIn(n) : k < l => search.matches[k].line < search.matches[l].line
    BY DEF FoundIn, SearchInv, FoundInv
  <2>3. \A i : i \in hits <=> Searched(n) /\ Hit(n, i)
    BY DEF Hit
  <2>4. lines \subseteq Int
    <3>1. search.matches \in Seq(LineFound)
      BY DEF SearchInv, SearchTypes, SearchState
    <3>2. \A k \in DOMAIN search.matches : search.matches[k] \in LineFound
      BY <3>1, LenProperties, ElementOfSeq
    <3> QED
      BY <3>2 DEF FoundIn, LineFound
  <2>5. ASSUME NEW i \in lines PROVE i \in hits
    <3>1. PICK k \in DOMAIN search.matches :
             search.matches[k].file = n /\ search.matches[k].line = i
      BY DEF FoundIn
    <3>2. RightMatch(search.matches[k])
      BY <1>2, <3>1 DEF SearchInv, FoundInv
    <3>3. Searched(n) /\ i < Len(tree[n]) /\ tree[n][i + 1] \in search.re
      BY <3>1, <3>2 DEF RightMatch
    <3>4. i \in Nat
      <4>1. search.matches \in Seq(LineFound)
        BY DEF SearchInv, SearchTypes, SearchState
      <4>2. search.matches[k] \in LineFound
        BY <3>1, <4>1, LenProperties, ElementOfSeq
      <4> QED
        BY <3>1, <4>2 DEF LineFound
    <3> QED
      BY <2>3, <3>3, <3>4 DEF Hit
  <2>6. ASSUME NEW i \in hits, i \notin lines PROVE Full /\ \A j \in lines : j < i
    <3>1. n \notin Ahead
      <4>1. search.pending = <<>> /\ DOMAIN <<>> = {}
        BY DEF SearchInv, SearchTypes
      <4> QED
        BY <4>1 DEF Ahead, AllBelow
    <3>2. Searched(n) /\ Hit(n, i) /\ ~Found(n, i) /\ i \in Int
      BY <2>1, <2>3, <2>6 DEF Hit
    <3>3. Full /\ \A j \in Int : Found(n, j) => j < i
      BY <1>2, <3>1, <3>2 DEF SearchInv, BehindInv
    <3> QED
      BY <2>1, <2>4, <3>3
  <2> QED
    BY <2>2, <2>5, <2>6
<1> QED
  BY <1>1, <1>2

(* Every matching line is reported, in order and up to the limit.              *)
THEOREM SearchFindsAll == Spec => []SearchIsComplete
BY SearchInvariant, SearchInvImpliesComplete, PTL

-------------------------------------------------------------------------------
(* The lines around a result.                                                  *)

LEMMA SpanIsKept ==
  ASSUME NEW t \in Seq(Lines), NEW lo \in Nat, NEW hi \in Nat, lo <= hi, hi <= Len(t),
         NEW S, \A k : k \in S <=> k \in 1..Len(t) /\ lo < k /\ k <= hi
  PROVE  Keeps(SubSeq(t, lo + 1, hi), S, t)
<1> DEFINE x == SubSeq(t, lo + 1, hi)
           place == [m \in 1..(hi - lo) |-> lo + m]
<1>1. Len(t) \in Nat /\ \A k \in 1..Len(t) : t[k] \in Lines
  BY LenProperties, ElementOfSeq
<1>2. x \in Seq(Lines) /\ DOMAIN x = 1..(hi - lo) /\ \A m \in 1..(hi - lo) : x[m] = t[lo + m]
  <2>1. \A k \in (lo + 1)..hi : t[k] \in Lines
    <3>1. \A k \in (lo + 1)..hi : k \in 1..Len(t)
      BY <1>1
    <3> QED
      BY <1>1, <3>1
  <2>2. /\ x \in Seq(Lines)
        /\ Len(x) = IF lo + 1 <= hi THEN hi - (lo + 1) + 1 ELSE 0
        /\ \A m \in 1..(hi - (lo + 1) + 1) : x[m] = t[lo + 1 + m - 1]
    BY <2>1, SubSeqProperties
  <2>3. hi - (lo + 1) + 1 = hi - lo /\ (~(lo + 1 <= hi) => hi - lo = 0)
    OBVIOUS
  <2>4. \A m \in 1..(hi - lo) : lo + 1 + m - 1 = lo + m
    OBVIOUS
  <2> HIDE DEF x
  <2> QED
    BY <2>2, <2>3, <2>4, LenProperties
<1> HIDE DEF x
<1>3. \A m \in 1..(hi - lo) : place[m] = lo + m /\ lo + m \in S
  BY <1>1
<1>4. place \in [DOMAIN x -> S]
  BY <1>2, <1>3
<1>5. ASSUME NEW k \in S PROVE \E m \in DOMAIN x : place[m] = k
  <2>1. k \in 1..Len(t) /\ lo < k /\ k <= hi
    OBVIOUS
  <2>2. k - lo \in 1..(hi - lo) /\ lo + (k - lo) = k
    BY <1>1, <2>1
  <2> QED
    BY <1>2, <1>3, <2>2
<1>6. \A m \in DOMAIN x : x[m] = t[place[m]]
  BY <1>2, <1>3
<1>7. \A l, m \in DOMAIN x : l < m => place[l] < place[m]
  BY <1>2, <1>3
<1> HIDE DEF place
<1>8. Keeps(x, S, t)
  BY <1>4, <1>5, <1>6, <1>7 DEF Keeps
<1> QED
  BY <1>8 DEF x

LEMMA NothingIsKept ==
  ASSUME NEW t, NEW S, S = {}
  PROVE  Keeps(<<>>, S, t)
<1>1. DOMAIN <<>> = {}
  OBVIOUS
<1>2. [k \in {} |-> k] \in [DOMAIN <<>> -> S]
  BY <1>1
<1> QED
  BY <1>1, <1>2 DEF Keeps

LEMMA ContextHolds ==
  ASSUME NEW t, IsText(t), NEW i \in Nat, i < Len(t), NEW c \in Ints, i + c < MaxInt
  PROVE  LET Near(l, h) == {k \in DOMAIN t : l <= k - 1 /\ k - 1 <= h}
             x == Context(t, i, c)
         IN  /\ Keeps(x[1], Near(i - c, i - 1), t)
             /\ Keeps(x[2], Near(i + 1, i + c), t)
<1> DEFINE Near(l, h) == {k \in DOMAIN t : l <= k - 1 /\ k - 1 <= h}
           x == Context(t, i, c)
           from == IF i - c < 0 THEN 0 ELSE i - c
           to == IF i + c + 1 > Len(t) THEN Len(t) ELSE i + c + 1
           A == Near(i - c, i - 1)
           B == Near(i + 1, i + c)
<1>1. /\ t \in Seq(Lines) /\ Len(t) \in Nat /\ DOMAIN t = 1..Len(t) /\ MaxInt \in Nat
      /\ c \in Int
  BY FileTreeAssumption, LenProperties DEF IsText, Ints
<1>2. CASE c > 0
  <2>1. ContextEnd(i, c) = i + c + 1
    BY <1>1, <1>2 DEF ContextEnd, Int64
  <2>2. x = <<SubSeq(t, from + 1, i), SubSeq(t, i + 2, to)>>
    BY <1>2, <2>1 DEF Context
  <2>3. /\ from \in Nat /\ from <= i /\ i <= Len(t)
        /\ \A k : k \in A <=> k \in 1..Len(t) /\ from < k /\ k <= i
    BY <1>1, <1>2
  <2>4. /\ to \in Nat /\ i + 1 \in Nat /\ i + 1 <= to /\ to <= Len(t)
        /\ \A k : k \in B <=> k \in 1..Len(t) /\ i + 1 < k /\ k <= to
    BY <1>1, <1>2
  <2> HIDE DEF from, to, A, B, x
  <2>5. Keeps(SubSeq(t, from + 1, i), A, t)
    BY <1>1, <2>3, SpanIsKept
  <2>6. Keeps(SubSeq(t, i + 2, to), B, t)
    <3>1. i + 1 + 1 = i + 2
      OBVIOUS
    <3>2. Keeps(SubSeq(t, i + 1 + 1, to), B, t)
      BY <1>1, <2>4, SpanIsKept
    <3> QED
      BY <3>1, <3>2
  <2>7. x[1] = SubSeq(t, from + 1, i) /\ x[2] = SubSeq(t, i + 2, to)
    BY <2>2
  <2> QED
    BY <2>5, <2>6, <2>7 DEF A, B, x
<1>3. CASE ~(c > 0)
  <2>1. x[1] = <<>> /\ x[2] = <<>>
    BY <1>3 DEF Context
  <2>2. A = {} /\ B = {}
    BY <1>1, <1>3
  <2> HIDE DEF A, B, x
  <2>3. Keeps(x[1], A, t) /\ Keeps(x[2], B, t)
    BY <2>1, <2>2, NothingIsKept
  <2> QED
    BY <2>3 DEF A, B, x
<1> QED
  BY <1>2, <1>3

(* A result in a file that nobody changed shows exactly the lines around it     *)
(* that exist, up to the number asked for, unless that number overflows int     *)
(* (searchInFile in tool_search.go).                                           *)
THEOREM ResultsShowTheLinesAround == Spec => []ContextIsAround
<1>1. SearchInv /\ TreeTypeOK => ContextIsAround
  <2> SUFFICES ASSUME SearchInv, TreeTypeOK, NEW k \in DOMAIN search.matches,
                      Stable(search.matches[k].file),
                      search.matches[k].line + search.context < MaxInt
               PROVE  LET f == search.matches[k]
                          t == tree[f.file]
                          c == search.context
                          Near(l, h) == {i \in DOMAIN t : l <= i - 1 /\ i - 1 <= h}
                      IN  /\ f.content = t[f.line + 1]
                          /\ Keeps(f.context[1], Near(f.line - c, f.line - 1), t)
                          /\ Keeps(f.context[2], Near(f.line + 1, f.line + c), t)
    BY DEF ContextIsAround
  <2> DEFINE f == search.matches[k]
             t == tree[f.file]
             c == search.context
  <2>1. f \in LineFound /\ c \in Ints
    <3>1. search.matches \in Seq(LineFound) /\ search.context \in Ints
      BY DEF SearchInv, SearchTypes, SearchState
    <3> QED
      BY <3>1, LenProperties, ElementOfSeq
  <2>2. f.file \in Nodes /\ f.line \in Nat
    BY <2>1 DEF LineFound
  <2>3. RightMatch(f)
    BY DEF SearchInv, FoundInv
  <2>4. /\ f.line < Len(t) /\ f.content = t[f.line + 1] /\ f.context = Context(t, f.line, c)
        /\ IsFile(f.file)
    BY <2>3 DEF RightMatch, Searched
  <2>5. IsText(t)
    BY <2>2, <2>4, FilesAreContents, ContentsAreTexts DEF TreeTypeOK, TreeInv
  <2> HIDE DEF f, t, c
  <2>6. f.line + c < MaxInt
    BY DEF f, c
  <2>7. LET Near(l, h) == {i \in DOMAIN t : l <= i - 1 /\ i - 1 <= h}
        IN  /\ Keeps(f.context[1], Near(f.line - c, f.line - 1), t)
            /\ Keeps(f.context[2], Near(f.line + 1, f.line + c), t)
    BY <2>1, <2>2, <2>4, <2>5, <2>6, ContextHolds
  <2> QED
    BY <2>4, <2>7 DEF f, t, c
<1> QED
  BY <1>1, SearchInvariant, PTL

-------------------------------------------------------------------------------
(* Sequences of what is to be listed.                                          *)

LEMMA RegionsIsIn ==
  ASSUME NEW s \in Seq(TodoItem), NEW n
  PROVE  n \in Regions(s) <=> \E k \in 1..Len(s) : n \in Region(s[k])
BY LenProperties DEF Regions

LEMMA RegionsAreNodes ==
  ASSUME NEW s \in Seq(TodoItem)
  PROVE  Regions(s) \subseteq Nodes
BY DEF Regions, Region, Below

LEMMA RegionsConcat ==
  ASSUME NEW s \in Seq(TodoItem), NEW t \in Seq(TodoItem)
  PROVE  /\ Regions(s \o t) = Regions(s) \cup Regions(t)
         /\ (InTurn(s) /\ InTurn(t)
              /\ \A m \in Regions(s), n \in Regions(t) : Before(m, n)) => InTurn(s \o t)
<1>1. /\ s \o t \in Seq(TodoItem) /\ Len(s) \in Nat /\ Len(t) \in Nat
      /\ Len(s \o t) = Len(s) + Len(t) /\ DOMAIN (s \o t) = 1..(Len(s) + Len(t))
      /\ \A i \in 1..(Len(s) + Len(t)) :
           (s \o t)[i] = IF i <= Len(s) THEN s[i] ELSE t[i - Len(s)]
  BY ConcatProperties, LenProperties
<1>2. \A i \in 1..(Len(s) + Len(t)) :
        \/ i \in 1..Len(s) /\ (s \o t)[i] = s[i]
        \/ i > Len(s) /\ i - Len(s) \in 1..Len(t) /\ (s \o t)[i] = t[i - Len(s)]
  BY <1>1
<1>3. \A k \in 1..Len(s) : k \in 1..(Len(s) + Len(t)) /\ (s \o t)[k] = s[k]
  BY <1>1
<1>4. ASSUME NEW k \in 1..Len(t)
      PROVE  k + Len(s) \in 1..(Len(s) + Len(t)) /\ (s \o t)[k + Len(s)] = t[k]
  <2>1. k + Len(s) \in 1..(Len(s) + Len(t)) /\ ~(k + Len(s) <= Len(s)) /\ k + Len(s) - Len(s) = k
    BY <1>1
  <2> QED
    BY <1>1, <2>1
<1>5. ASSUME NEW n PROVE n \in Regions(s \o t) <=> n \in Regions(s) \cup Regions(t)
  <2>1. ASSUME n \in Regions(s \o t) PROVE n \in Regions(s) \cup Regions(t)
    <3>1. PICK i \in 1..(Len(s) + Len(t)) : n \in Region((s \o t)[i])
      BY <1>1, <2>1, RegionsIsIn
    <3> QED
      BY <1>2, <3>1, RegionsIsIn
  <2>2. ASSUME n \in Regions(s) PROVE n \in Regions(s \o t)
    <3>1. PICK k \in 1..Len(s) : n \in Region(s[k])
      BY <2>2, RegionsIsIn
    <3> QED
      BY <1>1, <1>3, <3>1, RegionsIsIn
  <2>3. ASSUME n \in Regions(t) PROVE n \in Regions(s \o t)
    <3>1. PICK k \in 1..Len(t) : n \in Region(t[k])
      BY <2>3, RegionsIsIn
    <3> QED
      BY <1>1, <1>4, <3>1, RegionsIsIn
  <2> QED
    BY <2>1, <2>2, <2>3
<1>6. ASSUME InTurn(s), InTurn(t), \A m \in Regions(s), n \in Regions(t) : Before(m, n)
      PROVE  InTurn(s \o t)
  <2>1. /\ DOMAIN s = 1..Len(s) /\ DOMAIN t = 1..Len(t)
    BY LenProperties
  <2> SUFFICES ASSUME NEW k \in 1..(Len(s) + Len(t)), NEW l \in 1..(Len(s) + Len(t)), k < l,
                      NEW m \in Region((s \o t)[k]), NEW n \in Region((s \o t)[l])
               PROVE  Before(m, n)
    BY <1>1 DEF InTurn
  <2>2. CASE /\ k \in 1..Len(s) /\ (s \o t)[k] = s[k] /\ l \in 1..Len(s) /\ (s \o t)[l] = s[l]
    BY <1>6, <2>1, <2>2 DEF InTurn
  <2>3. CASE /\ k \in 1..Len(s) /\ (s \o t)[k] = s[k]
             /\ l - Len(s) \in 1..Len(t) /\ (s \o t)[l] = t[l - Len(s)]
    <3>1. m \in Regions(s) /\ n \in Regions(t)
      BY <2>3, RegionsIsIn
    <3> QED
      BY <1>6, <3>1
  <2>4. CASE /\ k - Len(s) \in 1..Len(t) /\ (s \o t)[k] = t[k - Len(s)]
             /\ l - Len(s) \in 1..Len(t) /\ (s \o t)[l] = t[l - Len(s)]
    <3>1. k - Len(s) < l - Len(s)
      BY <1>1
    <3> QED
      BY <1>6, <2>1, <2>4, <3>1 DEF InTurn
  <2>5. ~(k > Len(s) /\ l \in 1..Len(s))
    BY <1>1
  <2> QED
    BY <1>2, <2>2, <2>3, <2>4, <2>5
<1> QED
  BY <1>5, <1>6

LEMMA RegionsTail ==
  ASSUME NEW s \in Seq(TodoItem), s # <<>>
  PROVE  /\ Tail(s) \in Seq(TodoItem) /\ Head(s) \in TodoItem
         /\ Regions(s) = Region(Head(s)) \cup Regions(Tail(s))
         /\ InTurn(s) => /\ InTurn(Tail(s))
                         /\ \A m \in Region(Head(s)), n \in Regions(Tail(s)) : Before(m, n)
<1>1. /\ Head(s) = s[1] /\ 1 \in 1..Len(s) /\ Tail(s) \in Seq(TodoItem)
      /\ \A k \in 1..Len(Tail(s)) : k + 1 \in 1..Len(s) /\ Tail(s)[k] = s[k + 1]
      /\ \A k \in 1..Len(s) : k # 1 => k - 1 \in 1..Len(Tail(s)) /\ Tail(s)[k - 1] = s[k]
  BY HeadAndTail
<1>2. Regions(s) = Region(Head(s)) \cup Regions(Tail(s))
  <2>1. ASSUME NEW n, n \in Regions(s) PROVE n \in Region(Head(s)) \cup Regions(Tail(s))
    <3>1. PICK k \in 1..Len(s) : n \in Region(s[k])
      BY <2>1, RegionsIsIn
    <3> QED
      BY <1>1, <3>1, RegionsIsIn
  <2>2. ASSUME NEW n, n \in Regions(Tail(s)) PROVE n \in Regions(s)
    <3>1. PICK k \in 1..Len(Tail(s)) : n \in Region(Tail(s)[k])
      BY <1>1, <2>2, RegionsIsIn
    <3> QED
      BY <1>1, <3>1, RegionsIsIn
  <2>3. Region(Head(s)) \subseteq Regions(s)
    BY <1>1, RegionsIsIn
  <2> QED
    BY <2>1, <2>2, <2>3
<1>3. ASSUME InTurn(s)
      PROVE  InTurn(Tail(s)) /\ \A m \in Region(Head(s)), n \in Regions(Tail(s)) : Before(m, n)
  <2>1. DOMAIN s = 1..Len(s) /\ DOMAIN Tail(s) = 1..Len(Tail(s))
    BY <1>1, LenProperties
  <2>2. \A k, l \in 1..Len(s) : k < l =>
          \A m \in Region(s[k]), n \in Region(s[l]) : Before(m, n)
    BY <1>3, <2>1 DEF InTurn
  <2>3. ASSUME NEW k \in 1..Len(Tail(s)), NEW l \in 1..Len(Tail(s)), k < l
        PROVE  \A m \in Region(Tail(s)[k]), n \in Region(Tail(s)[l]) : Before(m, n)
    <3>1. k + 1 < l + 1
      BY <2>3
    <3> QED
      BY <1>1, <2>2, <3>1
  <2>4. ASSUME NEW m \in Region(Head(s)), NEW n \in Regions(Tail(s)) PROVE Before(m, n)
    <3>1. PICK k \in 1..Len(Tail(s)) : n \in Region(Tail(s)[k])
      BY <1>1, RegionsIsIn
    <3>2. 1 < k + 1
      OBVIOUS
    <3> QED
      BY <1>1, <2>2, <3>1, <3>2
  <2> QED
    BY <2>1, <2>3, <2>4 DEF InTurn
<1>4. Head(s) \in TodoItem
  BY <1>1, ElementOfSeq
<1> QED
  BY <1>1, <1>2, <1>3, <1>4

-------------------------------------------------------------------------------
(* How deep a node is below the path of the call.                              *)

LEMMA NodesAreFinite == IsFiniteSet(Nodes)
<1> DEFINE f == [n \in Nodes |-> Place(n)]
<1>1. f \in Injection(Nodes, 1..Len(Order))
  BY Places DEF Injection, IsInjective
<1>2. IsFiniteSet(1..Len(Order))
  BY Places, FS_Interval
<1> QED
  BY <1>1, <1>2, FS_Injection

LEMMA Depths ==
  ASSUME listing.path \in Nodes, NEW d \in Below(listing.path)
  PROVE  /\ Cardinality(Inside(d)) \in Nat
         /\ Inside(listing.path) = {listing.path}
         /\ \A n \in Below(d) \ {d} :
              /\ n \in Below(listing.path) /\ d \in Inside(n)
              /\ Cardinality(Inside(n)) \in Nat
              /\ Cardinality(Inside(d)) < Cardinality(Inside(n))
         /\ \A c \in Nodes \ {Root} : Parent[c] = d =>
              Inside(c) = Inside(d) \cup {c}
              /\ Cardinality(Inside(c)) = Cardinality(Inside(d)) + 1
<1>1. d \in Nodes /\ listing.path \in UpFrom[d]
  BY BelowIsUp
<1>2. ASSUME NEW n \in Nodes
      PROVE  IsFiniteSet(Inside(n)) /\ Cardinality(Inside(n)) \in Nat
  <2>1. Inside(n) \in SUBSET Nodes
    BY <1>2, UpFromNodes DEF Inside
  <2> QED
    BY <2>1, NodesAreFinite, FS_Subset, FS_CardinalityType
<1>3. \A m, n \in Nodes : m \in UpFrom[n] /\ n \in UpFrom[m] => m = n
  BY UpIsEarlier, Places
<1>4. Inside(listing.path) = {listing.path}
  <2>1. listing.path \in Inside(listing.path)
    BY UpFromNodes, BelowIsUp DEF Inside
  <2>2. ASSUME NEW m \in Inside(listing.path) PROVE m = listing.path
    BY <1>3, UpFromNodes, BelowIsUp DEF Inside
  <2> QED
    BY <2>1, <2>2
<1>5. ASSUME NEW n \in Below(d) \ {d}
      PROVE  /\ n \in Below(listing.path) /\ d \in Inside(n)
             /\ Cardinality(Inside(d)) < Cardinality(Inside(n))
  <2>1. n \in Nodes /\ d \in UpFrom[n] /\ UpFrom[d] \subseteq UpFrom[n]
    BY <1>1, BelowIsUp, UpFromTransitive
  <2>2. n \in Below(listing.path) /\ d \in Inside(n) /\ n \in Inside(n)
    BY <1>1, <2>1, BelowIsUp, UpFromNodes DEF Inside
  <2>3. Inside(d) \in SUBSET Inside(n)
    BY <2>1 DEF Inside
  <2>4. n \notin Inside(d)
    BY <1>1, <1>3, <2>1 DEF Inside
  <2>5. Cardinality(Inside(d)) <= Cardinality(Inside(n))
        /\ (Cardinality(Inside(n)) = Cardinality(Inside(d)) => Inside(n) = Inside(d))
    BY <1>2, <2>1, <2>3, FS_Subset
  <2> QED
    BY <1>1, <1>2, <2>1, <2>2, <2>4, <2>5
<1>6. ASSUME NEW c \in Nodes \ {Root}, Parent[c] = d
      PROVE  Inside(c) = Inside(d) \cup {c} /\ Cardinality(Inside(c)) = Cardinality(Inside(d)) + 1
  <2>1. UpFrom[c] = {c} \cup UpFrom[d] /\ d \in UpFrom[d] /\ d \in UpFrom[c]
    BY <1>1, <1>6, UpFromEquation, UpFromNodes
  <2>2. c # d
    BY <1>6, FoldersFirst, Places
  <2>3. c \in Below(listing.path)
    BY <1>1, <1>6, <2>1, BelowIsUp
  <2>4. Inside(c) = Inside(d) \cup {c}
    BY <2>1, <2>3 DEF Inside
  <2>5. c \notin Inside(d)
    BY <1>1, <1>3, <2>1, <2>2 DEF Inside
  <2> QED
    BY <1>1, <1>2, <2>4, <2>5, FS_AddElement
<1>7. \A n \in Below(d) : n \in Nodes
  BY DEF Below
<1> QED
  BY <1>1, <1>2, <1>4, <1>5, <1>6, <1>7

-------------------------------------------------------------------------------
(* ls: the steps.                                                              *)

LEMMA ListInvInit == Init => ListInv
<1> SUFFICES ASSUME Init PROVE ListInv
  OBVIOUS
<1>1. listing = NoListing /\ (\A X : <<>> \in Seq(X)) /\ DOMAIN <<>> = {}
  BY EmptySeq DEF Init
<1>2. /\ listing \in ListState /\ listing.pc = "idle" /\ listing.todo = <<>>
      /\ listing.shown = <<>>
  BY <1>1, FileTreeAssumption DEF NoListing, ListState
<1> QED
  BY <1>1, <1>2 DEF ListInv, ListTypes, ItemsInv, InTurn, ShownInv, ListedInv

LEMMA ListInvBegin ==
  ASSUME ListInv, NEW r \in ListRequests, BeginList(r)
  PROVE  ListInv'
<1> DEFINE e == Todo("read", r.path, TRUE, 0)
<1>1. /\ (\A X : <<>> \in Seq(X)) /\ DOMAIN <<>> = {}
  BY EmptySeq
<1>2. r.path \in Nodes /\ r.depth \in Int /\ r.hidden \in BOOLEAN
  BY DirListingAssumption
<1>3. /\ e \in TodoItem /\ e.do = "read" /\ e.node = r.path /\ e.level = 0
      /\ <<e>> \in Seq(TodoItem) /\ DOMAIN <<e>> = {1} /\ <<e>>[1] = e
  BY <1>2 DEF Todo, TodoItem
<1> HIDE DEF e
<1>4. listing' = [pc |-> "list", path |-> r.path, depth |-> r.depth, pattern |-> r.pattern,
                  hidden |-> r.hidden, todo |-> <<e>>, shown |-> <<>>]
  BY DEF BeginList, NoListing, e
<1>5. /\ listing' \in ListState /\ listing'.pc = "list" /\ listing'.path = r.path
      /\ listing'.todo = <<e>> /\ listing'.shown = <<>>
  BY <1>1, <1>2, <1>3, <1>4 DEF ListState
<1>6. r.path \in Below(r.path) /\ Inside(r.path)' = {r.path}
  <2>1. r.path \in Below(r.path)
    BY <1>2, BelowIsUp, UpFromNodes
  <2>2. ASSUME NEW m \in Below(r.path) \cap UpFrom[r.path] PROVE m = r.path
    <3>1. m \in Nodes /\ Place(m) <= Place(r.path) /\ Place(r.path) <= Place(m)
      BY <1>2, BelowIsUp, UpIsEarlier
    <3>2. Place(m) = Place(r.path)
      BY <1>2, <3>1, Places
    <3> QED
      BY <1>2, <3>1, <3>2, Places
  <2>3. r.path \in UpFrom[r.path]
    BY <1>2, UpFromNodes
  <2> QED
    BY <1>5, <2>1, <2>2, <2>3 DEF Inside
<1>7. Cardinality({r.path}) = 1
  BY FS_Singleton
<1>8. ItemInv(e)'
  BY <1>3, <1>5, <1>6, <1>7 DEF ItemInv
<1>9. ItemsInv'
  BY <1>3, <1>5, <1>8 DEF ItemsInv, InTurn
<1>10. ShownInv'
  BY <1>1, <1>5 DEF ShownInv
<1>11. ListedInv'
  <2> SUFFICES ASSUME NEW n \in Nodes, n \notin StillToList', Listed(n)' PROVE FALSE
    BY DEF ListedInv
  <2>1. n \in Below(r.path) \ {r.path}
    BY <1>5 DEF Listed
  <2>2. n \in Regions(<<e>>)
    BY <1>3, <2>1 DEF Regions, Region
  <2> QED
    BY <1>5, <2>2 DEF StillToList
<1> QED
  BY <1>5, <1>9, <1>10, <1>11 DEF ListInv, ListTypes

(* What a step of the listing leaves alone.                                    *)
LEMMA ProceedKeeps ==
  ASSUME ListTypes, NEW to \in {"list", "done", "error"},
         NEW rest \in Seq(TodoItem), NEW es \in Seq(Entry), Proceed(to, rest, es)
  PROVE  /\ listing' \in ListState /\ listing'.pc = to
         /\ listing'.todo = rest /\ listing'.shown = listing.shown \o es
         /\ \A n : /\ Stable(n)' <=> Stable(n)
                   /\ Listed(n)' <=> Listed(n)
                   /\ IsDir(n)' <=> IsDir(n)
         /\ \A e : ItemInv(e)' <=> ItemInv(e)
<1>1. listing \in ListState /\ listing.shown \in Seq(Entry)
  BY DEF ListTypes, ListState
<1>2. listing.shown \o es \in Seq(Entry)
  BY <1>1, ConcatProperties
<1>3. listing' = [listing EXCEPT !.pc = to, !.todo = rest, !.shown = listing.shown \o es]
  BY DEF Proceed
<1>4. /\ listing' \in ListState /\ listing'.pc = to
      /\ listing'.todo = rest /\ listing'.shown = listing.shown \o es
      /\ listing'.path = listing.path /\ listing'.depth = listing.depth
      /\ listing'.pattern = listing.pattern /\ listing'.hidden = listing.hidden
  BY <1>1, <1>2, <1>3 DEF ListState
<1>5. tree' = tree /\ locked' = locked /\ touched' = touched
  BY DEF Proceed, treeVars
<1>6. \A n : Inside(n)' = Inside(n)
  BY <1>4 DEF Inside
<1>7. ASSUME NEW n
      PROVE  /\ Stable(n)' <=> Stable(n)
             /\ Listed(n)' <=> Listed(n)
             /\ IsDir(n)' <=> IsDir(n)
  BY <1>4, <1>5, <1>6 DEF Stable, Listed, CanRead, IsDir
<1>8. ASSUME NEW e PROVE ItemInv(e)' <=> ItemInv(e)
  BY <1>4, <1>5, <1>6 DEF ItemInv, CanRead, Shown, IsDir
<1> QED
  BY <1>4, <1>7, <1>8

(* A step of the listing: what it shows was the next to come, and what it       *)
(* passes over has nothing to be listed but what it shows.                     *)
LEMMA ListMoves ==
  ASSUME ListInv, listing.pc = "list",
         NEW to \in {"list", "done"}, NEW rest \in Seq(TodoItem), NEW es \in Seq(Entry),
         Proceed(to, rest, es), to = "done" => rest = <<>>,
         InTurn(rest), \A k \in DOMAIN rest : ItemInv(rest[k]),
         Regions(rest) \subseteq StillToList, Len(es) <= 1,
         \A k \in 1..Len(es) :
           /\ es[k].node \in StillToList /\ \A n \in Regions(rest) : Before(es[k].node, n)
           /\ Stable(es[k].node) => Listed(es[k].node) /\ es[k].dir = IsDir(es[k].node),
         \A n \in StillToList \ Regions(rest) :
           Stable(n) /\ Listed(n) => \E k \in 1..Len(es) : es[k].node = n
  PROVE  ListInv'
<1> DEFINE old == listing.shown
<1>1. ListTypes /\ ItemsInv /\ ShownInv /\ ListedInv
  BY DEF ListInv
<1>2. /\ listing' \in ListState /\ listing'.pc = to
      /\ listing'.todo = rest /\ listing'.shown = old \o es
      /\ \A n : /\ Stable(n)' <=> Stable(n)
                /\ Listed(n)' <=> Listed(n)
                /\ IsDir(n)' <=> IsDir(n)
      /\ \A e : ItemInv(e)' <=> ItemInv(e)
  BY <1>1, ProceedKeeps
<1>3. old \in Seq(Entry)
  BY <1>1 DEF ListTypes, ListState
<1>4. /\ Len(old) \in Nat /\ Len(es) \in Nat /\ DOMAIN old = 1..Len(old)
      /\ DOMAIN (old \o es) = 1..(Len(old) + Len(es))
      /\ \A i \in 1..(Len(old) + Len(es)) :
           (old \o es)[i] = IF i <= Len(old) THEN old[i] ELSE es[i - Len(old)]
  BY <1>3, ConcatProperties, LenProperties
<1>5. \A i \in 1..(Len(old) + Len(es)) :
        \/ i \in 1..Len(old) /\ (old \o es)[i] = old[i]
        \/ i > Len(old) /\ i - Len(old) \in 1..Len(es) /\ (old \o es)[i] = es[i - Len(old)]
  BY <1>4
<1>6. \A k \in 1..Len(es) : k + Len(old) \in 1..(Len(old) + Len(es))
                            /\ (old \o es)[k + Len(old)] = es[k]
  <2> SUFFICES ASSUME NEW k \in 1..Len(es)
               PROVE  k + Len(old) \in 1..(Len(old) + Len(es))
                      /\ (old \o es)[k + Len(old)] = es[k]
    OBVIOUS
  <2>1. k + Len(old) \in 1..(Len(old) + Len(es)) /\ ~(k + Len(old) <= Len(old))
        /\ k + Len(old) - Len(old) = k
    BY <1>4
  <2> QED
    BY <1>4, <2>1
<1>7. StillToList' = Regions(rest)
  BY <1>2 DEF StillToList
<1>8. ListTypes' /\ ItemsInv'
  BY <1>2 DEF ListTypes, ItemsInv
<1>9. ShownInv'
  <2>1. ASSUME NEW k \in 1..(Len(old) + Len(es))
        PROVE  \A e : e = (old \o es)[k] =>
                 /\ \A n \in Regions(rest) : Before(e.node, n)
                 /\ Stable(e.node)' => Listed(e.node)' /\ (e.dir = IsDir(e.node)')
    <3>1. CASE k \in 1..Len(old) /\ (old \o es)[k] = old[k]
      <4>1. /\ \A n \in StillToList : Before(old[k].node, n)
            /\ Stable(old[k].node) => Listed(old[k].node) /\ old[k].dir = IsDir(old[k].node)
        BY <1>1, <1>4, <3>1 DEF ShownInv
      <4> QED
        BY <1>2, <3>1, <4>1 DEF IsDir
    <3>2. CASE k - Len(old) \in 1..Len(es) /\ (old \o es)[k] = es[k - Len(old)]
      BY <1>2, <3>2 DEF IsDir
    <3> QED
      BY <1>5, <3>1, <3>2
  <2>2. ASSUME NEW k \in 1..(Len(old) + Len(es)), NEW l \in 1..(Len(old) + Len(es)), k < l
        PROVE  Before((old \o es)[k].node, (old \o es)[l].node)
    <3>1. CASE /\ k \in 1..Len(old) /\ (old \o es)[k] = old[k]
               /\ l \in 1..Len(old) /\ (old \o es)[l] = old[l]
      BY <1>1, <1>4, <2>2, <3>1 DEF ShownInv
    <3>2. CASE /\ k \in 1..Len(old) /\ (old \o es)[k] = old[k]
               /\ l - Len(old) \in 1..Len(es) /\ (old \o es)[l] = es[l - Len(old)]
      BY <1>1, <1>4, <3>2 DEF ShownInv
    <3>3. ~(k > Len(old) /\ l > Len(old)) /\ ~(k > Len(old) /\ l \in 1..Len(old))
      BY <1>4, <2>2
    <3> QED
      BY <1>5, <3>1, <3>2, <3>3
  <2> QED
    BY <1>2, <1>4, <1>7, <2>1, <2>2 DEF ShownInv
<1>10. ListedInv'
  <2> SUFFICES ASSUME NEW n \in Nodes \ StillToList', Stable(n)', Listed(n)'
               PROVE  \E k \in 1..(Len(old) + Len(es)) : (old \o es)[k].node = n
    BY <1>2, <1>4 DEF ListedInv
  <2>1. Stable(n) /\ Listed(n) /\ n \notin Regions(rest)
    BY <1>2, <1>7
  <2>2. CASE n \in StillToList
    BY <1>6, <2>1, <2>2
  <2>3. CASE n \notin StillToList
    <3>1. PICK k \in 1..Len(old) : old[k].node = n
      BY <1>1, <1>4, <2>1, <2>3 DEF ListedInv
    <3>2. k \in 1..(Len(old) + Len(es)) /\ (old \o es)[k] = old[k]
      BY <1>4
    <3> QED
      BY <3>1, <3>2
  <2> QED
    BY <2>2, <2>3
<1> QED
  BY <1>8, <1>9, <1>10 DEF ListInv

(* The item that the listing is at.                                            *)
LEMMA AtItem ==
  ASSUME ListInv, listing.todo # <<>>
  PROVE  /\ Item \in TodoItem /\ Later \in Seq(TodoItem)
         /\ ItemInv(Item) /\ InTurn(Later)
         /\ \A k \in DOMAIN Later : ItemInv(Later[k])
         /\ StillToList = Region(Item) \cup Regions(Later)
         /\ \A m \in Region(Item), n \in Regions(Later) : Before(m, n)
         /\ listing.path \in Nodes /\ listing.depth \in Int
         /\ Item.node \in Nodes /\ Item.level \in Nat
<1>1. /\ listing.todo \in Seq(TodoItem) /\ listing.path \in Nodes /\ listing.depth \in Int
  BY DEF ListInv, ListTypes, ListState
<1>2. /\ (\A k \in DOMAIN listing.todo : ItemInv(listing.todo[k])) /\ InTurn(listing.todo)
  BY DEF ListInv, ItemsInv
<1>3. /\ Item = listing.todo[1] /\ 1 \in 1..Len(listing.todo) /\ Later \in Seq(TodoItem)
      /\ \A k \in 1..Len(Later) : k + 1 \in 1..Len(listing.todo) /\ Later[k] = listing.todo[k + 1]
  BY <1>1, HeadAndTail DEF Item, Later
<1>4. DOMAIN listing.todo = 1..Len(listing.todo) /\ DOMAIN Later = 1..Len(Later)
  BY <1>1, <1>3, LenProperties
<1>5. ItemInv(Item) /\ \A k \in DOMAIN Later : ItemInv(Later[k])
  <2>1. \A e : e = listing.todo[1] => ItemInv(e)
    BY <1>2, <1>3, <1>4
  <2>2. ASSUME NEW k \in DOMAIN Later PROVE ItemInv(Later[k])
    <3>1. k + 1 \in DOMAIN listing.todo /\ Later[k] = listing.todo[k + 1]
      BY <1>3, <1>4
    <3>2. ItemInv(listing.todo[k + 1])
      BY <1>2, <3>1
    <3> QED
      BY <3>1, <3>2
  <2> QED
    BY <1>3, <2>1, <2>2
<1>6. /\ Item \in TodoItem
      /\ Regions(listing.todo) = Region(Item) \cup Regions(Later)
      /\ InTurn(Later)
      /\ \A m \in Region(Item), n \in Regions(Later) : Before(m, n)
  BY <1>1, <1>2, RegionsTail DEF Item, Later
<1> QED
  BY <1>1, <1>3, <1>5, <1>6 DEF StillToList, TodoItem

(* The next item is passed over when there is nothing to be listed in it.      *)
LEMMA ListPasses ==
  ASSUME ListInv, listing.pc = "list", listing.todo # <<>>, Proceed("list", Later, <<>>),
         \A n \in Region(Item) : Stable(n) => ~Listed(n)
  PROVE  ListInv'
<1>1. /\ Later \in Seq(TodoItem) /\ InTurn(Later)
      /\ \A k \in DOMAIN Later : ItemInv(Later[k])
      /\ StillToList = Region(Item) \cup Regions(Later)
  BY AtItem
<1>2. <<>> \in Seq(Entry) /\ Len(<<>>) = 0 /\ 1..0 = {}
  BY EmptySeq
<1> DEFINE rest == Later
           es == <<>>
<1>3. Proceed("list", rest, es)
  OBVIOUS
<1>4. \A k \in 1..Len(es) : FALSE
  BY <1>2
<1>5. \A n \in StillToList \ Regions(rest) : Stable(n) => ~Listed(n)
  BY <1>1
<1>6. es \in Seq(Entry) /\ Len(es) <= 1
  BY <1>2
<1>7. /\ rest \in Seq(TodoItem) /\ InTurn(rest) /\ Regions(rest) \subseteq StillToList
      /\ \A k \in DOMAIN rest : ItemInv(rest[k])
  BY <1>1
<1> HIDE DEF rest, es
<1> QED
  BY <1>3, <1>4, <1>5, <1>6, <1>7, ListMoves

LEMMA ListInvDone ==
  ASSUME ListInv, ListDone
  PROVE  ListInv'
<1>1. listing.pc = "list" /\ listing.todo = <<>> /\ Proceed("done", <<>>, <<>>)
  BY DEF ListDone
<1>2. /\ (\A X : <<>> \in Seq(X)) /\ DOMAIN <<>> = {} /\ Len(<<>>) = 0 /\ 1..0 = {}
      /\ Regions(<<>>) = {} /\ InTurn(<<>>)
  BY EmptySeq DEF Regions, InTurn
<1>3. StillToList = {}
  BY <1>1, <1>2 DEF StillToList
<1> DEFINE es == <<>>
           rest == <<>>
<1>4. /\ es \in Seq(Entry) /\ Len(es) <= 1 /\ Proceed("done", rest, es)
      /\ \A k \in 1..Len(es) : FALSE
  BY <1>1, <1>2
<1>5. /\ rest \in Seq(TodoItem) /\ InTurn(rest) /\ DOMAIN rest = {} /\ Regions(rest) = {}
      /\ rest = <<>>
  BY <1>2
<1> HIDE DEF es, rest
<1> QED
  BY <1>1, <1>3, <1>4, <1>5, ListMoves

(* The call ends with an error, which is no listing.                           *)
LEMMA ListInvError ==
  ASSUME ListInv, listing.pc = "list", Proceed("error", <<>>, <<>>)
  PROVE  ListInv'
<1> DEFINE es == <<>>
           rest == <<>>
           old == listing.shown
<1>1. /\ (\A X : <<>> \in Seq(X)) /\ DOMAIN <<>> = {} /\ Len(<<>>) = 0
      /\ Regions(<<>>) = {} /\ InTurn(<<>>)
  BY EmptySeq DEF Regions, InTurn
<1>2. /\ es \in Seq(Entry) /\ rest \in Seq(TodoItem) /\ Proceed("error", rest, es)
  BY <1>1
<1>3. ListTypes /\ ShownInv
  BY DEF ListInv
<1>4. /\ listing' \in ListState /\ listing'.pc = "error"
      /\ listing'.todo = rest /\ listing'.shown = old \o es
      /\ \A n : /\ Stable(n)' <=> Stable(n)
                /\ Listed(n)' <=> Listed(n)
                /\ IsDir(n)' <=> IsDir(n)
  <2> HIDE DEF es, rest
  <2> QED
    BY <1>2, <1>3, ProceedKeeps
<1>5. old \in Seq(Entry)
  BY <1>3 DEF ListTypes, ListState
<1>6. old \o es = old
  BY <1>5, ConcatEmptySeq
<1>7. ListTypes' /\ ItemsInv' /\ ListedInv'
  BY <1>1, <1>4 DEF ListTypes, ItemsInv, ListedInv
<1>8. StillToList' = {} /\ listing'.shown = listing.shown
  BY <1>1, <1>4, <1>6 DEF StillToList
<1>9. ShownInv'
  BY <1>3, <1>4, <1>8 DEF ShownInv, IsDir
<1> QED
  BY <1>7, <1>9 DEF ListInv

(* A node below an item that is to be listed is below one of its children that  *)
(* is there and is kept.                                                       *)
LEMMA ListedIsBelowKept ==
  ASSUME TreeTypeOK, NEW d \in Below(listing.path), listing.path \in Nodes,
         NEW n \in Below(d) \ {d}, Listed(n)
  PROVE  \E c \in Children(d) : Kept(c) /\ n \in Below(c)
<1>1. /\ d \in Nodes /\ n \in Nodes /\ d \in UpFrom[n]
      /\ listing.path \in UpFrom[d] /\ d \in Inside(n)
  BY BelowIsUp, Depths
<1>2. PICK c \in UpFrom[n] : c # Root /\ Parent[c] = d
  BY <1>1, WayDown
<1>3. c \in Nodes /\ n \in Below(c)
  BY <1>1, <1>2, UpFromNodes, BelowIsUp
<1>4. tree[n] # Absent /\ Dir # Absent
  BY FileTreeAssumption DEF Listed
<1>5. tree[c] # Absent /\ (c # n => IsDir(c))
  BY <1>1, <1>2, <1>4, FoldersAbove DEF IsDir
<1>6. c \in Children(d)
  BY <1>2, <1>3, <1>5 DEF Children
<1>7. c \in Below(d) \ {d}
  BY <1>1, <1>2, <1>3, FoldersFirst, UpFromEquation, UpFromNodes, BelowIsUp, Places
<1>8. c \in Below(listing.path) /\ c # listing.path
  <2>1. c \in Below(listing.path)
    BY <1>7, Depths
  <2>2. Place(listing.path) <= Place(d) /\ Place(d) < Place(c)
    BY <1>1, <1>2, <1>3, UpIsEarlier, FoldersFirst
  <2>3. Place(listing.path) \in Int /\ Place(d) \in Int /\ Place(c) \in Int
    BY <1>1, <1>3, Places
  <2> QED
    BY <2>1, <2>2, <2>3
<1>9. c \in Inside(n) \ {listing.path}
  BY <1>2, <1>8 DEF Inside
<1>10. Kept(c)
  BY <1>5, <1>9 DEF Listed, Kept
<1> QED
  BY <1>3, <1>6, <1>10

(* The entries of a directory, each to be looked at in turn.                   *)
Entries(N, level) ==
  LET names == Sorted(N)
  IN  [k \in DOMAIN names |-> Todo("stat", names[k], IsDir(names[k]), level)]

EntryOf(e, N, level) ==
  /\ e.do = "stat" /\ e.node \in N /\ e.level = level
  /\ e.dir = IsDir(e.node)

LEMMA EntriesInTurn ==
  ASSUME NEW d \in Nodes, NEW N \in SUBSET Children(d), NEW level \in Nat
  PROVE  /\ Entries(N, level) \in Seq(TodoItem) /\ InTurn(Entries(N, level))
         /\ Regions(Entries(N, level)) \subseteq Below(d) \ {d}
         /\ \A c \in N : Below(c) \subseteq Regions(Entries(N, level))
         /\ \A k \in DOMAIN Entries(N, level) : EntryOf(Entries(N, level)[k], N, level)
<1> DEFINE names == Sorted(N)
           items == [k \in DOMAIN names |-> Todo("stat", names[k], IsDir(names[k]), level)]
<1>1. /\ names \in Seq(Nodes) /\ names \in Seq(N)
      /\ AllBelow(names) \subseteq Below(d) \ {d}
      /\ \A c \in N : Below(c) \subseteq AllBelow(names)
  BY ChildrenInTurn
<1>2. N \subseteq Nodes /\ \A c \in N : c \in Nodes \ {Root} /\ Parent[c] = d
  BY DEF Children
<1>3. /\ \A k, l \in DOMAIN names : k < l => Before(names[k], names[l])
  BY <1>2, SortedIsOrder
<1>4. DOMAIN names = 1..Len(names) /\ Len(names) \in Nat
      /\ \A k \in 1..Len(names) : names[k] \in N
  BY <1>1, LenProperties, ElementOfSeq
<1> HIDE DEF names
<1>5. \A n : IsDir(n) \in BOOLEAN
  BY DEF IsDir
<1>6. ASSUME NEW c \in N
      PROVE  /\ Todo("stat", c, IsDir(c), level) \in TodoItem
             /\ Region(Todo("stat", c, IsDir(c), level)) = Below(c)
  BY <1>2, <1>5 DEF Todo, TodoItem, Region
<1>7. \A k \in 1..Len(names) :
        /\ items[k] = Todo("stat", names[k], IsDir(names[k]), level)
        /\ items[k] \in TodoItem /\ Region(items[k]) = Below(names[k])
  BY <1>4, <1>6
<1>8. items \in Seq(TodoItem) /\ DOMAIN items = 1..Len(names)
  <2>1. items \in [1..Len(names) -> TodoItem]
    BY <1>4, <1>7
  <2> QED
    BY <1>4, <2>1, SeqDef
<1>9. Regions(items) = AllBelow(names)
  BY <1>4, <1>7, <1>8 DEF Regions, AllBelow
<1>10. InTurn(items)
  <2> SUFFICES ASSUME NEW k \in 1..Len(names), NEW l \in 1..Len(names), k < l,
                      NEW m \in Below(names[k]), NEW n \in Below(names[l])
               PROVE  Before(m, n)
    BY <1>7, <1>8 DEF InTurn
  <2>1. Before(names[k], names[l])
    BY <1>3, <1>4
  <2> QED
    BY <1>2, <1>4, <2>1, SubtreesInOrder
<1>11. \A k \in DOMAIN items : EntryOf(items[k], N, level)
  BY <1>4, <1>7, <1>8 DEF EntryOf, Todo
<1>12. /\ Regions(items) \subseteq Below(d) \ {d}
       /\ \A c \in N : Below(c) \subseteq Regions(items)
  BY <1>1, <1>9
<1> QED
  BY <1>8, <1>10, <1>11, <1>12 DEF names, Entries

LEMMA ItemsConcat ==
  ASSUME NEW s \in Seq(TodoItem), NEW t \in Seq(TodoItem),
         \A k \in DOMAIN s : ItemInv(s[k]), \A k \in DOMAIN t : ItemInv(t[k])
  PROVE  \A k \in DOMAIN (s \o t) : ItemInv((s \o t)[k])
<1>1. /\ Len(s) \in Nat /\ Len(t) \in Nat /\ DOMAIN s = 1..Len(s) /\ DOMAIN t = 1..Len(t)
      /\ DOMAIN (s \o t) = 1..(Len(s) + Len(t))
      /\ \A i \in 1..(Len(s) + Len(t)) :
           (s \o t)[i] = IF i <= Len(s) THEN s[i] ELSE t[i - Len(s)]
  BY ConcatProperties, LenProperties
<1>2. ASSUME NEW i \in 1..(Len(s) + Len(t)) PROVE ItemInv((s \o t)[i])
  <2>1. CASE i <= Len(s)
    BY <1>1, <2>1
  <2>2. CASE ~(i <= Len(s))
    <3>1. i - Len(s) \in 1..Len(t)
      BY <1>1, <2>2
    <3> QED
      BY <1>1, <2>2, <3>1
  <2> QED
    BY <2>1, <2>2
<1> QED
  BY <1>1, <1>2

(* Nothing is listed below the depth asked for, nor below what cannot be read.  *)
LEMMA ListInvReadDirectory ==
  ASSUME ListInv, TreeTypeOK, ReadDirectory
  PROVE  ListInv'
<1> DEFINE d == Item.node
           N == {n \in Children(d) : Kept(n)}
           items == Entries(N, Item.level)
<1>1. /\ listing.pc = "list" /\ listing.todo # <<>> /\ Item.do = "read"
  BY DEF ReadDirectory
<1>2. /\ Item \in TodoItem /\ Later \in Seq(TodoItem)
      /\ ItemInv(Item) /\ InTurn(Later)
      /\ \A k \in DOMAIN Later : ItemInv(Later[k])
      /\ StillToList = Region(Item) \cup Regions(Later)
      /\ \A m \in Region(Item), n \in Regions(Later) : Before(m, n)
      /\ listing.path \in Nodes /\ listing.depth \in Int
      /\ d \in Nodes /\ Item.level \in Nat
  BY <1>1, AtItem
<1>3. Region(Item) = Below(d) \ {d}
  BY <1>1 DEF Region
<1>4. /\ d \in Below(listing.path) /\ Cardinality(Inside(d)) - 1 = Item.level
      /\ \A m \in Inside(d) \ {d} : CanRead(m)
      /\ \A m \in Inside(d) \ {listing.path} : Shown(m)
      /\ Item.level > 0 => d \in touched \/ IsDir(d)
  BY <1>1, <1>2 DEF ItemInv
<1>5. /\ Cardinality(Inside(d)) \in Nat
      /\ \A n \in Below(d) \ {d} :
           /\ n \in Below(listing.path) /\ d \in Inside(n)
           /\ Cardinality(Inside(n)) \in Nat
           /\ Cardinality(Inside(d)) < Cardinality(Inside(n))
      /\ \A c \in Nodes \ {Root} : Parent[c] = d =>
           Inside(c) = Inside(d) \cup {c}
           /\ Cardinality(Inside(c)) = Cardinality(Inside(d)) + 1
  BY <1>2, <1>4, Depths
<1>6. CASE Item.level >= listing.depth /\ Proceed("list", Later, <<>>)
  <2>1. ASSUME NEW n \in Below(d) \ {d} PROVE ~Listed(n)
    BY <1>2, <1>4, <1>5, <1>6 DEF Listed
  <2> QED
    BY <1>1, <1>3, <1>6, <2>1, ListPasses
<1>7. CASE /\ Item.level < listing.depth /\ IsDir(d) /\ CanRead(d)
           /\ Proceed("list", items \o Later, <<>>)
  <2>1. /\ items \in Seq(TodoItem) /\ InTurn(items)
        /\ Regions(items) \subseteq Below(d) \ {d}
        /\ \A c \in N : Below(c) \subseteq Regions(items)
        /\ \A k \in DOMAIN items : EntryOf(items[k], N, Item.level)
    <3>1. N \in SUBSET Children(d)
      OBVIOUS
    <3> HIDE DEF N, d
    <3> QED
      BY <1>2, <3>1, EntriesInTurn
  <2> HIDE DEF items
  <2>2. ASSUME NEW e, EntryOf(e, N, Item.level) PROVE ItemInv(e)
    <3> DEFINE c == e.node
    <3>1. /\ c \in Nodes \ {Root} /\ Parent[c] = d /\ tree[c] # Absent /\ Kept(c)
      BY <2>2 DEF Children, EntryOf
    <3>2. /\ e.do = "stat" /\ e.node = c /\ e.dir = IsDir(c) /\ e.level = Item.level
      BY <2>2 DEF EntryOf, IsDir
    <3> HIDE DEF c
    <3>3. /\ Inside(c) = Inside(d) \cup {c}
          /\ Cardinality(Inside(c)) = Cardinality(Inside(d)) + 1
      BY <1>5, <3>1
    <3>4. Place(d) < Place(c) /\ Place(listing.path) <= Place(d)
      BY <1>2, <1>4, <3>1, FoldersFirst, UpIsEarlier, BelowIsUp
    <3>5. Place(listing.path) \in Int /\ Place(d) \in Int /\ Place(c) \in Int
      BY <1>2, <3>1, Places
    <3>6. c # d /\ c # listing.path
      BY <3>4, <3>5
    <3>7. c \in Below(d) \ {d}
      BY <1>2, <3>1, <3>6, UpFromEquation, UpFromNodes, BelowIsUp
    <3>8. c \in Below(listing.path)
      BY <1>5, <3>7
    <3>9. Cardinality(Inside(c)) - 1 = Item.level + 1
      BY <1>4, <1>5, <3>3
    <3>10. \A m \in Inside(c) \ {c} : CanRead(m)
      BY <1>4, <1>7, <3>3
    <3>11. \A m \in Inside(c) \ {listing.path} : Shown(m)
      BY <1>4, <3>1, <3>3 DEF Kept, Shown
    <3>12. c \in listing.pattern \/ IsDir(c)
      BY <3>1 DEF Kept
    <3> QED
      BY <1>7, <3>1, <3>2, <3>6, <3>8, <3>9, <3>10, <3>11, <3>12 DEF ItemInv
  <2>3. \A k \in DOMAIN items : ItemInv(items[k])
    BY <2>1, <2>2
  <2> DEFINE rest == items \o Later
             es == <<>>
  <2>4. /\ rest \in Seq(TodoItem) /\ Regions(rest) = Regions(items) \cup Regions(Later)
        /\ InTurn(rest)
    <3>1. \A m \in Regions(items), n \in Regions(Later) : Before(m, n)
      BY <1>2, <1>3, <2>1
    <3> QED
      BY <1>2, <2>1, <3>1, RegionsConcat, ConcatProperties
  <2>5. \A k \in DOMAIN rest : ItemInv(rest[k])
    BY <1>2, <2>1, <2>3, ItemsConcat
  <2>6. es \in Seq(Entry) /\ Len(es) <= 1 /\ \A k \in 1..Len(es) : FALSE
    BY EmptySeq
  <2>7. Regions(rest) \subseteq StillToList
    BY <1>2, <1>3, <2>1, <2>4
  <2>8. \A n \in StillToList \ Regions(rest) : ~Listed(n)
    <3> SUFFICES ASSUME NEW n \in StillToList \ Regions(rest), Listed(n) PROVE FALSE
      OBVIOUS
    <3>1. n \in Below(d) \ {d}
      BY <1>2, <1>3, <2>4
    <3>2. PICK c \in Children(d) : Kept(c) /\ n \in Below(c)
      BY <1>2, <1>4, <3>1, ListedIsBelowKept
    <3> QED
      BY <2>1, <2>4, <3>2
  <2>9. Proceed("list", rest, es)
    BY <1>7
  <2> HIDE DEF rest, es
  <2> QED
    BY <1>1, <2>4, <2>5, <2>6, <2>7, <2>8, <2>9, ListMoves
<1>8. CASE /\ Item.level < listing.depth /\ ~(IsDir(d) /\ CanRead(d))
           /\ IF Item.level = 0 THEN Proceed("error", <<>>, <<>>)
              ELSE Proceed("list", Later, <<>>)
  <2>1. CASE Item.level = 0
    BY <1>1, <1>8, <2>1, ListInvError
  <2>2. CASE Item.level # 0
    <3>1. ASSUME NEW n \in Below(d) \ {d}, Stable(n), Listed(n) PROVE FALSE
      <4>1. d \in UpFrom[n] /\ d \in Inside(n) \ {n}
        BY <1>2, <1>5, <3>1, BelowIsUp
      <4>2. CanRead(d) /\ d \notin touched
        BY <3>1, <4>1 DEF Listed, Stable
      <4>3. IsDir(d)
        BY <1>2, <1>4, <2>2, <4>2
      <4> QED
        BY <1>8, <4>2, <4>3
    <3> QED
      BY <1>1, <1>3, <1>8, <2>2, <3>1, ListPasses
  <2> QED
    BY <2>1, <2>2
<1> QED
  BY <1>1, <1>6, <1>7, <1>8 DEF ReadDirectory, Entries

(* An entry that is there is shown, and read next when it was a directory when  *)
(* the directory it is in was read.                                            *)
LEMMA ListInvStatEntry ==
  ASSUME ListInv, TreeTypeOK, StatEntry
  PROVE  ListInv'
<1> DEFINE d == Item.node
           read == Todo("read", d, TRUE, Item.level + 1)
           entry == [node |-> d, dir |-> Item.dir]
           es == <<entry>>
           rest == IF Item.dir THEN <<read>> \o Later ELSE Later
<1>1. /\ listing.pc = "list" /\ listing.todo # <<>> /\ Item.do = "stat"
  BY DEF StatEntry
<1>2. /\ Item \in TodoItem /\ Later \in Seq(TodoItem)
      /\ ItemInv(Item) /\ InTurn(Later)
      /\ \A k \in DOMAIN Later : ItemInv(Later[k])
      /\ StillToList = Region(Item) \cup Regions(Later)
      /\ \A m \in Region(Item), n \in Regions(Later) : Before(m, n)
      /\ listing.path \in Nodes /\ listing.depth \in Int
      /\ d \in Nodes /\ Item.level \in Nat
  BY <1>1, AtItem
<1>3. Region(Item) = Below(d) /\ d \in Below(d)
  BY <1>1, <1>2, BelowIsUp, UpFromNodes DEF Region
<1>4. /\ d \in Below(listing.path) /\ Cardinality(Inside(d)) - 1 = Item.level + 1
      /\ \A m \in Inside(d) \ {d} : CanRead(m)
      /\ \A m \in Inside(d) \ {listing.path} : Shown(m)
      /\ Item.level < listing.depth /\ d # listing.path
      /\ \/ d \in touched
         \/ tree[d] # Absent /\ Item.dir = IsDir(d) /\ (d \in listing.pattern \/ IsDir(d))
  BY <1>1, <1>2 DEF ItemInv
<1>5. ASSUME NEW n \in Below(d) \ {d}, Listed(n)
      PROVE  IsDir(d) /\ (Stable(n) => d \notin touched)
  <2>1. n \in Nodes /\ d \in UpFrom[n] /\ tree[n] # Absent
    BY <1>2, <1>5, BelowIsUp DEF Listed
  <2> QED
    BY <1>5, <2>1, FoldersAbove DEF Stable
<1>6. Dir # Absent
  BY FileTreeAssumption
<1>7. CASE tree[d] = Absent /\ Proceed("list", Later, <<>>)
  <2>1. ASSUME NEW n \in Below(d) PROVE ~Listed(n)
    BY <1>5, <1>6, <1>7 DEF Listed, IsDir
  <2> QED
    BY <1>1, <1>3, <1>7, <2>1, ListPasses
<1>8. CASE tree[d] # Absent /\ Proceed("list", rest, es)
  <2>1. /\ read.do = "read" /\ read.node = d /\ read.level = Item.level + 1
        /\ read.dir = TRUE /\ read \in TodoItem
    BY <1>2 DEF Todo, TodoItem
  <2>2. /\ entry \in Entry /\ entry.node = d /\ entry.dir = Item.dir
    BY <1>2 DEF Entry, TodoItem
  <2> HIDE DEF read, entry
  <2>3. /\ <<read>> \in Seq(TodoItem) /\ DOMAIN <<read>> = {1} /\ <<read>>[1] = read
    BY <2>1
  <2>4. /\ es \in Seq(Entry) /\ Len(es) <= 1 /\ \A k \in 1..Len(es) : es[k] = entry
        /\ 1 \in 1..Len(es) /\ es[1] = entry
    BY <2>2
  <2>5. Regions(<<read>>) = Below(d) \ {d} /\ InTurn(<<read>>)
    BY <2>1, <2>3 DEF Regions, Region, InTurn
  <2>6. ASSUME Item.dir = TRUE PROVE ItemInv(read)
    <3>1. d \in touched \/ IsDir(d)
      BY <1>4, <2>6
    <3> QED
      BY <1>2, <1>4, <2>1, <3>1 DEF ItemInv
  <2>7. Item.dir \in BOOLEAN
    BY <1>2 DEF TodoItem
  <2> DEFINE left == IF Item.dir THEN Below(d) \ {d} ELSE {}
  <2>8. /\ rest \in Seq(TodoItem) /\ InTurn(rest)
        /\ Regions(rest) = left \cup Regions(Later)
        /\ \A k \in DOMAIN rest : ItemInv(rest[k])
    <3>1. CASE Item.dir = TRUE
      <4>1. rest = <<read>> \o Later /\ left = Below(d) \ {d}
        BY <3>1
      <4>2. \A m \in Regions(<<read>>), n \in Regions(Later) : Before(m, n)
        BY <1>2, <1>3, <2>5
      <4>3. <<read>> \o Later \in Seq(TodoItem)
            /\ Regions(<<read>> \o Later) = Regions(<<read>>) \cup Regions(Later)
            /\ InTurn(<<read>> \o Later)
        BY <1>2, <2>3, <2>5, <4>2, RegionsConcat, ConcatProperties
      <4>4. \A k \in DOMAIN <<read>> : ItemInv(<<read>>[k])
        BY <2>3, <2>6, <3>1
      <4>5. \A k \in DOMAIN (<<read>> \o Later) : ItemInv((<<read>> \o Later)[k])
        BY <1>2, <2>3, <4>4, ItemsConcat
      <4> QED
        BY <2>5, <4>1, <4>3, <4>5
    <3>2. CASE Item.dir = FALSE
      BY <1>2, <3>2
    <3> QED
      BY <2>7, <3>1, <3>2
  <2>9. Regions(rest) \subseteq StillToList /\ d \in StillToList
    BY <1>2, <1>3, <2>8
  <2>10. \A n \in Regions(rest) : Before(d, n)
    <3>1. ASSUME NEW n \in Below(d) \ {d} PROVE Before(d, n)
      <4>1. n \in Nodes /\ Place(d) <= Place(n)
        BY <1>2, <3>1, BelowIsUp, UpIsEarlier
      <4>2. Place(d) # Place(n) /\ Place(d) \in Int /\ Place(n) \in Int
        BY <1>2, <3>1, <4>1, Places
      <4> QED
        BY <1>2, <4>1, <4>2, BeforeIsPlace
    <3> QED
      BY <1>2, <1>3, <2>8, <3>1
  <2>11. Stable(d) => Listed(d) /\ Item.dir = IsDir(d)
    <3> SUFFICES ASSUME Stable(d) PROVE Listed(d) /\ Item.dir = IsDir(d)
      OBVIOUS
    <3>1. d \notin touched
      BY <1>2, UpFromNodes DEF Stable
    <3>2. Cardinality(Inside(d)) - 1 <= listing.depth
      BY <1>2, <1>4
    <3> QED
      BY <1>4, <3>1, <3>2 DEF Listed, Shown
  <2>12. ASSUME NEW n \in StillToList \ Regions(rest), Stable(n), Listed(n)
         PROVE  n = d
    <3> SUFFICES ASSUME n # d PROVE FALSE
      OBVIOUS
    <3>1. n \in Below(d) \ {d}
      BY <1>2, <1>3, <2>8, <2>12
    <3>2. IsDir(d) /\ d \notin touched
      BY <1>5, <2>12, <3>1
    <3>3. Item.dir = TRUE
      BY <1>4, <2>7, <3>2
    <3> QED
      BY <2>8, <2>12, <3>1, <3>3
  <2>13. Proceed("list", rest, es)
    BY <1>8
  <2>14. \A k \in 1..Len(es) :
           /\ es[k].node \in StillToList /\ \A n \in Regions(rest) : Before(es[k].node, n)
           /\ Stable(es[k].node) => Listed(es[k].node) /\ es[k].dir = IsDir(es[k].node)
    BY <2>2, <2>4, <2>9, <2>10, <2>11
  <2>15. \A n \in StillToList \ Regions(rest) :
           Stable(n) /\ Listed(n) => \E k \in 1..Len(es) : es[k].node = n
    BY <2>2, <2>4, <2>12
  <2> HIDE DEF rest, es
  <2> QED
    BY <1>1, <2>4, <2>8, <2>9, <2>13, <2>14, <2>15, ListMoves
<1> QED
  BY <1>1, <1>7, <1>8 DEF StatEntry

LEMMA ListInvOthers ==
  ASSUME ListInv, TreeTypeOK, Others, listing' = listing
  PROVE  ListInv'
<1>1. /\ TreeInv /\ touched \subseteq touched' /\ locked' = locked
  BY DEF TreeTypeOK, TreeInv, Others, Rewrite, MakeDir, Remove, Touch
<1>2. /\ listing \in ListState /\ listing.shown \in Seq(Entry)
      /\ listing.todo \in Seq(TodoItem)
  BY DEF ListInv, ListTypes, ListState
<1>3. /\ \A k \in DOMAIN listing.shown : listing.shown[k].node \in Nodes
      /\ \A k \in DOMAIN listing.todo : listing.todo[k].node \in Nodes
  <2>1. \A k \in DOMAIN listing.shown : listing.shown[k] \in Entry
    BY <1>2, LenProperties, ElementOfSeq
  <2>2. \A k \in DOMAIN listing.todo : listing.todo[k] \in TodoItem
    BY <1>2, LenProperties, ElementOfSeq
  <2> QED
    BY <2>1, <2>2 DEF Entry, TodoItem
<1>4. \A n : Inside(n)' = Inside(n) /\ (Shown(n)' <=> Shown(n))
  BY DEF Inside, Shown
<1>5. ASSUME NEW n \in Nodes, Stable(n)'
      PROVE  /\ Stable(n) /\ tree'[n] = tree[n]
             /\ Listed(n)' <=> Listed(n)
  <2>1. Stable(n) /\ tree'[n] = tree[n]
    BY <1>5, StableIsKept, UpFromNodes
  <2> QED
    BY <1>1, <1>4, <2>1 DEF Listed, CanRead, IsDir
<1>6. ASSUME NEW e, e.node \in Nodes, ItemInv(e) PROVE ItemInv(e)'
  <2>1. ASSUME e.node \notin touched'
        PROVE  tree'[e.node] = tree[e.node] /\ e.node \notin touched
    BY <1>1, <1>6, <2>1, UntouchedIsKept
  <2> QED
    BY <1>1, <1>4, <1>6, <2>1 DEF ItemInv, CanRead, IsDir
<1>7. ListTypes' /\ StillToList' = StillToList
  BY DEF ListInv, ListTypes, StillToList
<1>8. ItemsInv'
  <2>1. ItemsInv
    BY DEF ListInv
  <2> QED
    BY <1>3, <1>6, <2>1 DEF ItemsInv
<1>9. ShownInv'
  <2>1. ShownInv
    BY DEF ListInv
  <2>2. ASSUME NEW e, e.node \in Nodes, Stable(e.node)',
               Stable(e.node) => Listed(e.node) /\ e.dir = IsDir(e.node)
        PROVE  Listed(e.node)' /\ e.dir = IsDir(e.node)'
    BY <1>5, <2>2 DEF IsDir
  <2> QED
    BY <1>3, <1>7, <2>1, <2>2 DEF ShownInv
<1>10. ListedInv'
  <2>1. ListedInv
    BY DEF ListInv
  <2> QED
    BY <1>5, <1>7, <2>1 DEF ListedInv
<1> QED
  BY <1>7, <1>8, <1>9, <1>10 DEF ListInv

LEMMA ListInvSame ==
  ASSUME ListInv, UNCHANGED <<tree, locked, touched, listing>>
  PROVE  ListInv'
BY DEF ListInv, ListTypes, ItemsInv, ItemInv, ShownInv, ListedInv, StillToList, Shown,
       Inside, Listed, Stable, CanRead, IsDir

LEMMA ListInvNext ==
  ASSUME ListInv, TreeTypeOK, [Next]_vars
  PROVE  ListInv'
<1>1. ASSUME ListStep PROVE ListInv'
  BY <1>1, ListInvReadDirectory, ListInvStatEntry, ListInvDone DEF ListStep
<1>2. ASSUME Begin PROVE ListInv'
  <2>1. CASE \E r \in ListRequests : BeginList(r)
    BY <2>1, ListInvBegin
  <2>2. CASE UNCHANGED listing
    <3>1. UNCHANGED treeVars
      BY <1>2, ToolsKeepTree
    <3> QED
      BY <2>2, <3>1, ListInvSame DEF treeVars
  <2> QED
    BY <1>2, <2>1, <2>2 DEF Begin
<1>3. ASSUME Step PROVE ListInv'
  <2>1. CASE UNCHANGED listing
    <3>1. UNCHANGED treeVars
      BY <1>3, ToolsKeepTree
    <3> QED
      BY <2>1, <3>1, ListInvSame DEF treeVars
  <2> QED
    BY <1>1, <1>3, <2>1 DEF Step
<1>4. ASSUME Change PROVE ListInv'
  BY <1>4, ListInvOthers DEF Change
<1>5. ASSUME UNCHANGED vars PROVE ListInv'
  BY <1>5, ListInvSame DEF vars
<1> QED
  BY <1>2, <1>3, <1>4, <1>5 DEF Next

-------------------------------------------------------------------------------
(* The state of a listing, whatever happens to the tree: what is still to be    *)
(* listed is in the order of the names and after what has been listed, and what *)
(* is in neither is not to be listed.                                          *)
THEOREM ListInvariant == Spec => [](TreeTypeOK /\ ListInv)
<1>1. Init => TreeTypeOK /\ ListInv
  BY TreeTypeInit, ListInvInit
<1>2. TreeTypeOK /\ ListInv /\ [Next]_vars => (TreeTypeOK /\ ListInv)'
  BY TreeTypeNext, ListInvNext
<1> QED
  BY <1>1, <1>2, PTL DEF Spec

LEMMA ListInvImpliesTree == ListInv => ListingIsTree
<1> SUFFICES ASSUME ListInv, listing.pc = "done" PROVE ListingIsTree
  BY DEF ListingIsTree
<1> DEFINE quiet == {n \in Nodes : UpFrom[n] \cap touched = {}}
           Name(k) == listing.shown[k].node
           kept == {k \in DOMAIN listing.shown : Name(k) \in quiet}
<1>1. listing.todo = <<>> /\ DOMAIN <<>> = {}
  BY DEF ListInv, ListTypes
<1>2. StillToList = {}
  BY <1>1 DEF StillToList, Regions
<1>3. \A n : n \in quiet <=> n \in Nodes /\ Stable(n)
  BY DEF Stable
<1>4. \A k \in kept : Listed(Name(k)) /\ listing.shown[k].dir = IsDir(Name(k))
  BY <1>3 DEF ListInv, ShownInv
<1>5. \A n \in quiet : Listed(n) => \E k \in DOMAIN listing.shown : Name(k) = n
  BY <1>2, <1>3 DEF ListInv, ListedInv
<1>6. \A k, l \in kept : k < l => Before(Name(k), Name(l))
  BY DEF ListInv, ShownInv
<1>7. {Name(k) : k \in kept} = {n \in quiet : Listed(n)}
  <2>1. ASSUME NEW k \in kept PROVE Name(k) \in quiet /\ Listed(Name(k))
    BY <1>4
  <2>2. ASSUME NEW n \in quiet, Listed(n) PROVE \E k \in kept : Name(k) = n
    BY <1>5, <2>2
  <2> QED
    BY <2>1, <2>2
<1> QED
  BY <1>4, <1>6, <1>7 DEF ListingIsTree

(* An entry that nobody changed, in directories that nobody changed, is in the  *)
(* answer exactly once if it should be and not at all if it should not, with    *)
(* its kind and in the order of the names (tool_ls.go, listDir).               *)
THEOREM ListingShowsTheTree == Spec => []ListingIsTree
BY ListInvariant, ListInvImpliesTree, PTL

-------------------------------------------------------------------------------
(* All four tools.                                                             *)

LEMMA InvariantsImplyTypes ==
  ASSUME TreeTypeOK, SearchInv, ListInv, ReadInv, DiffInv
  PROVE  TypeOK
<1>1. /\ search \in SearchState
      /\ search.pc \in {"names", "scan"} => search.pending # <<>>
  BY DEF SearchInv, SearchTypes
<1>2. /\ search.pc \in {"idle", "walk", "names", "scan", "done"}
      /\ search.max \in Int /\ search.context \in Ints
      /\ search.pending \in Seq(Nodes) /\ search.matches \in Seq(LineFound)
  BY <1>1 DEF SearchState
<1>3. \A k \in DOMAIN search.pending : search.pending[k] \in Nodes
  BY <1>2, LenProperties, ElementOfSeq
<1>4. \A k \in DOMAIN search.matches : search.matches[k].file \in Nodes
  <2>1. \A k \in DOMAIN search.matches : search.matches[k] \in LineFound
    BY <1>2, LenProperties, ElementOfSeq
  <2> QED
    BY <2>1 DEF LineFound
<1>5. search.context \in Int
  BY <1>2, FileTreeAssumption DEF Ints
<1>6. /\ listing.pc \in {"idle", "list", "done", "error"} /\ listing.todo \in Seq(TodoItem)
  BY DEF ListInv, ListTypes, ListState
<1>7. \A k \in DOMAIN listing.todo :
        listing.todo[k] \in [do : {"read", "stat"}, node : Nodes, dir : BOOLEAN, level : Nat]
  <2>1. \A k \in DOMAIN listing.todo : listing.todo[k] \in TodoItem
    BY <1>6, LenProperties, ElementOfSeq
  <2> QED
    BY <2>1 DEF TodoItem
<1>8. diff.pc \in {"idle", "readA", "readB", "cut", "fill", "trace", "reverse", "done"}
  BY DEF DiffInv, DiffTypeOK, Diff
<1>9. diff.pc = "fill" => diff.i \in 1..(Len(diff.a) + 1) /\ diff.j \in 1..(Len(diff.b) + 1)
  BY DEF DiffInv, DiffScript
<1>10. diff.pc = "trace" => diff.i \in 0..Len(diff.a) /\ diff.j \in 0..Len(diff.b)
  BY DEF DiffInv, DiffScript, Traced
<1>11. /\ reading.pc \in {"idle", "scan", "cut", "done"}
       /\ Len(reading.fragments) <= Len(reading.ranges)
  BY DEF ReadInv, Reading
<1> QED
  BY <1>1, <1>2, <1>3, <1>4, <1>5, <1>6, <1>7, <1>8, <1>9, <1>10, <1>11 DEF TypeOK

(* The state of every tool keeps to its type: no index outside of what it goes  *)
(* through, and no name that is not there to be looked at (tool_search.go,      *)
(* tool_ls.go, tool_diff.go, tool_read_file.go).                               *)
THEOREM ReadingTypeCorrect == Spec => []TypeOK
<1>1. TreeTypeOK /\ SearchInv /\ TreeTypeOK /\ ListInv /\ TreeInv /\ ReadInv
        /\ TreeInv /\ DiffInv => TypeOK
  BY InvariantsImplyTypes
<1> QED
  BY <1>1, SearchInvariant, ListInvariant, ReadInvariant, DiffInvariant, PTL

-------------------------------------------------------------------------------
(* Every call comes to an end, as far as its own steps go.                     *)

LEMMA SmallerSet ==
  ASSUME NEW X \in SUBSET Nodes, NEW Y \in SUBSET X
  PROVE  /\ Cardinality(X) \in Nat /\ Cardinality(Y) \in Nat
         /\ Cardinality(Y) <= Cardinality(X)
         /\ Y # X => Cardinality(Y) < Cardinality(X)
<1>1. IsFiniteSet(X) /\ IsFiniteSet(Y)
  BY NodesAreFinite, FS_Subset
<1>2. Cardinality(X) \in Nat /\ Cardinality(Y) \in Nat
  BY <1>1, FS_CardinalityType
<1>3. Cardinality(Y) <= Cardinality(X) /\ (Cardinality(X) = Cardinality(Y) => X = Y)
  BY <1>1, FS_Subset
<1> QED
  BY <1>2, <1>3

(* The walk never returns to a name.                                           *)
LEMMA SearchProgress ==
  ASSUME SearchInv, SearchStep
  PROVE  Less(SearchLeft', SearchLeft)
<1> DEFINE rest == Tail(search.pending)
<1>1. SearchTypes /\ search \in SearchState /\ Ahead \in SUBSET Nodes
  BY DEF SearchInv, SearchTypes, Ahead, AllBelow, Below
<1>2. ASSUME NEW to, NEW p, NEW found, GoOn(to, p, found)
      PROVE  search'.pc = to /\ search'.pending = p /\ Ahead' = AllBelow(p)
  BY <1>1, <1>2 DEF GoOn, SearchState, Ahead
<1>3. Cardinality(Ahead) \in Nat
  BY <1>1, SmallerSet
<1>4. ASSUME search.pc \notin {"idle", "done"},
             NEW p, NEW found, GoOn("walk", p, found),
             AllBelow(p) \subseteq Ahead, Visited \in Ahead \ AllBelow(p)
      PROVE  Less(SearchLeft', SearchLeft)
  <2>1. search'.pc = "walk" /\ Ahead' = AllBelow(p)
    BY <1>2, <1>4
  <2>2. /\ Cardinality(AllBelow(p)) \in Nat
        /\ Cardinality(AllBelow(p)) < Cardinality(Ahead)
    BY <1>1, <1>4, SmallerSet
  <2>3. SearchLeft' = <<1, Cardinality(AllBelow(p)), 1>>
    BY <2>1 DEF SearchLeft
  <2>4. \E i \in {0, 1} : SearchLeft = <<1, Cardinality(Ahead), i>>
    BY <1>4 DEF SearchLeft
  <2> QED
    BY <1>3, <2>2, <2>3, <2>4 DEF Less
<1>5. ASSUME search.pc = "walk", NEW found, GoOn("done", <<>>, found)
      PROVE  Less(SearchLeft', SearchLeft)
  <2>1. SearchLeft' = <<0, 0, 0>>
    BY <1>2, <1>5 DEF SearchLeft
  <2>2. SearchLeft = <<1, Cardinality(Ahead), 1>>
    BY <1>5 DEF SearchLeft
  <2> QED
    BY <1>3, <2>1, <2>2 DEF Less
<1>6. ASSUME search.pc = "walk", NEW to \in {"names", "scan"},
             GoOn(to, search.pending, <<>>)
      PROVE  Less(SearchLeft', SearchLeft)
  <2>1. SearchLeft' = <<1, Cardinality(Ahead), 0>>
    BY <1>2, <1>6 DEF SearchLeft, Ahead
  <2>2. SearchLeft = <<1, Cardinality(Ahead), 1>>
    BY <1>6 DEF SearchLeft
  <2> QED
    BY <1>3, <2>1, <2>2 DEF Less
<1>7. ASSUME search.pending # <<>>
      PROVE  /\ AllBelow(rest) \subseteq Ahead /\ Visited \in Ahead \ AllBelow(rest)
             /\ rest \in Seq(Nodes) /\ Visited \in Nodes
             /\ Ahead = Below(Visited) \cup AllBelow(rest)
  BY <1>7, AtVisited
<1>8. ASSUME search.pc \notin {"idle", "done"}, search.pending # <<>>,
             NEW found, GoOn("walk", rest, found)
      PROVE  Less(SearchLeft', SearchLeft)
  BY <1>4, <1>7, <1>8
<1>9. CASE VisitNext
  BY <1>5, <1>6, <1>8, <1>9 DEF VisitNext, Skip
<1>10. CASE ReadNames
  <2>1. search.pc = "names" /\ search.pending # <<>>
    BY <1>1, <1>10 DEF ReadNames, SearchTypes
  <2> DEFINE below == Sorted(Children(Visited))
  <2>2. CASE GoOn("walk", below \o rest, <<>>)
    <3>1. Children(Visited) \in SUBSET Children(Visited)
      OBVIOUS
    <3>2. below \in Seq(Nodes) /\ AllBelow(below) \subseteq Below(Visited) \ {Visited}
      BY <1>7, <2>1, <3>1, ChildrenInTurn
    <3> HIDE DEF below, rest
    <3>3. AllBelow(below \o rest) = AllBelow(below) \cup AllBelow(rest)
      BY <1>7, <2>1, <3>2, AllBelowConcat
    <3> QED
      BY <1>4, <1>7, <2>1, <2>2, <3>2, <3>3
  <2>3. CASE Skip
    BY <1>8, <2>1, <2>3 DEF Skip
  <2> QED
    BY <1>10, <2>2, <2>3 DEF ReadNames
<1>11. CASE Scan
  <2>1. search.pc = "scan" /\ search.pending # <<>>
    BY <1>1, <1>11 DEF Scan, SearchTypes
  <2> QED
    BY <1>8, <1>11, <2>1 DEF Scan, Skip
<1>12. CASE WalkDone
  BY <1>5, <1>12 DEF WalkDone
<1> QED
  BY <1>9, <1>10, <1>11, <1>12 DEF SearchStep

LEMMA ToReadConcat ==
  ASSUME NEW s \in Seq(TodoItem), NEW t \in Seq(TodoItem)
  PROVE  /\ Cardinality(ToRead(s)) \in Nat /\ Cardinality(ToRead(t)) \in Nat
         /\ Cardinality(ToRead(s \o t)) = Cardinality(ToRead(s)) + Cardinality(ToRead(t))
<1> DEFINE Y == {k + Len(s) : k \in ToRead(t)}
           f == [k \in ToRead(t) |-> k + Len(s)]
<1>1. /\ Len(s) \in Nat /\ Len(t) \in Nat /\ DOMAIN s = 1..Len(s) /\ DOMAIN t = 1..Len(t)
      /\ DOMAIN (s \o t) = 1..(Len(s) + Len(t))
      /\ \A i \in 1..(Len(s) + Len(t)) :
           (s \o t)[i] = IF i <= Len(s) THEN s[i] ELSE t[i - Len(s)]
  BY ConcatProperties, LenProperties
<1>2. /\ ToRead(s) \in SUBSET (1..Len(s)) /\ ToRead(t) \in SUBSET (1..Len(t))
  BY <1>1 DEF ToRead
<1>3. /\ IsFiniteSet(ToRead(s)) /\ Cardinality(ToRead(s)) \in Nat
      /\ IsFiniteSet(ToRead(t)) /\ Cardinality(ToRead(t)) \in Nat
  <2>1. IsFiniteSet(1..Len(s)) /\ IsFiniteSet(1..Len(t))
    BY <1>1, FS_Interval
  <2>2. IsFiniteSet(ToRead(s)) /\ IsFiniteSet(ToRead(t))
    BY <1>2, <2>1, FS_Subset
  <2> QED
    BY <2>2, FS_CardinalityType
<1>4. f \in Bijection(ToRead(t), Y)
  <2>1. f \in [ToRead(t) -> Y]
    OBVIOUS
  <2>2. \A k, l \in ToRead(t) : f[k] = f[l] => k = l
    BY <1>1, <1>2
  <2>3. \A y \in Y : \E k \in ToRead(t) : f[k] = y
    OBVIOUS
  <2> HIDE DEF f, Y
  <2> QED
    BY <2>1, <2>2, <2>3 DEF Bijection, Injection, Surjection, IsInjective
<1>5. IsFiniteSet(Y) /\ Cardinality(Y) = Cardinality(ToRead(t))
  <2>1. ExistsBijection(ToRead(t), Y)
    BY <1>4 DEF ExistsBijection
  <2> HIDE DEF Y
  <2> QED
    BY <1>3, <2>1, FS_Bijection
<1>6. ToRead(s \o t) = ToRead(s) \cup Y
  <2>1. ASSUME NEW k \in ToRead(s \o t) PROVE k \in ToRead(s) \cup Y
    <3>1. k \in 1..(Len(s) + Len(t)) /\ (s \o t)[k].do = "read"
      BY <1>1, <2>1 DEF ToRead
    <3>2. CASE k <= Len(s)
      BY <1>1, <3>1, <3>2 DEF ToRead
    <3>3. CASE ~(k <= Len(s))
      <4>1. k - Len(s) \in 1..Len(t) /\ t[k - Len(s)].do = "read" /\ k - Len(s) + Len(s) = k
        BY <1>1, <3>1, <3>3
      <4>2. k - Len(s) \in ToRead(t)
        BY <1>1, <4>1 DEF ToRead
      <4> QED
        BY <4>1, <4>2
    <3> QED
      BY <3>2, <3>3
  <2>2. ASSUME NEW k \in ToRead(s) PROVE k \in ToRead(s \o t)
    <3>1. k \in 1..Len(s) /\ s[k].do = "read"
      BY <1>1, <2>2 DEF ToRead
    <3>2. k \in 1..(Len(s) + Len(t)) /\ (s \o t)[k] = s[k]
      BY <1>1, <3>1
    <3> QED
      BY <1>1, <3>1, <3>2 DEF ToRead
  <2>3. ASSUME NEW l \in ToRead(t) PROVE l + Len(s) \in ToRead(s \o t)
    <3>1. l \in 1..Len(t) /\ t[l].do = "read"
      BY <1>1, <2>3 DEF ToRead
    <3>2. /\ l + Len(s) \in 1..(Len(s) + Len(t)) /\ ~(l + Len(s) <= Len(s))
          /\ l + Len(s) - Len(s) = l
      BY <1>1, <3>1
    <3>3. (s \o t)[l + Len(s)] = t[l]
      BY <1>1, <3>1, <3>2
    <3> QED
      BY <1>1, <3>1, <3>2, <3>3 DEF ToRead
  <2> QED
    BY <2>1, <2>2, <2>3
<1>7. ToRead(s) \cap Y = {}
  BY <1>1, <1>2
<1>8. Cardinality({}) = 0
  BY FS_EmptySet
<1> HIDE DEF Y
<1>9. Cardinality(ToRead(s) \cup Y)
        = Cardinality(ToRead(s)) + Cardinality(Y) - Cardinality(ToRead(s) \cap Y)
  BY <1>3, <1>5, FS_Union
<1>10. Cardinality(ToRead(s) \cap Y) = 0
  BY <1>7, <1>8
<1>11. Cardinality(ToRead(s) \cup Y) = Cardinality(ToRead(s)) + Cardinality(ToRead(t))
  BY <1>3, <1>5, <1>9, <1>10
<1> QED
  BY <1>3, <1>6, <1>11

LEMMA ToReadOne ==
  ASSUME NEW e \in TodoItem
  PROVE  /\ <<e>> \in Seq(TodoItem)
         /\ Cardinality(ToRead(<<e>>)) = IF e.do = "read" THEN 1 ELSE 0
<1>1. <<e>> \in Seq(TodoItem) /\ DOMAIN <<e>> = {1} /\ <<e>>[1] = e
  OBVIOUS
<1>2. ToRead(<<e>>) = IF e.do = "read" THEN {1} ELSE {}
  BY <1>1 DEF ToRead
<1>3. Cardinality({1}) = 1 /\ Cardinality({}) = 0
  BY FS_Singleton, FS_EmptySet
<1> QED
  BY <1>1, <1>2, <1>3

LEMMA ToReadTail ==
  ASSUME NEW s \in Seq(TodoItem), s # <<>>
  PROVE  /\ Cardinality(ToRead(s)) \in Nat /\ Cardinality(ToRead(Tail(s))) \in Nat
         /\ Cardinality(ToRead(s))
              = Cardinality(ToRead(Tail(s))) + IF Head(s).do = "read" THEN 1 ELSE 0
<1>1. /\ Head(s) \in TodoItem /\ Tail(s) \in Seq(TodoItem)
  BY RegionsTail
<1>2. s = <<Head(s)>> \o Tail(s)
  BY <1>1
<1>3. <<Head(s)>> \in Seq(TodoItem)
  BY <1>1, ToReadOne
<1>4. /\ Cardinality(ToRead(<<Head(s)>> \o Tail(s)))
           = Cardinality(ToRead(<<Head(s)>>)) + Cardinality(ToRead(Tail(s)))
      /\ Cardinality(ToRead(Tail(s))) \in Nat
  BY <1>1, <1>3, ToReadConcat
<1>5. Cardinality(ToRead(<<Head(s)>>)) = IF Head(s).do = "read" THEN 1 ELSE 0
  BY <1>1, ToReadOne
<1>6. Cardinality(ToRead(s)) = Cardinality(ToRead(<<Head(s)>>)) + Cardinality(ToRead(Tail(s)))
  BY <1>2, <1>4
<1>7. CASE Head(s).do = "read"
  BY <1>4, <1>5, <1>6, <1>7
<1>8. CASE Head(s).do # "read"
  BY <1>4, <1>5, <1>6, <1>8
<1> QED
  BY <1>7, <1>8

(* A listing reads no directory and looks at no entry twice.                   *)
LEMMA ListProgress ==
  ASSUME ListInv, ListStep
  PROVE  Less(ListLeft', ListLeft)
<1> DEFINE reads(s) == Cardinality(ToRead(s))
           size(s) == Cardinality(Regions(s))
<1>1. ListTypes /\ listing \in ListState /\ listing.todo \in Seq(TodoItem)
  BY DEF ListInv, ListTypes, ListState
<1>2. ASSUME NEW to, NEW p, NEW es, Proceed(to, p, es)
      PROVE  listing'.pc = to /\ listing'.todo = p /\ StillToList' = Regions(p)
  BY <1>1, <1>2 DEF Proceed, ListState, StillToList
<1>3. listing.pc = "list"
  BY DEF ListStep, ReadDirectory, StatEntry, ListDone
<1>4. ListLeft = <<1, size(listing.todo), reads(listing.todo)>>
  BY <1>3 DEF ListLeft, StillToList
<1>5. size(listing.todo) \in Nat /\ reads(listing.todo) \in Nat
  <2>1. Regions(listing.todo) \in SUBSET Nodes
    BY <1>1, RegionsAreNodes
  <2> QED
    BY <1>1, <2>1, SmallerSet, ToReadConcat
<1>6. ASSUME NEW to \in {"done", "error"}, NEW es, Proceed(to, <<>>, es)
      PROVE  Less(ListLeft', ListLeft)
  <2>1. ListLeft' = <<0, 0, 0>>
    BY <1>2, <1>6 DEF ListLeft
  <2> QED
    BY <1>4, <1>5, <2>1 DEF Less
<1>7. ASSUME NEW p \in Seq(TodoItem), NEW es, Proceed("list", p, es),
             Regions(p) \subseteq StillToList,
             (\E n \in StillToList : n \notin Regions(p)) \/ reads(p) < reads(listing.todo)
      PROVE  Less(ListLeft', ListLeft)
  <2>1. ListLeft' = <<1, size(p), reads(p)>>
    BY <1>2, <1>7 DEF ListLeft
  <2>2. Regions(listing.todo) \in SUBSET Nodes /\ Regions(p) \in SUBSET Regions(listing.todo)
    BY <1>1, <1>7, RegionsAreNodes DEF StillToList
  <2>3. /\ size(p) \in Nat /\ size(p) <= size(listing.todo)
        /\ Regions(p) # Regions(listing.todo) => size(p) < size(listing.todo)
    BY <2>2, SmallerSet
  <2>4. reads(p) \in Nat
    BY <1>7, ToReadConcat
  <2>5. size(p) < size(listing.todo) \/ reads(p) < reads(listing.todo)
    BY <1>7, <2>3 DEF StillToList
  <2> HIDE DEF size, reads
  <2> QED
    BY <1>4, <1>5, <2>1, <2>3, <2>4, <2>5 DEF Less
<1>8. ASSUME listing.todo # <<>>
      PROVE  /\ Item \in TodoItem /\ Later \in Seq(TodoItem)
             /\ Item.node \in Nodes /\ Item.level \in Nat
             /\ StillToList = Region(Item) \cup Regions(Later)
             /\ \A m \in Region(Item), n \in Regions(Later) : Before(m, n)
             /\ reads(Later) \in Nat
             /\ reads(listing.todo) = reads(Later) + IF Item.do = "read" THEN 1 ELSE 0
  <2>1. /\ reads(Tail(listing.todo)) \in Nat
        /\ reads(listing.todo)
             = reads(Tail(listing.todo)) + IF Head(listing.todo).do = "read" THEN 1 ELSE 0
    BY <1>1, <1>8, ToReadTail
  <2> HIDE DEF reads
  <2> QED
    BY <1>8, <2>1, AtItem DEF Item, Later
<1>9. CASE ReadDirectory
  <2> DEFINE N == {n \in Children(Item.node) : Kept(n)}
             items == Entries(N, Item.level)
  <2>1. listing.todo # <<>> /\ Item.do = "read"
    BY <1>9 DEF ReadDirectory
  <2>2. Region(Item) = Below(Item.node) \ {Item.node}
    BY <2>1 DEF Region
  <2>3. reads(Later) < reads(listing.todo) /\ Regions(Later) \subseteq StillToList
    BY <1>8, <2>1
  <2>4. CASE Proceed("list", Later, <<>>)
    BY <1>7, <1>8, <2>1, <2>3, <2>4
  <2>5. CASE Proceed("error", <<>>, <<>>)
    BY <1>6, <2>5
  <2>6. CASE Proceed("list", items \o Later, <<>>)
    <3>1. /\ items \in Seq(TodoItem)
          /\ Regions(items) \subseteq Below(Item.node) \ {Item.node}
          /\ \A k \in DOMAIN items : EntryOf(items[k], N, Item.level)
      <4>1. N \in SUBSET Children(Item.node)
        OBVIOUS
      <4>2. Item.node \in Nodes /\ Item.level \in Nat
        BY <1>8, <2>1
      <4> DEFINE d == Item.node
      <4>3. d \in Nodes /\ N \in SUBSET Children(d)
        BY <4>1, <4>2
      <4> HIDE DEF reads, size, N, d
      <4>4. /\ items \in Seq(TodoItem) /\ Regions(items) \subseteq Below(d) \ {d}
            /\ \A k \in DOMAIN items : EntryOf(items[k], N, Item.level)
        BY <4>2, <4>3, EntriesInTurn
      <4> QED
        BY <4>4 DEF d
    <3> HIDE DEF items
    <3>2. ToRead(items) = {}
      BY <3>1 DEF ToRead, EntryOf
    <3>3. items \o Later \in Seq(TodoItem)
          /\ Regions(items \o Later) = Regions(items) \cup Regions(Later)
      BY <1>8, <2>1, <3>1, RegionsConcat, ConcatProperties
    <3>4. reads(items \o Later) = reads(items) + reads(Later) /\ reads(items) = 0
      BY <1>8, <2>1, <3>1, <3>2, ToReadConcat, FS_EmptySet
    <3>5. reads(items \o Later) < reads(listing.todo)
      <4>1. reads(Later) \in Nat
        BY <1>8, <2>1
      <4> HIDE DEF reads
      <4> QED
        BY <2>3, <3>4, <4>1
    <3>6. Regions(items \o Later) \subseteq StillToList
      BY <1>8, <2>1, <2>2, <3>1, <3>3
    <3> QED
      BY <1>7, <2>6, <3>3, <3>5, <3>6
  <2> QED
    BY <1>9, <2>4, <2>5, <2>6 DEF ReadDirectory, Entries
<1>10. CASE StatEntry
  <2> DEFINE d == Item.node
             read == Todo("read", d, TRUE, Item.level + 1)
             es == <<[node |-> d, dir |-> Item.dir]>>
             rest == IF Item.dir THEN <<read>> \o Later ELSE Later
  <2>1. listing.todo # <<>> /\ Item.do = "stat"
    BY <1>10 DEF StatEntry
  <2>2. Region(Item) = Below(d) /\ d \in Below(d)
    BY <1>8, <2>1, BelowIsUp, UpFromNodes DEF Region
  <2>3. d \in StillToList /\ d \notin Regions(Later)
    <3>1. ~Before(d, d)
      BY <1>8, <2>1, BeforeIsPlace, Places
    <3> QED
      BY <1>8, <2>1, <2>2, <3>1
  <2>4. CASE Proceed("list", Later, <<>>)
    BY <1>7, <1>8, <2>1, <2>3, <2>4
  <2>5. CASE Proceed("list", rest, es)
    <3>1. /\ read.do = "read" /\ read.node = d /\ read \in TodoItem
      BY <1>8, <2>1 DEF Todo, TodoItem
    <3> HIDE DEF read
    <3>2. /\ <<read>> \in Seq(TodoItem) /\ DOMAIN <<read>> = {1} /\ <<read>>[1] = read
      BY <3>1
    <3>3. Regions(<<read>>) = Below(d) \ {d}
      BY <3>1, <3>2 DEF Regions, Region
    <3>4. /\ <<read>> \o Later \in Seq(TodoItem)
          /\ Regions(<<read>> \o Later) = Regions(<<read>>) \cup Regions(Later)
      BY <1>8, <2>1, <3>2, RegionsConcat, ConcatProperties
    <3>5. /\ rest \in Seq(TodoItem) /\ Regions(rest) \subseteq StillToList
          /\ d \notin Regions(rest)
      BY <1>8, <2>1, <2>2, <2>3, <3>3, <3>4
    <3> HIDE DEF rest, es
    <3> QED
      BY <1>7, <2>3, <2>5, <3>5
  <2> QED
    BY <1>10, <2>4, <2>5 DEF StatEntry
<1>11. CASE ListDone
  BY <1>6, <1>11 DEF ListDone
<1> QED
  BY <1>9, <1>10, <1>11 DEF ListStep


(* What is left of a diff, by where the handler is.                            *)
LEMMA DiffPhases ==
  /\ diff.pc = "readA" => DiffLeft = <<6, 0, 0>>
  /\ diff.pc = "readB" => DiffLeft = <<5, 0, 0>>
  /\ diff.pc = "cut" => DiffLeft = <<4, 0, 0>>
  /\ diff.pc = "fill" =>
       DiffLeft = <<3, Len(diff.a) + 1 - diff.i, Len(diff.b) + 1 - diff.j>>
  /\ diff.pc = "trace" => DiffLeft = <<2, diff.i + diff.j, 0>>
  /\ diff.pc = "reverse" /\ diff.i < diff.j => DiffLeft = <<1, diff.j - diff.i, 0>>
  /\ diff.pc = "reverse" /\ ~(diff.i < diff.j) => DiffLeft = <<1, 0, 0>>
  /\ diff.pc = "done" => DiffLeft = <<0, 0, 0>>
BY DEF DiffLeft

LEMMA DiffPhasesThen ==
  /\ diff'.pc = "readB" => DiffLeft' = <<5, 0, 0>>
  /\ diff'.pc = "cut" => DiffLeft' = <<4, 0, 0>>
  /\ diff'.pc = "fill" =>
       DiffLeft' = <<3, Len(diff'.a) + 1 - diff'.i, Len(diff'.b) + 1 - diff'.j>>
  /\ diff'.pc = "trace" => DiffLeft' = <<2, diff'.i + diff'.j, 0>>
  /\ diff'.pc = "reverse" /\ diff'.i < diff'.j => DiffLeft' = <<1, diff'.j - diff'.i, 0>>
  /\ diff'.pc = "reverse" /\ ~(diff'.i < diff'.j) => DiffLeft' = <<1, 0, 0>>
  /\ diff'.pc = "done" => DiffLeft' = <<0, 0, 0>>
BY DEF DiffLeft

(* Each loop of the comparison moves its variables in one direction only.       *)
LEMMA DiffProgress ==
  ASSUME DiffInv, DiffStep
  PROVE  Less(DiffLeft', DiffLeft)
<1> DEFINE a == diff.a
           b == diff.b
           i == diff.i
           j == diff.j
           m == Len(a)
           n == Len(b)
<1>1. /\ diff \in Diff(diff.path, diff.range, diff.table)
      /\ a \in Seq(Lines) /\ b \in Seq(Lines) /\ diff.script \in Seq(Op)
      /\ i \in Int /\ j \in Int
  <2>1. diff \in Diff(diff.path, diff.range, diff.table)
    BY DEF DiffInv, DiffTypeOK
  <2> QED
    BY <2>1 DEF Diff
<1>2. Len(a) \in Nat /\ Len(b) \in Nat /\ Len(diff.script) \in Nat
  BY <1>1, LenProperties
<1>12. m \in Nat /\ n \in Nat
  BY <1>2
<1>3. ASSUME NEW v, EndDiff(v) PROVE DiffLeft' = <<0, 0, 0>>
  <2>1. diff'.pc = "done"
    BY <1>3 DEF EndDiff, NoDiff
  <2> QED
    BY <2>1, DiffPhasesThen
<1>4. CASE ReadA
  <2>1. DiffLeft = <<6, 0, 0>>
    BY <1>4, DiffPhases DEF ReadA
  <2>2. CASE diff' = [diff EXCEPT !.pc = "readB", !.a = tree[diff.path.a]]
    <3>1. diff'.pc = "readB"
      BY <1>1, <2>2 DEF Diff
    <3> QED
      BY <2>1, <3>1, DiffPhasesThen DEF Less
  <2>3. CASE EndDiff("error")
    BY <1>3, <2>1, <2>3 DEF Less
  <2> QED
    BY <1>4, <2>2, <2>3 DEF ReadA
<1>5. CASE ReadB
  <2>1. DiffLeft = <<5, 0, 0>>
    BY <1>5, DiffPhases DEF ReadB
  <2>2. CASE diff' = [diff EXCEPT !.pc = "cut", !.b = tree[diff.path.b]]
    <3>1. diff'.pc = "cut"
      BY <1>1, <2>2 DEF Diff
    <3> QED
      BY <2>1, <3>1, DiffPhasesThen DEF Less
  <2>3. CASE EndDiff("error")
    BY <1>3, <2>1, <2>3 DEF Less
  <2> QED
    BY <1>5, <2>2, <2>3 DEF ReadB
<1>6. CASE Cut
  <2> DEFINE x == SubSeq(a, Start(diff.range.a) + 1, End(diff.range.a, a))
             y == SubSeq(b, Start(diff.range.b) + 1, End(diff.range.b, b))
             t == [k \in 0..Len(x) |-> [l \in 0..Len(y) |-> 0]]
  <2>1. DiffLeft = <<4, 0, 0>>
    BY <1>6, DiffPhases DEF Cut
  <2>2. CASE diff' = [diff EXCEPT !.pc = "fill", !.a = x, !.b = y, !.i = 1, !.j = 1,
                        !.table = t]
    <3>1. DiffInv'
      BY <1>6, DiffInvCut
    <3>2. diff'.pc = "fill" /\ diff'.i = 1 /\ diff'.j = 1
      <4> HIDE DEF x, y, t
      <4> QED
        BY <1>1, <2>2 DEF Diff
    <3>3. Len(diff'.a) \in Nat /\ Len(diff'.b) \in Nat
      <4>1. diff'.a \in Seq(Lines) /\ diff'.b \in Seq(Lines)
        BY <3>1 DEF DiffInv, DiffTypeOK, Diff
      <4> QED
        BY <4>1, LenProperties
    <3> QED
      BY <2>1, <3>2, <3>3, DiffPhasesThen DEF Less
  <2>3. CASE EndDiff("panic")
    BY <1>3, <2>1, <2>3 DEF Less
  <2> QED
    BY <1>6, <2>2, <2>3 DEF Cut
<1>7. CASE FillCell
  <2>1. /\ diff.pc = "fill" /\ i \in 1..(Len(a) + 1) /\ j \in 1..(Len(b) + 1)
        /\ i <= Len(a)
    BY <1>7 DEF FillCell, DiffInv, DiffScript
  <2>2. DiffLeft = <<3, Len(a) + 1 - i, Len(b) + 1 - j>>
    BY <2>1, DiffPhases
  <2>6. i \in 1..(m + 1) /\ j \in 1..(n + 1) /\ i <= m
    BY <2>1
  <2>7. DiffLeft = <<3, m + 1 - i, n + 1 - j>>
    BY <2>2
  <2>3. ASSUME diff'.pc = "fill", diff'.a = a, diff'.b = b,
               \/ diff'.i = i /\ diff'.j = j + 1 /\ j <= Len(b)
               \/ diff'.i = i + 1 /\ diff'.j = 1
        PROVE  Less(DiffLeft', DiffLeft)
    <3>1. DiffLeft' = <<3, m + 1 - diff'.i, n + 1 - diff'.j>>
      BY <2>3, DiffPhasesThen
    <3>2. ASSUME NEW x \in Nat, NEW y \in Nat, NEW u \in Nat, NEW v \in Nat,
                 u < x \/ (u = x /\ v < y)
          PROVE  Less(<<3, u, v>>, <<3, x, y>>)
      BY <3>2 DEF Less
    <3>3. CASE diff'.i = i /\ diff'.j = j + 1 /\ j <= Len(b)
      <4>2. j <= n
        BY <3>3
      <4> HIDE DEF i, j, m, n
      <4>1. /\ m + 1 - i \in Nat /\ n + 1 - j \in Nat
            /\ n + 1 - (j + 1) \in Nat /\ n + 1 - (j + 1) < n + 1 - j
        BY <1>12, <2>6, <4>2
      <4> QED
        BY <2>7, <3>1, <3>2, <3>3, <4>1
    <3>4. CASE diff'.i = i + 1 /\ diff'.j = 1
      <4> HIDE DEF i, j, m, n
      <4>1. /\ m + 1 - i \in Nat /\ n + 1 - j \in Nat
            /\ m + 1 - (i + 1) \in Nat /\ n + 1 - 1 \in Nat
            /\ m + 1 - (i + 1) < m + 1 - i
        BY <1>12, <2>6
      <4> QED
        BY <2>7, <3>1, <3>2, <3>4, <4>1
    <3> QED
      BY <2>3, <3>3, <3>4
  <2>4. CASE /\ j <= Len(b)
             /\ diff' = [diff EXCEPT !.table[diff.i][diff.j] = Cell(diff.i, diff.j),
                                     !.j = @ + 1]
    <3>1. diff'.pc = "fill" /\ diff'.a = a /\ diff'.b = b /\ diff'.i = i /\ diff'.j = j + 1
      BY <1>1, <2>1, <2>4 DEF Diff
    <3> QED
      BY <2>3, <2>4, <3>1
  <2>5. CASE j > Len(b) /\ diff' = [diff EXCEPT !.i = @ + 1, !.j = 1]
    <3>1. diff'.pc = "fill" /\ diff'.a = a /\ diff'.b = b /\ diff'.i = i + 1 /\ diff'.j = 1
      BY <1>1, <2>1, <2>5 DEF Diff
    <3> QED
      BY <2>3, <3>1
  <2> QED
    BY <1>7, <2>4, <2>5 DEF FillCell
<1>8. CASE TableDone
  <2>1. /\ diff.pc = "fill" /\ i \in 1..(Len(a) + 1) /\ j \in 1..(Len(b) + 1)
        /\ diff' = [diff EXCEPT !.pc = "trace", !.i = Len(a), !.j = Len(b)]
    BY <1>8 DEF TableDone, DiffInv, DiffScript
  <2>2. diff'.pc = "trace" /\ diff'.i = Len(a) /\ diff'.j = Len(b)
    BY <1>1, <1>2, <2>1 DEF Diff
  <2>3. /\ DiffLeft = <<3, Len(a) + 1 - i, Len(b) + 1 - j>>
        /\ DiffLeft' = <<2, Len(a) + Len(b), 0>>
    BY <2>1, <2>2, DiffPhases, DiffPhasesThen
  <2>4. DiffLeft' = <<2, m + n, 0>> /\ m + n \in Nat
    <3>1. DiffLeft' = <<2, m + n, 0>>
      BY <2>3
    <3> HIDE DEF m, n
    <3> QED
      BY <1>12, <3>1
  <2>5. DiffLeft = <<3, m + 1 - i, n + 1 - j>>
    BY <2>3
  <2>6. i \in 1..(m + 1) /\ j \in 1..(n + 1)
    BY <2>1
  <2> HIDE DEF m, n, i, j
  <2>7. m + 1 - i \in Nat /\ n + 1 - j \in Nat
    BY <1>12, <2>6
  <2> QED
    BY <2>4, <2>5, <2>7 DEF Less
<1>9. CASE Trace
  <2>1. diff.pc = "trace" /\ i \in 0..Len(a) /\ j \in 0..Len(b)
    BY <1>9 DEF Trace, DiffInv, DiffScript, Traced
  <2>2. DiffLeft = <<2, i + j, 0>>
    BY <2>1, DiffPhases
  <2>3. ASSUME NEW k \in Nat, NEW l \in Nat, NEW s, k + l < i + j,
               diff' = [diff EXCEPT !.i = k, !.j = l, !.script = s]
        PROVE  Less(DiffLeft', DiffLeft)
    <3>1. diff'.pc = "trace" /\ diff'.i = k /\ diff'.j = l
      BY <1>1, <2>1, <2>3 DEF Diff
    <3>2. DiffLeft' = <<2, k + l, 0>>
      BY <3>1, DiffPhasesThen
    <3> QED
      BY <1>2, <2>1, <2>2, <2>3, <3>2 DEF Less
  <2>4. CASE /\ Common
             /\ diff' = [diff EXCEPT !.i = @ - 1, !.j = @ - 1,
                                     !.script = @ \o Line(" ", diff.a[diff.i])]
    <3> DEFINE s == diff.script \o Line(" ", a[i])
    <3>1. diff' = [diff EXCEPT !.i = i - 1, !.j = j - 1, !.script = s]
      BY <2>4, Zenon
    <3> HIDE DEF s
    <3>2. i > 0 /\ j > 0
      BY <2>4 DEF Common
    <3>3. i - 1 \in Nat /\ j - 1 \in Nat /\ (i - 1) + (j - 1) < i + j
      BY <1>2, <2>1, <3>2
    <3> QED
      BY <2>3, <3>1, <3>3
  <2>5. CASE /\ Added
             /\ diff' = [diff EXCEPT !.j = @ - 1, !.script = @ \o Line("+", diff.b[diff.j])]
    <3> DEFINE s == diff.script \o Line("+", b[j])
    <3>1. diff' = [diff EXCEPT !.j = j - 1, !.script = s]
      BY <2>5, Zenon
    <3> HIDE DEF s
    <3>2. diff' = [diff EXCEPT !.i = i, !.j = j - 1, !.script = s]
      BY <1>1, <3>1 DEF Diff
    <3>3. j > 0
      BY <2>5 DEF Added
    <3>4. i \in Nat /\ j - 1 \in Nat /\ i + (j - 1) < i + j
      BY <1>2, <2>1, <3>3
    <3> QED
      BY <2>3, <3>2, <3>4
  <2>6. CASE /\ Removed
             /\ diff' = [diff EXCEPT !.i = @ - 1, !.script = @ \o Line("-", diff.a[diff.i])]
    <3> DEFINE s == diff.script \o Line("-", a[i])
    <3>1. diff' = [diff EXCEPT !.i = i - 1, !.script = s]
      BY <2>6, Zenon
    <3> HIDE DEF s
    <3>2. diff' = [diff EXCEPT !.i = i - 1, !.j = j, !.script = s]
      BY <1>1, <3>1 DEF Diff
    <3>3. i > 0
      BY <2>6 DEF Removed
    <3>4. i - 1 \in Nat /\ j \in Nat /\ (i - 1) + j < i + j
      BY <1>2, <2>1, <3>3
    <3> QED
      BY <2>3, <3>2, <3>4
  <2> QED
    BY <1>9, <2>4, <2>5, <2>6 DEF Trace
<1>10. CASE TraceDone
  <2>1. /\ diff.pc = "trace" /\ i = 0 /\ j = 0
        /\ diff' = [diff EXCEPT !.pc = "reverse", !.i = 1, !.j = Len(diff.script)]
    BY <1>10 DEF TraceDone
  <2>2. diff'.pc = "reverse" /\ diff'.i = 1 /\ diff'.j = Len(diff.script)
    BY <1>1, <2>1 DEF Diff
  <2>3. DiffLeft = <<2, 0, 0>>
    BY <2>1, DiffPhases
  <2>4. CASE 1 < Len(diff.script)
    <3>1. DiffLeft' = <<1, Len(diff.script) - 1, 0>>
      BY <2>2, <2>4, DiffPhasesThen
    <3> QED
      BY <1>2, <2>3, <2>4, <3>1 DEF Less
  <2>5. CASE ~(1 < Len(diff.script))
    <3>1. DiffLeft' = <<1, 0, 0>>
      BY <2>2, <2>5, DiffPhasesThen
    <3> QED
      BY <2>3, <3>1 DEF Less
  <2> QED
    BY <2>4, <2>5
<1>11. CASE Reverse
  <2>1. CASE /\ i < j
             /\ diff' = [diff EXCEPT !.script = Exchanged(@, diff.i, diff.j),
                                     !.i = @ + 1, !.j = @ - 1]
    <3>1. diff.pc = "reverse" /\ diff'.pc = "reverse" /\ diff'.i = i + 1 /\ diff'.j = j - 1
      BY <1>1, <1>11, <2>1 DEF Diff, Reverse
    <3>2. DiffLeft = <<1, j - i, 0>>
      BY <2>1, <3>1, DiffPhases
    <3>3. CASE i + 1 < j - 1
      <4>1. DiffLeft' = <<1, (j - 1) - (i + 1), 0>>
        BY <3>1, <3>3, DiffPhasesThen
      <4> QED
        BY <1>1, <3>2, <3>3, <4>1 DEF Less
    <3>4. CASE ~(i + 1 < j - 1)
      <4>1. DiffLeft' = <<1, 0, 0>>
        BY <3>1, <3>4, DiffPhasesThen
      <4> QED
        BY <1>1, <2>1, <3>2, <4>1 DEF Less
    <3> QED
      BY <3>3, <3>4
  <2>2. CASE /\ i >= j
             /\ diff' = [diff EXCEPT !.pc = "done",
                  !.reply = IF \E k \in DOMAIN diff.script : diff.script[k].op # " "
                            THEN "changes" ELSE "identical"]
    <3>1. PICK v : diff' = [diff EXCEPT !.pc = "done", !.reply = v]
      BY <2>2, Zenon
    <3>2. diff'.pc = "done"
      BY <1>1, <3>1 DEF Diff
    <3>3. diff.pc = "reverse" /\ ~(i < j)
      BY <1>1, <1>11, <2>2 DEF Reverse
    <3> QED
      BY <3>2, <3>3, DiffPhases, DiffPhasesThen DEF Less
  <2> QED
    BY <1>11, <2>1, <2>2 DEF Reverse
<1> QED
  BY <1>4, <1>5, <1>6, <1>7, <1>8, <1>9, <1>10, <1>11 DEF DiffStep

-------------------------------------------------------------------------------
Triple == Nat \X Nat \X Nat

LEMMA LeastTriple ==
  ASSUME NEW S \in SUBSET Triple, S # {}
  PROVE  \E x \in S : \A y \in S : ~Less(y, x)
<1> DEFINE A == {x[1] : x \in S}
<1>1. PICK x0 \in S : TRUE
  OBVIOUS
<1>2. A \in SUBSET Nat /\ x0[1] \in A
  BY <1>1 DEF Triple
<1>3. PICK a \in A : \A c \in A : a <= c
  BY <1>2, LeastNumber
<1> DEFINE B == {x[2] : x \in {y \in S : y[1] = a}}
<1>4. PICK x1 \in S : x1[1] = a
  BY <1>3
<1>5. B \in SUBSET Nat /\ x1[2] \in B
  BY <1>4 DEF Triple
<1>6. PICK b \in B : \A c \in B : b <= c
  BY <1>5, LeastNumber
<1> DEFINE C == {x[3] : x \in {y \in S : y[1] = a /\ y[2] = b}}
<1>7. PICK x2 \in S : x2[1] = a /\ x2[2] = b
  BY <1>6
<1>8. C \in SUBSET Nat /\ x2[3] \in C
  BY <1>7 DEF Triple
<1>9. PICK c \in C : \A e \in C : c <= e
  BY <1>8, LeastNumber
<1>10. PICK x \in S : x[1] = a /\ x[2] = b /\ x[3] = c
  BY <1>9
<1>11. ASSUME NEW y \in S PROVE ~Less(y, x)
  <2>1. /\ y[1] \in Nat /\ y[2] \in Nat /\ y[3] \in Nat
        /\ a \in Nat /\ b \in Nat /\ c \in Nat
    BY <1>2, <1>5, <1>8 DEF Triple
  <2>2. a <= y[1]
    BY <1>3
  <2>3. y[1] = a => b <= y[2]
    BY <1>6
  <2>4. y[1] = a /\ y[2] = b => c <= y[3]
    BY <1>9
  <2> HIDE DEF A, B, C
  <2> QED
    BY <1>10, <2>1, <2>2, <2>3, <2>4 DEF Less
<1> QED
  BY <1>10, <1>11

(* What is left of a call cannot become less for ever.                         *)
LEMMA LessHasNoDescent ==
  ~\E f \in [Nat -> Triple] : \A n \in Nat : Less(f[n + 1], f[n])
<1> SUFFICES ASSUME NEW f \in [Nat -> Triple], \A n \in Nat : Less(f[n + 1], f[n])
             PROVE  FALSE
  OBVIOUS
<1> DEFINE S == {f[n] : n \in Nat}
<1>1. S \in SUBSET Triple /\ f[0] \in S
  OBVIOUS
<1>2. PICK x \in S : \A y \in S : ~Less(y, x)
  BY <1>1, LeastTriple
<1>3. PICK n \in Nat : x = f[n]
  BY <1>2
<1>4. n + 1 \in Nat /\ f[n + 1] \in S
  OBVIOUS
<1> QED
  BY <1>2, <1>3, <1>4

(* read_file cuts out each range once.                                         *)
LEMMA ReadProgress ==
  ASSUME ReadInv, ReadStep
  PROVE  Less(ReadLeft', ReadLeft)
<1> DEFINE fs == reading.fragments
           rs == reading.ranges
           m == Len(rs)
           n == Len(fs)
<1>1. /\ reading \in Reading /\ fs \in Seq(Fragment)
      /\ Len(fs) \in Nat /\ Len(rs) \in Nat /\ Len(fs) <= Len(rs)
  BY LenProperties DEF ReadInv, Reading
<1>2. /\ reading.pc = "scan" => ReadLeft = <<2, 0, 0>>
      /\ reading.pc = "cut" => ReadLeft = <<1, Len(rs) - Len(fs), 0>>
  BY DEF ReadLeft
<1>3. /\ reading'.pc = "cut" =>
           ReadLeft' = <<1, Len(reading'.ranges) - Len(reading'.fragments), 0>>
      /\ reading'.pc = "done" => ReadLeft' = <<0, 0, 0>>
  BY DEF ReadLeft
<1>4. m \in Nat /\ n \in Nat /\ n <= m
  BY <1>1
<1>9. ASSUME NEW u \in Nat, ReadLeft' = <<0, 0, 0>>,
             ReadLeft = <<2, 0, 0>> \/ ReadLeft = <<1, u, 0>>
      PROVE  Less(ReadLeft', ReadLeft)
  BY <1>9 DEF Less
<1>10. m - n \in Nat
  <2> HIDE DEF m, n
  <2> QED
    BY <1>4
<1>5. ASSUME NEW v, reading' = EndRead(v), reading.pc \in {"scan", "cut"}
      PROVE  Less(ReadLeft', ReadLeft)
  <2>1. reading'.pc = "done"
    BY <1>1, <1>5 DEF EndRead, Reading
  <2> QED
    BY <1>2, <1>3, <1>5, <1>9, <1>10, <2>1
<1>6. CASE ReadAll
  <2>1. CASE reading' = [reading EXCEPT !.pc = "cut", !.lines = tree[reading.path]]
    <3>1. reading'.pc = "cut" /\ reading'.ranges = rs /\ reading'.fragments = fs
      BY <1>1, <2>1 DEF Reading
    <3>2. ReadLeft' = <<1, m - n, 0>>
      BY <1>3, <3>1
    <3>3. ReadLeft = <<2, 0, 0>>
      BY <1>2, <1>6 DEF ReadAll
    <3> QED
      <4> HIDE DEF m, n
      <4> QED
        BY <1>10, <3>2, <3>3 DEF Less
  <2> QED
    BY <1>5, <1>6, <2>1 DEF ReadAll
<1>7. CASE WholeFile \/ RangesDone
  BY <1>5, <1>7 DEF WholeFile, RangesDone
<1>8. CASE CutRange
  <2> DEFINE r == rs[Len(fs) + 1]
             from == From(r, Len(reading.lines))
             to == To(r, Len(reading.lines))
             f == [offset |-> from, limit |-> to - from,
                   lines |-> SubSeq(reading.lines, from + 1, to)]
  <2>1. reading.pc = "cut" /\ Len(fs) < Len(rs)
    BY <1>8 DEF CutRange, Pending
  <2>2. CASE reading' = [reading EXCEPT !.fragments = Append(@, f)]
    <3> HIDE DEF f
    <3>1. /\ reading'.pc = "cut" /\ reading'.ranges = rs
          /\ reading'.fragments = Append(fs, f)
      BY <1>1, <2>1, <2>2 DEF Reading
    <3>2. Len(Append(fs, f)) = Len(fs) + 1
      <4>1. fs \in Seq(Fragment \cup {f}) /\ f \in Fragment \cup {f}
        BY <1>1
      <4> QED
        BY <4>1, AppendProperties
    <3>3. ReadLeft' = <<1, m - (n + 1), 0>>
      BY <1>3, <3>1, <3>2
    <3>4. ReadLeft = <<1, m - n, 0>>
      BY <1>2, <2>1
    <3>5. n < m
      BY <2>1
    <3> HIDE DEF m, n
    <3>6. m - (n + 1) \in Nat /\ m - n \in Nat /\ m - (n + 1) < m - n
      BY <1>4, <3>5
    <3> QED
      BY <3>3, <3>4, <3>6 DEF Less
  <2>3. CASE reading' = EndRead("panic")
    BY <1>5, <2>1, <2>3
  <2> QED
    BY <1>8, <2>2, <2>3 DEF CutRange
<1> QED
  BY <1>6, <1>7, <1>8 DEF ReadStep

-------------------------------------------------------------------------------
(* No call of search, ls, diff or read_file can go on for ever: each of its      *)
(* steps, with the tree as others have left it, leaves less to do than before,   *)
(* and a triple of natural numbers cannot become less without end.             *)
THEOREM EveryCallComesToAnEnd == Spec => EveryStepIsProgress
<1>1. ASSUME SearchInv, TreeTypeOK, [Next]_vars
      PROVE  [search.pc # "idle" => Less(SearchLeft', SearchLeft)]_search
  <2>1. ASSUME search.pc # "idle", search' # search PROVE SearchStep
    BY <1>1, <2>1 DEF Next, Begin, Idle, Step, Change, vars
  <2> QED
    BY <1>1, <2>1, SearchProgress
<1>2. ASSUME ListInv, [Next]_vars
      PROVE  [listing.pc # "idle" => Less(ListLeft', ListLeft)]_listing
  <2>1. ASSUME listing.pc # "idle", listing' # listing PROVE ListStep
    BY <1>2, <2>1 DEF Next, Begin, Idle, Step, Change, vars
  <2> QED
    BY <1>2, <2>1, ListProgress
<1>3. ASSUME DiffInv, [Next]_vars
      PROVE  [diff.pc # "idle" => Less(DiffLeft', DiffLeft)]_diff
  <2>1. ASSUME diff.pc # "idle", diff' # diff PROVE DiffStep
    BY <1>3, <2>1 DEF Next, Begin, Idle, Step, Change, vars
  <2> QED
    BY <1>3, <2>1, DiffProgress
<1>4. ASSUME ReadInv, [Next]_vars
      PROVE  [reading.pc # "idle" => Less(ReadLeft', ReadLeft)]_reading
  <2>1. ASSUME reading.pc # "idle", reading' # reading PROVE ReadStep
    BY <1>4, <2>1 DEF Next, Begin, Idle, Step, Change, vars
  <2> QED
    BY <1>4, <2>1, ReadProgress
<1> QED
  BY <1>1, <1>2, <1>3, <1>4, SearchInvariant, ListInvariant, DiffInvariant,
     ReadInvariant, PTL DEF Spec, EveryStepIsProgress
===============================================================================
