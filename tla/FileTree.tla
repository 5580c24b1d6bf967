-------------------------------- MODULE FileTree --------------------------------
(******************************************************************************)
(* The part of the file system that the reading tools (search, ls, read_file,  *)
(* diff) look at, and what other calls and shell commands do to it in between. *)
(* The operating system is not part of the repository: this is what the tools  *)
(* rely on.  A directory is read in one step, in the order of the names        *)
(* (os.ReadDir, filepath.Walk); a file is read in one step.                    *)
(******************************************************************************)
EXTENDS Integers, Sequences, FiniteSets

CONSTANTS
  Nodes,      (* names that can exist, all below Root                         *)
  Root,
  Parent,     (* Parent[n]: the directory n is in, for n other than Root      *)
  Order,      (* the nodes sorted by path: each folder, then what is below it  *)
  Hidden,     (* those whose name begins with a dot                           *)
  Texts,      (* what files contain: sequences of lines                       *)
  NewTexts,   (* those that others write while a tool is reading              *)
  MaxInt,     (* the largest int                                              *)
  Unstable,   (* the nodes that others change while a tool is reading         *)
  MaxChanges, (* how many nodes they change during one call                   *)
  Absent,     (* nothing there                                                *)
  Dir         (* a directory there                                            *)

Folders == {Parent[n] : n \in Nodes \ {Root}}

(* n, its directory, and so on up to Root; and what is found from n downwards.   *)
UpFrom[n \in Nodes] == IF n = Root THEN {n} ELSE {n} \cup UpFrom[Parent[n]]
Below(n) == {m \in Nodes : m = n \/ n \in UpFrom[m]}

ASSUME FileTreeAssumption ==
  /\ Root \in Nodes /\ Parent \in [Nodes \ {Root} -> Nodes]
  /\ Hidden \subseteq Nodes /\ Unstable \subseteq Nodes \ {Root}
  /\ Order \in Seq(Nodes) /\ {Order[i] : i \in DOMAIN Order} = Nodes
  /\ \A i, j \in DOMAIN Order :
       /\ Order[i] = Order[j] => i = j
       /\ Order[j] # Root /\ Order[i] = Parent[Order[j]] => i < j
       /\ \A k \in i..j : Order[j] \in Below(Order[i]) => Order[k] \in Below(Order[i])
  /\ NewTexts \subseteq Texts
  /\ \A t \in Texts : t \in Seq({t[i] : i \in DOMAIN t}) /\ Len(t) <= MaxInt
  /\ Absent \notin Texts /\ Dir \notin Texts /\ Absent # Dir
  /\ MaxInt \in Nat /\ MaxChanges \in Nat

VARIABLES
  tree,     (* tree[n]: Absent, Dir, or the lines of the file there           *)
  locked,   (* what the server may not open: permissions, over-long lines     *)
  touched   (* what others have changed since the call began                  *)

treeVars == <<tree, locked, touched>>

IsFile(n) == tree[n] \notin {Absent, Dir}
IsDir(n)  == tree[n] = Dir

CanRead(n) == n \notin locked

Before(m, n) ==
  \E i, j \in DOMAIN Order : Order[i] = m /\ Order[j] = n /\ i < j

(* The numbers in S in order, and the nodes in N in the order of their names.   *)
InOrder(S) ==
  [k \in 1..Cardinality(S) |->
     CHOOSE x \in S : Cardinality({y \in S : y < x}) = k - 1]
Sorted(N) ==
  [k \in 1..Cardinality(N) |-> Order[InOrder({i \in DOMAIN Order : Order[i] \in N})[k]]]

Children(d) == {n \in Nodes \ {Root} : Parent[n] = d /\ tree[n] # Absent}

(* x is what is left of s when only the places in S are kept.                   *)
Keeps(x, S, s) ==
  \E place \in [DOMAIN x -> S] :
    /\ \A m \in DOMAIN x : x[m] = s[place[m]]
    /\ \A l, m \in DOMAIN x : l < m => place[l] < place[m]
    /\ \A k \in S : \E m \in DOMAIN x : place[m] = k

(* Conversions and sums of int wrap around.                                   *)
Ints == (-MaxInt - 1)..MaxInt
Int64(x) == IF x > MaxInt THEN x - 2 * (MaxInt + 1) ELSE x

-------------------------------------------------------------------------------
Touch(n) ==
  /\ Cardinality(touched \cup {n}) <= MaxChanges
  /\ touched' = touched \cup Below(n)
  /\ UNCHANGED locked

Put(n, x) == tree[Parent[n]] = Dir /\ tree' = [tree EXCEPT ![n] = x]

Rewrite(n) == ~IsDir(n) /\ Touch(n) /\ \E t \in NewTexts : Put(n, t)
MakeDir(n) == n \in Folders /\ tree[n] = Absent /\ Touch(n) /\ Put(n, Dir)
Remove(n) ==
  /\ tree[n] # Absent
  /\ Touch(n)
  /\ tree' = [m \in Nodes |-> IF m \in Below(n) THEN Absent ELSE tree[m]]

Others == \E n \in Unstable : Rewrite(n) \/ MakeDir(n) \/ Remove(n)

TreeTypeOK ==
  /\ tree \in [Nodes -> Texts \cup {Absent, Dir}]
  /\ locked \subseteq Nodes /\ touched \subseteq Nodes
  /\ \A n \in Nodes \ {Root} : tree[n] # Absent => IsDir(Parent[n])
===============================================================================
