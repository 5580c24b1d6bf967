------------------------------- MODULE FileSearch -------------------------------
(******************************************************************************)
(* The search tool (internal/tools/tool_search.go): filepath.Walk over a path,  *)
(* a limit on the results that spans the files, and lines of context.          *)
(*                                                                            *)
(* A regular expression stands for the set of lines it matches, a pattern for  *)
(* the set of nodes whose name it matches: all of them for an include that is   *)
(* not given, none for an exclude that is not given or for a malformed pattern. *)
(* A call that the argument checks, the RBAC check or regexp.Compile ends does *)
(* not begin.                                                                 *)
(******************************************************************************)
EXTENDS FileTree

CONSTANT SearchRequests  (* the calls of search that clients make             *)

ASSUME FileSearchAssumption ==
  \A r \in SearchRequests :
    /\ r.path \in Nodes /\ r.context \in Ints /\ r.max \in Int

VARIABLE search          (* the handler's local state                         *)

NoSearch ==
  [pc |-> "idle", path |-> Root, re |-> {}, include |-> Nodes, exclude |-> {},
   context |-> 0, max |-> 100, pending |-> <<>>, matches |-> <<>>]

BeginSearch(r) ==
  /\ r \in SearchRequests
  /\ search' = [NoSearch EXCEPT
       !.pc = "walk", !.path = r.path, !.re = r.re, !.include = r.include,
       !.exclude = r.exclude, !.context = r.context, !.max = r.max,
       !.pending = <<r.path>>]
  /\ UNCHANGED treeVars

Visited  == Head(search.pending)
Selected(n) == n \in search.include /\ n \notin search.exclude
Full == Len(search.matches) >= search.max

GoOn(pc, rest, found) ==
  /\ search' = [search EXCEPT !.pc = pc, !.pending = rest,
                              !.matches = @ \o found]
  /\ UNCHANGED treeVars

Skip == GoOn("walk", Tail(search.pending), <<>>)

(* filepath.Walk looks at the next name.  What is gone by now is passed to the *)
(* callback as an error, which it ignores; a file that is not selected is      *)
(* passed over; and the walk ends once the limit is reached.                   *)
VisitNext ==
  /\ search.pc = "walk" /\ search.pending # <<>>
  /\ \/ tree[Visited] = Absent /\ Skip
     \/ IsDir(Visited) /\ GoOn("names", search.pending, <<>>)
     \/ IsFile(Visited) /\ ~Selected(Visited) /\ Skip
     \/ IsFile(Visited) /\ Selected(Visited) /\ Full /\ GoOn("done", <<>>, <<>>)
     \/ IsFile(Visited) /\ Selected(Visited) /\ ~Full
          /\ GoOn("scan", search.pending, <<>>)

(* A directory that cannot be read is left out.                               *)
ReadNames ==
  /\ search.pc = "names"
  /\ \/ /\ IsDir(Visited) /\ CanRead(Visited)
        /\ GoOn("walk", Sorted(Children(Visited)) \o Tail(search.pending), <<>>)
     \/ /\ ~(IsDir(Visited) /\ CanRead(Visited))
        /\ Skip

-------------------------------------------------------------------------------
(* searchInFile.  Lines are counted from 0 as in the code: line i of t is       *)
(* t[i + 1].                                                                   *)

(* Variant: the line after the last one is forgotten.                          *)
ContextEndShort(i, c) == Int64(i + c)

ContextEnd(i, c) == Int64(i + c + 1)

Context(t, i, c) ==
  LET from == IF i - c < 0 THEN 0 ELSE i - c
      to   == IF ContextEnd(i, c) > Len(t) THEN Len(t) ELSE ContextEnd(i, c)
  IN  IF c > 0 THEN <<SubSeq(t, from + 1, i), SubSeq(t, i + 2, to)>>
      ELSE <<<<>>, <<>>>>

Match(n, i) ==
  LET t == tree[n] IN
  [file |-> n, line |-> i, content |-> t[i + 1],
   context |-> Context(t, i, search.context)]

(* The first limit lines of n that match.                                      *)
SearchInFile(n, limit) ==
  LET t     == tree[n]
      hits  == InOrder({i \in 0..(Len(t) - 1) : t[i + 1] \in search.re})
      taken == IF Len(hits) > limit THEN limit ELSE Len(hits)
  IN  [k \in 1..taken |-> Match(n, hits[k])]

(* Variant: every file may give as many results as the whole search.           *)
WholeLimit == search.max

Room == search.max - Len(search.matches)

(* A file that cannot be opened or scanned any more is left out.               *)
Scan ==
  /\ search.pc = "scan"
  /\ \/ /\ IsFile(Visited) /\ CanRead(Visited)
        /\ GoOn("walk", Tail(search.pending), SearchInFile(Visited, Room))
     \/ /\ ~(IsFile(Visited) /\ CanRead(Visited))
        /\ Skip

WalkDone ==
  /\ search.pc = "walk" /\ search.pending = <<>>
  /\ GoOn("done", <<>>, <<>>)

SearchStep == VisitNext \/ ReadNames \/ Scan \/ WalkDone

-------------------------------------------------------------------------------
(* What a search should find in the tree it has before it: the matching lines  *)
(* of the selected files below the path that can be reached and read.          *)
Searched(n) ==
  /\ n \in Below(search.path) /\ IsFile(n) /\ Selected(n)
  /\ \A m \in UpFrom[n] : m \in Below(search.path) => CanRead(m)

(* What the walk has still before it.                                          *)
AllBelow(s) == UNION {Below(s[k]) : k \in DOMAIN s}
Ahead == AllBelow(search.pending)

Stable(n) == UpFrom[n] \cap touched = {}

FoundIn(n) == {k \in DOMAIN search.matches : search.matches[k].file = n}

(* The answer never holds more results than asked for, and unless it says that *)
(* it is truncated, every matching line of every file that nobody changed is   *)
(* in it exactly once, in order, whatever else was unreadable or changed.      *)
SearchIsComplete ==
  search.pc = "done" =>
    /\ Len(search.matches) <= (IF search.max < 0 THEN 0 ELSE search.max)
    /\ \A n \in Nodes : Stable(n) =>
         LET lines == {search.matches[k].line : k \in FoundIn(n)}
             hits  == IF ~Searched(n) THEN {}
                      ELSE {i \in 0..(Len(tree[n]) - 1) : tree[n][i + 1] \in search.re}
         IN  /\ \A k, l \in FoundIn(n) :
                  k < l => search.matches[k].line < search.matches[l].line
             /\ lines \subseteq hits
             /\ \A i \in hits \ lines : Full /\ \A j \in lines : j < i

(* A result in a file that nobody changed shows exactly the lines around it     *)
(* that exist, up to the number asked for, unless that number overflows int.    *)
ContextIsAround ==
  \A k \in DOMAIN search.matches :
    LET f    == search.matches[k]
        t    == tree[f.file]
        c    == search.context
        Near(l, h) == {i \in DOMAIN t : l <= i - 1 /\ i - 1 <= h}
    IN  Stable(f.file) /\ f.line + c < MaxInt =>
          /\ f.content = t[f.line + 1]
          /\ Keeps(f.context[1], Near(f.line - c, f.line - 1), t)
          /\ Keeps(f.context[2], Near(f.line + 1, f.line + c), t)
===============================================================================
