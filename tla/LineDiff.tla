-------------------------------- MODULE LineDiff --------------------------------
(******************************************************************************)
(* The diff tool (internal/tools/tool_diff.go): two files are read one after    *)
(* the other, cut to the lines asked for, and compared by the table of the      *)
(* longest common subsequences of their prefixes.                              *)
(******************************************************************************)
EXTENDS FileTree

CONSTANTS
  DiffRequests,   (* the calls of diff that clients make                      *)
  NotGiven        (* a bound that the call leaves out                         *)

ASSUME LineDiffAssumption ==
  /\ NotGiven \notin Int
  /\ \A r \in DiffRequests :
       /\ r.path.a \in Nodes /\ r.path.b \in Nodes
       /\ \A x \in {r.range.a, r.range.b} :
            x \in (Ints \cup {NotGiven}) \X (Ints \cup {NotGiven})

VARIABLE diff     (* the handler's local state                                *)

(* a, b: the lines compared; table[i][j] as in the code, with rows and columns *)
(* from 0; i, j: the loop variables; script: the lines of the answer.          *)
NoDiff ==
  [pc |-> "idle", path |-> [a |-> Root, b |-> Root], range |-> [a |-> <<>>, b |-> <<>>],
   a |-> <<>>, b |-> <<>>, table |-> <<>>, i |-> 0, j |-> 0,
   script |-> <<>>, reply |-> "none"]

BeginDiff(r) ==
  /\ r \in DiffRequests
  /\ diff' = [NoDiff EXCEPT !.pc = "readA", !.path = r.path, !.range = r.range]
  /\ UNCHANGED treeVars

EndDiff(r) == diff' = [NoDiff EXCEPT !.pc = "done", !.reply = r]

(* readLines.                                                                  *)
ReadA ==
  /\ diff.pc = "readA"
  /\ LET n == diff.path.a IN
     \/ IsFile(n) /\ CanRead(n) /\ diff' = [diff EXCEPT !.pc = "readB", !.a = tree[n]]
     \/ ~(IsFile(n) /\ CanRead(n)) /\ EndDiff("error")
  /\ UNCHANGED treeVars

ReadB ==
  /\ diff.pc = "readB"
  /\ LET n == diff.path.b IN
     \/ IsFile(n) /\ CanRead(n) /\ diff' = [diff EXCEPT !.pc = "cut", !.b = tree[n]]
     \/ ~(IsFile(n) /\ CanRead(n)) /\ EndDiff("error")
  /\ UNCHANGED treeVars

(* A start is raised to 0 and an end lowered to the number of lines, and        *)
(* nothing else: lines[start:end] panics when the two are out of order.         *)
Start(r)  == IF r[1] = NotGiven \/ r[1] < 0 THEN 0 ELSE r[1]
End(r, t) == IF r[2] = NotGiven \/ r[2] > Len(t) THEN Len(t) ELSE r[2]
Cuts(r, t) == Start(r) <= End(r, t)

Cut ==
  /\ diff.pc = "cut"
  /\ \/ /\ Cuts(diff.range.a, diff.a) /\ Cuts(diff.range.b, diff.b)
        /\ LET a == SubSeq(diff.a, Start(diff.range.a) + 1, End(diff.range.a, diff.a))
               b == SubSeq(diff.b, Start(diff.range.b) + 1, End(diff.range.b, diff.b))
           IN  diff' = [diff EXCEPT !.pc = "fill", !.a = a, !.b = b, !.i = 1, !.j = 1,
                          !.table = [i \in 0..Len(a) |-> [j \in 0..Len(b) |-> 0]]]
     \/ /\ ~(Cuts(diff.range.a, diff.a) /\ Cuts(diff.range.b, diff.b))
        /\ EndDiff("panic")
  /\ UNCHANGED treeVars

-------------------------------------------------------------------------------
(* computeDiff: the table, row by row.                                         *)
Same(i, j) == diff.a[i] = diff.b[j]
T(i, j)    == diff.table[i][j]

Cell(i, j) ==
  CASE Same(i, j)               -> T(i - 1, j - 1) + 1
    [] ~Same(i, j) /\ T(i - 1, j) >= T(i, j - 1) -> T(i - 1, j)
    [] OTHER                    -> T(i, j - 1)

FillCell ==
  /\ diff.pc = "fill" /\ diff.i <= Len(diff.a)
  /\ \/ /\ diff.j <= Len(diff.b)
        /\ diff' = [diff EXCEPT !.table[diff.i][diff.j] = Cell(diff.i, diff.j),
                                !.j = @ + 1]
     \/ /\ diff.j > Len(diff.b)
        /\ diff' = [diff EXCEPT !.i = @ + 1, !.j = 1]
  /\ UNCHANGED treeVars

(* Variant: the loop variables are exchanged.                                  *)
TableDoneSwapped ==
  /\ diff.pc = "fill" /\ diff.i > Len(diff.a)
  /\ diff' = [diff EXCEPT !.pc = "trace", !.i = Len(diff.b), !.j = Len(diff.a)]
  /\ UNCHANGED treeVars

TableDone ==
  /\ diff.pc = "fill" /\ diff.i > Len(diff.a)
  /\ diff' = [diff EXCEPT !.pc = "trace", !.i = Len(diff.a), !.j = Len(diff.b)]
  /\ UNCHANGED treeVars

(* Variant: an added line is taken first, whatever the table says.             *)
AddedFirst == ~(diff.i > 0 /\ diff.j > 0 /\ Same(diff.i, diff.j)) /\ diff.j > 0

(* From the end back to the beginning: a common line, an added or a removed     *)
(* one, whichever keeps the longest common subsequence.                        *)
Common  == diff.i > 0 /\ diff.j > 0 /\ Same(diff.i, diff.j)
Added   == /\ ~Common /\ diff.j > 0
           /\ diff.i > 0 => T(diff.i, diff.j - 1) >= T(diff.i - 1, diff.j)

(* Variant: what is left of the first file at the end is forgotten.            *)
RemovedBeside == ~Common /\ ~Added /\ diff.i > 0 /\ diff.j > 0

Removed == ~Common /\ ~Added /\ diff.i > 0

Line(op, text) == <<[op |-> op, text |-> text]>>

(* Variant: a removed line is answered and not left behind.                     *)
TraceStays ==
  /\ diff.pc = "trace"
  /\ \/ /\ Common
        /\ diff' = [diff EXCEPT !.i = @ - 1, !.j = @ - 1,
                                !.script = @ \o Line(" ", diff.a[diff.i])]
     \/ /\ Added
        /\ diff' = [diff EXCEPT !.j = @ - 1, !.script = @ \o Line("+", diff.b[diff.j])]
     \/ /\ Removed
        /\ diff' = [diff EXCEPT !.script = @ \o Line("-", diff.a[diff.i])]
  /\ UNCHANGED treeVars

Trace ==
  /\ diff.pc = "trace"
  /\ \/ /\ Common
        /\ diff' = [diff EXCEPT !.i = @ - 1, !.j = @ - 1,
                                !.script = @ \o Line(" ", diff.a[diff.i])]
     \/ /\ Added
        /\ diff' = [diff EXCEPT !.j = @ - 1, !.script = @ \o Line("+", diff.b[diff.j])]
     \/ /\ Removed
        /\ diff' = [diff EXCEPT !.i = @ - 1, !.script = @ \o Line("-", diff.a[diff.i])]
  /\ UNCHANGED treeVars

Exchanged(s, l, r) == [s EXCEPT ![l] = s[r], ![r] = s[l]]

TraceDone ==
  /\ diff.pc = "trace" /\ diff.i = 0 /\ diff.j = 0
  /\ diff' = [diff EXCEPT !.pc = "reverse", !.i = 1, !.j = Len(diff.script)]
  /\ UNCHANGED treeVars

(* The loop that reverses the script, with left in i and right in j.           *)
Reverse ==
  /\ diff.pc = "reverse"
  /\ \/ /\ diff.i < diff.j
        /\ diff' = [diff EXCEPT !.script = Exchanged(@, diff.i, diff.j),
                                !.i = @ + 1, !.j = @ - 1]
     \/ /\ diff.i >= diff.j
        /\ diff' = [diff EXCEPT !.pc = "done",
             !.reply = IF \E k \in DOMAIN diff.script : diff.script[k].op # " "
                       THEN "changes" ELSE "identical"]
  /\ UNCHANGED treeVars

DiffStep == \/ ReadA \/ ReadB \/ Cut \/ FillCell \/ TableDone \/ Trace
            \/ TraceDone \/ Reverse

-------------------------------------------------------------------------------
(* The longest sequence that is in both x and y, told by the pairs of places    *)
(* it is found at, not by a table.                                             *)
CommonPlaces(x, y) ==
  {S \in SUBSET {p \in (DOMAIN x) \X (DOMAIN y) : x[p[1]] = y[p[2]]} :
     \A p, q \in S : p # q => (p[1] < q[1] /\ p[2] < q[2]) \/ (q[1] < p[1] /\ q[2] < p[2])}

(* x is what the call asks for of the lines of t: from the start on, counted    *)
(* from 0, and up to but without the end.                                      *)
IsAsked(x, r, t) ==
  Keeps(x, {k \in DOMAIN t : /\ r[1] = NotGiven \/ r[1] <= k - 1
                             /\ r[2] = NotGiven \/ k - 1 < r[2]}, t)

(* The places of the script with an operation in ops, and the lines at all.     *)
PlacesOf(ops) == {k \in DOMAIN diff.script : diff.script[k].op \in ops}
ScriptTexts   == [k \in DOMAIN diff.script |-> diff.script[k].text]

(* The script that diff answers, read without its added lines, is what it was   *)
(* asked to compare of the first file, and without its removed ones, of the     *)
(* second; it keeps as many lines as can be kept; and the files are called       *)
(* identical exactly when these lines are.                                     *)
DiffIsMinimal ==
  diff.pc = "done" /\ diff.reply \in {"changes", "identical"} =>
    /\ diff.path.a \notin touched => IsAsked(diff.a, diff.range.a, tree[diff.path.a])
    /\ diff.path.b \notin touched => IsAsked(diff.b, diff.range.b, tree[diff.path.b])
    /\ Keeps(diff.a, PlacesOf({" ", "-"}), ScriptTexts)
    /\ Keeps(diff.b, PlacesOf({" ", "+"}), ScriptTexts)
    /\ \A S \in CommonPlaces(diff.a, diff.b) : Cardinality(S) <= Cardinality(PlacesOf({" "}))
    /\ diff.reply = "identical" <=> diff.a = diff.b
===============================================================================
