----------------------------- MODULE ReadingProofs -----------------------------
(******************************************************************************)
(* The answers of read_file and diff for any files, ranges and bounds, with the *)
(* tree changing under them.                                                   *)
(******************************************************************************)
EXTENDS ReadingTools, SequenceTheorems, FiniteSetTheorems,
        FunctionTheorems, TLAPS

(* The lines of all files; what a tool has of a file, nothing included.         *)
Lines     == UNION {{t[i] : i \in DOMAIN t} : t \in Texts}
Contents  == Texts \cup {<<>>}
IsText(t) == t \in Seq(Lines) /\ Len(t) <= MaxInt

TreeInv == tree \in [Nodes -> Texts \cup {Absent, Dir}]

(* read_file: what a fragment holds of the lines that its range asks for.       *)
LineRange == [offset : Ints, limit : Ints]
Fragment  == [offset : Int, limit : Int, lines : Seq(Lines)]
Reading   ==
  [pc : {"idle", "scan", "cut", "done"}, path : Nodes, ranges : Seq(LineRange),
   lines : Contents, fragments : Seq(Fragment),
   reply : {"none", "error", "whole", "fragments", "panic"}]
Due(r, t)   == {i \in 0..(Len(t) - 1) : AskedFor(r, i)}
Holds(f, r, t) ==
  /\ Due(r, t) = f.offset..(f.offset + f.limit - 1)
  /\ Len(f.lines) = f.limit
  /\ \A l \in 1..f.limit : f.lines[l] = t[f.offset + l]

(* The fragments so far hold what their ranges ask for, and a panic has its     *)
(* reason.                                                                    *)
ReadInv ==
  /\ reading \in Reading
  /\ Len(reading.fragments) <= Len(reading.ranges)
  /\ \A k \in 1..Len(reading.fragments) :
       Holds(reading.fragments[k], reading.ranges[k], reading.lines)
  /\ reading.pc \in {"scan", "cut"} => reading.reply = "none"
  /\ reading.pc = "scan" => reading.fragments = <<>>
  /\ reading.reply \in {"whole", "fragments"} =>
       Len(reading.fragments) = Len(reading.ranges)
  /\ reading.reply = "panic" =>
       \E k \in DOMAIN reading.ranges :
         reading.ranges[k].offset + reading.ranges[k].limit > MaxInt

-------------------------------------------------------------------------------
LEMMA ContentsAreTexts ==
  ASSUME NEW t \in Contents
  PROVE  IsText(t)
<1>1. CASE t = <<>>
  BY <1>1, EmptySeq, FileTreeAssumption DEF IsText
<1>2. CASE t \in Texts
  <2>1. t \in Seq({t[i] : i \in DOMAIN t}) /\ Len(t) <= MaxInt
    BY <1>2, FileTreeAssumption
  <2>2. {t[i] : i \in DOMAIN t} \subseteq Lines
    BY <1>2 DEF Lines
  <2> QED
    BY <2>1, <2>2 DEF IsText
<1> QED
  BY <1>1, <1>2 DEF Contents

LEMMA FilesAreContents ==
  ASSUME TreeInv, NEW n \in Nodes, IsFile(n)
  PROVE  tree[n] \in Contents
BY DEF TreeInv, IsFile, Contents

LEMMA OthersKeepTree ==
  ASSUME TreeInv, Others
  PROVE  TreeInv'
<1>1. ASSUME NEW n \in Nodes, Rewrite(n) PROVE TreeInv'
  BY <1>1, FileTreeAssumption DEF Rewrite, Put, TreeInv
<1>2. ASSUME NEW n \in Nodes, MakeDir(n) PROVE TreeInv'
  BY <1>2 DEF MakeDir, Put, TreeInv
<1>3. ASSUME NEW n \in Nodes, Remove(n) PROVE TreeInv'
  BY <1>3 DEF Remove, TreeInv
<1> QED
  BY <1>1, <1>2, <1>3, FileTreeAssumption DEF Others

-------------------------------------------------------------------------------
(* read_file.                                                                  *)

LEMMA RangeIsInts ==
  ASSUME NEW r \in LineRange
  PROVE  /\ r.offset \in Int /\ r.limit \in Int /\ MaxInt \in Nat
         /\ r.offset <= MaxInt /\ r.limit <= MaxInt
BY FileTreeAssumption DEF LineRange, Ints

(* The clamps never go outside of the file; only a sum that is no int wraps, and *)
(* it wraps to an end before the start.                                        *)
LEMMA ClampsStayInside ==
  ASSUME NEW r \in LineRange, NEW t, IsText(t)
  PROVE  LET from == From(r, Len(t))
             to   == To(r, Len(t))
         IN  /\ from \in 0..Len(t) /\ to \in Int /\ to <= Len(t)
             /\ from > to => r.offset + r.limit > MaxInt
             /\ from <= to =>
                  \A i \in 0..(Len(t) - 1) : AskedFor(r, i) <=> from <= i /\ i < to
<1> DEFINE n == Len(t)
           from == From(r, n)
           limit == Limit(r, n)
           to == To(r, n)
<1>1. /\ r.offset \in Int /\ r.limit \in Int /\ MaxInt \in Nat
      /\ r.offset <= MaxInt /\ r.limit <= MaxInt
  BY RangeIsInts
<1>2. n \in Nat /\ n <= MaxInt
  BY LenProperties DEF IsText
<1> HIDE DEF n
<1>3. from \in 0..n /\ (r.offset < 0 => from = 0) /\ (0 <= r.offset => from <= r.offset)
      /\ (0 <= r.offset /\ r.offset < n => from = r.offset)
      /\ (0 <= r.offset /\ n <= r.offset => from = n)
  BY <1>1, <1>2 DEF From
<1>4. /\ r.limit <= 0 => limit = n - from
      /\ r.limit > 0 => limit = r.limit
      /\ limit \in Nat /\ limit <= MaxInt
  BY <1>1, <1>2, <1>3 DEF Limit
<1>5. /\ from + limit <= MaxInt => to = IF from + limit > n THEN n ELSE from + limit
      /\ from + limit > MaxInt => to = from + limit - 2 * (MaxInt + 1)
  BY <1>1, <1>2, <1>3, <1>4 DEF To, Int64
<1> HIDE DEF from, limit, to
<1>6. to \in Int /\ to <= n
  BY <1>1, <1>2, <1>3, <1>4, <1>5
<1>7. from > to => r.offset + r.limit > MaxInt
  BY <1>1, <1>2, <1>3, <1>4, <1>5
<1>8. ASSUME from <= to, NEW i \in 0..(n - 1)
      PROVE  AskedFor(r, i) <=> from <= i /\ i < to
  <2>1. from + limit <= MaxInt
    BY <1>1, <1>2, <1>3, <1>4, <1>5, <1>8
  <2>2. AskedFor(r, i) <=>
          /\ r.offset < 0 \/ r.offset <= i
          /\ r.limit <= 0 \/ (r.offset < 0 /\ i < r.limit)
                          \/ (r.offset >= 0 /\ i < r.offset + r.limit)
    BY <1>1 DEF AskedFor
  <2> QED
    BY <1>1, <1>2, <1>3, <1>4, <1>5, <2>1, <2>2
<1> QED
  BY <1>3, <1>6, <1>7, <1>8 DEF n, from, to

LEMMA CutHolds ==
  ASSUME NEW r \in LineRange, NEW t, IsText(t), From(r, Len(t)) <= To(r, Len(t))
  PROVE  LET from == From(r, Len(t))
             to   == To(r, Len(t))
             f    == [offset |-> from, limit |-> to - from,
                      lines |-> SubSeq(t, from + 1, to)]
         IN  f \in Fragment /\ Holds(f, r, t)
<1> DEFINE n == Len(t)
           from == From(r, n)
           to == To(r, n)
           f == [offset |-> from, limit |-> to - from, lines |-> SubSeq(t, from + 1, to)]
<1>1. /\ from \in 0..n /\ to \in Int /\ to <= n /\ from <= to
      /\ \A i \in 0..(n - 1) : AskedFor(r, i) <=> from <= i /\ i < to
  BY ClampsStayInside
<1>2. t \in Seq(Lines) /\ n \in Nat
  BY LenProperties DEF IsText
<1> HIDE DEF n, from, to
<1>3. \A i \in (from + 1)..to : i \in 1..n
  BY <1>1, <1>2
<1>4. /\ SubSeq(t, from + 1, to) \in Seq(Lines)
      /\ Len(SubSeq(t, from + 1, to)) = to - from
      /\ \A l \in 1..(to - from) : SubSeq(t, from + 1, to)[l] = t[from + l]
  BY <1>1, <1>2, <1>3, SubSeqProperties DEF n
<1>5. f \in Fragment
  BY <1>1, <1>4 DEF Fragment
<1>6. Due(r, t) = from..(from + (to - from) - 1)
  BY <1>1, <1>2 DEF Due, n
<1> QED
  BY <1>4, <1>5, <1>6 DEF Holds, n, from, to

-------------------------------------------------------------------------------
LEMMA ReadInvInit == Init => ReadInv /\ TreeInv
<1> SUFFICES ASSUME Init PROVE ReadInv /\ TreeInv
  OBVIOUS
<1>1. TreeInv
  BY ReadingToolsAssumption DEF Init, TreeInv
<1>2. (\A X : <<>> \in Seq(X)) /\ Len(<<>>) = 0 /\ reading = NoReading
  BY EmptySeq DEF Init
<1>3. NoReading \in Reading
  BY <1>2, FileTreeAssumption DEF NoReading, Reading, Contents
<1>4. ReadInv
  BY <1>2, <1>3 DEF NoReading, ReadInv
<1> QED
  BY <1>1, <1>4

LEMMA ReadInvBegin ==
  ASSUME ReadInv, NEW r \in ReadRequests, BeginRead(r)
  PROVE  ReadInv'
<1>1. reading' = [NoReading EXCEPT !.pc = "scan", !.path = r.path, !.ranges = r.ranges]
  BY DEF BeginRead
<1>2. r.path \in Nodes /\ r.ranges \in Seq(LineRange)
  BY LineRangesAssumption DEF LineRange
<1>3. (\A X : <<>> \in Seq(X)) /\ Len(r.ranges) \in Nat /\ Len(<<>>) = 0
  BY <1>2, EmptySeq, LenProperties
<1>4. /\ reading' \in Reading
      /\ reading'.pc = "scan" /\ reading'.ranges = r.ranges
      /\ reading'.fragments = <<>> /\ reading'.reply = "none"
  BY <1>1, <1>2, <1>3, FileTreeAssumption DEF NoReading, Reading, Contents
<1> QED
  BY <1>3, <1>4 DEF ReadInv

(* A step that changes no fragment.                                            *)
LEMMA ReadInvEnd ==
  ASSUME ReadInv, NEW v \in {"error", "whole", "fragments", "panic"}, reading' = EndRead(v),
         v \in {"whole", "fragments"} => Len(reading.fragments) = Len(reading.ranges),
         v = "panic" => \E k \in DOMAIN reading.ranges :
                          reading.ranges[k].offset + reading.ranges[k].limit > MaxInt
  PROVE  ReadInv'
<1>1. reading \in Reading
  BY DEF ReadInv
<1>2. /\ reading' \in Reading /\ reading'.pc = "done" /\ reading'.reply = v
      /\ reading'.ranges = reading.ranges /\ reading'.fragments = reading.fragments
      /\ reading'.lines = reading.lines
  BY <1>1 DEF EndRead, Reading
<1> QED
  BY <1>2 DEF ReadInv

LEMMA ReadInvReadAll ==
  ASSUME ReadInv, TreeInv, ReadAll
  PROVE  ReadInv'
<1>1. reading \in Reading /\ reading.path \in Nodes
  BY DEF ReadInv, Reading
<1>2. CASE reading' = EndRead("error")
  BY <1>2, ReadInvEnd
<1>3. CASE /\ IsFile(reading.path)
           /\ reading' = [reading EXCEPT !.pc = "cut", !.lines = tree[reading.path]]
  <2>1. tree[reading.path] \in Contents
    BY <1>1, <1>3, FilesAreContents
  <2>2. /\ reading' \in Reading /\ reading'.pc = "cut" /\ reading'.reply = reading.reply
        /\ reading'.ranges = reading.ranges /\ reading'.fragments = reading.fragments
    BY <1>1, <1>3, <2>1 DEF Reading
  <2>3. reading.fragments = <<>> /\ reading.reply = "none"
    BY DEF ReadAll, ReadInv
  <2> QED
    BY <2>2, <2>3 DEF ReadInv
<1> QED
  BY <1>2, <1>3 DEF ReadAll

LEMMA ReadInvCutRange ==
  ASSUME ReadInv, CutRange
  PROVE  ReadInv'
<1> DEFINE t == reading.lines
           fs == reading.fragments
           rs == reading.ranges
           k == Len(fs) + 1
           from == From(rs[k], Len(t))
           to == To(rs[k], Len(t))
           f == [offset |-> from, limit |-> to - from, lines |-> SubSeq(t, from + 1, to)]
<1>1. /\ reading \in Reading /\ IsText(t)
      /\ fs \in Seq(Fragment) /\ rs \in Seq(LineRange)
      /\ reading.pc = "cut" /\ reading.reply = "none"
  BY ContentsAreTexts DEF ReadInv, Reading, CutRange
<1>2. Len(fs) \in Nat /\ k \in 1..Len(rs) /\ k \in DOMAIN rs /\ rs[k] \in LineRange
  BY <1>1, LenProperties, ElementOfSeq DEF CutRange, Pending
<1>3. CASE from <= to /\ reading' = [reading EXCEPT !.fragments = Append(@, f)]
  <2>1. f \in Fragment /\ Holds(f, rs[k], t)
    BY <1>1, <1>2, <1>3, CutHolds
  <2> HIDE DEF f
  <2>2. /\ Append(fs, f) \in Seq(Fragment) /\ Len(Append(fs, f)) = k
        /\ \A l \in 1..Len(fs) : Append(fs, f)[l] = fs[l]
        /\ Append(fs, f)[k] = f
    BY <1>1, <2>1, AppendProperties
  <2>3. reading' = [reading EXCEPT !.fragments = Append(fs, f)]
    BY <1>3
  <2>4. /\ reading' \in Reading /\ reading'.pc = "cut" /\ reading'.reply = "none"
        /\ reading'.fragments = Append(fs, f) /\ reading'.ranges = rs
        /\ reading'.lines = t
    BY <1>1, <2>2, <2>3 DEF Reading
  <2>5. ASSUME NEW l \in 1..Len(reading'.fragments)
        PROVE  Holds(reading'.fragments[l], rs[l], t)
    <3>1. CASE l = k
      BY <2>1, <2>2, <2>4, <3>1
    <3>2. CASE l # k
      <4>1. l \in 1..Len(fs)
        BY <1>2, <2>2, <2>4, <3>2
      <4>2. reading'.fragments[l] = fs[l]
        BY <2>2, <2>4, <4>1
      <4>3. Holds(fs[l], rs[l], t)
        BY <4>1 DEF ReadInv
      <4> QED
        BY <4>2, <4>3
    <3> QED
      BY <3>1, <3>2
  <2>6. Len(reading'.fragments) <= Len(rs)
    BY <1>2, <2>2, <2>4
  <2> QED
    BY <2>4, <2>5, <2>6 DEF ReadInv
<1>4. CASE from > to /\ reading' = EndRead("panic")
  <2>1. rs[k].offset + rs[k].limit > MaxInt
    BY <1>1, <1>2, <1>4, ClampsStayInside
  <2> QED
    BY <1>2, <1>4, <2>1, ReadInvEnd
<1> QED
  BY <1>3, <1>4 DEF CutRange

LEMMA ReadInvStep ==
  ASSUME ReadInv, TreeInv, ReadStep
  PROVE  ReadInv'
<1>1. /\ Len(reading.fragments) \in Nat /\ Len(reading.ranges) \in Nat
      /\ Len(reading.fragments) <= Len(reading.ranges)
  BY LenProperties DEF ReadInv, Reading
<1>2. ASSUME WholeFile PROVE ReadInv'
  BY <1>1, <1>2, ReadInvEnd DEF WholeFile
<1>3. ASSUME RangesDone PROVE ReadInv'
  BY <1>1, <1>3, ReadInvEnd DEF RangesDone, Pending
<1> QED
  BY <1>2, <1>3, ReadInvReadAll, ReadInvCutRange DEF ReadStep

(* No tool writes: the tree is changed by others alone.                        *)
LEMMA ToolsKeepTree ==
  ASSUME Begin \/ Step
  PROVE  UNCHANGED treeVars
<1>1. ASSUME SearchStep PROVE UNCHANGED treeVars
  BY <1>1 DEF SearchStep, VisitNext, ReadNames, Scan, WalkDone, Skip, GoOn
<1>2. ASSUME ListStep PROVE UNCHANGED treeVars
  BY <1>2 DEF ListStep, ReadDirectory, StatEntry, ListDone, Proceed
<1>3. ASSUME DiffStep PROVE UNCHANGED treeVars
  BY <1>3 DEF DiffStep, ReadA, ReadB, Cut, FillCell, TableDone, Trace, TraceDone, Reverse
<1>4. ASSUME ReadStep PROVE UNCHANGED treeVars
  BY <1>4 DEF ReadStep, ReadAll, WholeFile, CutRange, RangesDone
<1> QED
  BY <1>1, <1>2, <1>3, <1>4 DEF Begin, Step, BeginSearch, BeginList, BeginDiff, BeginRead

LEMMA TreeInvNext ==
  ASSUME TreeInv, [Next]_vars
  PROVE  TreeInv'
<1>1. ASSUME Begin \/ Step \/ UNCHANGED vars PROVE TreeInv'
  BY <1>1, ToolsKeepTree DEF TreeInv, treeVars, vars
<1>2. ASSUME Change PROVE TreeInv'
  BY <1>2, OthersKeepTree DEF Change
<1> QED
  BY <1>1, <1>2 DEF Next

LEMMA ReadInvNext ==
  ASSUME TreeInv, ReadInv, [Next]_vars
  PROVE  ReadInv'
<1>1. ASSUME UNCHANGED reading PROVE ReadInv'
  BY <1>1 DEF ReadInv
<1>2. ASSUME NEW r \in ReadRequests, BeginRead(r) PROVE ReadInv'
  BY <1>2, ReadInvBegin
<1>3. ASSUME ReadStep PROVE ReadInv'
  BY <1>3, ReadInvStep
<1> QED
  BY <1>1, <1>2, <1>3 DEF Next, Begin, Step, Change, vars

(* At every step of read_file the fragments cut so far are right.              *)
THEOREM ReadInvariant == Spec => [](TreeInv /\ ReadInv)
<1>1. TreeInv /\ ReadInv /\ [Next]_vars => (TreeInv /\ ReadInv)'
  BY TreeInvNext, ReadInvNext
<1> QED
  BY <1>1, ReadInvInit, PTL DEF Spec

(* What read_file answers, whatever others do to the file meanwhile: for every  *)
(* range the lines of the file as it was read that the range asks for, and      *)
(* those only; and the one way not to answer is a range whose end is no int    *)
(* (HandleToolReadFile in tool_read_file.go).                                  *)
THEOREM FragmentsAreTheRanges == Spec => []FragmentsAreRanges
<1>1. ReadInv => FragmentsAreRanges
  <2> SUFFICES ASSUME ReadInv PROVE FragmentsAreRanges
    OBVIOUS
  <2>1. reading.fragments \in Seq(Fragment)
    BY DEF ReadInv, Reading
  <2>2. DOMAIN reading.fragments = 1..Len(reading.fragments)
    BY <2>1, LenProperties
  <2>3. \A k \in DOMAIN reading.fragments :
          Holds(reading.fragments[k], reading.ranges[k], reading.lines)
    BY <2>2 DEF ReadInv
  <2> QED
    BY <2>3 DEF ReadInv, FragmentsAreRanges, Holds, Due
<1> QED
  BY <1>1, ReadInvariant, PTL

-------------------------------------------------------------------------------
(* diff: common subsequences.                                                  *)

(* Those of the first x lines of a and the first y lines of b, and a bound on   *)
(* their length.                                                               *)
CommonUpTo(a, b, x, y) == {S \in CommonPlaces(a, b) : S \subseteq (1..x) \X (1..y)}
AtMost(v, a, b, x, y)  == \A S \in CommonUpTo(a, b, x, y) : Cardinality(S) <= v

LEMMA CommonAreFinite ==
  ASSUME NEW x \in Nat, NEW y \in Nat, NEW S, S \subseteq (1..x) \X (1..y)
  PROVE  IsFiniteSet(S) /\ Cardinality(S) \in Nat
<1>1. IsFiniteSet(1..x) /\ IsFiniteSet(1..y)
  BY FS_Interval
<1>2. IsFiniteSet((1..x) \X (1..y))
  BY <1>1, FS_Product
<1>3. IsFiniteSet(S)
  BY <1>2, FS_Subset
<1> QED
  BY <1>3, FS_CardinalityType

(* Each of two places of a common subsequence is before the other in both files *)
(* or after it in both.                                                        *)
LEMMA PlacesInOrder ==
  ASSUME NEW a \in Seq(Lines), NEW b \in Seq(Lines), NEW x \in Nat, NEW y \in Nat,
         NEW S \in CommonUpTo(a, b, x, y)
  PROVE  /\ S \subseteq (1..x) \X (1..y)
         /\ \A p \in S : p[1] \in 1..x /\ p[2] \in 1..y /\ a[p[1]] = b[p[2]]
         /\ \A p, q \in S : p # q => \/ p[1] < q[1] /\ p[2] < q[2]
                                     \/ q[1] < p[1] /\ q[2] < p[2]
BY DEF CommonUpTo, CommonPlaces

(* A part of a common subsequence is one.                                      *)
LEMMA PartIsCommon ==
  ASSUME NEW a \in Seq(Lines), NEW b \in Seq(Lines), NEW x \in Nat, NEW y \in Nat,
         NEW S \in CommonUpTo(a, b, x, y), NEW R \in SUBSET S,
         NEW u \in Nat, NEW v \in Nat, \A p \in R : p[1] <= u /\ p[2] <= v
  PROVE  R \in CommonUpTo(a, b, u, v)
<1>1. R \in CommonPlaces(a, b)
  BY DEF CommonUpTo, CommonPlaces
<1>2. ASSUME NEW p \in R PROVE p \in (1..u) \X (1..v)
  <2>1. p \in (1..x) \X (1..y) /\ p[1] <= u /\ p[2] <= v
    BY DEF CommonUpTo
  <2> QED
    BY <2>1
<1> QED
  BY <1>1, <1>2 DEF CommonUpTo

LEMMA NothingCommon ==
  ASSUME NEW a, NEW b, NEW x \in Nat, NEW y \in Nat, x = 0 \/ y = 0
  PROVE  AtMost(0, a, b, x, y)
<1> SUFFICES ASSUME NEW S \in CommonUpTo(a, b, x, y) PROVE Cardinality(S) <= 0
  BY DEF AtMost
<1>1. 1..0 = {}
  OBVIOUS
<1>2. (1..x) \X (1..y) = {}
  BY <1>1
<1>3. S = {}
  BY <1>2 DEF CommonUpTo
<1> QED
  BY <1>3, FS_EmptySet

(* A common last line makes the longest common subsequence one longer.         *)
LEMMA CommonLastLine ==
  ASSUME NEW a \in Seq(Lines), NEW b \in Seq(Lines),
         NEW x \in Nat \ {0}, NEW y \in Nat \ {0}, NEW v \in Nat,
         AtMost(v, a, b, x - 1, y - 1)
  PROVE  AtMost(v + 1, a, b, x, y)
<1> SUFFICES ASSUME NEW S \in CommonUpTo(a, b, x, y) PROVE Cardinality(S) <= v + 1
  BY DEF AtMost
<1>1. IsFiniteSet(S) /\ Cardinality(S) \in Nat
  BY CommonAreFinite, PlacesInOrder
<1>2. \A p \in S : p[1] \in 1..x /\ p[2] \in 1..y
  BY PlacesInOrder
<1>3. \A R \in SUBSET S : (\A p \in R : p[1] # x /\ p[2] # y) => Cardinality(R) <= v
  <2> SUFFICES ASSUME NEW R \in SUBSET S, \A p \in R : p[1] # x /\ p[2] # y
               PROVE  R \in CommonUpTo(a, b, x - 1, y - 1)
    BY DEF AtMost
  <2>1. \A p \in R : p[1] <= x - 1 /\ p[2] <= y - 1
    BY <1>2
  <2> QED
    BY <2>1, PartIsCommon
<1>4. CASE \A p \in S : p[1] # x /\ p[2] # y
  BY <1>1, <1>3, <1>4
<1>6. \A p, q \in S : p # q => \/ p[1] < q[1] /\ p[2] < q[2]
                               \/ q[1] < p[1] /\ q[2] < p[2]
  BY PlacesInOrder
<1>5. ASSUME NEW p \in S, p[1] = x \/ p[2] = y
      PROVE  Cardinality(S) <= v + 1
  <2>1. \A q \in S \ {p} : q[1] # x /\ q[2] # y
    <3> SUFFICES ASSUME NEW q \in S, q # p PROVE q[1] # x /\ q[2] # y
      OBVIOUS
    <3>1. \/ p[1] < q[1] /\ p[2] < q[2]
          \/ q[1] < p[1] /\ q[2] < p[2]
      BY <1>6
    <3>2. p[1] \in 1..x /\ p[2] \in 1..y /\ q[1] \in 1..x /\ q[2] \in 1..y
      BY <1>2
    <3> QED
      BY <1>5, <3>1, <3>2
  <2>2. Cardinality(S \ {p}) <= v
    BY <1>3, <2>1
  <2>3. Cardinality(S \ {p}) = Cardinality(S) - 1
    BY <1>1, FS_RemoveElement
  <2> QED
    BY <1>1, <2>2, <2>3
<1> QED
  BY <1>4, <1>5

(* Different last lines are not both in a common subsequence.                  *)
LEMMA DifferentLastLines ==
  ASSUME NEW a \in Seq(Lines), NEW b \in Seq(Lines),
         NEW x \in Nat \ {0}, NEW y \in Nat \ {0}, a[x] # b[y],
         NEW v \in Nat, NEW u \in Nat, NEW w \in Nat, u <= v, w <= v,
         AtMost(u, a, b, x - 1, y), AtMost(w, a, b, x, y - 1)
  PROVE  AtMost(v, a, b, x, y)
<1> SUFFICES ASSUME NEW S \in CommonUpTo(a, b, x, y) PROVE Cardinality(S) <= v
  BY DEF AtMost
<1>1. \A p \in S : p[1] \in 1..x /\ p[2] \in 1..y /\ a[p[1]] = b[p[2]]
  BY PlacesInOrder
<1>2. Cardinality(S) \in Nat
  BY CommonAreFinite, PlacesInOrder
<1>3. CASE \A p \in S : p[1] # x
  <2>1. \A p \in S : p[1] <= x - 1 /\ p[2] <= y
    BY <1>1, <1>3
  <2>2. S \in CommonUpTo(a, b, x - 1, y)
    BY <2>1, PartIsCommon
  <2> QED
    BY <1>2, <2>2 DEF AtMost
<1>4. CASE \A p \in S : p[2] # y
  <2>1. \A p \in S : p[1] <= x /\ p[2] <= y - 1
    BY <1>1, <1>4
  <2>2. S \in CommonUpTo(a, b, x, y - 1)
    BY <2>1, PartIsCommon
  <2> QED
    BY <1>2, <2>2 DEF AtMost
<1>6. \A p, q \in S : p # q => \/ p[1] < q[1] /\ p[2] < q[2]
                               \/ q[1] < p[1] /\ q[2] < p[2]
  BY PlacesInOrder
<1>5. ASSUME NEW p \in S, NEW q \in S, p[1] = x, q[2] = y
      PROVE  FALSE
  <2>1. p # q
    BY <1>1, <1>5
  <2>2. \/ p[1] < q[1] /\ p[2] < q[2]
        \/ q[1] < p[1] /\ q[2] < p[2]
    BY <2>1, <1>6
  <2> QED
    BY <1>1, <1>5, <2>2
<1> QED
  BY <1>3, <1>4, <1>5
-------------------------------------------------------------------------------
(* diff: the table.                                                            *)

TableFor(a, b) == [0..Len(a) -> [0..Len(b) -> Nat]]

(* What the loops of computeDiff put into a cell.                              *)
Best(t, a, b, x, y) ==
  IF a[x] = b[y] THEN t[x - 1][y - 1] + 1
  ELSE IF t[x - 1][y] >= t[x][y - 1] THEN t[x - 1][y] ELSE t[x][y - 1]

(* The rows before i and the cells before j in row i are filled, with numbers   *)
(* that no common subsequence of the prefixes exceeds.                         *)
Filled(t, a, b, i, j) ==
  /\ t \in TableFor(a, b)
  /\ \A x \in 0..Len(a), y \in 0..Len(b) : x = 0 \/ y = 0 => t[x][y] = 0
  /\ \A x \in 1..Len(a), y \in 1..Len(b) :
       x < i \/ (x = i /\ y < j) =>
         t[x][y] = Best(t, a, b, x, y) /\ AtMost(t[x][y], a, b, x, y)

LEMMA FilledStart ==
  ASSUME NEW a \in Seq(Lines), NEW b \in Seq(Lines)
  PROVE  Filled([x \in 0..Len(a) |-> [y \in 0..Len(b) |-> 0]], a, b, 1, 1)
<1>1. Len(a) \in Nat /\ Len(b) \in Nat
  BY LenProperties
<1> QED
  BY <1>1 DEF Filled, TableFor

LEMMA FilledRow ==
  ASSUME NEW a \in Seq(Lines), NEW b \in Seq(Lines), NEW t, NEW i \in Nat, NEW j \in Nat,
         Filled(t, a, b, i, j), j > Len(b)
  PROVE  Filled(t, a, b, i + 1, 1)
<1>1. Len(a) \in Nat /\ Len(b) \in Nat
  BY LenProperties
<1> QED
  BY <1>1 DEF Filled

(* The bounds at the borders, too.                                             *)
LEMMA FilledAtMost ==
  ASSUME NEW a \in Seq(Lines), NEW b \in Seq(Lines), NEW t, NEW i \in Nat, NEW j \in Nat,
         Filled(t, a, b, i, j),
         NEW x \in 0..Len(a), NEW y \in 0..Len(b),
         x = 0 \/ y = 0 \/ x < i \/ (x = i /\ y < j)
  PROVE  t[x][y] \in Nat /\ AtMost(t[x][y], a, b, x, y)
<1>1. Len(a) \in Nat /\ Len(b) \in Nat
  BY LenProperties
<1>2. t[x][y] \in Nat
  BY <1>1 DEF Filled, TableFor
<1>3. CASE x = 0 \/ y = 0
  <2>1. t[x][y] = 0
    BY <1>3 DEF Filled
  <2> QED
    BY <1>1, <1>2, <1>3, <2>1, NothingCommon
<1>4. CASE x # 0 /\ y # 0
  <2>1. x \in 1..Len(a) /\ y \in 1..Len(b)
    BY <1>1, <1>4
  <2> QED
    BY <1>2, <1>4, <2>1 DEF Filled
<1> QED
  BY <1>3, <1>4

LEMMA FilledCell ==
  ASSUME NEW a \in Seq(Lines), NEW b \in Seq(Lines), NEW t,
         NEW i \in 1..Len(a), NEW j \in 1..Len(b), Filled(t, a, b, i, j)
  PROVE  Filled([t EXCEPT ![i][j] = Best(t, a, b, i, j)], a, b, i, j + 1)
<1> DEFINE v == Best(t, a, b, i, j)
           u == [t EXCEPT ![i][j] = v]
<1>1. /\ Len(a) \in Nat /\ Len(b) \in Nat /\ i \in Nat \ {0} /\ j \in Nat \ {0}
      /\ i - 1 \in 0..Len(a) /\ j - 1 \in 0..Len(b)
      /\ i \in 0..Len(a) /\ j \in 0..Len(b)
  BY LenProperties
<1>2. t \in TableFor(a, b)
  BY DEF Filled
<1>3. /\ t[i - 1][j - 1] \in Nat /\ t[i - 1][j] \in Nat /\ t[i][j - 1] \in Nat
      /\ v \in Nat
  <2>1. /\ t[i - 1][j - 1] \in Nat /\ t[i - 1][j] \in Nat /\ t[i][j - 1] \in Nat
    BY <1>1, <1>2 DEF TableFor
  <2>2. t[i - 1][j - 1] + 1 \in Nat
    BY <2>1
  <2> QED
    BY <2>1, <2>2 DEF Best
<1>4. AtMost(v, a, b, i, j)
  <2>1. /\ AtMost(t[i - 1][j - 1], a, b, i - 1, j - 1)
        /\ AtMost(t[i - 1][j], a, b, i - 1, j)
        /\ AtMost(t[i][j - 1], a, b, i, j - 1)
    BY <1>1, FilledAtMost
  <2>2. CASE a[i] = b[j]
    BY <1>1, <1>3, <2>1, <2>2, CommonLastLine DEF Best
  <2>3. CASE a[i] # b[j]
    <3>1. v \in {t[i - 1][j], t[i][j - 1]} /\ t[i - 1][j] <= v /\ t[i][j - 1] <= v
      BY <1>3, <2>3 DEF Best
    <3> QED
      BY <1>1, <1>3, <2>1, <2>3, <3>1, DifferentLastLines
  <2> QED
    BY <2>2, <2>3
<1> HIDE DEF v
<1>5. /\ u \in TableFor(a, b)
      /\ \A x \in 0..Len(a), y \in 0..Len(b) :
           u[x][y] = IF x = i /\ y = j THEN v ELSE t[x][y]
  BY <1>1, <1>2, <1>3 DEF TableFor
<1> HIDE DEF u
<1>6. \A x \in 0..Len(a), y \in 0..Len(b) : x = 0 \/ y = 0 => u[x][y] = 0
  BY <1>1, <1>5 DEF Filled
<1>7. ASSUME NEW x \in 1..Len(a), NEW y \in 1..Len(b),
             x < i \/ (x = i /\ y < j + 1)
      PROVE  u[x][y] = Best(u, a, b, x, y) /\ AtMost(u[x][y], a, b, x, y)
  <2>1. /\ x \in 0..Len(a) /\ y \in 0..Len(b) /\ x \in Nat /\ y \in Nat
        /\ x - 1 \in 0..Len(a) /\ y - 1 \in 0..Len(b)
    BY <1>1
  <2>2. /\ u[x - 1][y - 1] = t[x - 1][y - 1]
        /\ u[x - 1][y] = t[x - 1][y]
        /\ u[x][y - 1] = t[x][y - 1]
    BY <1>1, <1>5, <1>7, <2>1
  <2>3. Best(u, a, b, x, y) = Best(t, a, b, x, y)
    BY <2>2 DEF Best
  <2>4. CASE x = i /\ y = j
    BY <1>4, <1>5, <2>1, <2>3, <2>4 DEF v
  <2>5. CASE ~(x = i /\ y = j)
    <3>1. x < i \/ (x = i /\ y < j)
      BY <1>1, <1>7, <2>1, <2>5
    <3>2. u[x][y] = t[x][y]
      BY <1>5, <2>1, <2>5
    <3> QED
      BY <2>3, <3>1, <3>2 DEF Filled
  <2> QED
    BY <2>4, <2>5
<1> QED
  BY <1>5, <1>6, <1>7 DEF Filled, u, v

-------------------------------------------------------------------------------
(* diff: the way back through the table.                                       *)

(* What stands before a line of both files.                                    *)
Space == " "
Op    == [op : {Space, "+", "-"}, text : Lines]

LEMMA SpaceIsNoChange == Space # "+" /\ Space # "-"
BY Zenon DEF Space

(* The places of a script at which the operation is one of ops.                *)
Marked(s, ops) == {k \in DOMAIN s : s[k].op \in ops}

(* The places in S of the script s hold, from the last to the first, the lines  *)
(* of x after line i.                                                          *)
After(x, i) == (i + 1)..Len(x)
Backwards(x, i, S, s) ==
  \E place \in [After(x, i) -> S] :
    /\ \A m \in After(x, i) : x[m] = s[place[m]].text
    /\ \A l, m \in After(x, i) : l < m => place[m] < place[l]
    /\ \A k \in S : \E m \in After(x, i) : place[m] = k

(* The script s has been traced from the end of the table t back to cell i, j.  *)
Traced(a, b, t, s, i, j) ==
  /\ s \in Seq(Op) /\ i \in 0..Len(a) /\ j \in 0..Len(b)
  /\ Cardinality(Marked(s, {Space})) + t[i][j] = t[Len(a)][Len(b)]
  /\ Backwards(a, i, Marked(s, {Space, "-"}), s)
  /\ Backwards(b, j, Marked(s, {Space, "+"}), s)
  /\ (\A k \in 1..Len(s) : s[k].op = Space) =>
       /\ Len(s) = Len(a) - i /\ Len(s) = Len(b) - j
       /\ \A k \in 1..Len(s) : a[Len(a) + 1 - k] = b[Len(b) + 1 - k]
  /\ a = b => i = j /\ \A k \in 1..Len(s) : s[k].op = Space

LEMMA OneMore ==
  ASSUME NEW s \in Seq(Op), NEW e \in Op
  PROVE  /\ Len(s) \in Nat /\ DOMAIN s = 1..Len(s)
         /\ Append(s, e) \in Seq(Op) /\ Len(Append(s, e)) = Len(s) + 1
         /\ DOMAIN Append(s, e) = (1..Len(s)) \cup {Len(s) + 1}
         /\ Append(s, e)[Len(s) + 1] = e
         /\ \A k \in 1..Len(s) : Append(s, e)[k] = s[k]
<1>1. Append(s, e) \in Seq(Op) /\ Len(Append(s, e)) = Len(s) + 1
  BY AppendProperties
<1>2. Len(s) \in Nat /\ DOMAIN s = 1..Len(s)
  BY LenProperties
<1>3. DOMAIN Append(s, e) = 1..(Len(s) + 1)
  BY <1>1, LenProperties
<1>4. 1..(Len(s) + 1) = (1..Len(s)) \cup {Len(s) + 1}
  BY <1>2
<1> QED
  BY <1>1, <1>2, <1>3, <1>4, AppendProperties

LEMMA MarkedAppend ==
  ASSUME NEW s \in Seq(Op), NEW e \in Op, NEW ops
  PROVE  /\ Marked(s, ops) \in SUBSET (1..Len(s))
         /\ e.op \in ops => Marked(Append(s, e), ops) = Marked(s, ops) \cup {Len(s) + 1}
         /\ e.op \notin ops => Marked(Append(s, e), ops) = Marked(s, ops)
<1> DEFINE n == Len(s) + 1
           r == Append(s, e)
<1>1. /\ DOMAIN s = 1..Len(s) /\ DOMAIN r = (1..Len(s)) \cup {n}
      /\ r[n] = e /\ \A k \in 1..Len(s) : r[k] = s[k]
  BY OneMore
<1> HIDE DEF n, r
<1>2. /\ Marked(s, ops) \in SUBSET (1..Len(s))
      /\ e.op \in ops => Marked(r, ops) = Marked(s, ops) \cup {n}
      /\ e.op \notin ops => Marked(r, ops) = Marked(s, ops)
  BY <1>1 DEF Marked
<1> QED
  BY <1>2 DEF n, r

LEMMA MarkedCount ==
  ASSUME NEW s \in Seq(Op), NEW e \in Op
  PROVE  /\ Cardinality(Marked(s, {Space})) \in Nat
         /\ e.op = Space => Cardinality(Marked(Append(s, e), {Space})) =
                             Cardinality(Marked(s, {Space})) + 1
         /\ e.op # Space => Cardinality(Marked(Append(s, e), {Space})) =
                             Cardinality(Marked(s, {Space}))
<1> DEFINE S == Marked(s, {Space})
           R == Marked(Append(s, e), {Space})
           n == Len(s) + 1
<1>1. S \subseteq 1..Len(s) /\ Len(s) \in Nat
  BY MarkedAppend, LenProperties
<1>2. /\ e.op = Space => R = S \cup {n}
      /\ e.op # Space => R = S
  <2>1. /\ e.op \in {Space} => R = S \cup {n}
        /\ e.op \notin {Space} => R = S
    BY MarkedAppend
  <2> HIDE DEF S, R
  <2> QED
    BY <2>1
<1> HIDE DEF S, R
<1>3. IsFiniteSet(S) /\ Cardinality(S) \in Nat
  <2>1. IsFiniteSet(1..Len(s))
    BY <1>1, FS_Interval
  <2>2. IsFiniteSet(S)
    BY <1>1, <2>1, FS_Subset
  <2> QED
    BY <2>2, FS_CardinalityType
<1>4. n \notin S
  BY <1>1
<1>5. Cardinality(S \cup {n}) = Cardinality(S) + 1
  BY <1>3, <1>4, FS_AddElement
<1>6. e.op = Space => Cardinality(R) = Cardinality(S) + 1
  BY <1>2, <1>5
<1>7. e.op # Space => Cardinality(R) = Cardinality(S)
  BY <1>2
<1> QED
  BY <1>3, <1>6, <1>7 DEF S, R

LEMMA BackwardsBy ==
  ASSUME NEW x, NEW i, NEW D, After(x, i) = D, NEW S, NEW s, NEW f \in [D -> S],
         \A m \in D : x[m] = s[f[m]].text,
         \A l, m \in D : l < m => f[m] < f[l],
         \A k \in S : \E m \in D : f[m] = k
  PROVE  Backwards(x, i, S, s)
<1>1. /\ f \in [After(x, i) -> S]
      /\ \A m \in After(x, i) : x[m] = s[f[m]].text
      /\ \A l, m \in After(x, i) : l < m => f[m] < f[l]
      /\ \A k \in S : \E m \in After(x, i) : f[m] = k
  BY Zenon
<1> QED
  BY <1>1 DEF Backwards

(* The next line of x is appended.                                             *)
LEMMA BackwardsMore ==
  ASSUME NEW x \in Seq(Lines), NEW i \in 1..Len(x), NEW s \in Seq(Op), NEW e \in Op,
         NEW S \in SUBSET (1..Len(s)), Backwards(x, i, S, s), e.text = x[i]
  PROVE  Backwards(x, i - 1, S \cup {Len(s) + 1}, Append(s, e))
<1>1. PICK place \in [After(x, i) -> S] :
        /\ \A m \in After(x, i) : x[m] = s[place[m]].text
        /\ \A l, m \in After(x, i) : l < m => place[m] < place[l]
        /\ \A k \in S : \E m \in After(x, i) : place[m] = k
  BY DEF Backwards
<1>2. /\ Len(s) \in Nat /\ Len(x) \in Nat /\ i \in Nat
      /\ \A k \in 1..Len(s) : Append(s, e)[k] = s[k]
      /\ Append(s, e)[Len(s) + 1] = e
  BY AppendProperties, LenProperties
<1> DEFINE n == Len(s) + 1
           R == S \cup {n}
           next == [m \in i..Len(x) |-> IF m = i THEN n ELSE place[m]]
<1>3. \A m \in i..Len(x) : m = i \/ m \in After(x, i)
  BY <1>2 DEF After
<1>4. next \in [i..Len(x) -> R]
  BY <1>1, <1>3
<1>5. next[i] = n /\ i \in i..Len(x)
  BY <1>2
<1>6. \A m \in After(x, i) : /\ m \in i..Len(x) /\ next[m] = place[m]
                                 /\ next[m] \in S /\ next[m] \in 1..Len(s)
  <2> SUFFICES ASSUME NEW m \in After(x, i)
               PROVE  m \in i..Len(x) /\ next[m] = place[m] /\ place[m] \in S
    OBVIOUS
  <2>1. m \in i..Len(x) /\ m # i
    BY <1>2 DEF After
  <2> QED
    BY <1>1, <2>1
<1> HIDE DEF next
<1>7. \A m \in i..Len(x) : x[m] = Append(s, e)[next[m]].text
  BY <1>1, <1>2, <1>3, <1>5, <1>6
<1>8. ASSUME NEW l \in i..Len(x), NEW m \in i..Len(x), l < m
      PROVE  next[m] < next[l]
  <2>1. m \in After(x, i)
    BY <1>2, <1>8 DEF After
  <2>2. CASE l = i
    BY <1>2, <1>5, <1>6, <2>1, <2>2
  <2>3. CASE l \in After(x, i)
    BY <1>1, <1>6, <1>8, <2>1, <2>3
  <2> QED
    BY <1>3, <2>2, <2>3
<1>9. \A k \in R : \E m \in i..Len(x) : next[m] = k
  BY <1>1, <1>5, <1>6
<1>10. After(x, i - 1) = i..Len(x)
  BY <1>2 DEF After
<1> QED
  BY <1>4, <1>7, <1>8, <1>9, <1>10, BackwardsBy

(* A line that does not belong to x is appended.                               *)
LEMMA BackwardsSame ==
  ASSUME NEW x, NEW i, NEW s \in Seq(Op), NEW e \in Op,
         NEW S \in SUBSET (1..Len(s)), Backwards(x, i, S, s)
  PROVE  Backwards(x, i, S, Append(s, e))
<1>1. \A k \in S : Append(s, e)[k] = s[k]
  BY AppendProperties
<1>2. PICK place \in [After(x, i) -> S] :
        /\ \A m \in After(x, i) : x[m] = s[place[m]].text
        /\ \A l, m \in After(x, i) : l < m => place[m] < place[l]
        /\ \A k \in S : \E m \in After(x, i) : place[m] = k
  BY DEF Backwards
<1>3. \A m \in After(x, i) : x[m] = Append(s, e)[place[m]].text
  BY <1>1, <1>2
<1> QED
  BY <1>2, <1>3 DEF Backwards
Complete(t, a, b) == Filled(t, a, b, Len(a) + 1, 1)

LEMMA CompleteCells ==
  ASSUME NEW a \in Seq(Lines), NEW b \in Seq(Lines), NEW t \in TableFor(a, b), Complete(t, a, b)
  PROVE  /\ \A x \in 0..Len(a), y \in 0..Len(b) :
              t[x][y] \in Nat /\ (x = 0 \/ y = 0 => t[x][y] = 0)
         /\ \A x \in 1..Len(a), y \in 1..Len(b) : t[x][y] = Best(t, a, b, x, y)
         /\ AtMost(t[Len(a)][Len(b)], a, b, Len(a), Len(b))
<1>1. /\ Len(a) \in Nat /\ Len(b) \in Nat /\ Len(a) + 1 \in Nat /\ 1 \in Nat
      /\ Len(a) \in 0..Len(a) /\ Len(b) \in 0..Len(b) /\ Len(a) < Len(a) + 1
  BY LenProperties
<1>2. \A x \in 0..Len(a), y \in 0..Len(b) :
        t[x][y] \in Nat /\ (x = 0 \/ y = 0 => t[x][y] = 0)
  BY <1>1 DEF Complete, Filled, TableFor
<1>3. \A x \in 1..Len(a), y \in 1..Len(b) : t[x][y] = Best(t, a, b, x, y)
  BY <1>1 DEF Complete, Filled
<1>4. AtMost(t[Len(a)][Len(b)], a, b, Len(a), Len(b))
  BY <1>1, FilledAtMost DEF Complete
<1> QED
  BY <1>2, <1>3, <1>4

LEMMA TracedStart ==
  ASSUME NEW a \in Seq(Lines), NEW b \in Seq(Lines), NEW t \in TableFor(a, b), Complete(t, a, b)
  PROVE  Traced(a, b, t, <<>>, Len(a), Len(b))
<1>1. /\ Len(a) \in Nat /\ Len(b) \in Nat /\ <<>> \in Seq(Op) /\ Len(<<>>) = 0
      /\ DOMAIN <<>> = {} /\ Len(a) \in 0..Len(a) /\ Len(b) \in 0..Len(b)
  BY LenProperties, EmptySeq
<1>2. \A ops : Marked(<<>>, ops) = {}
  BY <1>1 DEF Marked
<1>3. After(a, Len(a)) = {} /\ After(b, Len(b)) = {}
  BY <1>1 DEF After
<1>4. Backwards(a, Len(a), {}, <<>>) /\ Backwards(b, Len(b), {}, <<>>)
  <2>1. [m \in {} |-> m] \in [{} -> {}]
    OBVIOUS
  <2> QED
    BY <1>3, <2>1 DEF Backwards
<1>5. Cardinality(Marked(<<>>, {Space})) = 0
  BY <1>2, FS_EmptySet
<1>6. Cardinality(Marked(<<>>, {Space})) + t[Len(a)][Len(b)] = t[Len(a)][Len(b)]
  <2>1. t[Len(a)][Len(b)] \in Nat
    BY <1>1, CompleteCells
  <2> QED
    BY <1>5, <2>1
<1>7. Backwards(a, Len(a), Marked(<<>>, {Space, "-"}), <<>>)
      /\ Backwards(b, Len(b), Marked(<<>>, {Space, "+"}), <<>>)
  BY <1>2, <1>4
<1> QED
  BY <1>1, <1>6, <1>7 DEF Traced

LEMMA TracedCommon ==
  ASSUME NEW a \in Seq(Lines), NEW b \in Seq(Lines), NEW t \in TableFor(a, b), Complete(t, a, b),
         NEW s \in Seq(Op), NEW i \in 0..Len(a), NEW j \in 0..Len(b),
         Traced(a, b, t, s, i, j), i > 0, j > 0, a[i] = b[j]
  PROVE  Traced(a, b, t, Append(s, [op |-> Space, text |-> a[i]]), i - 1, j - 1)
<1> DEFINE e == [op |-> Space, text |-> a[i]]
           r == Append(s, e)
           n == Len(s) + 1
<1>1. s \in Seq(Op) /\ i \in 0..Len(a) /\ j \in 0..Len(b)
  BY DEF Traced
<1>2. /\ Len(a) \in Nat /\ Len(b) \in Nat /\ Len(s) \in Nat
      /\ i \in 1..Len(a) /\ j \in 1..Len(b)
      /\ i - 1 \in 0..Len(a) /\ j - 1 \in 0..Len(b)
      /\ i \in Nat /\ j \in Nat
  BY <1>1, LenProperties
<1>3. e \in Op /\ e.op = Space /\ e.text = a[i] /\ e.text = b[j]
  BY <1>2, ElementOfSeq DEF Op
<1> HIDE DEF e
<1>4. /\ r \in Seq(Op) /\ Len(r) = n /\ r[n] = e
      /\ \A k \in 1..Len(s) : r[k] = s[k]
  BY <1>1, <1>3, OneMore
<1>5. \A ops : Space \in ops => Marked(r, ops) = Marked(s, ops) \cup {n}
  BY <1>1, <1>3, MarkedAppend
<1>6. \A ops : Marked(s, ops) \in SUBSET (1..Len(s))
  BY <1>1, <1>3, MarkedAppend
<1>7. Cardinality(Marked(r, {Space})) + t[i - 1][j - 1] = t[Len(a)][Len(b)]
  <2>1. t[i][j] = t[i - 1][j - 1] + 1
    BY <1>2, CompleteCells DEF Best
  <2>2. Cardinality(Marked(r, {Space})) = Cardinality(Marked(s, {Space})) + 1
        /\ Cardinality(Marked(s, {Space})) \in Nat
    BY <1>1, <1>3, MarkedCount
  <2>3. t[i - 1][j - 1] \in Nat /\ t[Len(a)][Len(b)] \in Nat
    BY <1>2, CompleteCells
  <2>4. Cardinality(Marked(s, {Space})) + t[i][j] = t[Len(a)][Len(b)]
    BY DEF Traced
  <2> DEFINE c == Cardinality(Marked(s, {Space}))
             d == Cardinality(Marked(r, {Space}))
             l == t[Len(a)][Len(b)]
             o == t[i - 1][j - 1]
  <2>5. t[i][j] = o + 1 /\ d = c + 1 /\ c + t[i][j] = l
        /\ c \in Nat /\ l \in Nat /\ o \in Nat
    BY <2>1, <2>2, <2>3, <2>4
  <2> HIDE DEF c, d, l, o
  <2>6. d + o = l
    BY <2>5
  <2> QED
    BY <2>6 DEF c, d, l, o
<1>8. Backwards(a, i - 1, Marked(r, {Space, "-"}), r)
  <2>1. Backwards(a, i, Marked(s, {Space, "-"}), s)
    BY DEF Traced
  <2>2. Backwards(a, i - 1, Marked(s, {Space, "-"}) \cup {n}, r)
    BY <1>1, <1>2, <1>3, <1>6, <2>1, BackwardsMore
  <2> QED
    BY <1>5, <2>2
<1>9. Backwards(b, j - 1, Marked(r, {Space, "+"}), r)
  <2>1. Backwards(b, j, Marked(s, {Space, "+"}), s)
    BY DEF Traced
  <2>2. Backwards(b, j - 1, Marked(s, {Space, "+"}) \cup {n}, r)
    BY <1>1, <1>2, <1>3, <1>6, <2>1, BackwardsMore
  <2> QED
    BY <1>5, <2>2
<1>12. \A k \in 1..Len(r) : k = n \/ k \in 1..Len(s)
  BY <1>2, <1>4
<1>13. n \in 1..Len(r) /\ \A k \in 1..Len(s) : k \in 1..Len(r)
  BY <1>2, <1>4
<1> HIDE DEF r
<1>10. ASSUME \A k \in 1..Len(r) : r[k].op = Space
       PROVE  /\ Len(r) = Len(a) - (i - 1) /\ Len(r) = Len(b) - (j - 1)
              /\ \A k \in 1..Len(r) : a[Len(a) + 1 - k] = b[Len(b) + 1 - k]
  <2>1. \A k \in 1..Len(s) : s[k].op = Space
    BY <1>4, <1>10, <1>13
  <2>2. /\ Len(s) = Len(a) - i /\ Len(s) = Len(b) - j
        /\ \A k \in 1..Len(s) : a[Len(a) + 1 - k] = b[Len(b) + 1 - k]
    BY <2>1 DEF Traced
  <2>3. ASSUME NEW k \in 1..Len(r) PROVE a[Len(a) + 1 - k] = b[Len(b) + 1 - k]
    <3>1. CASE k = n
      <4>1. Len(a) + 1 - k = i /\ Len(b) + 1 - k = j
        <5>1. /\ Len(s) = Len(a) - i /\ Len(s) = Len(b) - j /\ k = Len(s) + 1
              /\ Len(a) \in Nat /\ Len(b) \in Nat /\ i \in Nat /\ j \in Nat
          BY <1>2, <2>2, <3>1
        <5> QED
          BY <5>1
      <4> QED
        BY <4>1
    <3>2. CASE k # n
      BY <1>12, <2>2, <3>2
    <3> QED
      BY <3>1, <3>2
  <2> QED
    <3>1. Len(r) = Len(a) - (i - 1) /\ Len(r) = Len(b) - (j - 1)
      <4>1. /\ Len(s) = Len(a) - i /\ Len(s) = Len(b) - j /\ Len(r) = Len(s) + 1
            /\ Len(a) \in Nat /\ Len(b) \in Nat /\ i \in Nat /\ j \in Nat
        BY <1>2, <1>4, <2>2
      <4> QED
        BY <4>1
    <3> QED
      BY <2>3, <3>1
<1>11. ASSUME a = b
       PROVE  i - 1 = j - 1 /\ \A k \in 1..Len(r) : r[k].op = Space
  <2>1. i = j /\ \A k \in 1..Len(s) : s[k].op = Space
    BY <1>11 DEF Traced
  <2> QED
    BY <1>3, <1>4, <1>12, <2>1
<1> QED
  BY <1>2, <1>4, <1>7, <1>8, <1>9, <1>10, <1>11 DEF Traced, r, e

(* A line of one file only: the script is longer by a line that is not common,  *)
(* and the table says that no common line is lost by it.                       *)
LEMMA TracedBeside ==
  ASSUME NEW a \in Seq(Lines), NEW b \in Seq(Lines), NEW t \in TableFor(a, b), Complete(t, a, b),
         NEW s \in Seq(Op), NEW i \in 0..Len(a), NEW j \in 0..Len(b),
         Traced(a, b, t, s, i, j), i > 0 \/ j > 0,
         ~(i > 0 /\ j > 0 /\ a[i] = b[j]),
         NEW e \in Op, e.op # Space,
         NEW u \in 0..Len(a), NEW v \in 0..Len(b), t[u][v] = t[i][j],
         Backwards(a, u, Marked(Append(s, e), {Space, "-"}), Append(s, e)),
         Backwards(b, v, Marked(Append(s, e), {Space, "+"}), Append(s, e))
  PROVE  Traced(a, b, t, Append(s, e), u, v)
<1> DEFINE r == Append(s, e)
<1>1. /\ s \in Seq(Op) /\ i \in 0..Len(a) /\ j \in 0..Len(b)
      /\ Len(a) \in Nat /\ Len(b) \in Nat /\ Len(s) \in Nat
  BY LenProperties DEF Traced
<1>2. /\ r \in Seq(Op) /\ Len(r) = Len(s) + 1 /\ r[Len(s) + 1] = e
      /\ \A k \in 1..Len(s) : r[k] = s[k]
  BY <1>1, OneMore
<1>3. Cardinality(Marked(r, {Space})) + t[u][v] = t[Len(a)][Len(b)]
  <2>1. Cardinality(Marked(r, {Space})) = Cardinality(Marked(s, {Space}))
    BY <1>1, MarkedCount
  <2> QED
    BY <2>1 DEF Traced
<1> HIDE DEF r
<1>4. ~ \A k \in 1..Len(r) : r[k].op = Space
  <2>1. Len(s) + 1 \in 1..Len(r)
    BY <1>1, <1>2
  <2> QED
    BY <1>2, <2>1
<1>5. a # b
  <2> SUFFICES ASSUME a = b PROVE FALSE
    OBVIOUS
  <2>1. i = j
    BY DEF Traced
  <2> QED
    BY <1>1, <2>1
<1> QED
  BY <1>2, <1>3, <1>4, <1>5 DEF Traced, r

LEMMA TracedAdded ==
  ASSUME NEW a \in Seq(Lines), NEW b \in Seq(Lines), NEW t \in TableFor(a, b), Complete(t, a, b),
         NEW s \in Seq(Op), NEW i \in 0..Len(a), NEW j \in 0..Len(b),
         Traced(a, b, t, s, i, j),
         ~(i > 0 /\ j > 0 /\ a[i] = b[j]), j > 0,
         i > 0 => t[i][j - 1] >= t[i - 1][j]
  PROVE  Traced(a, b, t, Append(s, [op |-> "+", text |-> b[j]]), i, j - 1)
<1> DEFINE e == [op |-> "+", text |-> b[j]]
           r == Append(s, e)
<1>1. s \in Seq(Op) /\ i \in 0..Len(a) /\ j \in 0..Len(b)
  BY DEF Traced
<1>2. /\ Len(a) \in Nat /\ Len(b) \in Nat /\ Len(s) \in Nat /\ i \in Nat /\ j \in Nat
      /\ j \in 1..Len(b) /\ j - 1 \in 0..Len(b)
      /\ i > 0 => i \in 1..Len(a) /\ i - 1 \in 0..Len(a)
  BY <1>1, LenProperties
<1>3. e \in Op /\ e.op = "+" /\ e.text = b[j]
  BY <1>2, ElementOfSeq DEF Op
<1> HIDE DEF e
<1>4. \A ops : /\ "+" \in ops => Marked(r, ops) = Marked(s, ops) \cup {Len(s) + 1}
               /\ "+" \notin ops => Marked(r, ops) = Marked(s, ops)
               /\ Marked(s, ops) \in SUBSET (1..Len(s))
  BY <1>1, <1>3, MarkedAppend
<1>5. t[i][j - 1] = t[i][j]
  <2>1. CASE i = 0
    BY <1>1, <1>2, <2>1, CompleteCells
  <2>2. CASE i > 0
    <3>1. t[i][j] = IF t[i - 1][j] >= t[i][j - 1] THEN t[i - 1][j] ELSE t[i][j - 1]
      BY <1>2, <2>2, CompleteCells DEF Best
    <3>2. t[i - 1][j] \in Nat /\ t[i][j - 1] \in Nat
      BY <1>1, <1>2, <2>2, CompleteCells
    <3> QED
      BY <2>2, <3>1, <3>2
  <2> QED
    BY <1>2, <2>1, <2>2
<1>6. Backwards(a, i, Marked(r, {Space, "-"}), r)
  <2>1. Backwards(a, i, Marked(s, {Space, "-"}), s)
    BY DEF Traced
  <2>2. Backwards(a, i, Marked(s, {Space, "-"}), r)
    BY <1>1, <1>3, <1>4, <2>1, BackwardsSame
  <2> QED
    BY <1>4, <2>2, SpaceIsNoChange
<1>7. Backwards(b, j - 1, Marked(r, {Space, "+"}), r)
  <2>1. Backwards(b, j, Marked(s, {Space, "+"}), s)
    BY DEF Traced
  <2>2. Backwards(b, j - 1, Marked(s, {Space, "+"}) \cup {Len(s) + 1}, r)
    BY <1>1, <1>2, <1>3, <1>4, <2>1, BackwardsMore
  <2> QED
    BY <1>4, <2>2, SpaceIsNoChange
<1>8. e.op # Space
  BY <1>3, SpaceIsNoChange
<1>9. Traced(a, b, t, r, i, j - 1)
  BY <1>1, <1>2, <1>3, <1>5, <1>6, <1>7, <1>8, TracedBeside
<1> QED
  BY <1>9 DEF e

LEMMA TracedRemoved ==
  ASSUME NEW a \in Seq(Lines), NEW b \in Seq(Lines), NEW t \in TableFor(a, b), Complete(t, a, b),
         NEW s \in Seq(Op), NEW i \in 0..Len(a), NEW j \in 0..Len(b),
         Traced(a, b, t, s, i, j),
         ~(i > 0 /\ j > 0 /\ a[i] = b[j]), i > 0,
         j > 0 => ~(t[i][j - 1] >= t[i - 1][j])
  PROVE  Traced(a, b, t, Append(s, [op |-> "-", text |-> a[i]]), i - 1, j)
<1> DEFINE e == [op |-> "-", text |-> a[i]]
           r == Append(s, e)
<1>1. s \in Seq(Op) /\ i \in 0..Len(a) /\ j \in 0..Len(b)
  BY DEF Traced
<1>2. /\ Len(a) \in Nat /\ Len(b) \in Nat /\ Len(s) \in Nat /\ i \in Nat /\ j \in Nat
      /\ i \in 1..Len(a) /\ i - 1 \in 0..Len(a)
      /\ j > 0 => j \in 1..Len(b) /\ j - 1 \in 0..Len(b)
  BY <1>1, LenProperties
<1>3. e \in Op /\ e.op = "-" /\ e.text = a[i]
  BY <1>2, ElementOfSeq DEF Op
<1> HIDE DEF e
<1>4. \A ops : /\ "-" \in ops => Marked(r, ops) = Marked(s, ops) \cup {Len(s) + 1}
               /\ "-" \notin ops => Marked(r, ops) = Marked(s, ops)
               /\ Marked(s, ops) \in SUBSET (1..Len(s))
  BY <1>1, <1>3, MarkedAppend
<1>5. t[i - 1][j] = t[i][j]
  <2>1. CASE j = 0
    BY <1>1, <1>2, <2>1, CompleteCells
  <2>2. CASE j > 0
    <3>1. t[i][j] = IF t[i - 1][j] >= t[i][j - 1] THEN t[i - 1][j] ELSE t[i][j - 1]
      BY <1>2, <2>2, CompleteCells DEF Best
    <3>2. t[i - 1][j] \in Nat /\ t[i][j - 1] \in Nat
      BY <1>1, <1>2, <2>2, CompleteCells
    <3> QED
      BY <2>2, <3>1, <3>2
  <2> QED
    BY <1>2, <2>1, <2>2
<1>6. Backwards(b, j, Marked(r, {Space, "+"}), r)
  <2>1. Backwards(b, j, Marked(s, {Space, "+"}), s)
    BY DEF Traced
  <2>2. Backwards(b, j, Marked(s, {Space, "+"}), r)
    BY <1>1, <1>3, <1>4, <2>1, BackwardsSame
  <2> QED
    BY <1>4, <2>2, SpaceIsNoChange
<1>7. Backwards(a, i - 1, Marked(r, {Space, "-"}), r)
  <2>1. Backwards(a, i, Marked(s, {Space, "-"}), s)
    BY DEF Traced
  <2>2. Backwards(a, i - 1, Marked(s, {Space, "-"}) \cup {Len(s) + 1}, r)
    BY <1>1, <1>2, <1>3, <1>4, <2>1, BackwardsMore
  <2> QED
    BY <1>4, <2>2, SpaceIsNoChange
<1>8. e.op # Space
  BY <1>3, SpaceIsNoChange
<1>9. Traced(a, b, t, r, i - 1, j)
  BY <1>1, <1>2, <1>3, <1>5, <1>6, <1>7, <1>8, TracedBeside
<1> QED
  BY <1>9 DEF e
-------------------------------------------------------------------------------
(* diff: the reversal.                                                         *)

Flipped(s) == [k \in 1..Len(s) |-> s[Len(s) + 1 - k]]

(* The script before the exchanges outside of i..j.                            *)
Unturned(s, i, j) ==
  [k \in 1..Len(s) |-> IF i <= k /\ k <= j THEN s[k] ELSE s[Len(s) + 1 - k]]

LEMMA FlippedIsScript ==
  ASSUME NEW s \in Seq(Op)
  PROVE  /\ Flipped(s) \in Seq(Op) /\ Len(Flipped(s)) = Len(s)
         /\ Len(s) \in Nat /\ DOMAIN s = 1..Len(s)
         /\ \A k \in 1..Len(s) :
              /\ Len(s) + 1 - k \in 1..Len(s) /\ Len(s) + 1 - (Len(s) + 1 - k) = k
              /\ Flipped(s)[k] = s[Len(s) + 1 - k]
<1>1. Len(s) \in Nat /\ DOMAIN s = 1..Len(s) /\ s \in [1..Len(s) -> Op]
  BY LenProperties
<1>2. \A k \in 1..Len(s) :
        Len(s) + 1 - k \in 1..Len(s) /\ Len(s) + 1 - (Len(s) + 1 - k) = k
  BY <1>1
<1>3. Flipped(s) \in [1..Len(s) -> Op]
  BY <1>1, <1>2 DEF Flipped
<1>4. Flipped(s) \in Seq(Op) /\ Len(Flipped(s)) = Len(s)
  BY <1>1, <1>3
<1> QED
  BY <1>1, <1>2, <1>4 DEF Flipped

LEMMA UnturnedStart ==
  ASSUME NEW s \in Seq(Op)
  PROVE  Unturned(s, 1, Len(s)) = s
<1>1. s \in [1..Len(s) -> Op]
  BY LenProperties
<1> QED
  BY <1>1 DEF Unturned

LEMMA UnturnedEnd ==
  ASSUME NEW s \in Seq(Op), NEW i \in Int, NEW j \in Int, i + j = Len(s) + 1, ~(i < j)
  PROVE  Unturned(s, i, j) = Flipped(s)
<1>1. Len(s) \in Nat
  BY LenProperties
<1>2. \A k \in 1..Len(s) : i <= k /\ k <= j => Len(s) + 1 - k = k
  BY <1>1
<1> QED
  BY <1>2 DEF Unturned, Flipped

LEMMA UnturnedExchange ==
  ASSUME NEW s \in Seq(Op), NEW i \in 1..Len(s), NEW j \in Int, i + j = Len(s) + 1, i < j
  PROVE  /\ Exchanged(s, i, j) \in Seq(Op) /\ Len(Exchanged(s, i, j)) = Len(s)
         /\ Unturned(Exchanged(s, i, j), i + 1, j - 1) = Unturned(s, i, j)
<1> DEFINE n == Len(s)
           r == Exchanged(s, i, j)
<1>1. /\ n \in Nat /\ s \in [1..n -> Op] /\ DOMAIN s = 1..n
      /\ j \in 1..n /\ i # j /\ n + 1 - i = j /\ n + 1 - j = i
  BY LenProperties
<1>2. /\ r \in [1..n -> Op]
      /\ r[i] = s[j] /\ r[j] = s[i]
      /\ \A k \in 1..n : k # i /\ k # j => r[k] = s[k]
  BY <1>1 DEF Exchanged
<1>3. r \in Seq(Op) /\ Len(r) = n
  BY <1>1, <1>2
<1> HIDE DEF r
<1>4. ASSUME NEW k \in 1..n
      PROVE  (IF i + 1 <= k /\ k <= j - 1 THEN r[k] ELSE r[n + 1 - k])
               = IF i <= k /\ k <= j THEN s[k] ELSE s[n + 1 - k]
  <2>1. CASE k = i
    BY <1>1, <1>2, <2>1
  <2>2. CASE k = j
    BY <1>1, <1>2, <2>2
  <2>3. CASE k # i /\ k # j
    <3>1. n + 1 - k \in 1..n /\ n + 1 - k # i /\ n + 1 - k # j
      BY <1>1, <2>3
    <3>2. r[k] = s[k] /\ r[n + 1 - k] = s[n + 1 - k]
      BY <1>2, <2>3, <3>1
    <3>3. (i + 1 <= k /\ k <= j - 1) <=> (i <= k /\ k <= j)
      BY <1>1, <2>3
    <3> QED
      BY <3>2, <3>3
  <2> QED
    BY <2>1, <2>2, <2>3
<1>5. Unturned(r, i + 1, j - 1) = Unturned(s, i, j)
  BY <1>3, <1>4 DEF Unturned
<1> QED
  BY <1>3, <1>5 DEF r

(* What was backwards in the script before the reversal is in order after it.   *)
LEMMA FlippedKeeps ==
  ASSUME NEW x \in Seq(Lines), NEW s \in Seq(Op), NEW ops,
         Backwards(x, 0, Marked(Flipped(s), ops), Flipped(s))
  PROVE  Keeps(x, Marked(s, ops), [k \in DOMAIN s |-> s[k].text])
<1> DEFINE n == Len(s)
           F == Flipped(s)
           texts == [k \in DOMAIN s |-> s[k].text]
<1>1. /\ n \in Nat /\ DOMAIN s = 1..n /\ F \in Seq(Op) /\ Len(F) = n
      /\ \A k \in 1..n : n + 1 - k \in 1..n /\ n + 1 - (n + 1 - k) = k /\ F[k] = s[n + 1 - k]
  BY FlippedIsScript
<1>2. DOMAIN F = 1..n /\ DOMAIN x = 1..Len(x) /\ Len(x) \in Nat
  BY <1>1, LenProperties
<1>3. After(x, 0) = DOMAIN x
  BY <1>2 DEF After
<1>4. PICK place \in [DOMAIN x -> Marked(F, ops)] :
        /\ \A m \in DOMAIN x : x[m] = F[place[m]].text
        /\ \A l, m \in DOMAIN x : l < m => place[m] < place[l]
        /\ \A k \in Marked(F, ops) : \E m \in DOMAIN x : place[m] = k
  BY <1>3 DEF Backwards
<1> HIDE DEF F
<1>5. \A k \in Marked(F, ops) : k \in 1..n /\ n + 1 - k \in Marked(s, ops)
  BY <1>1, <1>2 DEF Marked
<1>6. \A k \in Marked(s, ops) : k \in 1..n /\ n + 1 - k \in Marked(F, ops)
  BY <1>1, <1>2 DEF Marked
<1> DEFINE f == [m \in DOMAIN x |-> n + 1 - place[m]]
<1>7. \A m \in DOMAIN x : /\ f[m] = n + 1 - place[m] /\ place[m] \in Marked(F, ops)
                          /\ place[m] \in 1..n
  BY <1>4, <1>5
<1>8. f \in [DOMAIN x -> Marked(s, ops)]
  BY <1>5, <1>7
<1> HIDE DEF f
<1>9. \A m \in DOMAIN x : x[m] = texts[f[m]]
  BY <1>1, <1>4, <1>7
<1>10. ASSUME NEW l \in DOMAIN x, NEW m \in DOMAIN x, l < m
       PROVE  f[l] < f[m]
  <2>1. place[m] < place[l] /\ place[m] \in 1..n /\ place[l] \in 1..n
    BY <1>4, <1>7, <1>10
  <2> QED
    BY <1>1, <1>7, <2>1
<1>11. ASSUME NEW k \in Marked(s, ops)
       PROVE  \E m \in DOMAIN x : f[m] = k
  <2>1. PICK m \in DOMAIN x : place[m] = n + 1 - k
    BY <1>4, <1>6
  <2>2. f[m] = n + 1 - (n + 1 - k)
    BY <1>7, <2>1
  <2>3. n + 1 - (n + 1 - k) = k
    BY <1>1, <1>6
  <2> QED
    BY <2>2, <2>3
<1> HIDE DEF texts
<1> QED
  BY <1>8, <1>9, <1>10, <1>11 DEF Keeps, texts

LEMMA FlippedCount ==
  ASSUME NEW s \in Seq(Op), NEW ops
  PROVE  /\ Cardinality(Marked(s, ops)) \in Nat /\ Cardinality(Marked(Flipped(s), ops)) \in Nat
         /\ Cardinality(Marked(Flipped(s), ops)) <= Cardinality(Marked(s, ops))
<1> DEFINE n == Len(s)
           F == Flipped(s)
           R == Marked(F, ops)
           S == Marked(s, ops)
<1>1. /\ n \in Nat /\ DOMAIN s = 1..n /\ F \in Seq(Op) /\ Len(F) = n
      /\ \A k \in 1..n : n + 1 - k \in 1..n /\ n + 1 - (n + 1 - k) = k /\ F[k] = s[n + 1 - k]
  BY FlippedIsScript
<1>2. DOMAIN F = 1..n
  BY <1>1, LenProperties
<1>3. R \subseteq 1..n /\ S \subseteq 1..n /\ \A k \in R : n + 1 - k \in S
  BY <1>1, <1>2 DEF Marked
<1> DEFINE f == [k \in R |-> n + 1 - k]
<1> HIDE DEF R, S
<1>4. f \in [R -> S] /\ \A k, l \in R : f[k] = f[l] => k = l
  BY <1>1, <1>3
<1>5. f \in Injection(R, S)
  BY <1>4, Fun_IsInj
<1>6. IsFiniteSet(1..n)
  BY <1>1, FS_Interval
<1>7. IsFiniteSet(S)
  BY <1>3, <1>6, FS_Subset
<1>8. IsFiniteSet(R)
  BY <1>3, <1>6, FS_Subset
<1>9. Cardinality(R) <= Cardinality(S)
  BY <1>5, <1>7, FS_Injection
<1> QED
  BY <1>7, <1>8, <1>9, FS_CardinalityType DEF R, S

(* A script that has been traced to the beginning and reversed is a minimal     *)
(* difference of a and b.                                                      *)
LEMMA FlippedIsMinimal ==
  ASSUME NEW a \in Seq(Lines), NEW b \in Seq(Lines),
         NEW t \in TableFor(a, b), Complete(t, a, b),
         NEW s \in Seq(Op), Traced(a, b, t, Flipped(s), 0, 0)
  PROVE  LET texts == [k \in DOMAIN s |-> s[k].text] IN
         /\ Keeps(a, Marked(s, {Space, "-"}), texts)
         /\ Keeps(b, Marked(s, {Space, "+"}), texts)
         /\ \A S \in CommonPlaces(a, b) : Cardinality(S) <= Cardinality(Marked(s, {Space}))
         /\ (\A k \in DOMAIN s : s[k].op = Space) <=> a = b
<1> DEFINE F == Flipped(s)
           texts == [k \in DOMAIN s |-> s[k].text]
<1>1. /\ Len(s) \in Nat /\ DOMAIN s = 1..Len(s) /\ F \in Seq(Op) /\ Len(F) = Len(s)
      /\ \A k \in 1..Len(s) :
           /\ Len(s) + 1 - k \in 1..Len(s) /\ Len(s) + 1 - (Len(s) + 1 - k) = k
           /\ F[k] = s[Len(s) + 1 - k]
  BY FlippedIsScript
<1>2. Len(a) \in Nat /\ Len(b) \in Nat /\ DOMAIN a = 1..Len(a) /\ DOMAIN b = 1..Len(b)
  BY LenProperties
<1>3. Keeps(a, Marked(s, {Space, "-"}), texts) /\ Keeps(b, Marked(s, {Space, "+"}), texts)
  BY FlippedKeeps DEF Traced
<1>4. ASSUME NEW S \in CommonPlaces(a, b)
      PROVE  Cardinality(S) <= Cardinality(Marked(s, {Space}))
  <2> DEFINE c == Cardinality(Marked(s, {Space}))
             d == Cardinality(Marked(F, {Space}))
             l == t[Len(a)][Len(b)]
             h == Cardinality(S)
  <2>1. S \subseteq (1..Len(a)) \X (1..Len(b))
    BY <1>2 DEF CommonPlaces
  <2>2. h <= l /\ h \in Nat
    <3>1. S \in CommonUpTo(a, b, Len(a), Len(b))
      BY <2>1 DEF CommonUpTo
    <3>2. h <= l
      BY <3>1, CompleteCells DEF AtMost
    <3>3. h \in Nat
      BY <1>2, <2>1, CommonAreFinite
    <3> QED
      BY <3>2, <3>3
  <2>3. d + t[0][0] = l /\ t[0][0] = 0
    <3>1. d + t[0][0] = l
      BY DEF Traced
    <3>2. 0 \in 0..Len(a) /\ 0 \in 0..Len(b)
      BY <1>2
    <3>3. t[0][0] = 0
      BY <3>2, CompleteCells
    <3> QED
      BY <3>1, <3>3
  <2>4. c \in Nat /\ d \in Nat /\ d <= c
    BY FlippedCount
  <2> HIDE DEF c, d, l, h
  <2>5. h <= c
    BY <2>2, <2>3, <2>4
  <2> QED
    BY <2>5 DEF c, h
<1>5. (\A k \in DOMAIN s : s[k].op = Space) <=> (\A k \in 1..Len(F) : F[k].op = Space)
  <2>1. ASSUME \A k \in DOMAIN s : s[k].op = Space, NEW k \in 1..Len(F)
        PROVE  F[k].op = Space
    <3>1. k \in 1..Len(s)
      BY <1>1
    <3>2. F[k] = s[Len(s) + 1 - k] /\ Len(s) + 1 - k \in DOMAIN s
      BY <1>1, <3>1
    <3> QED
      BY <2>1, <3>2
  <2>2. ASSUME \A k \in 1..Len(F) : F[k].op = Space, NEW k \in DOMAIN s
        PROVE  s[k].op = Space
    <3>1. k \in 1..Len(s)
      BY <1>1
    <3>2. F[Len(s) + 1 - k] = s[Len(s) + 1 - (Len(s) + 1 - k)]
      BY <1>1, <3>1
    <3>3. Len(s) + 1 - (Len(s) + 1 - k) = k /\ Len(s) + 1 - k \in 1..Len(F)
      BY <1>1, <3>1
    <3> QED
      BY <2>2, <3>2, <3>3
  <2> QED
    BY <2>1, <2>2
<1> HIDE DEF F
<1>6. ASSUME \A k \in 1..Len(F) : F[k].op = Space
      PROVE  a = b
  <2>1. /\ Len(F) = Len(a) - 0 /\ Len(F) = Len(b) - 0
        /\ \A k \in 1..Len(F) : a[Len(a) + 1 - k] = b[Len(b) + 1 - k]
    BY <1>6 DEF Traced, F
  <2>2. Len(F) = Len(a) /\ Len(a) = Len(b)
    <3>1. Len(F) = Len(a) - 0 /\ Len(F) = Len(b) - 0
      BY <2>1
    <3>2. Len(a) - 0 = Len(a) /\ Len(b) - 0 = Len(b)
      BY <1>2
    <3> QED
      BY <3>1, <3>2
  <2>3. ASSUME NEW k \in 1..Len(a) PROVE a[k] = b[k]
    <3>1. Len(a) + 1 - k \in 1..Len(F) /\ Len(a) + 1 - (Len(a) + 1 - k) = k
      BY <1>2, <2>2
    <3>2. a[Len(a) + 1 - (Len(a) + 1 - k)] = b[Len(b) + 1 - (Len(a) + 1 - k)]
      BY <2>1, <3>1
    <3> QED
      BY <2>2, <3>1, <3>2
  <2> QED
    BY <2>2, <2>3, SeqEqual
<1>7. a = b => \A k \in 1..Len(F) : F[k].op = Space
  BY DEF Traced, F
<1> QED
  BY <1>3, <1>4, <1>5, <1>6, <1>7
-------------------------------------------------------------------------------
(* diff: the lines asked for.                                                  *)

Bound   == Ints \cup {NotGiven}
Bounded == Bound \X Bound

(* The slice expression takes what is asked for.                               *)
LEMMA CutIsAsked ==
  ASSUME NEW t \in Seq(Lines), NEW r \in Bounded, Cuts(r, t)
  PROVE  LET x == SubSeq(t, Start(r) + 1, End(r, t))
         IN  x \in Seq(Lines) /\ IsAsked(x, r, t)
<1> DEFINE lo == Start(r)
           hi == End(r, t)
           n == Len(t)
           x == SubSeq(t, lo + 1, hi)
           S == {k \in DOMAIN t : /\ r[1] = NotGiven \/ r[1] <= k - 1
                                  /\ r[2] = NotGiven \/ k - 1 < r[2]}
<1>1. /\ n \in Nat /\ DOMAIN t = 1..n
      /\ r[1] = NotGiven \/ (r[1] \in Int /\ r[1] # NotGiven)
      /\ r[2] = NotGiven \/ (r[2] \in Int /\ r[2] # NotGiven)
  <2>1. \A v \in Ints : v \in Int /\ v # NotGiven
    BY FileTreeAssumption, LineDiffAssumption DEF Ints
  <2>2. r[1] \in Bound /\ r[2] \in Bound
    BY DEF Bounded
  <2> QED
    BY <2>1, <2>2, LenProperties DEF Bound
<1>2. /\ lo \in Nat /\ \A k \in Nat : lo <= k <=> r[1] = NotGiven \/ r[1] <= k
  <2>1. CASE r[1] = NotGiven
    BY <2>1 DEF Start
  <2>2. CASE r[1] # NotGiven
    BY <1>1, <2>2 DEF Start
  <2> QED
    BY <2>1, <2>2
<1>3. /\ hi \in Int /\ hi <= n
      /\ \A k \in 0..(n - 1) : k < hi <=> r[2] = NotGiven \/ k < r[2]
  <2>1. CASE r[2] = NotGiven
    BY <1>1, <2>1 DEF End
  <2>2. CASE r[2] # NotGiven
    BY <1>1, <2>2 DEF End
  <2> QED
    BY <2>1, <2>2
<1>4. lo <= hi
  BY DEF Cuts
<1> HIDE DEF lo, hi, n
<1>5. \A k \in (lo + 1)..hi : t[k] \in Lines
  <2>1. \A k \in (lo + 1)..hi : k \in 1..n
    BY <1>1, <1>2, <1>3
  <2> QED
    BY <2>1, ElementOfSeq DEF n
<1>6. /\ x \in Seq(Lines) /\ Len(x) = hi - lo
      /\ \A m \in 1..(hi - lo) : x[m] = t[lo + m]
  <2>1. /\ x \in Seq(Lines)
        /\ Len(x) = IF lo + 1 <= hi THEN hi - (lo + 1) + 1 ELSE 0
        /\ \A m \in 1..(hi - (lo + 1) + 1) : x[m] = t[lo + 1 + m - 1]
    BY <1>2, <1>3, <1>5, SubSeqProperties
  <2>2. hi - (lo + 1) + 1 = hi - lo /\ (~(lo + 1 <= hi) => hi - lo = 0)
    BY <1>2, <1>3, <1>4
  <2>3. \A m \in 1..(hi - lo) : lo + 1 + m - 1 = lo + m
    BY <1>2, <1>3
  <2> QED
    BY <2>1, <2>2, <2>3
<1>7. DOMAIN x = 1..(hi - lo)
  BY <1>6, LenProperties
<1>8. ASSUME NEW k \in 1..n
      PROVE  k \in S <=> lo < k /\ k <= hi
  <2>1. k - 1 \in Nat /\ k - 1 \in 0..(n - 1)
    BY <1>1
  <2>2. k \in S <=> lo <= k - 1 /\ k - 1 < hi
    BY <1>1, <1>2, <1>3, <2>1
  <2> QED
    BY <1>1, <1>2, <1>3, <2>2
<1>9. S \subseteq 1..n
  BY <1>1
<1> HIDE DEF x, S
<1> DEFINE place == [m \in 1..(hi - lo) |-> lo + m]
<1>10. \A m \in 1..(hi - lo) : place[m] = lo + m /\ lo + m \in 1..n /\ lo + m \in S
  BY <1>1, <1>2, <1>3, <1>8
<1>11. place \in [DOMAIN x -> S]
  BY <1>7, <1>10
<1>12. \A m \in DOMAIN x : x[m] = t[place[m]]
  BY <1>6, <1>7, <1>10
<1>13. \A l, m \in DOMAIN x : l < m => place[l] < place[m]
  BY <1>2, <1>7, <1>10
<1>14. ASSUME NEW k \in S PROVE \E m \in DOMAIN x : place[m] = k
  <2>1. k \in 1..n /\ lo < k /\ k <= hi
    BY <1>8, <1>9
  <2>2. k - lo \in 1..(hi - lo) /\ lo + (k - lo) = k
    BY <1>1, <1>2, <1>3, <2>1
  <2> QED
    BY <1>7, <1>10, <2>2
<1> HIDE DEF place
<1>15. Keeps(x, S, t)
  BY <1>11, <1>12, <1>13, <1>14 DEF Keeps
<1> QED
  BY <1>6, <1>15 DEF IsAsked, S, x, lo, hi

(* What nobody has touched is as it was.                                       *)
LEMMA UntouchedIsKept ==
  ASSUME TreeInv, Others, NEW n \in Nodes, n \notin touched'
  PROVE  n \notin touched /\ tree'[n] = tree[n]
<1>1. PICK u \in Nodes : Rewrite(u) \/ MakeDir(u) \/ Remove(u)
  BY FileTreeAssumption DEF Others
<1>2. touched' = touched \cup Below(u)
  BY <1>1 DEF Rewrite, MakeDir, Remove, Touch
<1>3. u \in Below(u) /\ n \notin Below(u) /\ n # u
  BY <1>2 DEF Below
<1>4. ASSUME NEW v, Put(u, v) PROVE tree'[n] = tree[n]
  BY <1>3, <1>4 DEF Put, TreeInv
<1>5. CASE Rewrite(u) \/ MakeDir(u)
  BY <1>2, <1>4, <1>5 DEF Rewrite, MakeDir
<1>6. CASE Remove(u)
  BY <1>2, <1>3, <1>6 DEF Remove
<1> QED
  BY <1>1, <1>5, <1>6
-------------------------------------------------------------------------------
(* diff: the invariant.                                                        *)

(* The handler's state.  The table has no one type: Filled says which it has.   *)
Diff(path, range, table) ==
  [pc : {"idle", "readA", "readB", "cut", "fill", "trace", "reverse", "done"},
   path : {path}, range : {range}, a : Seq(Lines), b : Seq(Lines), table : {table},
   i : Int, j : Int, script : Seq(Op),
   reply : {"none", "error", "panic", "changes", "identical"}]

Reads    == {"readA", "readB", "cut"}
Computes == {"fill", "trace", "reverse"}
Compared == diff.pc \in Computes \/ diff.reply \in {"changes", "identical"}

DiffTypeOK ==
  /\ diff \in Diff(diff.path, diff.range, diff.table)
  /\ diff.path.a \in Nodes /\ diff.path.b \in Nodes
  /\ diff.pc \in Reads => diff.range.a \in Bounded /\ diff.range.b \in Bounded
  /\ diff.pc # "done" => diff.reply = "none"

(* What has been read is what the tree had, and then what was asked for of it.  *)
DiffTexts ==
  /\ diff.pc \in {"readB", "cut"} /\ diff.path.a \notin touched =>
       diff.a = tree[diff.path.a]
  /\ diff.pc = "cut" /\ diff.path.b \notin touched => diff.b = tree[diff.path.b]
  /\ Compared /\ diff.path.a \notin touched =>
       IsAsked(diff.a, diff.range.a, tree[diff.path.a])
  /\ Compared /\ diff.path.b \notin touched =>
       IsAsked(diff.b, diff.range.b, tree[diff.path.b])

(* How far the table is filled, the script traced and reversed.                *)
DiffScript ==
  /\ diff.pc \in Reads \cup {"fill"} => diff.script = <<>>
  /\ diff.pc = "fill" =>
       /\ diff.i \in 1..(Len(diff.a) + 1) /\ diff.j \in 1..(Len(diff.b) + 1)
       /\ Filled(diff.table, diff.a, diff.b, diff.i, diff.j)
  /\ diff.pc \in {"trace", "reverse"} \/ diff.reply \in {"changes", "identical"} =>
       diff.table \in TableFor(diff.a, diff.b) /\ Complete(diff.table, diff.a, diff.b)
  /\ diff.pc = "trace" =>
       Traced(diff.a, diff.b, diff.table, diff.script, diff.i, diff.j)
  /\ diff.pc = "reverse" =>
       /\ diff.i >= 1 /\ diff.i + diff.j = Len(diff.script) + 1
       /\ Traced(diff.a, diff.b, diff.table, Unturned(diff.script, diff.i, diff.j), 0, 0)
  /\ diff.reply \in {"changes", "identical"} =>
       /\ Traced(diff.a, diff.b, diff.table, Flipped(diff.script), 0, 0)
       /\ diff.reply = "identical" <=> \A k \in DOMAIN diff.script : diff.script[k].op = Space

DiffInv == DiffTypeOK /\ DiffTexts /\ DiffScript
LEMMA NoDiffIsDiff == NoDiff \in Diff(NoDiff.path, NoDiff.range, <<>>)
<1>1. <<>> \in Seq(Lines) /\ <<>> \in Seq(Op)
  BY EmptySeq
<1> QED
  BY <1>1 DEF NoDiff, Diff

(* The updates that the steps make of the record.                              *)
LEMMA DiffUpdates ==
  ASSUME NEW path, NEW range, NEW table, NEW d \in Diff(path, range, table), NEW t,
         NEW i \in Int, NEW j \in Int
  PROVE  /\ [d EXCEPT !.table = t, !.i = i, !.j = j] \in Diff(path, range, t)
         /\ \A pc \in {"trace", "reverse"} :
              [d EXCEPT !.pc = pc, !.i = i, !.j = j] \in Diff(path, range, table)
         /\ \A p, r : [d EXCEPT !.pc = "readA", !.path = p, !.range = r] \in Diff(p, r, table)
         /\ \A v \in {"error", "panic"} :
              [d EXCEPT !.pc = "done", !.reply = v] \in Diff(path, range, table)
         /\ \A a \in Seq(Lines), b \in Seq(Lines) :
              [d EXCEPT !.pc = "fill", !.a = a, !.b = b, !.i = i, !.j = j, !.table = t]
                \in Diff(path, range, t)
<1>1. [d EXCEPT !.table = t, !.i = i, !.j = j] \in Diff(path, range, t)
  BY DEF Diff
<1>2. ASSUME NEW pc \in {"trace", "reverse"}
      PROVE  [d EXCEPT !.pc = pc, !.i = i, !.j = j] \in Diff(path, range, table)
  BY DEF Diff
<1>3. ASSUME NEW p, NEW r
      PROVE  [d EXCEPT !.pc = "readA", !.path = p, !.range = r] \in Diff(p, r, table)
  BY DEF Diff
<1>4. ASSUME NEW v \in {"error", "panic"}
      PROVE  [d EXCEPT !.pc = "done", !.reply = v] \in Diff(path, range, table)
  BY DEF Diff
<1>5. ASSUME NEW a \in Seq(Lines), NEW b \in Seq(Lines)
      PROVE  [d EXCEPT !.pc = "fill", !.a = a, !.b = b, !.i = i, !.j = j, !.table = t]
               \in Diff(path, range, t)
  BY DEF Diff
<1> QED
  BY <1>1, <1>3, <1>4, <1>5, <1>2

LEMMA DiffInvInit == Init => DiffInv
<1> SUFFICES ASSUME Init PROVE DiffInv
  OBVIOUS
<1>1. diff = NoDiff /\ \A X : <<>> \in Seq(X)
  BY EmptySeq DEF Init
<1>2. /\ diff \in Diff(diff.path, diff.range, diff.table)
      /\ diff.path.a \in Nodes /\ diff.path.b \in Nodes
      /\ diff.pc = "idle" /\ diff.reply = "none"
  BY <1>1, FileTreeAssumption DEF NoDiff, Diff
<1> QED
  BY <1>2 DEF DiffInv, DiffTypeOK, DiffTexts, DiffScript, Compared, Reads, Computes

LEMMA DiffInvBegin ==
  ASSUME NEW r \in DiffRequests, BeginDiff(r)
  PROVE  DiffInv'
<1>1. r.path.a \in Nodes /\ r.path.b \in Nodes /\ r.range.a \in Bounded /\ r.range.b \in Bounded
  BY LineDiffAssumption DEF Bounded, Bound
<1>2. /\ diff' = [NoDiff EXCEPT !.pc = "readA", !.path = r.path, !.range = r.range]
      /\ \A X : <<>> \in Seq(X)
  BY EmptySeq DEF BeginDiff
<1>3. /\ diff'.path = r.path /\ diff'.range = r.range /\ diff'.table = <<>>
      /\ diff'.pc = "readA" /\ diff'.reply = "none" /\ diff'.script = <<>>
  BY <1>2 DEF NoDiff
<1>4. diff' \in Diff(r.path, r.range, <<>>)
  <2>1. 0 \in Int
    OBVIOUS
  <2> QED
    BY <1>2, <2>1, NoDiffIsDiff, DiffUpdates
<1> QED
  BY <1>1, <1>3, <1>4 DEF DiffInv, DiffTypeOK, DiffTexts, DiffScript, Compared, Reads, Computes

(* The end without an answer.                                                  *)
LEMMA DiffInvEnd ==
  ASSUME NEW v \in {"error", "panic"}, EndDiff(v)
  PROVE  DiffInv'
<1>1. diff' = [NoDiff EXCEPT !.pc = "done", !.reply = v] /\ \A X : <<>> \in Seq(X)
  BY EmptySeq DEF EndDiff
<1>2. /\ diff'.path = NoDiff.path /\ diff'.range = NoDiff.range /\ diff'.table = <<>>
      /\ diff'.pc = "done" /\ diff'.reply = v
  BY <1>1 DEF NoDiff
<1>3. NoDiff.path.a \in Nodes /\ NoDiff.path.b \in Nodes
  BY FileTreeAssumption DEF NoDiff
<1>4. diff' \in Diff(NoDiff.path, NoDiff.range, <<>>)
  <2>1. 0 \in Int
    OBVIOUS
  <2> QED
    BY <1>1, <2>1, NoDiffIsDiff, DiffUpdates
<1> QED
  BY <1>2, <1>3, <1>4 DEF DiffInv, DiffTypeOK, DiffTexts, DiffScript, Compared, Reads, Computes

LEMMA TextsAreLines ==
  ASSUME TreeInv, NEW n \in Nodes, IsFile(n)
  PROVE  tree[n] \in Seq(Lines)
BY FilesAreContents, ContentsAreTexts DEF IsText

LEMMA DiffInvReadA ==
  ASSUME DiffInv, TreeInv, ReadA
  PROVE  DiffInv'
<1> DEFINE n == diff.path.a
<1>1. /\ diff \in Diff(diff.path, diff.range, diff.table) /\ diff.pc = "readA"
      /\ n \in Nodes /\ diff.path.b \in Nodes
      /\ diff.range.a \in Bounded /\ diff.range.b \in Bounded
      /\ diff.reply = "none" /\ diff.script = <<>>
      /\ tree' = tree /\ touched' = touched
  BY DEF ReadA, DiffInv, DiffTypeOK, DiffScript, Reads, treeVars
<1>2. CASE EndDiff("error")
  BY <1>2, DiffInvEnd
<1>3. CASE IsFile(n) /\ diff' = [diff EXCEPT !.pc = "readB", !.a = tree[n]]
  <2>1. tree[n] \in Seq(Lines)
    BY <1>1, <1>3, TextsAreLines
  <2>2. /\ diff' \in Diff(diff.path, diff.range, diff.table)
        /\ diff'.pc = "readB" /\ diff'.a = tree[n] /\ diff'.reply = "none"
        /\ diff'.path = diff.path /\ diff'.range = diff.range /\ diff'.table = diff.table
        /\ diff'.script = <<>>
    BY <1>1, <1>3, <2>1 DEF Diff
  <2> QED
    BY <1>1, <2>2 DEF DiffInv, DiffTypeOK, DiffTexts, DiffScript, Compared, Reads, Computes
<1> QED
  BY <1>2, <1>3 DEF ReadA

LEMMA DiffInvReadB ==
  ASSUME DiffInv, TreeInv, ReadB
  PROVE  DiffInv'
<1> DEFINE n == diff.path.b
<1>1. /\ diff \in Diff(diff.path, diff.range, diff.table) /\ diff.pc = "readB"
      /\ n \in Nodes /\ diff.path.a \in Nodes
      /\ diff.range.a \in Bounded /\ diff.range.b \in Bounded
      /\ diff.reply = "none" /\ diff.script = <<>>
      /\ diff.path.a \notin touched => diff.a = tree[diff.path.a]
      /\ tree' = tree /\ touched' = touched
  BY DEF ReadB, DiffInv, DiffTypeOK, DiffTexts, DiffScript, Reads, treeVars
<1>2. CASE EndDiff("error")
  BY <1>2, DiffInvEnd
<1>3. CASE IsFile(n) /\ diff' = [diff EXCEPT !.pc = "cut", !.b = tree[n]]
  <2>1. tree[n] \in Seq(Lines)
    BY <1>1, <1>3, TextsAreLines
  <2>2. /\ diff' \in Diff(diff.path, diff.range, diff.table)
        /\ diff'.pc = "cut" /\ diff'.b = tree[n] /\ diff'.a = diff.a /\ diff'.reply = "none"
        /\ diff'.path = diff.path /\ diff'.range = diff.range /\ diff'.table = diff.table
        /\ diff'.script = <<>>
    BY <1>1, <1>3, <2>1 DEF Diff
  <2> QED
    BY <1>1, <2>2 DEF DiffInv, DiffTypeOK, DiffTexts, DiffScript, Compared, Reads, Computes
<1> QED
  BY <1>2, <1>3 DEF ReadB

LEMMA DiffInvCut ==
  ASSUME DiffInv, Cut
  PROVE  DiffInv'
<1> DEFINE ra == diff.range.a
           rb == diff.range.b
           a == SubSeq(diff.a, Start(ra) + 1, End(ra, diff.a))
           b == SubSeq(diff.b, Start(rb) + 1, End(rb, diff.b))
           t == [i \in 0..Len(a) |-> [j \in 0..Len(b) |-> 0]]
<1>1. /\ diff \in Diff(diff.path, diff.range, diff.table) /\ diff.pc = "cut"
      /\ diff.path.a \in Nodes /\ diff.path.b \in Nodes
      /\ ra \in Bounded /\ rb \in Bounded
      /\ diff.reply = "none" /\ diff.script = <<>>
      /\ diff.path.a \notin touched => diff.a = tree[diff.path.a]
      /\ diff.path.b \notin touched => diff.b = tree[diff.path.b]
      /\ tree' = tree /\ touched' = touched
  BY DEF Cut, DiffInv, DiffTypeOK, DiffTexts, DiffScript, Reads, treeVars
<1>2. CASE EndDiff("panic")
  BY <1>2, DiffInvEnd
<1>3. CASE /\ Cuts(ra, diff.a) /\ Cuts(rb, diff.b)
           /\ diff' = [diff EXCEPT !.pc = "fill", !.a = a, !.b = b, !.i = 1, !.j = 1,
                          !.table = t]
  <2>1. diff.a \in Seq(Lines) /\ diff.b \in Seq(Lines)
    BY <1>1 DEF Diff
  <2>2. /\ a \in Seq(Lines) /\ IsAsked(a, ra, diff.a)
        /\ b \in Seq(Lines) /\ IsAsked(b, rb, diff.b)
    BY <1>1, <1>3, <2>1, CutIsAsked
  <2>3. Filled(t, a, b, 1, 1)
    BY <2>2, FilledStart
  <2> HIDE DEF a, b, t
  <2>4. 1 \in 1..(Len(a) + 1) /\ 1 \in 1..(Len(b) + 1)
    <3>1. Len(a) \in Nat /\ Len(b) \in Nat
      BY <2>2, LenProperties
    <3> QED
      BY <3>1
  <2>5. /\ diff'.pc = "fill" /\ diff'.a = a /\ diff'.b = b /\ diff'.reply = "none"
        /\ diff'.i = 1 /\ diff'.j = 1 /\ diff'.table = t
        /\ diff'.path = diff.path /\ diff'.range = diff.range /\ diff'.script = <<>>
    BY <1>1, <1>3 DEF Diff
  <2>6. diff' \in Diff(diff.path, diff.range, t)
    <3>1. 1 \in Int
      OBVIOUS
    <3> QED
      BY <1>1, <1>3, <2>2, <3>1, DiffUpdates
  <2>7. DiffTypeOK'
    BY <1>1, <2>5, <2>6 DEF DiffTypeOK, Reads
  <2>8. DiffTexts'
    BY <1>1, <2>2, <2>5 DEF DiffTexts, Compared
  <2>9. DiffScript'
    BY <2>3, <2>4, <2>5 DEF DiffScript
  <2> QED
    BY <2>7, <2>8, <2>9 DEF DiffInv
<1> QED
  BY <1>2, <1>3 DEF Cut

(* The steps that compute touch neither the tree nor the files compared.        *)
LEMMA DiffTextsKept ==
  ASSUME DiffInv, UNCHANGED treeVars, Compared,
         diff'.path = diff.path, diff'.range = diff.range, diff'.a = diff.a, diff'.b = diff.b,
         diff'.pc \in Computes \cup {"done"}
  PROVE  DiffTexts'
BY DEF DiffInv, DiffTexts, treeVars, Computes, Compared

LEMMA DiffInvFillCell ==
  ASSUME DiffInv, FillCell
  PROVE  DiffInv'
<1> DEFINE a == diff.a
           b == diff.b
           t == diff.table
           i == diff.i
           j == diff.j
<1>1. /\ diff \in Diff(diff.path, diff.range, t) /\ diff.pc = "fill"
      /\ diff.path.a \in Nodes /\ diff.path.b \in Nodes
      /\ diff.reply = "none" /\ diff.script = <<>>
      /\ Filled(t, a, b, i, j) /\ Compared
      /\ UNCHANGED treeVars
  BY DEF FillCell, DiffInv, DiffTypeOK, DiffScript, Compared, Computes
<1>2. /\ a \in Seq(Lines) /\ b \in Seq(Lines) /\ Len(a) \in Nat /\ Len(b) \in Nat
      /\ i \in 1..Len(a) /\ j \in 1..(Len(b) + 1)
  <2>1. a \in Seq(Lines) /\ b \in Seq(Lines)
    BY <1>1 DEF Diff
  <2>2. i \in 1..(Len(a) + 1) /\ j \in 1..(Len(b) + 1) /\ i <= Len(a)
    BY DEF FillCell, DiffInv, DiffScript
  <2> QED
    BY <2>1, <2>2, LenProperties
<1>3. ASSUME NEW u, NEW k \in 1..(Len(a) + 1), NEW l \in 1..(Len(b) + 1),
             diff' = [diff EXCEPT !.table = u, !.i = k, !.j = l],
             Filled(u, a, b, k, l)
      PROVE  DiffInv'
  <2>1. /\ diff'.pc = "fill" /\ diff'.a = a /\ diff'.b = b /\ diff'.reply = "none"
        /\ diff'.i = k /\ diff'.j = l /\ diff'.table = u
        /\ diff'.path = diff.path /\ diff'.range = diff.range /\ diff'.script = <<>>
    BY <1>1, <1>3 DEF Diff
  <2>2. diff' \in Diff(diff.path, diff.range, u)
    <3>1. k \in Int /\ l \in Int
      OBVIOUS
    <3> QED
      BY <1>1, <1>3, <3>1, DiffUpdates
  <2>3. DiffTypeOK'
    BY <1>1, <2>1, <2>2 DEF DiffTypeOK, Reads
  <2>4. DiffTexts'
    BY <1>1, <2>1, DiffTextsKept DEF Computes
  <2>5. DiffScript'
    BY <1>3, <2>1 DEF DiffScript
  <2> QED
    BY <2>3, <2>4, <2>5 DEF DiffInv
<1>4. CASE /\ j <= Len(b)
           /\ diff' = [diff EXCEPT !.table[diff.i][diff.j] = Cell(diff.i, diff.j), !.j = @ + 1]
  <2> DEFINE u == [t EXCEPT ![i][j] = Best(t, a, b, i, j)]
  <2>1. Cell(i, j) = Best(t, a, b, i, j)
    BY DEF Cell, Same, T, Best
  <2>2. diff' = [diff EXCEPT !.table = u, !.i = i, !.j = j + 1]
    BY <1>1, <1>4, <2>1 DEF Diff
  <2>3. j \in 1..Len(b) /\ j + 1 \in 1..(Len(b) + 1) /\ i \in 1..(Len(a) + 1)
    BY <1>2, <1>4
  <2>4. Filled(u, a, b, i, j + 1)
    BY <1>1, <1>2, <2>3, FilledCell
  <2> QED
    BY <1>3, <2>2, <2>3, <2>4
<1>5. CASE j > Len(b) /\ diff' = [diff EXCEPT !.i = @ + 1, !.j = 1]
  <2>1. diff' = [diff EXCEPT !.table = t, !.i = i + 1, !.j = 1]
    BY <1>1, <1>5 DEF Diff
  <2>2. i + 1 \in 1..(Len(a) + 1) /\ 1 \in 1..(Len(b) + 1) /\ i \in Nat /\ j \in Nat
    BY <1>2
  <2>3. Filled(t, a, b, i + 1, 1)
    BY <1>1, <1>2, <1>5, <2>2, FilledRow
  <2> QED
    BY <1>3, <2>1, <2>2, <2>3
<1> QED
  BY <1>4, <1>5 DEF FillCell

LEMMA DiffInvTableDone ==
  ASSUME DiffInv, TableDone
  PROVE  DiffInv'
<1> DEFINE a == diff.a
           b == diff.b
           t == diff.table
<1>1. /\ diff \in Diff(diff.path, diff.range, t) /\ diff.pc = "fill"
      /\ diff.path.a \in Nodes /\ diff.path.b \in Nodes
      /\ diff.reply = "none" /\ diff.script = <<>>
      /\ Filled(t, a, b, diff.i, diff.j) /\ Compared
      /\ UNCHANGED treeVars
  BY DEF TableDone, DiffInv, DiffTypeOK, DiffScript, Compared, Computes
<1>2. a \in Seq(Lines) /\ b \in Seq(Lines)
  BY <1>1 DEF Diff
<1>3. Len(a) \in Nat /\ Len(b) \in Nat
  BY <1>2, LenProperties
<1>4. diff' = [diff EXCEPT !.pc = "trace", !.i = Len(a), !.j = Len(b)]
  BY DEF TableDone
<1>5. t \in TableFor(a, b) /\ Complete(t, a, b)
  <2>1. diff.i \in 1..(Len(a) + 1) /\ diff.i > Len(a)
    BY <1>1 DEF DiffInv, DiffScript, TableDone
  <2>2. \A x \in 1..Len(a) : x < diff.i
    BY <1>3, <2>1
  <2> QED
    BY <1>1, <2>2 DEF Filled, Complete
<1>6. Traced(a, b, t, <<>>, Len(a), Len(b))
  BY <1>2, <1>5, TracedStart
<1>7. diff' \in Diff(diff.path, diff.range, t)
  <2>1. diff \in Diff(diff.path, diff.range, t) /\ Len(a) \in Int /\ Len(b) \in Int
    BY <1>1, <1>3
  <2>2. [diff EXCEPT !.pc = "trace", !.i = Len(a), !.j = Len(b)] \in Diff(diff.path, diff.range, t)
    BY <2>1, DiffUpdates
  <2> QED
    BY <1>4, <2>2
<1>8. /\ diff'.pc = "trace" /\ diff'.a = a /\ diff'.b = b /\ diff'.reply = "none"
      /\ diff'.i = Len(a) /\ diff'.j = Len(b) /\ diff'.table = t
      /\ diff'.path = diff.path /\ diff'.range = diff.range /\ diff'.script = <<>>
  BY <1>1, <1>3, <1>4 DEF Diff
<1>9. DiffTypeOK'
  BY <1>1, <1>8, <1>7 DEF DiffTypeOK, Reads
<1>10. DiffTexts'
  BY <1>1, <1>8, DiffTextsKept DEF Computes
<1>11. DiffScript'
  BY <1>5, <1>6, <1>8 DEF DiffScript, Reads
<1> QED
  BY <1>9, <1>10, <1>11 DEF DiffInv

LEMMA DiffInvTrace ==
  ASSUME DiffInv, Trace
  PROVE  DiffInv'
<1> DEFINE a == diff.a
           b == diff.b
           t == diff.table
           i == diff.i
           j == diff.j
           s == diff.script
<1>1. /\ diff \in Diff(diff.path, diff.range, t) /\ diff.pc = "trace"
      /\ diff.path.a \in Nodes /\ diff.path.b \in Nodes
      /\ diff.reply = "none"
      /\ t \in TableFor(a, b) /\ Complete(t, a, b) /\ Traced(a, b, t, s, i, j)
      /\ Compared /\ UNCHANGED treeVars
  BY DEF Trace, DiffInv, DiffTypeOK, DiffScript, Compared, Computes
<1>2. /\ a \in Seq(Lines) /\ b \in Seq(Lines) /\ s \in Seq(Op)
      /\ i \in 0..Len(a) /\ j \in 0..Len(b)
  BY <1>1 DEF Diff, Traced
<1>3. ASSUME NEW e, NEW k, NEW l,
             diff' = [diff EXCEPT !.script = s \o <<e>>, !.i = k, !.j = l],
             Traced(a, b, t, Append(s, e), k, l), e \in Op
      PROVE  DiffInv'
  <2>1. s \o <<e>> = Append(s, e)
    BY <1>2, <1>3, AppendIsConcat
  <2>2. Append(s, e) \in Seq(Op) /\ k \in Int /\ l \in Int
    BY <1>3 DEF Traced
  <2>3. /\ diff' \in Diff(diff.path, diff.range, t)
        /\ diff'.pc = "trace" /\ diff'.a = a /\ diff'.b = b /\ diff'.reply = "none"
        /\ diff'.i = k /\ diff'.j = l /\ diff'.table = t
        /\ diff'.path = diff.path /\ diff'.range = diff.range
        /\ diff'.script = Append(s, e)
    BY <1>1, <1>3, <2>1, <2>2 DEF Diff
  <2>4. DiffTypeOK'
    BY <1>1, <2>3 DEF DiffTypeOK, Reads
  <2>5. DiffTexts'
    BY <1>1, <2>3, DiffTextsKept DEF Computes
  <2>6. DiffScript'
    BY <1>1, <1>3, <2>3 DEF DiffScript, Reads
  <2> QED
    BY <2>4, <2>5, <2>6 DEF DiffInv
<1>4. ASSUME NEW k \in 1..Len(a) PROVE a[k] \in Lines
  BY <1>2, ElementOfSeq
<1>5. ASSUME NEW k \in 1..Len(b) PROVE b[k] \in Lines
  BY <1>2, ElementOfSeq
<1>6. Len(a) \in Nat /\ Len(b) \in Nat
  BY <1>2, LenProperties
<1>7. CASE /\ Common
           /\ diff' = [diff EXCEPT !.i = @ - 1, !.j = @ - 1,
                                   !.script = @ \o Line(" ", diff.a[diff.i])]
  <2> DEFINE e == [op |-> Space, text |-> a[i]]
  <2>1. i > 0 /\ j > 0 /\ a[i] = b[j]
    BY <1>7 DEF Common, Same
  <2>2. Traced(a, b, t, Append(s, e), i - 1, j - 1)
    BY <1>1, <1>2, <2>1, TracedCommon
  <2>3. e \in Op
    <3>1. i \in 1..Len(a)
      BY <1>2, <1>6, <2>1
    <3> QED
      BY <1>4, <3>1 DEF Op
  <2>4. Line(" ", a[i]) = <<e>>
    BY DEF Line, Space
  <2> HIDE DEF e
  <2>5. diff' = [diff EXCEPT !.i = i - 1, !.j = j - 1, !.script = s \o <<e>>]
    BY <1>7, <2>4, Zenon
  <2>6. diff' = [diff EXCEPT !.script = s \o <<e>>, !.i = i - 1, !.j = j - 1]
    BY <1>1, <2>5 DEF Diff
  <2> QED
    BY <1>3, <2>2, <2>3, <2>6
<1>8. CASE /\ Added
           /\ diff' = [diff EXCEPT !.j = @ - 1, !.script = @ \o Line("+", diff.b[diff.j])]
  <2> DEFINE e == [op |-> "+", text |-> b[j]]
  <2>1. /\ ~(i > 0 /\ j > 0 /\ a[i] = b[j]) /\ j > 0
        /\ i > 0 => t[i][j - 1] >= t[i - 1][j]
    BY <1>8 DEF Added, Common, Same, T
  <2>2. Traced(a, b, t, Append(s, e), i, j - 1)
    BY <1>1, <1>2, <2>1, TracedAdded
  <2>3. e \in Op
    <3>1. j \in 1..Len(b)
      BY <1>2, <1>6, <2>1
    <3> QED
      BY <1>5, <3>1 DEF Op
  <2>4. Line("+", b[j]) = <<e>>
    BY DEF Line
  <2> HIDE DEF e
  <2>5. diff' = [diff EXCEPT !.j = j - 1, !.script = s \o <<e>>]
    BY <1>8, <2>4, Zenon
  <2>6. diff' = [diff EXCEPT !.script = s \o <<e>>, !.i = i, !.j = j - 1]
    BY <1>1, <2>5 DEF Diff
  <2> QED
    BY <1>3, <2>2, <2>3, <2>6
<1>9. CASE /\ Removed
           /\ diff' = [diff EXCEPT !.i = @ - 1, !.script = @ \o Line("-", diff.a[diff.i])]
  <2> DEFINE e == [op |-> "-", text |-> a[i]]
  <2>1. /\ ~(i > 0 /\ j > 0 /\ a[i] = b[j]) /\ i > 0
        /\ j > 0 => ~(t[i][j - 1] >= t[i - 1][j])
    BY <1>9 DEF Removed, Added, Common, Same, T
  <2>2. Traced(a, b, t, Append(s, e), i - 1, j)
    BY <1>1, <1>2, <2>1, TracedRemoved
  <2>3. e \in Op
    <3>1. i \in 1..Len(a)
      BY <1>2, <1>6, <2>1
    <3> QED
      BY <1>4, <3>1 DEF Op
  <2>4. Line("-", a[i]) = <<e>>
    BY DEF Line
  <2> HIDE DEF e
  <2>5. diff' = [diff EXCEPT !.i = i - 1, !.script = s \o <<e>>]
    BY <1>9, <2>4, Zenon
  <2>6. diff' = [diff EXCEPT !.script = s \o <<e>>, !.i = i - 1, !.j = j]
    BY <1>1, <2>5 DEF Diff
  <2> QED
    BY <1>3, <2>2, <2>3, <2>6
<1> QED
  BY <1>7, <1>8, <1>9 DEF Trace

LEMMA DiffInvTraceDone ==
  ASSUME DiffInv, TraceDone
  PROVE  DiffInv'
<1> DEFINE a == diff.a
           b == diff.b
           t == diff.table
           s == diff.script
<1>1. /\ diff \in Diff(diff.path, diff.range, t) /\ diff.pc = "trace"
      /\ diff.path.a \in Nodes /\ diff.path.b \in Nodes
      /\ diff.reply = "none" /\ diff.i = 0 /\ diff.j = 0
      /\ t \in TableFor(a, b) /\ Complete(t, a, b) /\ Traced(a, b, t, s, 0, 0)
      /\ Compared /\ UNCHANGED treeVars
  BY DEF TraceDone, DiffInv, DiffTypeOK, DiffScript, Compared, Computes
<1>2. s \in Seq(Op) /\ Len(s) \in Nat
  BY <1>1, LenProperties DEF Traced
<1>3. Traced(a, b, t, Unturned(s, 1, Len(s)), 0, 0)
  BY <1>1, <1>2, UnturnedStart
<1>4. diff' = [diff EXCEPT !.pc = "reverse", !.i = 1, !.j = Len(s)]
  BY DEF TraceDone
<1>5. /\ diff'.pc = "reverse" /\ diff'.a = a /\ diff'.b = b /\ diff'.reply = "none"
      /\ diff'.i = 1 /\ diff'.j = Len(s) /\ diff'.table = t
      /\ diff'.path = diff.path /\ diff'.range = diff.range /\ diff'.script = s
  BY <1>1, <1>4 DEF Diff
<1>6. diff' \in Diff(diff.path, diff.range, t)
  <2>1. diff \in Diff(diff.path, diff.range, t) /\ 1 \in Int /\ Len(s) \in Int
    BY <1>1, <1>2
  <2>2. [diff EXCEPT !.pc = "reverse", !.i = 1, !.j = Len(s)] \in Diff(diff.path, diff.range, t)
    BY <2>1, DiffUpdates
  <2> QED
    BY <1>4, <2>2
<1>7. DiffTypeOK'
  BY <1>1, <1>5, <1>6 DEF DiffTypeOK, Reads
<1>8. DiffTexts'
  BY <1>1, <1>5, DiffTextsKept DEF Computes
<1>9. DiffScript'
  <2>1. 1 >= 1 /\ 1 + Len(s) = Len(s) + 1
    BY <1>2
  <2> QED
    BY <1>1, <1>3, <1>5, <2>1 DEF DiffScript, Reads
<1> QED
  BY <1>7, <1>8, <1>9 DEF DiffInv

LEMMA DiffInvReverse ==
  ASSUME DiffInv, Reverse
  PROVE  DiffInv'
<1> DEFINE a == diff.a
           b == diff.b
           t == diff.table
           i == diff.i
           j == diff.j
           s == diff.script
<1>1. /\ diff \in Diff(diff.path, diff.range, t) /\ diff.pc = "reverse"
      /\ diff.path.a \in Nodes /\ diff.path.b \in Nodes
      /\ diff.reply = "none" /\ i >= 1 /\ i + j = Len(s) + 1
      /\ t \in TableFor(a, b) /\ Complete(t, a, b)
      /\ Traced(a, b, t, Unturned(s, i, j), 0, 0)
      /\ Compared /\ UNCHANGED treeVars
  BY DEF Reverse, DiffInv, DiffTypeOK, DiffScript, Compared, Computes
<1>2. s \in Seq(Op) /\ Len(s) \in Nat /\ i \in Int /\ j \in Int
  <2>1. s \in Seq(Op) /\ i \in Int /\ j \in Int
    BY <1>1 DEF Diff
  <2> QED
    BY <2>1, LenProperties
<1>3. CASE /\ i < j
           /\ diff' = [diff EXCEPT !.script = Exchanged(@, diff.i, diff.j),
                                   !.i = @ + 1, !.j = @ - 1]
  <2> DEFINE r == Exchanged(s, i, j)
             k == i + 1
             l == j - 1
  <2>1. i \in 1..Len(s)
    BY <1>1, <1>2, <1>3
  <2>2. /\ r \in Seq(Op) /\ Len(r) = Len(s)
        /\ Unturned(r, k, l) = Unturned(s, i, j)
    BY <1>1, <1>2, <1>3, <2>1, UnturnedExchange
  <2>3. k \in Int /\ l \in Int /\ k >= 1 /\ k + l = Len(r) + 1
    <3>1. Len(r) = Len(s)
      BY <2>2
    <3> QED
      BY <1>1, <1>2, <3>1
  <2>4. diff' = [diff EXCEPT !.script = r, !.i = k, !.j = l]
    BY <1>3
  <2> HIDE DEF r, k, l
  <2>5. /\ diff'.pc = "reverse" /\ diff'.a = a /\ diff'.b = b /\ diff'.reply = "none"
        /\ diff'.i = k /\ diff'.j = l /\ diff'.table = t
        /\ diff'.path = diff.path /\ diff'.range = diff.range /\ diff'.script = r
    BY <1>1, <2>4 DEF Diff
  <2>6. diff' \in Diff(diff.path, diff.range, t)
    BY <1>1, <2>2, <2>3, <2>4 DEF Diff
  <2>7. DiffTypeOK'
    BY <1>1, <2>5, <2>6 DEF DiffTypeOK, Reads
  <2>8. DiffTexts'
    BY <1>1, <2>5, DiffTextsKept DEF Computes
  <2>9. DiffScript'
    BY <1>1, <2>2, <2>3, <2>5 DEF DiffScript, Reads
  <2> QED
    BY <2>7, <2>8, <2>9 DEF DiffInv
<1>4. CASE /\ i >= j
           /\ diff' = [diff EXCEPT !.pc = "done",
                !.reply = IF \E k \in DOMAIN diff.script : diff.script[k].op # " "
                          THEN "changes" ELSE "identical"]
  <2>1. PICK v \in {"changes", "identical"} :
          /\ diff' = [diff EXCEPT !.pc = "done", !.reply = v]
          /\ v = "identical" <=> \A k \in DOMAIN s : s[k].op = Space
    BY <1>4, Zenon DEF Space
  <2>2. Traced(a, b, t, Flipped(s), 0, 0)
    <3>1. ~(i < j)
      BY <1>2, <1>4
    <3> QED
      BY <1>1, <1>2, <3>1, UnturnedEnd
  <2>3. /\ diff'.pc = "done" /\ diff'.a = a /\ diff'.b = b /\ diff'.reply = v
        /\ diff'.table = t
        /\ diff'.path = diff.path /\ diff'.range = diff.range /\ diff'.script = s
    BY <1>1, <2>1 DEF Diff
  <2>4. diff' \in Diff(diff.path, diff.range, t)
    BY <1>1, <2>1 DEF Diff
  <2>5. DiffTypeOK'
    BY <1>1, <2>3, <2>4 DEF DiffTypeOK, Reads
  <2>6. DiffTexts'
    BY <1>1, <2>3, DiffTextsKept
  <2>7. DiffScript'
    BY <1>1, <2>1, <2>2, <2>3 DEF DiffScript, Reads
  <2> QED
    BY <2>5, <2>6, <2>7 DEF DiffInv
<1> QED
  BY <1>3, <1>4 DEF Reverse

(* What others do to the tree concerns the files they touch.                   *)
LEMMA DiffInvOthers ==
  ASSUME DiffInv, TreeInv, Others, UNCHANGED diff
  PROVE  DiffInv'
<1>1. DiffTypeOK' /\ DiffScript'
  BY DEF DiffInv, DiffTypeOK, DiffScript
<1>2. diff.path.a \in Nodes /\ diff.path.b \in Nodes
  BY DEF DiffInv, DiffTypeOK
<1>3. \A n \in Nodes : n \notin touched' => n \notin touched /\ tree'[n] = tree[n]
  BY UntouchedIsKept
<1>4. DiffTexts'
  BY <1>2, <1>3 DEF DiffInv, DiffTexts, Compared
<1> QED
  BY <1>1, <1>4 DEF DiffInv

LEMMA DiffInvNext ==
  ASSUME TreeInv, DiffInv, [Next]_vars
  PROVE  DiffInv'
<1>1. ASSUME UNCHANGED diff, UNCHANGED treeVars PROVE DiffInv'
  BY <1>1 DEF DiffInv, DiffTypeOK, DiffTexts, DiffScript, Compared, treeVars
<1>2. ASSUME NEW r \in DiffRequests, BeginDiff(r) PROVE DiffInv'
  BY <1>2, DiffInvBegin
<1>3. ASSUME DiffStep PROVE DiffInv'
  BY <1>3, DiffInvReadA, DiffInvReadB, DiffInvCut, DiffInvFillCell, DiffInvTableDone,
     DiffInvTrace, DiffInvTraceDone, DiffInvReverse DEF DiffStep
<1>4. ASSUME Change PROVE DiffInv'
  BY <1>4, DiffInvOthers DEF Change
<1>5. ASSUME Begin \/ Step PROVE DiffInv'
  BY <1>1, <1>2, <1>3, <1>5, ToolsKeepTree DEF Begin, Step
<1>6. ASSUME UNCHANGED vars PROVE DiffInv'
  BY <1>1, <1>6 DEF vars, treeVars
<1> QED
  BY <1>4, <1>5, <1>6 DEF Next

(* At every step of diff: the lines are those that were asked for, the table is *)
(* right as far as it is filled, the script as far as it is traced, and the     *)
(* reversal loses nothing (HandleToolDiff and computeDiff in tool_diff.go).     *)
THEOREM DiffInvariant == Spec => [](TreeInv /\ DiffInv)
<1>1. TreeInv /\ DiffInv /\ [Next]_vars => (TreeInv /\ DiffInv)'
  BY TreeInvNext, DiffInvNext
<1>2. Init => TreeInv /\ DiffInv
  BY ReadInvInit, DiffInvInit
<1> QED
  BY <1>1, <1>2, PTL DEF Spec

(* What diff answers, for files of any length and any bounds, whatever others   *)
(* do meanwhile: a script that gives the lines asked for of each file and that  *)
(* no other script undercuts, and "identical" exactly when these lines are.     *)
THEOREM DiffIsTheMinimum == Spec => []DiffIsMinimal
<1>1. DiffInv => DiffIsMinimal
  <2> SUFFICES ASSUME DiffInv, diff.reply \in {"changes", "identical"}
               PROVE  DiffIsMinimal
    BY DEF DiffIsMinimal
  <2> DEFINE a == diff.a
             b == diff.b
             s == diff.script
             t == diff.table
  <2>1. a \in Seq(Lines) /\ b \in Seq(Lines) /\ s \in Seq(Op)
    BY DEF DiffInv, DiffTypeOK, Diff
  <2>2. /\ t \in TableFor(a, b) /\ Complete(t, a, b)
        /\ Traced(a, b, t, Flipped(s), 0, 0)
        /\ diff.reply = "identical" <=> \A k \in DOMAIN s : s[k].op = Space
    BY DEF DiffInv, DiffScript
  <2>3. /\ Keeps(a, Marked(s, {Space, "-"}), ScriptTexts)
        /\ Keeps(b, Marked(s, {Space, "+"}), ScriptTexts)
        /\ \A S \in CommonPlaces(a, b) : Cardinality(S) <= Cardinality(Marked(s, {Space}))
        /\ (\A k \in DOMAIN s : s[k].op = Space) <=> a = b
    BY <2>1, <2>2, FlippedIsMinimal DEF ScriptTexts
  <2>4. /\ PlacesOf({" ", "-"}) = Marked(s, {Space, "-"})
        /\ PlacesOf({" ", "+"}) = Marked(s, {Space, "+"})
        /\ PlacesOf({" "}) = Marked(s, {Space})
    BY Zenon DEF PlacesOf, Marked, Space
  <2>5. /\ diff.path.a \notin touched => IsAsked(a, diff.range.a, tree[diff.path.a])
        /\ diff.path.b \notin touched => IsAsked(b, diff.range.b, tree[diff.path.b])
    BY DEF DiffInv, DiffTexts, Compared
  <2> HIDE DEF a, b, s, t
  <2>6. /\ Keeps(a, PlacesOf({" ", "-"}), ScriptTexts)
        /\ Keeps(b, PlacesOf({" ", "+"}), ScriptTexts)
        /\ \A S \in CommonPlaces(a, b) : Cardinality(S) <= Cardinality(PlacesOf({" "}))
    BY <2>3, <2>4, Zenon
  <2>7. diff.reply = "identical" <=> a = b
    BY <2>2, <2>3
  <2> QED
    BY <2>5, <2>6, <2>7, Zenon DEF DiffIsMinimal, a, b
<1> QED
  BY <1>1, DiffInvariant, PTL
===============================================================================
