------------------------------- MODULE LineRanges -------------------------------
(******************************************************************************)
(* The read_file tool (internal/tools/tool_read_file.go): the file is read      *)
(* whole, then each range of lines asked for is cut out of it.  A parameter     *)
(* "ranges" that does not decode ends the call like a file that cannot be read.*)
(******************************************************************************)
EXTENDS FileTree

CONSTANT ReadRequests   (* the calls of read_file that clients make           *)

ASSUME LineRangesAssumption ==
  \A r \in ReadRequests :
    r.path \in Nodes /\ r.ranges \in Seq([offset : Ints, limit : Ints])

VARIABLE reading        (* the handler's local state                          *)

NoReading ==
  [pc |-> "idle", path |-> Root, ranges |-> <<>>, lines |-> <<>>,
   fragments |-> <<>>, reply |-> "none"]

BeginRead(r) ==
  /\ r \in ReadRequests
  /\ reading' = [NoReading EXCEPT !.pc = "scan", !.path = r.path, !.ranges = r.ranges]
  /\ UNCHANGED treeVars

EndRead(r) == [reading EXCEPT !.pc = "done", !.reply = r]

ReadAll ==
  /\ reading.pc = "scan"
  /\ LET n == reading.path IN
     \/ /\ IsFile(n) /\ CanRead(n)
        /\ reading' = [reading EXCEPT !.pc = "cut", !.lines = tree[n]]
     \/ /\ ~(IsFile(n) /\ CanRead(n))
        /\ reading' = EndRead("error")
  /\ UNCHANGED treeVars

(* Without ranges the whole file is the answer.                               *)
WholeFile ==
  /\ reading.pc = "cut" /\ reading.ranges = <<>>
  /\ reading' = EndRead("whole")
  /\ UNCHANGED treeVars

(* The clamps of one range: a start within the file, and an end that may wrap. *)
From(r, total)  == CASE r.offset < 0      -> 0
                     [] r.offset >= total -> total
                     [] OTHER             -> r.offset

(* Variant: a limit of 0 asks for no line.                                     *)
LimitLiteral(r, total) == IF r.limit < 0 THEN total - From(r, total) ELSE r.limit

Limit(r, total) == IF r.limit <= 0 THEN total - From(r, total) ELSE r.limit
To(r, total) ==
  LET end == Int64(From(r, total) + Limit(r, total))
  IN  IF end > total THEN total ELSE end

Pending == Len(reading.fragments) < Len(reading.ranges)

(* The next range.  An end that has wrapped around makes the capacity of the    *)
(* slice one that cannot be allocated: make panics.                            *)
CutRange ==
  /\ reading.pc = "cut" /\ Pending
  /\ LET r     == reading.ranges[Len(reading.fragments) + 1]
         total == Len(reading.lines)
         from  == From(r, total)
         to    == To(r, total)
     IN  \/ /\ from <= to
            /\ reading' = [reading EXCEPT !.fragments = Append(@,
                 [offset |-> from, limit |-> to - from,
                  lines |-> SubSeq(reading.lines, from + 1, to)])]
         \/ /\ from > to
            /\ reading' = EndRead("panic")
  /\ UNCHANGED treeVars

RangesDone ==
  /\ reading.pc = "cut" /\ reading.ranges # <<>> /\ ~Pending
  /\ reading' = EndRead("fragments")
  /\ UNCHANGED treeVars

ReadStep == ReadAll \/ WholeFile \/ CutRange \/ RangesDone

-------------------------------------------------------------------------------
(* Line i, counted from 0, is asked for by r: offset and the lines after it, as *)
(* many as limit says, or all of them.                                         *)
AskedFor(r, i) ==
  LET first == IF r.offset < 0 THEN 0 ELSE r.offset
  IN  first <= i /\ (r.limit <= 0 \/ i < first + r.limit)

(* Each fragment that read_file answers holds exactly the lines its range asks  *)
(* for that the file has, one fragment per range and in their order; only an    *)
(* offset and a limit whose sum is no int keep it from answering.              *)
FragmentsAreRanges ==
  /\ reading.pc = "done" /\ reading.reply \in {"whole", "fragments"} =>
       /\ Len(reading.fragments) = Len(reading.ranges)
       /\ \A k \in DOMAIN reading.fragments :
            LET f   == reading.fragments[k]
                due == {i \in 0..(Len(reading.lines) - 1) :
                          AskedFor(reading.ranges[k], i)}
            IN  /\ due = f.offset..(f.offset + f.limit - 1)
                /\ Len(f.lines) = f.limit
                /\ \A l \in 1..f.limit : f.lines[l] = reading.lines[f.offset + l]
  /\ reading.reply = "panic" =>
       \E k \in DOMAIN reading.ranges :
         reading.ranges[k].offset + reading.ranges[k].limit > MaxInt
===============================================================================
