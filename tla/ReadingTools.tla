------------------------------ MODULE ReadingTools ------------------------------
(******************************************************************************)
(* The tools that only read, over one file tree that other calls and shell      *)
(* commands change while they read it.  They share nothing with each other, so  *)
(* that one call at a time is enough: what another call does to the tree is     *)
(* part of the actions Others of FileTree.                                     *)
(******************************************************************************)
EXTENDS FileSearch, DirListing, LineDiff, LineRanges

CONSTANTS
  Trees,       (* the trees to begin with                                     *)
  LockedSets   (* what of them cannot be opened                               *)

ASSUME ReadingToolsAssumption ==
  /\ Trees \subseteq [Nodes -> Texts \cup {Absent, Dir}]
  /\ \A t \in Trees, n \in Nodes \ {Root} : t[n] # Absent => t[Parent[n]] = Dir
  /\ LockedSets \subseteq SUBSET Nodes

vars == <<tree, locked, touched, search, listing, diff, reading>>

Init ==
  /\ tree \in Trees /\ locked \in LockedSets /\ touched = {}
  /\ search = NoSearch /\ listing = NoListing
  /\ diff = NoDiff /\ reading = NoReading

Idle == /\ search.pc = "idle" /\ listing.pc = "idle"
        /\ diff.pc = "idle" /\ reading.pc = "idle"

(* Some tool has still something to look at.  What changes later is not seen.   *)
Looking ==
  \/ search.pc \in {"walk", "names", "scan"}
  \/ listing.pc = "list"
  \/ diff.pc \in {"readA", "readB"}
  \/ reading.pc = "scan"

Begin ==
  /\ Idle
  /\ \/ \E r \in SearchRequests : BeginSearch(r) /\ UNCHANGED <<listing, diff, reading>>
     \/ \E r \in ListRequests : BeginList(r) /\ UNCHANGED <<search, diff, reading>>
     \/ \E r \in DiffRequests : BeginDiff(r) /\ UNCHANGED <<search, listing, reading>>
     \/ \E r \in ReadRequests : BeginRead(r) /\ UNCHANGED <<search, listing, diff>>

Step ==
  \/ SearchStep /\ UNCHANGED <<listing, diff, reading>>
  \/ ListStep /\ UNCHANGED <<search, diff, reading>>
  \/ DiffStep /\ UNCHANGED <<search, listing, reading>>
  \/ ReadStep /\ UNCHANGED <<search, listing, diff>>

Change == Looking /\ Others /\ UNCHANGED <<search, listing, diff, reading>>

Next == Begin \/ Step \/ Change

Spec == Init /\ [][Next]_vars /\ WF_vars(Step)

-------------------------------------------------------------------------------
(* Every variable keeps to its type.                                          *)
TypeOK ==
  /\ TreeTypeOK
  /\ search.pc \in {"idle", "walk", "names", "scan", "done"}
  /\ search.max \in Int /\ search.context \in Int
  /\ \A k \in DOMAIN search.pending : search.pending[k] \in Nodes
  /\ \A k \in DOMAIN search.matches : search.matches[k].file \in Nodes
  /\ search.pc \in {"names", "scan"} => search.pending # <<>>
  /\ listing.pc \in {"idle", "list", "done", "error"}
  /\ \A k \in DOMAIN listing.todo :
       listing.todo[k] \in [do : {"read", "stat"}, node : Nodes, dir : BOOLEAN, level : Nat]
  /\ diff.pc \in {"idle", "readA", "readB", "cut", "fill", "trace", "reverse", "done"}
  /\ diff.pc = "fill" => diff.i \in 1..(Len(diff.a) + 1) /\ diff.j \in 1..(Len(diff.b) + 1)
  /\ diff.pc = "trace" => diff.i \in 0..Len(diff.a) /\ diff.j \in 0..Len(diff.b)
  /\ reading.pc \in {"idle", "scan", "cut", "done"}
  /\ Len(reading.fragments) <= Len(reading.ranges)

(* A call that has begun comes to an answer, whatever happens to the tree       *)
(* meanwhile: no loop depends on what others do.                               *)
Answered ==
  /\ search.pc \in {"idle", "done"} /\ listing.pc \in {"idle", "done", "error"}
  /\ diff.pc \in {"idle", "done"} /\ reading.pc \in {"idle", "done"}

EveryReadEnds == ~Idle ~> (Answered /\ ~Idle)

(* What is left to do, by the handler's loops from the outer to the inner one.  *)
SearchLeft ==
  IF search.pc \in {"idle", "done"} THEN <<0, 0, 0>>
  ELSE <<1, Cardinality(Ahead), IF search.pc = "walk" THEN 1 ELSE 0>>
ListLeft ==
  IF listing.pc # "list" THEN <<0, 0, 0>>
  ELSE <<1, Cardinality(StillToList), Cardinality(ToRead(listing.todo))>>
DiffLeft ==
  CASE diff.pc = "readA"   -> <<6, 0, 0>>
    [] diff.pc = "readB"   -> <<5, 0, 0>>
    [] diff.pc = "cut"     -> <<4, 0, 0>>
    [] diff.pc = "fill"    -> <<3, Len(diff.a) + 1 - diff.i, Len(diff.b) + 1 - diff.j>>
    [] diff.pc = "trace"   -> <<2, diff.i + diff.j, 0>>
    [] diff.pc = "reverse" -> <<1, IF diff.i < diff.j THEN diff.j - diff.i ELSE 0, 0>>
    [] OTHER               -> <<0, 0, 0>>
ReadLeft ==
  CASE reading.pc = "scan" -> <<2, 0, 0>>
    [] reading.pc = "cut"  -> <<1, Len(reading.ranges) - Len(reading.fragments), 0>>
    [] OTHER               -> <<0, 0, 0>>

Less(x, y) ==
  /\ x \in Nat \X Nat \X Nat
  /\ \/ x[1] < y[1]
     \/ x[1] = y[1] /\ x[2] < y[2]
     \/ x[1] = y[1] /\ x[2] = y[2] /\ x[3] < y[3]

(* Every step of a call leaves less to do, in an order without infinite descent, *)
(* however often others change what it has still to look at: no directory is    *)
(* read twice, and no loop of a handler goes round in place.                   *)
EveryStepIsProgress ==
  /\ [][search.pc # "idle" => Less(SearchLeft', SearchLeft)]_search
  /\ [][listing.pc # "idle" => Less(ListLeft', ListLeft)]_listing
  /\ [][diff.pc # "idle" => Less(DiffLeft', DiffLeft)]_diff
  /\ [][reading.pc # "idle" => Less(ReadLeft', ReadLeft)]_reading
===============================================================================
