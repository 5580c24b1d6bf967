------------------------------- MODULE DirListing -------------------------------
(******************************************************************************)
(* The ls tool (internal/tools/tool_ls.go).  The recursion of listDir is a      *)
(* stack of what is left to do: directories to read and entries to look at.    *)
(* The nesting of the answer is the one of its nodes, so that it is kept as    *)
(* the sequence in which the entries are listed.  A pattern stands for the nodes *)
(* whose name it matches, all of them when it is not given.                    *)
(******************************************************************************)
EXTENDS FileTree

CONSTANT ListRequests   (* the calls of ls that clients make                  *)

ASSUME DirListingAssumption ==
  \A r \in ListRequests :
    r.path \in Nodes /\ r.depth \in Int /\ r.hidden \in BOOLEAN

VARIABLE listing        (* the handler's local state                          *)

NoListing ==
  [pc |-> "idle", path |-> Root, depth |-> 1, pattern |-> Nodes,
   hidden |-> FALSE, todo |-> <<>>, shown |-> <<>>]

Todo(do, n, d, level) == [do |-> do, node |-> n, dir |-> d, level |-> level]

BeginList(r) ==
  /\ r \in ListRequests
  /\ listing' = [NoListing EXCEPT
       !.pc = "list", !.path = r.path, !.depth = r.depth,
       !.pattern = r.pattern, !.hidden = r.hidden,
       !.todo = <<Todo("read", r.path, TRUE, 0)>>]
  /\ UNCHANGED treeVars

Item == Head(listing.todo)
Later  == Tail(listing.todo)

Proceed(pc, todo, shown) ==
  /\ listing' = [listing EXCEPT !.pc = pc, !.todo = todo, !.shown = @ \o shown]
  /\ UNCHANGED treeVars

(* Variant: a directory whose name does not match the pattern is left out.     *)
KeptByName(n) ==
  /\ listing.hidden \/ n \notin Hidden
  /\ n \in listing.pattern

(* The entries of a directory that are to be listed: directories whatever      *)
(* their name, so that what matches below them is found.                       *)
Kept(n) ==
  /\ listing.hidden \/ n \notin Hidden
  /\ n \in listing.pattern \/ IsDir(n)

(* listDir: nothing below the maximal depth; an error for the path of the call *)
(* itself, while a directory below it that cannot be read has no children.     *)
ReadDirectory ==
  /\ listing.pc = "list" /\ listing.todo # <<>> /\ Item.do = "read"
  /\ \/ /\ Item.level >= listing.depth
        /\ Proceed("list", Later, <<>>)
     \/ /\ Item.level < listing.depth
        /\ IsDir(Item.node) /\ CanRead(Item.node)
        /\ LET names == Sorted({n \in Children(Item.node) : Kept(n)})
           IN  Proceed("list",
                 [k \in DOMAIN names |->
                    Todo("stat", names[k], IsDir(names[k]), Item.level)]
                 \o Later, <<>>)
     \/ /\ Item.level < listing.depth
        /\ ~(IsDir(Item.node) /\ CanRead(Item.node))
        /\ IF Item.level = 0 THEN Proceed("error", <<>>, <<>>)
           ELSE Proceed("list", Later, <<>>)

(* One entry: left out when it is gone by now; a directory is read next.       *)
StatEntry ==
  /\ listing.pc = "list" /\ listing.todo # <<>> /\ Item.do = "stat"
  /\ \/ /\ tree[Item.node] = Absent
        /\ Proceed("list", Later, <<>>)
     \/ /\ tree[Item.node] # Absent
        /\ Proceed("list",
             IF Item.dir
             THEN <<Todo("read", Item.node, TRUE, Item.level + 1)>> \o Later
             ELSE Later,
             <<[node |-> Item.node, dir |-> Item.dir]>>)

ListDone ==
  /\ listing.pc = "list" /\ listing.todo = <<>>
  /\ Proceed("done", <<>>, <<>>)

ListStep == ReadDirectory \/ StatEntry \/ ListDone

-------------------------------------------------------------------------------
(* The entries that the tree before us should give: at most depth levels below *)
(* the path, through directories that can be read and are not left out.        *)
Inside(n)  == Below(listing.path) \cap UpFrom[n]
Listed(n) ==
  /\ n \in Below(listing.path) \ {listing.path} /\ tree[n] # Absent
  /\ Cardinality(Inside(n)) - 1 <= listing.depth
  /\ \A m \in Inside(n) \ {n} : CanRead(m)
  /\ \A m \in Inside(n) \ {listing.path} : listing.hidden \/ m \notin Hidden
  /\ n \in listing.pattern \/ IsDir(n)

(* What is still to be listed, piece by piece in the order of the names.       *)
Region(e) == IF e.do = "read" THEN Below(e.node) \ {e.node} ELSE Below(e.node)
Regions(s) == UNION {Region(s[k]) : k \in DOMAIN s}
StillToList == Regions(listing.todo)
ToRead(s) == {k \in DOMAIN s : s[k].do = "read"}

(* An entry that nobody changed, in directories that nobody changed, is in the *)
(* answer once if it should be and not at all if it should not, with its kind  *)
(* and in the order of the names, whatever was changed beside it.              *)
ListingIsTree ==
  listing.pc = "done" =>
    LET quiet == {n \in Nodes : UpFrom[n] \cap touched = {}}
        kept  == {k \in DOMAIN listing.shown : listing.shown[k].node \in quiet}
        Name(k) == listing.shown[k].node
    IN  /\ {Name(k) : k \in kept} = {n \in quiet : Listed(n)}
        /\ \A k \in kept : listing.shown[k].dir = IsDir(Name(k))
        /\ \A k, l \in kept : k < l => Before(Name(k), Name(l))
===============================================================================
