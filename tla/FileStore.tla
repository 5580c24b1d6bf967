------------------------------- MODULE FileStore -------------------------------
(******************************************************************************)
(* The file-changing half of filesystem-mcp: the handlers of the tools        *)
(* write_file, edit_file and undo (internal/tools), the UndoStore they share   *)
(* (internal/state/undo.go) and the file system they act on.                   *)
(*                                                                            *)
(* The MCP server runs every tool call in a goroutine of its own.  The only   *)
(* lock is UndoStore.mu, held by Save and by Restore; the handlers read and    *)
(* write the file outside it.  One action is one step between two points at    *)
(* which another call, a shell command or a crash can be observed.            *)
(*                                                                            *)
(* A file is a sequence of tokens: long enough for a write to be cut short or  *)
(* to be mixed with another one, short enough to enumerate.                   *)
(******************************************************************************)
EXTENDS Naturals, Sequences, FiniteSets

CONSTANTS
  Calls,       (* goroutines that serve tool calls                            *)
  Paths,       (* absolute paths of files                                     *)
  Tokens,      (* what a file is made of                                      *)
  Texts,       (* contents a client may ask write_file to write               *)
  EditBatches, (* values of the edits parameter of edit_file                  *)
  Faults,      (* steps whose system call may fail: "read" (edit_file),       *)
               (* "save" (the read in Save), "mkdir", "open", "write",        *)
               (* "remove"                                                    *)
  Overlap,     (* may a client start a call on a file while another call on   *)
               (* the same file is running?                                   *)
  ShellPaths,  (* files that commands run by the exec tool change             *)
  Crashes,     (* may the server be killed and started again?                 *)
  NoFile,      (* the "content" of a path at which there is no file           *)
  NoText,      (* an empty old_text                                           *)
  None         (* no undo entry, no path, no lock holder                      *)

Content == Seq(Tokens)
Image   == Content \cup {NoFile}
Edit    == [old : Tokens \cup {NoText}, new : Tokens, all : BOOLEAN]
Ops     == {"none", "write_file", "edit_file", "undo"}
Labels  == {"idle", "read", "save", "store", "mkdir", "apply", "open", "write",
            "stat", "restore", "unlink", "forget"}
Replies == {"none", "ok", "partial", "error", "panic"}

ASSUME FileStoreAssumption ==
  /\ Texts \subseteq Content
  /\ EditBatches \subseteq Seq(Edit)
  /\ <<>> \notin EditBatches
  /\ ShellPaths \subseteq Paths
  /\ Overlap \in BOOLEAN /\ Crashes \in BOOLEAN
  /\ NoText \notin Tokens
  /\ NoFile \notin Content
  /\ None \notin Image \cup Calls \cup Paths

VARIABLES
  disk,    (* disk[p]: the content of the file at p, or NoFile                *)
  parents, (* the paths whose parent directory exists                         *)
  open,    (* the calls whose open descriptor is the file now at their path;  *)
           (* a descriptor survives the removal of its file as an orphan      *)
  entries, (* UndoStore.entries: what was at the path (NoFile: not Existed)   *)
  mu,      (* holder of UndoStore.mu, or None                                 *)
  call     (* call[c]: the local state of the handler that c runs             *)

fsVars   == <<disk, parents, open>>
undoVars == <<entries, mu>>
vars     == <<disk, parents, open, entries, mu, call>>

CallRecord ==
  [pc : Labels, op : Ops, path : Paths \cup {None}, text : Content,
   image : Image, edits : Seq(Edit), applied : BOOLEAN, missed : BOOLEAN,
   reply : Replies]

Blank ==
  [pc |-> "idle", op |-> "none", path |-> None, text |-> <<>>,
   image |-> NoFile, edits |-> <<>>, applied |-> FALSE, missed |-> FALSE,
   reply |-> "none"]

At(c, l) == call[c].pc = l
Path(c)  == call[c].path
Goto(c, l) == call' = [call EXCEPT ![c].pc = l]

(* The handler returns reply r; its locals are gone.                          *)
Return(c, r) == call' = [call EXCEPT ![c] = [Blank EXCEPT !.reply = r]]

-------------------------------------------------------------------------------
(* Arrival of a call.  Argument checks, sanitizePath, filepath.Abs and the     *)
(* RBAC check come before the first state change and end the call at once.     *)

MayBegin(c, p) ==
  /\ At(c, "idle")
  /\ Overlap \/ \A d \in Calls : ~At(d, "idle") => Path(d) # p

Begin(c, p, o, l, t, b) ==
  /\ MayBegin(c, p)
  /\ call' = [call EXCEPT ![c] =
       [Blank EXCEPT !.pc = l, !.op = o, !.path = p, !.text = t, !.edits = b]]
  /\ UNCHANGED <<fsVars, undoVars>>

(* Variant: write_file without Save.                                          *)
BeginWriteUnsaved(c, p, t) == Begin(c, p, "write_file", "mkdir", t, <<>>)

BeginWriteFile(c, p, t) == Begin(c, p, "write_file", "save", t, <<>>)
BeginEditFile(c, p, b)  == Begin(c, p, "edit_file", "read", <<>>, b)
BeginUndo(c, p)         == Begin(c, p, "undo", "restore", <<>>, <<>>)

Reject(c) ==
  /\ At(c, "idle")
  /\ Return(c, "error")
  /\ UNCHANGED <<fsVars, undoVars>>

-------------------------------------------------------------------------------
(* UndoStore.Save.  Taking the lock and reading the file is one step: nobody   *)
(* else reads the entries in between.  A file that cannot be read is logged    *)
(* by the caller, which goes on without an entry of its own.                  *)

AfterSave(c) == IF call[c].op = "write_file" THEN "mkdir" ELSE "apply"

(* Variant: Save unlocks between the read and the store.                      *)
SaveReadUnlocked(c) ==
  /\ At(c, "save")
  /\ mu = None
  /\ call' = [call EXCEPT ![c].pc = "store", ![c].image = disk[Path(c)]]
  /\ UNCHANGED <<fsVars, undoVars>>

SaveRead(c) ==
  /\ At(c, "save")
  /\ mu = None
  /\ \/ /\ call' = [call EXCEPT ![c].pc = "store", ![c].image = disk[Path(c)]]
        /\ mu' = c
     \/ /\ "save" \in Faults
        /\ Goto(c, AfterSave(c))
        /\ UNCHANGED mu
  /\ UNCHANGED <<fsVars, entries>>

(* Variant: Save keeps an entry that is there already.                        *)
SaveStoreOnce(c) ==
  /\ At(c, "store")
  /\ entries' = IF entries[Path(c)] = None
                THEN [entries EXCEPT ![Path(c)] = call[c].image] ELSE entries
  /\ mu' = None
  /\ call' = [call EXCEPT ![c].pc = AfterSave(c), ![c].image = NoFile]
  /\ UNCHANGED fsVars

SaveStore(c) ==
  /\ At(c, "store")
  /\ entries' = [entries EXCEPT ![Path(c)] = call[c].image]
  /\ mu' = None
  /\ call' = [call EXCEPT ![c].pc = AfterSave(c), ![c].image = NoFile]
  /\ UNCHANGED fsVars

-------------------------------------------------------------------------------
(* write_file: create the parent directories, then os.WriteFile.              *)

Mkdir(c) ==
  /\ At(c, "mkdir")
  /\ \/ /\ parents' = parents \cup {Path(c)}
        /\ Goto(c, "open")
     \/ /\ "mkdir" \in Faults
        /\ Return(c, "error")
        /\ UNCHANGED parents
  /\ UNCHANGED <<disk, open, undoVars>>

(* Variant: edit_file ignores the error of its read.                          *)
EditReadUnchecked(c) ==
  /\ At(c, "read")
  /\ call' = [call EXCEPT ![c].pc = "save", ![c].text = disk[Path(c)]]
  /\ UNCHANGED <<fsVars, undoVars>>

(* edit_file: the content the edits are applied to is read before Save.       *)
EditRead(c) ==
  /\ At(c, "read")
  /\ \/ /\ disk[Path(c)] # NoFile
        /\ call' = [call EXCEPT ![c].pc = "save", ![c].text = disk[Path(c)]]
     \/ /\ disk[Path(c)] = NoFile \/ "read" \in Faults
        /\ Return(c, "error")
  /\ UNCHANGED <<fsVars, undoVars>>

(* One edit: old_text must occur, and occur once unless replace_all is set.    *)
Occurrences(t, e) == {i \in DOMAIN t : t[i] = e.old}
Applies(t, e) ==
  /\ e.old # NoText
  /\ Occurrences(t, e) # {}
  /\ e.all \/ Cardinality(Occurrences(t, e)) = 1
Replaced(t, e) == [i \in 1..Len(t) |-> IF t[i] = e.old THEN e.new ELSE t[i]]

(* One turn of the loop over the edits.                                       *)
ApplyEdit(c) ==
  /\ At(c, "apply")
  /\ call[c].edits # <<>>
  /\ LET t == call[c].text
         e == Head(call[c].edits)
     IN  \/ /\ Applies(t, e)
            /\ call' = [call EXCEPT ![c].text = Replaced(t, e),
                                    ![c].applied = TRUE,
                                    ![c].edits = Tail(@)]
         \/ /\ ~Applies(t, e)
            /\ call' = [call EXCEPT ![c].missed = TRUE,
                                    ![c].edits = Tail(@)]
  /\ UNCHANGED <<fsVars, undoVars>>

(* After the loop: the file is written only if some edit was applied.         *)
EditDone(c) ==
  /\ At(c, "apply")
  /\ call[c].edits = <<>>
  /\ \/ /\ call[c].applied
        /\ Goto(c, "open")
     \/ /\ ~call[c].applied
        /\ Return(c, "error")
  /\ UNCHANGED <<fsVars, undoVars>>

-------------------------------------------------------------------------------
(* os.WriteFile, shared by write_file, edit_file and Restore: an open that     *)
(* creates or truncates the file, then one write at offset 0 of a descriptor   *)
(* that may by now be an orphan, or the descriptor of a file that somebody     *)
(* else truncated or filled as well.                                           *)

Overlay(new, old) == new \o SubSeq(old, Len(new) + 1, Len(old))
Prefixes(t) == {SubSeq(t, 1, n) : n \in 0..(Len(t) - 1)}

(* Variant: Restore returns an error without unlocking.                       *)
FailLocked(c) == Return(c, "error") /\ UNCHANGED mu

(* An error ends the handler; Restore's deferred unlock runs first.           *)
Fail(c) ==
  /\ Return(c, "error")
  /\ mu' = IF mu = c THEN None ELSE mu

(* Variant: the file is opened without O_TRUNC.                                *)
OpenNoTrunc(c) ==
  /\ At(c, "open")
  /\ Path(c) \in parents
  /\ disk' = [disk EXCEPT ![Path(c)] = IF @ = NoFile THEN <<>> ELSE @]
  /\ open' = open \cup {c}
  /\ Goto(c, "write")
  /\ UNCHANGED <<parents, undoVars>>

OpenTrunc(c) ==
  /\ At(c, "open")
  /\ \/ /\ Path(c) \in parents
        /\ disk' = [disk EXCEPT ![Path(c)] = <<>>]
        /\ open' = open \cup {c}
        /\ Goto(c, "write")
        /\ UNCHANGED mu
     \/ /\ Path(c) \notin parents \/ "open" \in Faults
        /\ Fail(c)
        /\ UNCHANGED <<disk, open>>
  /\ UNCHANGED <<parents, entries>>

Fill(c, t) ==
  /\ disk' = IF c \in open
             THEN [disk EXCEPT ![Path(c)] = Overlay(t, disk[Path(c)])]
             ELSE disk
  /\ open' = open \ {c}

AfterWrite(c) ==
  CASE call[c].op = "write_file" -> Goto(c, "stat")
    [] call[c].op = "edit_file"  ->
         Return(c, IF call[c].missed THEN "partial" ELSE "ok")
    [] OTHER                     -> Goto(c, "forget")

WriteAll(c) ==
  /\ At(c, "write")
  /\ \/ /\ Fill(c, call[c].text)
        /\ AfterWrite(c)
        /\ UNCHANGED mu
     \/ /\ "write" \in Faults
        /\ \E t \in Prefixes(call[c].text) : Fill(c, t)
        /\ Fail(c)
  /\ UNCHANGED <<parents, entries>>

(* write_file takes the size for its reply from os.Stat and ignores its error: *)
(* when the file is gone, info is nil and the handler panics.                  *)
Stat(c) ==
  /\ At(c, "stat")
  /\ Return(c, IF disk[Path(c)] = NoFile THEN "panic" ELSE "ok")
  /\ UNCHANGED <<fsVars, undoVars>>

-------------------------------------------------------------------------------
(* undo: UndoStore.Restore, under the lock from the lookup to the delete.      *)

(* Variant: Restore deletes the entry first.                                  *)
LookupDeletes(c) ==
  /\ At(c, "restore")
  /\ mu = None
  /\ entries[Path(c)] \notin {None, NoFile}
  /\ call' = [call EXCEPT ![c].pc = "open", ![c].text = entries[Path(c)]]
  /\ mu' = c
  /\ entries' = [entries EXCEPT ![Path(c)] = None]
  /\ UNCHANGED fsVars

Lookup(c) ==
  /\ At(c, "restore")
  /\ mu = None
  /\ LET e == entries[Path(c)]
     IN  \/ /\ e = None
            /\ Return(c, "error")
            /\ UNCHANGED mu
         \/ /\ e = NoFile
            /\ Goto(c, "unlink")
            /\ mu' = c
         \/ /\ e \notin {None, NoFile}
            /\ call' = [call EXCEPT ![c].pc = "open", ![c].text = e]
            /\ mu' = c
  /\ UNCHANGED <<fsVars, entries>>

(* os.Remove; a file that is already gone is no error.                        *)
Unlink(c) ==
  /\ At(c, "unlink")
  /\ \/ /\ disk' = [disk EXCEPT ![Path(c)] = NoFile]
        /\ open' = {d \in open : Path(d) # Path(c)}
        /\ Goto(c, "forget")
        /\ UNCHANGED mu
     \/ /\ "remove" \in Faults
        /\ Fail(c)
        /\ UNCHANGED <<disk, open>>
  /\ UNCHANGED <<parents, entries>>

Forget(c) ==
  /\ At(c, "forget")
  /\ entries' = [entries EXCEPT ![Path(c)] = None]
  /\ mu' = None
  /\ Return(c, "ok")
  /\ UNCHANGED fsVars

-------------------------------------------------------------------------------
(* The environment: commands run by exec, which rewrite a file in place,       *)
(* remove it, remove or make its directory; and the end of the server process, *)
(* after which cmd/main.go starts again with an empty UndoStore.               *)

ShellWrite(p) ==
  /\ p \in parents
  /\ \E t \in Texts : disk' = [disk EXCEPT ![p] = t]
  /\ UNCHANGED <<parents, open>>

ShellRemove(p) ==
  /\ disk' = [disk EXCEPT ![p] = NoFile]
  /\ open' = {d \in open : Path(d) # p}
  /\ \/ parents' = parents \ {p}
     \/ UNCHANGED parents

ShellMkdir(p) ==
  /\ parents' = parents \cup {p}
  /\ UNCHANGED <<disk, open>>

Shell(p) ==
  /\ ShellWrite(p) \/ ShellRemove(p) \/ ShellMkdir(p)
  /\ UNCHANGED <<undoVars, call>>

Crash ==
  /\ Crashes
  /\ open' = {}
  /\ entries' = [p \in Paths |-> None]
  /\ mu' = None
  /\ call' = [c \in Calls |-> Blank]
  /\ UNCHANGED <<disk, parents>>

-------------------------------------------------------------------------------
Init ==
  /\ disk \in [Paths -> Texts \cup {NoFile}]
  /\ parents \in {P \in SUBSET Paths : \A p \in Paths \ P : disk[p] = NoFile}
  /\ open = {}
  /\ entries = [p \in Paths |-> None]
  /\ mu = None
  /\ call = [c \in Calls |-> Blank]

(* A call arrives.                                                            *)
Arrive(c) ==
  \/ \E p \in Paths : \/ \E t \in Texts : BeginWriteFile(c, p, t)
                      \/ \E b \in EditBatches : BeginEditFile(c, p, b)
                      \/ BeginUndo(c, p)
  \/ Reject(c)

Lock(c) == SaveRead(c) \/ Lookup(c)

(* A running call goes on, without waiting for anybody.                       *)
Work(c) ==
  \/ SaveStore(c) \/ Mkdir(c) \/ EditRead(c) \/ ApplyEdit(c) \/ EditDone(c)
  \/ OpenTrunc(c) \/ WriteAll(c) \/ Stat(c) \/ Unlink(c) \/ Forget(c)

Next ==
  \/ \E c \in Calls : Arrive(c) \/ Lock(c) \/ Work(c)
  \/ \E p \in ShellPaths : Shell(p)
  \/ Crash

Spec == Init /\ [][Next]_vars

(* The Go scheduler runs every runnable goroutine, and sync.Mutex hands the    *)
(* lock to a waiter that has starved (1 ms): strong fairness on taking it.     *)
Fairness == \A c \in Calls : WF_vars(Work(c)) /\ SF_vars(Lock(c))
FairSpec == Spec /\ Fairness

-------------------------------------------------------------------------------
(* Every variable keeps to its type.                                          *)
TypeOK ==
  /\ disk \in [Paths -> Image]
  /\ parents \subseteq Paths
  /\ open \subseteq Calls
  /\ entries \in [Paths -> Image \cup {None}]
  /\ mu \in Calls \cup {None}
  /\ call \in [Calls -> CallRecord]
  /\ \A c \in Calls : ~At(c, "idle") => Path(c) \in Paths

(* UndoStore.mu is held exactly from the first to the last line of Save and    *)
(* Restore (the deferred unlocks), on every path through them: whoever is      *)
(* inside holds the lock, and nobody leaves with it.                           *)
InCritical(c) ==
  \/ call[c].pc \in {"store", "unlink", "forget"}
  \/ call[c].op = "undo" /\ call[c].pc \in {"open", "write"}

LockDiscipline == \A c \in Calls : mu = c <=> InCritical(c)

(* From the end of Save until the file is opened for writing, the content      *)
(* about to be lost is the one the undo entry holds: whatever fails from here   *)
(* on, write_file's and edit_file's damage can be undone.                      *)
Modifying(c) ==
  /\ call[c].op \in {"write_file", "edit_file"}
  /\ call[c].pc \in {"mkdir", "apply", "open"}

UndoCovers ==
  \A c \in Calls : Modifying(c) => entries[Path(c)] = disk[Path(c)]

(* The inductive strengthening of TypeOK and LockDiscipline: which handler is  *)
(* at which label, and what is known of an open descriptor's file.             *)
Shape(c) ==
  /\ At(c, "idle") <=> call[c].op = "none"
  /\ call[c].pc \in {"read", "apply"} => call[c].op = "edit_file"
  /\ call[c].pc \in {"mkdir", "stat"} => call[c].op = "write_file"
  /\ call[c].pc \in {"save", "store"} => call[c].op \in {"write_file", "edit_file"}
  /\ call[c].pc \in {"restore", "unlink", "forget"} => call[c].op = "undo"

OpenIsWriting == \A c \in open : At(c, "write") /\ disk[Path(c)] # NoFile

LockInv ==
  /\ TypeOK
  /\ \A c \in Calls : Shape(c)
  /\ OpenIsWriting
  /\ LockDiscipline

(* One call at a time on a file, no command that changes files, and a Save      *)
(* that can read: where this holds, what a call knows of its own file stays so. *)
Serial == Overlap = FALSE /\ "save" \notin Faults /\ ShellPaths = {}

Alone(c) == \A d \in Calls : ~At(c, "idle") /\ ~At(d, "idle") /\ c # d
                               => Path(c) # Path(d)

Knows(c) ==
  LET p == Path(c) IN
  /\ At(c, "store") => call[c].image = disk[p]
  /\ Modifying(c) => entries[p] = disk[p]
  /\ At(c, "write") => c \in open /\ disk[p] = <<>>
  /\ At(c, "stat") => disk[p] = call[c].text
  /\ call[c].op = "undo" /\ call[c].pc \in {"open", "write"}
       => entries[p] = call[c].text
  /\ At(c, "unlink") => entries[p] = NoFile
  /\ At(c, "forget") => entries[p] = disk[p]

SerialInv == LockInv /\ \A c \in Calls : Alone(c) /\ Knows(c)

(* An undo entry disappears only when the file is again what the entry holds   *)
(* (Restore deletes it last, and keeps it when the removal or the write fails). *)
EntryOutlivesFailure ==
  [][\A p \in Paths :
       entries[p] # None /\ entries'[p] = None
         => Crash \/ disk[p] = entries[p]]_vars

(* The entries change only in the hands of the lock's holder.                 *)
EntriesUnderLock ==
  [][entries' # entries => Crash \/ mu # None]_vars

(* A call that has started ends: nobody leaves with the lock, so nobody waits  *)
(* for it forever.                                                             *)
EveryCallReturns == \A c \in Calls : ~At(c, "idle") ~> At(c, "idle")
===============================================================================
