------------------------------ MODULE FileHistory ------------------------------
(******************************************************************************)
(* What the calls of FileStore promise to a client that has one of them at a   *)
(* time running on a file: the refinement of UndoHistory, and true answers.    *)
(******************************************************************************)
EXTENDS FileStore

PhaseOf(c) ==
  CASE At(c, "write") /\ call[c].op # "undo" -> "writing"
    [] At(c, "write") /\ call[c].op = "undo" -> "restoring"
    [] At(c, "forget")                       -> "restored"
    [] OTHER                                 -> "quiet"

(* The one call that is about to change p or has changed it, if there is one.  *)
PhaseView ==
  [p \in Paths |->
     IF \E c \in Calls : Path(c) = p /\ PhaseOf(c) # "quiet"
     THEN PhaseOf(CHOOSE c \in Calls : Path(c) = p /\ PhaseOf(c) # "quiet")
     ELSE "quiet"]

History == INSTANCE UndoHistory
             WITH Images <- Image, file <- disk, undo <- entries,
                  phase <- PhaseView

(* write_file, edit_file and undo, with the lock, the two steps of os.WriteFile, *)
(* failing system calls and restarts, implement UndoHistory: the code never     *)
(* touches a file whose content is not the one undo would restore, and a        *)
(* failed undo can be repeated.                                                 *)
ImplementsUndoHistory == History!Spec

(* What the call means its file to be: the text of write_file, the edited text *)
(* of edit_file, the entry undo has found.                                     *)
Meant(c) == IF call[c].op = "undo" THEN entries[Path(c)] ELSE call[c].text

Returns(c) == ~At(c, "idle") /\ call'[c].pc = "idle"

(* A handler that answers success has left on disk exactly what it meant to,    *)
(* without a tail of the content before it or of another writer's, and          *)
(* write_file finds the file it has just written.                               *)
AnswerIsOnDisk ==
  [][\A c \in Calls :
       Returns(c) =>
         \/ call'[c].reply \in {"ok", "partial"} /\ disk'[Path(c)] = Meant(c)
         \/ call'[c].reply = "error"
         \/ Crash]_vars
===============================================================================
