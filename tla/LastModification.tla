---------------------------- MODULE LastModification ----------------------------
(******************************************************************************)
(* FileStore with a history of the content each file had before its last       *)
(* modification, over which the description of the undo tool is stated.        *)
(******************************************************************************)
EXTENDS FileStore

(* prior[p]: the content that write_file or edit_file last overwrote at p,     *)
(* None when an undo has used it up.                                           *)
VARIABLE prior

Overwrites(c, p) ==
  /\ At(c, "open") /\ call'[c].pc = "write"
  /\ call[c].op # "undo" /\ Path(c) = p

Uses(c, p) ==
  At(c, "forget") /\ call'[c].pc = "idle" /\ Path(c) = p

PriorInit == prior = [p \in Paths |-> None]

PriorNext ==
  prior' = [p \in Paths |->
              IF \E c \in Calls : Overwrites(c, p) THEN disk[p]
              ELSE IF \E c \in Calls : Uses(c, p) THEN None
              ELSE prior[p]]

HistInit == Init /\ PriorInit
HistSpec == HistInit /\ [][Next /\ PriorNext]_<<vars, prior>>

(* "Undo the last write_file or edit_file operation [...] Restores the file to *)
(* its state before the last modification" (tools.go:197).                     *)
UndoRevertsLastModification ==
  \A c \in Calls :
    At(c, "forget") /\ prior[Path(c)] # None => disk[Path(c)] = prior[Path(c)]
===============================================================================
