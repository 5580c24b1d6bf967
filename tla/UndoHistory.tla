------------------------------ MODULE UndoHistory ------------------------------
(******************************************************************************)
(* What write_file, edit_file and undo promise together to a client that has  *)
(* one call at a time running on a file, whatever fails: a file begins to      *)
(* change only when what is there is what undo would bring back, an undo that  *)
(* succeeds brings back exactly that and is used up, one that fails is not.    *)
(******************************************************************************)
CONSTANTS
  Paths,
  Images,   (* what can be at a path, the absence of a file included          *)
  None

VARIABLES
  file,     (* file[p]: what is at path p                                     *)
  undo,     (* undo[p]: what undo would bring back at p, None for nothing     *)
  phase     (* phase[p]: what is being done to the file at p                  *)

vars == <<file, undo, phase>>

Phases == {"quiet", "writing", "restoring", "restored"}

Init ==
  /\ file \in [Paths -> Images]
  /\ undo = [p \in Paths |-> None]
  /\ phase = [p \in Paths |-> "quiet"]

Enter(p, f, g) == phase[p] = f /\ phase' = [phase EXCEPT ![p] = g]

(* The content of p changes, to nobody knows what.                            *)
Damage(p) ==
  /\ file' \in [Paths -> Images]
  /\ \A q \in Paths \ {p} : file'[q] = file[q]

(* "Saves undo state before writing" (tools.go:80).                           *)
Checkpoint(p) ==
  /\ phase[p] = "quiet"
  /\ undo' = [undo EXCEPT ![p] = file[p]]
  /\ UNCHANGED <<file, phase>>

(* A write begins only with the present content checkpointed.                 *)
BeginWrite(p) ==
  /\ undo[p] = file[p]
  /\ Enter(p, "quiet", "writing")
  /\ Damage(p)
  /\ UNCHANGED undo

EndWrite(p) ==
  /\ Enter(p, "writing", "quiet")
  /\ Damage(p)
  /\ UNCHANGED undo

BeginRestore(p) ==
  /\ undo[p] # None
  /\ Enter(p, "quiet", "restoring")
  /\ Damage(p)
  /\ UNCHANGED undo

(* Restored, at once or after a truncation; or not, and then undo can be tried *)
(* again.                                                                     *)
EndRestore(p) ==
  /\ undo[p] # None
  /\ Enter(p, "quiet", "restored") \/ Enter(p, "restoring", "restored")
  /\ file' = [file EXCEPT ![p] = undo[p]]
  /\ UNCHANGED undo

FailRestore(p) ==
  /\ Enter(p, "restoring", "quiet")
  /\ Damage(p)
  /\ UNCHANGED undo

Forget(p) ==
  /\ Enter(p, "restored", "quiet")
  /\ undo' = [undo EXCEPT ![p] = None]
  /\ UNCHANGED file

(* The files outlive the server, the undo store does not.                     *)
Restart ==
  /\ undo' = [p \in Paths |-> None]
  /\ phase' = [p \in Paths |-> "quiet"]
  /\ UNCHANGED file

Next ==
  \/ \E p \in Paths : \/ Checkpoint(p) \/ BeginWrite(p) \/ EndWrite(p)
                      \/ BeginRestore(p) \/ EndRestore(p) \/ FailRestore(p)
                      \/ Forget(p)
  \/ Restart

Spec == Init /\ [][Next]_vars
===============================================================================
