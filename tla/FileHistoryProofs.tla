-------------------------- MODULE FileHistoryProofs ---------------------------
(******************************************************************************)
(* What can be relied on when the calls on each file come one at a time, no     *)
(* shell command changes the files and Save can read them: an undo always      *)
(* covers the next damage and is not used up before it is done; the handlers   *)
(* of write_file, edit_file and undo implement UndoHistory; and their answers   *)
(* are true of the disk.                                                       *)
(******************************************************************************)
EXTENDS FileStoreProofs, FileHistory

-------------------------------------------------------------------------------
(* A call works on its own record and its own path.                           *)

LEMMA ArriveLocal ==
  ASSUME LockInv, NEW c \in Calls, Arrive(c)
  PROVE  /\ At(c, "idle")
         /\ UNCHANGED <<disk, open, entries>>
         /\ \A d \in Calls : d # c => call'[d] = call[d]
         /\ \/ call'[c].pc = "idle" /\ call'[c].op = "none"
            \/ /\ call'[c].pc \in {"save", "read", "restore"}
               /\ \E p \in Paths : MayBegin(c, p) /\ call'[c].path = p
               /\ call'[c].pc = "restore" <=> call'[c].op = "undo"
<1> DEFINE Begun(p) ==
      /\ UNCHANGED <<disk, open, entries>>
      /\ \A d \in Calls : d # c => call'[d] = call[d]
      /\ MayBegin(c, p)
      /\ call'[c].pc \in {"save", "read", "restore"}
      /\ call'[c].pc = "restore" <=> call'[c].op = "undo"
      /\ call'[c].path = p
<1>1. ASSUME NEW p \in Paths, NEW o, NEW l \in {"save", "read", "restore"},
             NEW t, NEW b, l = "restore" <=> o = "undo", Begin(c, p, o, l, t, b)
      PROVE  Begun(p)
  BY <1>1 DEF Begin, Blank, LockInv, TypeOK, fsVars, undoVars
<1>2. CASE Reject(c)
  BY <1>2 DEF Reject, Return, Blank, LockInv, TypeOK, fsVars, undoVars
<1>3. ASSUME NEW p \in Paths, NEW t \in Texts, BeginWriteFile(c, p, t)
      PROVE  Begun(p)
  BY <1>1, <1>3 DEF BeginWriteFile
<1>4. ASSUME NEW p \in Paths, NEW b \in EditBatches, BeginEditFile(c, p, b)
      PROVE  Begun(p)
  BY <1>1, <1>4 DEF BeginEditFile
<1>5. ASSUME NEW p \in Paths, BeginUndo(c, p)
      PROVE  Begun(p)
  BY <1>1, <1>5 DEF BeginUndo
<1>6. At(c, "idle")
  BY DEF Arrive, BeginWriteFile, BeginEditFile, BeginUndo, Begin, MayBegin, Reject
<1>7. CASE ~Reject(c)
  <2>1. PICK p \in Paths : Begun(p)
    BY <1>3, <1>4, <1>5, <1>7 DEF Arrive
  <2> QED
    BY <1>6, <2>1
<1> QED
  BY <1>2, <1>6, <1>7

LEMMA StepLocal ==
  ASSUME LockInv, NEW c \in Calls, Lock(c) \/ Work(c)
  PROVE  /\ ~At(c, "idle")
         /\ \A d \in Calls : d # c => call'[d] = call[d]
         /\ call'[c].pc # "idle" => call'[c].path = call[c].path
         /\ \A p \in Paths : p # Path(c) => disk'[p] = disk[p] /\ entries'[p] = entries[p]
         /\ \A d \in open : d # c /\ Path(d) # Path(c) => d \in open'
<1> DEFINE Local == /\ ~At(c, "idle")
                    /\ \A d \in Calls : d # c => call'[d] = call[d]
                    /\ call'[c].pc # "idle" => call'[c].path = call[c].path
<1>1. call \in [Calls -> CallRecord] /\ entries \in [Paths -> Image \cup {None}]
      /\ disk \in [Paths -> Image] /\ call[c] \in CallRecord
  BY DEF LockInv, TypeOK
<1>2. ASSUME NEW q, Return(c, q) PROVE \A d \in Calls : d # c => call'[d] = call[d]
  BY <1>1, <1>2 DEF Return
<1>3. ASSUME NEW q, Return(c, q) PROVE call'[c].pc = "idle"
  BY <1>1, <1>3 DEF Return, Blank
<1>4. ASSUME NEW l, Goto(c, l)
      PROVE  /\ \A d \in Calls : d # c => call'[d] = call[d]
             /\ call'[c].path = call[c].path
  BY <1>1, <1>4 DEF Goto, CallRecord
<1>5. CASE SaveRead(c)
  BY <1>1, <1>4, <1>5 DEF SaveRead, At, fsVars, CallRecord
<1>6. CASE Lookup(c)
  BY <1>1, <1>2, <1>3, <1>4, <1>6 DEF Lookup, At, fsVars, CallRecord
<1>7. CASE SaveStore(c)
  BY <1>1, <1>7 DEF SaveStore, At, fsVars, CallRecord
<1>8. CASE Mkdir(c)
  BY <1>1, <1>2, <1>3, <1>4, <1>8 DEF Mkdir, At, undoVars
<1>9. CASE EditRead(c)
  BY <1>1, <1>2, <1>3, <1>9 DEF EditRead, At, fsVars, undoVars, CallRecord
<1>10. CASE ApplyEdit(c)
  BY <1>1, <1>10 DEF ApplyEdit, At, fsVars, undoVars, CallRecord
<1>11. CASE EditDone(c)
  BY <1>1, <1>2, <1>3, <1>4, <1>11 DEF EditDone, At, fsVars, undoVars
<1>12. CASE OpenTrunc(c)
  BY <1>1, <1>2, <1>3, <1>4, <1>12 DEF OpenTrunc, Fail, At
<1>13. CASE WriteAll(c)
  <2>1. \E t : Fill(c, t)
    BY <1>13 DEF WriteAll
  <2>2. /\ \A p \in Paths : p # Path(c) => disk'[p] = disk[p]
        /\ \A d \in open : d # c => d \in open'
    BY <1>1, <2>1 DEF Fill
  <2>3. Local
    BY <1>2, <1>3, <1>4, <1>13 DEF WriteAll, AfterWrite, Fail, At
  <2> QED
    BY <1>13, <2>2, <2>3 DEF WriteAll
<1>14. CASE Stat(c)
  BY <1>1, <1>2, <1>3, <1>14 DEF Stat, At, fsVars, undoVars
<1>15. CASE Unlink(c)
  BY <1>1, <1>2, <1>3, <1>4, <1>15 DEF Unlink, Fail, At
<1>16. CASE Forget(c)
  BY <1>1, <1>2, <1>3, <1>16 DEF Forget, At, fsVars
<1> QED
  BY <1>5, <1>6, <1>7, <1>8, <1>9, <1>10, <1>11, <1>12, <1>13, <1>14, <1>15, <1>16
     DEF Lock, Work

-------------------------------------------------------------------------------
(* Calls on different paths stay so, and what the others know stays true.      *)

LEMMA OthersKnow ==
  ASSUME SerialInv, NEW c \in Calls, Lock(c) \/ Work(c), NEW d \in Calls, d # c
  PROVE  Knows(d)'
<1>1. call'[d] = call[d]
  BY StepLocal DEF SerialInv
<1>2. CASE At(d, "idle")
  BY <1>1, <1>2 DEF SerialInv, LockInv, Shape, Knows, Modifying, At
<1>3. CASE ~At(d, "idle")
  <2>1. Path(d) # Path(c) /\ Path(d) \in Paths
    BY <1>3, StepLocal DEF SerialInv, Alone, LockInv, TypeOK
  <2>2. disk'[Path(d)] = disk[Path(d)] /\ entries'[Path(d)] = entries[Path(d)]
        /\ (d \in open => d \in open')
    BY <2>1, StepLocal DEF SerialInv
  <2> QED
    BY <1>1, <2>2 DEF SerialInv, Knows, Modifying, At, Path
<1> QED
  BY <1>2, <1>3

LEMMA StepAlone ==
  ASSUME SerialInv, NEW c \in Calls, Lock(c) \/ Work(c), NEW d \in Calls
  PROVE  Alone(d)'
  BY StepLocal DEF SerialInv, Alone, At, Path

(* A write of the whole text into the file that the call has truncated leaves   *)
(* that text and nothing else.                                                *)
LEMMA WholeWrite ==
  ASSUME SerialInv, NEW c \in Calls, At(c, "write"), Fill(c, call[c].text)
  PROVE  disk'[Path(c)] = call[c].text
<1>1. /\ call[c].text \in Content /\ c \in open /\ disk[Path(c)] = <<>>
      /\ Path(c) \in Paths /\ disk \in [Paths -> Image]
  BY DEF SerialInv, LockInv, TypeOK, Knows, CallRecord, At
<1>2. SubSeq(<<>>, Len(call[c].text) + 1, Len(<<>>)) = <<>>
  <2>1. Len(call[c].text) \in Nat
    BY <1>1, LenProperties DEF Content
  <2> QED
    BY <2>1, SubSeqEmpty, EmptySeq
<1>3. Overlay(call[c].text, <<>>) = call[c].text
  BY <1>1, <1>2, ConcatEmptySeq DEF Overlay, Content
<1> QED
  BY <1>1, <1>3 DEF Fill

(* What the call itself knows after its step.                                 *)

LEMMA OwnKnows ==
  ASSUME SerialInv, Serial, NEW c \in Calls, Lock(c) \/ Work(c)
  PROVE  Knows(c)'
<1>1. /\ call \in [Calls -> CallRecord] /\ call[c] \in CallRecord
      /\ entries \in [Paths -> Image \cup {None}] /\ disk \in [Paths -> Image]
      /\ LockInv /\ Knows(c)
  BY DEF SerialInv, LockInv, TypeOK
<1>2. /\ WellShaped(call[c]) /\ ~At(c, "idle") /\ Path(c) \in Paths
  BY <1>1, RecordsWellShaped, StepLocal DEF WellShaped, At, Path
<1>3. ASSUME NEW q, Return(c, q) PROVE Knows(c)'
  BY <1>1, <1>3 DEF Return, Blank, Knows, Modifying, At
<1>4. ASSUME NEW l, Goto(c, l)
      PROVE  /\ call'[c].pc = l /\ call'[c].op = call[c].op
             /\ call'[c].path = call[c].path /\ call'[c].text = call[c].text
  BY <1>1, <1>4 DEF Goto, CallRecord
<1>5. CASE SaveRead(c)
  <2>1. /\ call' = [call EXCEPT ![c].pc = "store", ![c].image = disk[Path(c)]]
        /\ UNCHANGED disk
    BY <1>5 DEF SaveRead, Serial, fsVars
  <2>2. /\ call'[c].pc = "store" /\ call'[c].image = disk[Path(c)]
        /\ call'[c].path = call[c].path
    BY <1>1, <2>1 DEF CallRecord
  <2> QED
    BY <2>1, <2>2 DEF Knows, Modifying, At, Path
<1>6. CASE Lookup(c)
  <2>1. CASE Goto(c, "unlink") /\ entries[Path(c)] = NoFile
    BY <1>4, <1>6, <2>1 DEF Lookup, Knows, Modifying, At, Path
  <2>2. CASE call' = [call EXCEPT ![c].pc = "open", ![c].text = entries[Path(c)]]
    <3>1. /\ call'[c].pc = "open" /\ call'[c].text = entries[Path(c)]
          /\ call'[c].path = call[c].path /\ call'[c].op = "undo"
      BY <1>1, <1>2, <1>6, <2>2 DEF CallRecord, WellShaped, Lookup, At
    <3> QED
      BY <1>6, <3>1 DEF Lookup, Knows, Modifying, At, Path
  <2> QED
    BY <1>3, <1>6, <2>1, <2>2 DEF Lookup
<1>7. CASE SaveStore(c)
  <2>1. /\ call'[c].pc = AfterSave(c) /\ call'[c].path = call[c].path
        /\ call'[c].op = call[c].op /\ AfterSave(c) \in {"mkdir", "apply"}
    BY <1>1, <1>7 DEF SaveStore, CallRecord, AfterSave
  <2>2. entries'[Path(c)] = disk[Path(c)] /\ UNCHANGED disk
    BY <1>1, <1>2, <1>7 DEF SaveStore, Knows, fsVars
  <2> QED
    BY <2>1, <2>2 DEF Knows, Modifying, At, Path
<1>8. CASE Mkdir(c)
  <2>1. call[c].op = "write_file" /\ entries[Path(c)] = disk[Path(c)]
    BY <1>1, <1>2, <1>8 DEF Mkdir, Knows, Modifying, At, WellShaped
  <2>2. CASE Goto(c, "open")
    BY <1>4, <1>8, <2>1, <2>2 DEF Mkdir, Knows, Modifying, At, Path, undoVars
  <2> QED
    BY <1>3, <1>8, <2>2 DEF Mkdir
<1>9. CASE EditRead(c)
  <2>1. CASE call' = [call EXCEPT ![c].pc = "save", ![c].text = disk[Path(c)]]
    <3>1. call'[c].pc = "save"
      BY <1>1, <2>1 DEF CallRecord
    <3> QED
      BY <3>1 DEF Knows, Modifying, At
  <2> QED
    BY <1>3, <1>9, <2>1 DEF EditRead
<1>10. CASE ApplyEdit(c)
  <2>1. call'[c].pc = "apply" /\ call'[c].op = call[c].op /\ call'[c].path = call[c].path
    BY <1>1, <1>10 DEF ApplyEdit, CallRecord, At
  <2> QED
    BY <1>1, <1>10, <2>1 DEF ApplyEdit, Knows, Modifying, At, Path, fsVars, undoVars
<1>11. CASE EditDone(c)
  <2>1. call[c].op = "edit_file" /\ entries[Path(c)] = disk[Path(c)]
    BY <1>1, <1>2, <1>11 DEF EditDone, Knows, Modifying, At, WellShaped
  <2>2. CASE Goto(c, "open")
    BY <1>4, <1>11, <2>1, <2>2 DEF EditDone, Knows, Modifying, At, Path, fsVars, undoVars
  <2> QED
    BY <1>3, <1>11, <2>2 DEF EditDone
<1>12. CASE OpenTrunc(c)
  <2>1. CASE /\ disk' = [disk EXCEPT ![Path(c)] = <<>>]
             /\ open' = open \cup {c}
             /\ Goto(c, "write")
    BY <1>1, <1>2, <1>4, <1>12, <2>1 DEF OpenTrunc, Knows, Modifying, At, Path
  <2> QED
    BY <1>3, <1>12, <2>1 DEF OpenTrunc, Fail
<1>13. CASE WriteAll(c)
  <2>1. ASSUME Fill(c, call[c].text) PROVE disk'[Path(c)] = call[c].text
    BY <1>13, <2>1, WholeWrite DEF WriteAll
  <2>2. CASE Fill(c, call[c].text) /\ Goto(c, "stat")
    BY <1>4, <2>1, <2>2 DEF Knows, Modifying, At, Path
  <2>4. CASE call[c].op = "undo" /\ Fill(c, call[c].text) /\ Goto(c, "forget")
    <3>1. entries[Path(c)] = call[c].text
      BY <1>1, <1>13, <2>4 DEF WriteAll, Knows, At
    <3> QED
      BY <1>4, <1>13, <2>1, <2>4, <3>1 DEF WriteAll, Knows, Modifying, At, Path
  <2>3. call[c].op \in {"write_file", "edit_file", "undo"}
    BY <1>2 DEF WellShaped, CallRecord, Ops, At
  <2> QED
    BY <1>3, <1>13, <2>2, <2>3, <2>4 DEF WriteAll, AfterWrite, Fail
<1>14. CASE Stat(c)
  BY <1>3, <1>14 DEF Stat
<1>15. CASE Unlink(c)
  <2>1. entries[Path(c)] = NoFile /\ call[c].op = "undo"
    BY <1>1, <1>2, <1>15 DEF Unlink, Knows, At, WellShaped
  <2>2. CASE disk' = [disk EXCEPT ![Path(c)] = NoFile] /\ Goto(c, "forget")
    BY <1>1, <1>2, <1>4, <1>15, <2>1, <2>2 DEF Unlink, Knows, Modifying, At, Path
  <2> QED
    BY <1>3, <1>15, <2>2 DEF Unlink, Fail
<1>16. CASE Forget(c)
  BY <1>3, <1>16 DEF Forget
<1> QED
  BY <1>5, <1>6, <1>7, <1>8, <1>9, <1>10, <1>11, <1>12, <1>13, <1>14, <1>15, <1>16
     DEF Lock, Work

-------------------------------------------------------------------------------
LEMMA ArriveSerialInv ==
  ASSUME SerialInv, Serial, NEW c \in Calls, Arrive(c)
  PROVE  SerialInv'
<1>1. LockInv /\ LockInv'
  BY ArriveLockInv DEF SerialInv
<1>2. ASSUME NEW d \in Calls PROVE Knows(d)'
  <2>1. CASE d = c
    BY <1>1, <2>1, ArriveLocal DEF Knows, Modifying, At
  <2>2. CASE d # c
    BY <1>1, <2>2, ArriveLocal DEF SerialInv, Knows, Modifying, At, Path
  <2> QED
    BY <2>1, <2>2
<1>3. ASSUME NEW d \in Calls PROVE Alone(d)'
  <2>1. CASE call'[c].pc = "idle"
    BY <1>1, <2>1, ArriveLocal DEF SerialInv, Alone, At, Path
  <2>2. CASE \E p \in Paths : MayBegin(c, p) /\ call'[c].path = p
    <3>1. \A e \in Calls : ~At(e, "idle") => Path(e) # call'[c].path
      BY <2>2 DEF MayBegin, Serial
    <3> QED
      BY <1>1, <3>1, ArriveLocal DEF SerialInv, Alone, At, Path
  <2> QED
    BY <1>1, <2>1, <2>2, ArriveLocal
<1> QED
  BY <1>1, <1>2, <1>3 DEF SerialInv

LEMMA StepSerialInv ==
  ASSUME SerialInv, Serial, NEW c \in Calls, Lock(c) \/ Work(c)
  PROVE  SerialInv'
<1>1. LockInv'
  BY NextLockInv DEF SerialInv, Next
<1>2. ASSUME NEW d \in Calls PROVE Alone(d)' /\ Knows(d)'
  BY <1>2, StepAlone, OwnKnows, OthersKnow
<1> QED
  BY <1>1, <1>2 DEF SerialInv

LEMMA NextSerialInv ==
  ASSUME SerialInv, Serial, [Next]_vars
  PROVE  SerialInv'
<1>1. LockInv'
  BY NextLockInv DEF SerialInv
<1>2. CASE Crash
  BY <1>1, <1>2 DEF Crash, SerialInv, Alone, Knows, Modifying, At, Blank
<1>3. CASE UNCHANGED vars
  BY <1>1, <1>3 DEF vars, SerialInv, Alone, Knows, Modifying, At, Path
<1> QED
  BY <1>2, <1>3, ArriveSerialInv, StepSerialInv DEF Next, Serial

LEMMA InitSerialInv == Init => SerialInv
  BY InitLockInv DEF Init, SerialInv, Alone, Knows, Modifying, At, Blank

(* A theorem about a serial system is one whose assumption says so.            *)
THEOREM SerialInvariant == ASSUME Serial PROVE Spec => []SerialInv
<1>1. SerialInv /\ [Next]_vars => SerialInv'
  BY NextSerialInv
<1> QED
  BY InitSerialInv, <1>1, PTL DEF Spec

(* From the end of Save to the opening of the file, the undo entry holds the    *)
(* content that is about to be lost, whatever fails in between.                *)
THEOREM UndoCoversDamage == ASSUME Serial PROVE Spec => []UndoCovers
<1>1. SerialInv => UndoCovers
  BY DEF SerialInv, Knows, UndoCovers
<1> QED
  BY SerialInvariant, <1>1, PTL

(* An undo whose removal or write failed keeps its entry: the entry goes only   *)
(* when the file is again what it held, or with the whole process.             *)
THEOREM EntrySurvivesFailure == ASSUME Serial PROVE Spec => EntryOutlivesFailure
<1> DEFINE Kept == \A p \in Paths : entries[p] # None /\ entries'[p] = None
                                      => Crash \/ disk[p] = entries[p]
<1>1. ASSUME SerialInv, [Next]_vars PROVE [Kept]_vars
  <2>1. LockInv /\ entries \in [Paths -> Image \cup {None}]
    BY <1>1 DEF SerialInv, LockInv, TypeOK
  <2>2. ASSUME NEW c \in Calls, Forget(c) PROVE Kept
    BY <1>1, <2>1, <2>2 DEF Forget, SerialInv, Knows, At
  <2>3. ASSUME NEW c \in Calls, SaveStore(c) PROVE Kept
    <3>1. call[c].image \in Image /\ None \notin Image
      BY <2>1, FileStoreAssumption DEF LockInv, TypeOK, CallRecord
    <3> QED
      BY <2>1, <2>3, <3>1 DEF SaveStore
  <2>4. ASSUME NEW c \in Calls, Arrive(c) PROVE UNCHANGED entries
    BY <2>1, <2>4, ArriveLocal
  <2>5. ASSUME NEW c \in Calls, Lock(c) PROVE UNCHANGED entries
    BY <2>5 DEF Lock, SaveRead, Lookup
  <2>6. ASSUME NEW c \in Calls, Work(c) PROVE UNCHANGED entries \/ SaveStore(c) \/ Forget(c)
    BY <2>6 DEF Work, Mkdir, EditRead, ApplyEdit, EditDone, OpenTrunc, WriteAll,
            Stat, Unlink, undoVars
  <2>7. ASSUME NEW p \in ShellPaths, Shell(p) PROVE UNCHANGED entries
    BY <2>7 DEF Shell, undoVars
  <2>8. UNCHANGED entries => Kept
    OBVIOUS
  <2>9. Crash => Kept
    OBVIOUS
  <2> QED
    BY <1>1, <2>2, <2>3, <2>4, <2>5, <2>6, <2>7, <2>8, <2>9 DEF Next
<1> QED
  BY SerialInvariant, <1>1, PTL DEF Spec, EntryOutlivesFailure

-------------------------------------------------------------------------------
(* The phase of a call, by its label.                                         *)
LEMMA PhaseByLabel ==
  ASSUME NEW c
  PROVE  PhaseOf(c) = IF At(c, "write")
                      THEN IF call[c].op = "undo" THEN "restoring" ELSE "writing"
                      ELSE IF At(c, "forget") THEN "restored" ELSE "quiet"
<1>1. CASE At(c, "write")
  BY <1>1 DEF PhaseOf, At
<1>2. CASE ~At(c, "write")
  BY <1>2 DEF PhaseOf, At
<1> QED
  BY <1>1, <1>2

(* The phase of a path is the phase of the one call that runs on it.           *)
PhasesAreOfCalls ==
  /\ \A c \in Calls : ~At(c, "idle") => PhaseView[Path(c)] = PhaseOf(c)
  /\ \A p \in Paths :
       (\A c \in Calls : ~At(c, "idle") => Path(c) # p) => PhaseView[p] = "quiet"
  /\ PhaseView = [p \in Paths |-> PhaseView[p]]

LEMMA PhaseIsOfCall == SerialInv => PhasesAreOfCalls
<1> SUFFICES ASSUME SerialInv PROVE PhasesAreOfCalls
  OBVIOUS
<1>1. \A c \in Calls : PhaseOf(c) # "quiet" => ~At(c, "idle")
  BY PhaseByLabel DEF At
<1>2. ASSUME NEW c \in Calls, ~At(c, "idle")
      PROVE  PhaseView[Path(c)] = PhaseOf(c)
  <2>1. Path(c) \in Paths
    BY <1>2 DEF SerialInv, LockInv, TypeOK
  <2>2. \A d \in Calls : Path(d) = Path(c) /\ PhaseOf(d) # "quiet" => d = c
    BY <1>1, <1>2 DEF SerialInv, Alone
  <2>3. CASE PhaseOf(c) = "quiet"
    BY <2>1, <2>2, <2>3 DEF PhaseView
  <2>4. CASE PhaseOf(c) # "quiet"
    <3>1. (CHOOSE d \in Calls : Path(d) = Path(c) /\ PhaseOf(d) # "quiet") = c
      BY <2>2, <2>4
    <3> QED
      BY <2>1, <2>4, <3>1 DEF PhaseView
  <2> QED
    BY <2>3, <2>4
<1>3. ASSUME NEW p \in Paths, \A c \in Calls : ~At(c, "idle") => Path(c) # p
      PROVE  PhaseView[p] = "quiet"
  BY <1>1, <1>3 DEF PhaseView
<1>4. PhaseView = [p \in Paths |-> PhaseView[p]]
  BY DEF PhaseView
<1> QED
  BY <1>2, <1>3, <1>4 DEF PhasesAreOfCalls

LEMMA PhaseIsOfCallNext == SerialInv' => PhasesAreOfCalls'
<1>1. (SerialInv => PhasesAreOfCalls)'
  BY PhaseIsOfCall, PTL
<1> QED
  BY <1>1

(* A step of a call moves its own path to its new phase; the arrival of a call  *)
(* moves none.                                                                *)
LEMMA StepMovesPhase ==
  ASSUME SerialInv, SerialInv', NEW c \in Calls, Lock(c) \/ Work(c)
  PROVE  /\ PhaseView[Path(c)] = PhaseOf(c)
         /\ PhaseView' = [PhaseView EXCEPT ![Path(c)] = PhaseOf(c)']
<1>1. PhasesAreOfCalls /\ PhasesAreOfCalls'
  BY PhaseIsOfCall, PhaseIsOfCallNext
<1>2. /\ ~At(c, "idle") /\ Path(c) \in Paths
      /\ \A d \in Calls : d # c => call'[d] = call[d]
      /\ call'[c].pc # "idle" => call'[c].path = Path(c)
  BY StepLocal DEF SerialInv, LockInv, TypeOK, Path
<1>3. PhaseView'[Path(c)] = PhaseOf(c)'
  <2>1. CASE call'[c].pc # "idle"
    BY <1>1, <1>2, <2>1 DEF PhasesAreOfCalls, At, Path
  <2>2. CASE call'[c].pc = "idle"
    <3>1. \A d \in Calls : ~At(d, "idle")' => Path(d)' # Path(c)
      BY <1>2, <2>2 DEF SerialInv, Alone, At, Path
    <3>2. PhaseOf(c)' = "quiet"
      BY <2>2, PhaseByLabel DEF PhaseOf, At
    <3> QED
      BY <1>1, <1>2, <3>1, <3>2 DEF PhasesAreOfCalls
  <2> QED
    BY <2>1, <2>2
<1>4. ASSUME NEW q \in Paths, q # Path(c)
      PROVE  PhaseView'[q] = PhaseView[q]
  <2>1. CASE \E d \in Calls : ~At(d, "idle") /\ Path(d) = q
    <3>1. PICK d \in Calls : ~At(d, "idle") /\ Path(d) = q
      BY <2>1
    <3>2. call'[d] = call[d]
      BY <1>2, <1>4, <3>1
    <3>3. PhaseOf(d)' = PhaseOf(d)
      BY <3>2 DEF PhaseOf, At
    <3> QED
      BY <1>1, <3>1, <3>2, <3>3 DEF PhasesAreOfCalls, At, Path
  <2>2. CASE \A d \in Calls : ~At(d, "idle") => Path(d) # q
    <3>1. \A d \in Calls : ~At(d, "idle")' => Path(d)' # q
      BY <1>2, <1>4, <2>2 DEF At, Path
    <3> QED
      BY <1>1, <2>2, <3>1 DEF PhasesAreOfCalls
  <2> QED
    BY <2>1, <2>2
<1> QED
  BY <1>1, <1>2, <1>3, <1>4 DEF PhasesAreOfCalls

LEMMA ArriveMovesNoPhase ==
  ASSUME SerialInv, SerialInv', NEW c \in Calls, Arrive(c)
  PROVE  PhaseView' = PhaseView
<1>1. PhasesAreOfCalls /\ PhasesAreOfCalls'
  BY PhaseIsOfCall, PhaseIsOfCallNext
<1>2. /\ At(c, "idle") /\ \A d \in Calls : d # c => call'[d] = call[d]
      /\ call'[c].pc \in {"idle", "save", "read", "restore"}
  BY ArriveLocal DEF SerialInv
<1>3. ASSUME NEW q \in Paths
      PROVE  PhaseView'[q] = PhaseView[q]
  <2>1. CASE \E d \in Calls : ~At(d, "idle") /\ Path(d) = q
    <3>1. PICK d \in Calls : ~At(d, "idle") /\ Path(d) = q
      BY <2>1
    <3>2. call'[d] = call[d]
      BY <1>2, <3>1
    <3>3. PhaseOf(d)' = PhaseOf(d)
      BY <3>2 DEF PhaseOf, At
    <3> QED
      BY <1>1, <3>1, <3>2, <3>3 DEF PhasesAreOfCalls, At, Path
  <2>2. CASE \A d \in Calls : ~At(d, "idle") => Path(d) # q
    <3>1. \A d \in Calls \ {c} : ~At(d, "idle")' => Path(d)' # q
      BY <1>2, <2>2 DEF At, Path
    <3>2. PhaseOf(c)' = "quiet"
      BY <1>2 DEF PhaseOf, At
    <3>3. PhaseView'[q] = "quiet"
      <4>1. CASE ~At(c, "idle")' /\ Path(c)' = q
        BY <1>1, <3>2, <4>1 DEF PhasesAreOfCalls
      <4>2. CASE At(c, "idle")' \/ Path(c)' # q
        BY <1>1, <3>1, <4>2 DEF PhasesAreOfCalls
      <4> QED
        BY <4>1, <4>2
    <3> QED
      BY <1>1, <2>2, <3>3 DEF PhasesAreOfCalls
  <2> QED
    BY <2>1, <2>2
<1> QED
  BY <1>1, <1>3 DEF PhasesAreOfCalls

-------------------------------------------------------------------------------
(* Each step is a step of UndoHistory or leaves its variables alone.           *)

(* The file of a call may change to anything; those of the others stay.        *)
LEMMA StepDamages ==
  ASSUME SerialInv, SerialInv', NEW c \in Calls, Lock(c) \/ Work(c)
  PROVE  History!Damage(Path(c))
  BY StepLocal DEF History!Damage, SerialInv, LockInv, TypeOK

LEMMA LockImplements ==
  ASSUME SerialInv, SerialInv', NEW c \in Calls, Lock(c)
  PROVE  UNCHANGED History!vars
<1>1. UNCHANGED <<disk, entries>>
  BY DEF Lock, SaveRead, Lookup, fsVars
<1>2. PhaseOf(c) = "quiet"
  BY DEF Lock, SaveRead, Lookup, PhaseOf, At
<1>3. call'[c].pc \in {"store", "mkdir", "apply", "idle", "unlink", "open"}
  BY DEF Lock, SaveRead, Lookup, Goto, Return, AfterSave, Blank,
         SerialInv, LockInv, TypeOK, CallRecord
<1>4. PhaseOf(c)' = "quiet"
  BY <1>3 DEF PhaseOf, At
<1>5. PhaseView' = PhaseView
  BY <1>2, <1>4, StepMovesPhase, PhaseIsOfCall DEF PhasesAreOfCalls
<1> QED
  BY <1>1, <1>5 DEF History!vars

(* Steps before the file is opened and after it is written, and failures        *)
(* before it is opened.                                                       *)
LEMMA QuietImplements ==
  ASSUME SerialInv, SerialInv', NEW c \in Calls, Lock(c) \/ Work(c),
         UNCHANGED <<disk, entries>>, PhaseOf(c)' = PhaseOf(c)
  PROVE  UNCHANGED History!vars
<1>1. PhaseView' = PhaseView
  BY StepMovesPhase, PhaseIsOfCall DEF PhasesAreOfCalls
<1> QED
  BY <1>1 DEF History!vars

(* What is known of a call that works, and where it may go.                    *)
LEMMA Working ==
  ASSUME SerialInv, NEW c \in Calls, Work(c)
  PROVE  /\ Knows(c) /\ Shape(c) /\ Path(c) \in Paths /\ ~At(c, "idle")
         /\ call[c].text \in Content
         /\ call[c].op \in {"write_file", "edit_file", "undo"}
         /\ entries \in [Paths -> Image \cup {None}] /\ disk \in [Paths -> Image]
         /\ None \notin Image /\ NoFile \notin Content
<1>1. ~At(c, "idle")
  BY StepLocal DEF SerialInv
<1>2. call[c] \in CallRecord
  BY DEF SerialInv, LockInv, TypeOK
<1>3. call[c].text \in Content /\ call[c].op \in Ops
  BY <1>2 DEF CallRecord
<1> QED
  BY <1>1, <1>3, FileStoreAssumption DEF SerialInv, LockInv, TypeOK, Shape, Ops

LEMMA Moves ==
  ASSUME SerialInv, NEW c \in Calls
  PROVE  /\ \A l : Goto(c, l) => call'[c].pc = l /\ call'[c].op = call[c].op
         /\ \A q : Return(c, q) => call'[c].pc = "idle" /\ call'[c].reply = q
<1>1. call \in [Calls -> CallRecord] /\ call[c] \in CallRecord
  BY DEF SerialInv, LockInv, TypeOK
<1>2. ASSUME NEW l, Goto(c, l) PROVE call'[c].pc = l /\ call'[c].op = call[c].op
  BY <1>1, <1>2 DEF Goto, CallRecord
<1>3. ASSUME NEW q, Return(c, q) PROVE call'[c].pc = "idle" /\ call'[c].reply = q
  BY <1>1, <1>3 DEF Return, Blank
<1> QED
  BY <1>2, <1>3

(* Save stores a checkpoint of the file.                                      *)
LEMMA SaveStoreImplements ==
  ASSUME SerialInv, SerialInv', NEW c \in Calls, SaveStore(c)
  PROVE  History!Checkpoint(Path(c))
<1>1. Work(c)
  BY DEF Work
<1>2. PhaseOf(c) = "quiet" /\ call[c].image = disk[Path(c)] /\ UNCHANGED disk
  BY <1>1, Working DEF SaveStore, At, PhaseOf, Knows, fsVars
<1>3. call'[c].pc \in {"mkdir", "apply"}
  BY DEF SaveStore, AfterSave, SerialInv, LockInv, TypeOK, CallRecord
<1>4. PhaseOf(c)' = "quiet"
  BY <1>3 DEF PhaseOf, At
<1>5. PhaseView' = PhaseView /\ PhaseView[Path(c)] = "quiet"
  BY <1>1, <1>2, <1>4, StepMovesPhase, PhaseIsOfCall DEF PhasesAreOfCalls
<1>6. entries' = [entries EXCEPT ![Path(c)] = disk[Path(c)]]
  BY <1>2 DEF SaveStore
<1> QED
  BY <1>2, <1>5, <1>6 DEF History!Checkpoint

(* Opening for writing begins the write or the restoration.                    *)
LEMMA OpenImplements ==
  ASSUME SerialInv, SerialInv', NEW c \in Calls, OpenTrunc(c)
  PROVE  \/ History!BeginWrite(Path(c)) \/ History!BeginRestore(Path(c))
         \/ UNCHANGED History!vars
<1> DEFINE p == Path(c)
<1>1. Work(c) /\ UNCHANGED entries /\ At(c, "open")
  BY DEF Work, OpenTrunc
<1>2. PhaseOf(c) = "quiet"
  BY <1>1 DEF At, PhaseOf
<1>3. CASE Goto(c, "write")
  <2>1. call'[c].pc = "write" /\ call'[c].op = call[c].op
    BY <1>3, Moves
  <2>2. History!Damage(p)
    BY <1>1, StepDamages
  <2>3. CASE call[c].op # "undo"
    <3>1. PhaseOf(c)' = "writing"
      BY <2>1, <2>3 DEF PhaseOf, At
    <3>2. entries[p] = disk[p]
      BY <1>1, <2>3, Working DEF Knows, Modifying, At
    <3>3. History!Enter(p, "quiet", "writing")
      BY <1>1, <1>2, <3>1, StepMovesPhase DEF History!Enter
    <3> QED
      BY <1>1, <2>2, <3>2, <3>3 DEF History!BeginWrite
  <2>4. CASE call[c].op = "undo"
    <3>1. PhaseOf(c)' = "restoring"
      BY <2>1, <2>4 DEF PhaseOf, At
    <3>2. entries[p] # None
      BY <1>1, <2>4, Working DEF Knows, At, Image
    <3>3. History!Enter(p, "quiet", "restoring")
      BY <1>1, <1>2, <3>1, StepMovesPhase DEF History!Enter
    <3> QED
      BY <1>1, <2>2, <3>2, <3>3 DEF History!BeginRestore
  <2> QED
    BY <2>3, <2>4
<1>4. CASE Fail(c) /\ UNCHANGED disk
  <2>1. PhaseOf(c)' = "quiet"
    BY <1>4, Moves DEF Fail, PhaseOf, At
  <2> QED
    BY <1>1, <1>2, <1>4, <2>1, QuietImplements
<1> QED
  BY <1>3, <1>4 DEF OpenTrunc

(* The write ends it, well or not.                                            *)
LEMMA WriteImplements ==
  ASSUME SerialInv, SerialInv', NEW c \in Calls, WriteAll(c)
  PROVE  \/ History!EndWrite(Path(c)) \/ History!EndRestore(Path(c))
         \/ History!FailRestore(Path(c))
<1> DEFINE p == Path(c)
<1>1. Work(c) /\ UNCHANGED entries /\ At(c, "write") /\ p \in Paths
  BY Working DEF Work, WriteAll
<1>2. History!Damage(p)
  BY <1>1, StepDamages
<1>3. CASE call[c].op # "undo"
  <2>1. PhaseOf(c) = "writing"
    BY <1>1, <1>3 DEF PhaseOf, At
  <2>2. call'[c].pc \in {"idle", "stat"}
    BY <1>1, <1>3, Working, Moves DEF WriteAll, AfterWrite, Fail
  <2>3. PhaseOf(c)' = "quiet"
    BY <2>2 DEF PhaseOf, At
  <2>4. History!Enter(p, "writing", "quiet")
    BY <1>1, <2>1, <2>3, StepMovesPhase DEF History!Enter
  <2> QED
    BY <1>1, <1>2, <2>4 DEF History!EndWrite
<1>4. CASE call[c].op = "undo"
  <2>1. PhaseOf(c) = "restoring" /\ entries[p] = call[c].text /\ entries[p] # None
    BY <1>1, <1>4, Working DEF PhaseOf, At, Knows, Image
  <2>2. CASE Fill(c, call[c].text) /\ AfterWrite(c)
    <3>1. PhaseOf(c)' = "restored"
      BY <1>4, <2>2, Moves DEF AfterWrite, PhaseOf, At
    <3>2. disk'[p] = entries[p]
      BY <1>1, <2>1, <2>2, WholeWrite
    <3>3. disk' = [disk EXCEPT ![p] = entries[p]]
      BY <1>1, <1>2, <3>2, Working DEF History!Damage
    <3>4. History!Enter(p, "restoring", "restored")
      BY <1>1, <2>1, <3>1, StepMovesPhase DEF History!Enter
    <3> QED
      BY <1>1, <2>1, <3>3, <3>4 DEF History!EndRestore
  <2>3. CASE Fail(c)
    <3>1. PhaseOf(c)' = "quiet"
      BY <2>3, Moves DEF Fail, PhaseOf, At
    <3>2. History!Enter(p, "restoring", "quiet")
      BY <1>1, <2>1, <3>1, StepMovesPhase DEF History!Enter
    <3> QED
      BY <1>1, <1>2, <3>2 DEF History!FailRestore
  <2> QED
    BY <2>2, <2>3 DEF WriteAll
<1> QED
  BY <1>3, <1>4

(* A file that did not exist is restored by its removal.                       *)
LEMMA UnlinkImplements ==
  ASSUME SerialInv, SerialInv', NEW c \in Calls, Unlink(c)
  PROVE  History!EndRestore(Path(c)) \/ UNCHANGED History!vars
<1> DEFINE p == Path(c)
<1>1. Work(c) /\ UNCHANGED entries /\ At(c, "unlink")
  BY DEF Work, Unlink
<1>2. PhaseOf(c) = "quiet"
  BY <1>1 DEF PhaseOf, At
<1>3. CASE disk' = [disk EXCEPT ![p] = NoFile] /\ Goto(c, "forget")
  <2>1. PhaseOf(c)' = "restored"
    BY <1>3, Moves DEF PhaseOf, At
  <2>2. entries[p] = NoFile /\ entries[p] # None
    BY <1>1, Working DEF Knows, Image
  <2>3. History!Enter(p, "quiet", "restored")
    BY <1>1, <1>2, <2>1, StepMovesPhase DEF History!Enter
  <2> QED
    BY <1>1, <1>3, <2>2, <2>3 DEF History!EndRestore
<1>4. CASE Fail(c) /\ UNCHANGED disk
  <2>1. PhaseOf(c)' = "quiet"
    BY <1>4, Moves DEF Fail, PhaseOf, At
  <2> QED
    BY <1>1, <1>2, <1>4, <2>1, QuietImplements
<1> QED
  BY <1>3, <1>4 DEF Unlink

(* The entry is deleted when the file is restored.                            *)
LEMMA ForgetImplements ==
  ASSUME SerialInv, SerialInv', NEW c \in Calls, Forget(c)
  PROVE  History!Forget(Path(c))
<1>1. Work(c) /\ UNCHANGED disk /\ At(c, "forget")
  BY DEF Work, Forget, fsVars
<1>2. PhaseOf(c) = "restored" /\ PhaseOf(c)' = "quiet"
  BY <1>1, Moves DEF Forget, PhaseOf, At
<1>3. History!Enter(Path(c), "restored", "quiet")
  BY <1>1, <1>2, StepMovesPhase DEF History!Enter
<1> QED
  BY <1>1, <1>3 DEF Forget, History!Forget

LEMMA OtherWorkImplements ==
  ASSUME SerialInv, SerialInv', NEW c \in Calls,
         Mkdir(c) \/ EditRead(c) \/ ApplyEdit(c) \/ EditDone(c) \/ Stat(c)
  PROVE  UNCHANGED History!vars
<1>1. Work(c) /\ UNCHANGED <<disk, entries>>
  BY DEF Work, Mkdir, EditRead, ApplyEdit, EditDone, Stat, fsVars, undoVars
<1>2. PhaseOf(c) = "quiet"
  BY DEF Mkdir, EditRead, ApplyEdit, EditDone, Stat, PhaseOf, At
<1>3. call'[c].pc \in {"idle", "open", "save", "apply"}
  <2>1. call \in [Calls -> CallRecord] /\ call[c] \in CallRecord
    BY DEF SerialInv, LockInv, TypeOK
  <2>2. CASE EditRead(c)
    BY <2>1, <2>2, Moves DEF EditRead, CallRecord
  <2>3. CASE ApplyEdit(c)
    BY <2>1, <2>3 DEF ApplyEdit, At, CallRecord
  <2>4. CASE Mkdir(c) \/ EditDone(c) \/ Stat(c)
    BY <2>4, Moves DEF Mkdir, EditDone, Stat
  <2> QED
    BY <2>2, <2>3, <2>4
<1>4. PhaseOf(c)' = "quiet"
  BY <1>3 DEF PhaseOf, At
<1> QED
  BY <1>1, <1>2, <1>4, QuietImplements

(* A crash is a restart.                                                      *)
LEMMA CrashImplements ==
  ASSUME SerialInv, SerialInv', Crash
  PROVE  History!Restart
<1>1. \A c \in Calls : At(c, "idle")'
  BY DEF Crash, Blank, At
<1>2. PhaseView' = [p \in Paths |-> "quiet"]
  BY <1>1, PhaseIsOfCallNext DEF PhasesAreOfCalls
<1> QED
  BY <1>2 DEF Crash, History!Restart

LEMMA NextImplements ==
  ASSUME SerialInv, SerialInv', Serial, [Next]_vars
  PROVE  [History!Next]_(History!vars)
<1>1. CASE UNCHANGED vars
  <2>1. PhaseView' = PhaseView
    BY <1>1 DEF vars, PhaseView, PhaseOf, At, Path
  <2> QED
    BY <1>1, <2>1 DEF vars, History!vars
<1>2. CASE Crash
  BY <1>2, CrashImplements DEF History!Next
<1>3. ASSUME NEW c \in Calls, Arrive(c)
      PROVE  UNCHANGED History!vars
  BY <1>3, ArriveMovesNoPhase, ArriveLocal DEF History!vars, SerialInv
<1>4. ASSUME NEW c \in Calls, Work(c)
      PROVE  [History!Next]_(History!vars)
  <2>1. Path(c) \in Paths
    BY <1>4, Working
  <2> QED
    BY <1>4, <2>1, SaveStoreImplements, OpenImplements, WriteImplements, UnlinkImplements,
       ForgetImplements, OtherWorkImplements DEF Work, History!Next
<1> QED
  BY <1>1, <1>2, <1>3, <1>4, LockImplements DEF Next, Serial

LEMMA InitImplements == Init => History!Init
<1> SUFFICES ASSUME Init PROVE History!Init
  OBVIOUS
<1>1. \A c \in Calls : PhaseOf(c) = "quiet"
  BY DEF Init, PhaseOf, Blank, At
<1>2. PhaseView = [p \in Paths |-> "quiet"]
  BY <1>1 DEF PhaseView
<1>3. disk \in [Paths -> Image]
  BY FileStoreAssumption DEF Init, Image
<1> QED
  BY <1>2, <1>3 DEF Init, History!Init

(* write_file, edit_file and undo implement UndoHistory: a file is touched only *)
(* when undo would bring back what is there, an undo brings back exactly that,  *)
(* and one that fails can be repeated.                                        *)
THEOREM HandlersImplementUndoHistory ==
  ASSUME Serial
  PROVE  Spec => ImplementsUndoHistory
<1>1. SerialInv /\ SerialInv' /\ [Next]_vars => [History!Next]_(History!vars)
  BY NextImplements
<1> QED
  BY <1>1, InitImplements, SerialInvariant, PTL DEF Spec, ImplementsUndoHistory, History!Spec

-------------------------------------------------------------------------------
(* The answers.                                                               *)

(* What a call leaves on disk when it returns.                                *)
LEMMA ReturnsTruly ==
  ASSUME SerialInv, NEW c \in Calls, Lock(c) \/ Work(c), Returns(c)
  PROVE  \/ call'[c].reply \in {"ok", "partial"} /\ disk'[Path(c)] = Meant(c)
         \/ call'[c].reply = "error"
<1>1. call'[c].pc = "idle"
  BY DEF Returns
<1>2. \A q : Return(c, q) => call'[c].reply = q
  BY Moves
<1>3. \A l : Goto(c, l) => l = "idle"
  BY <1>1, Moves
<1>4. call \in [Calls -> CallRecord] /\ call[c] \in CallRecord
  BY DEF SerialInv, LockInv, TypeOK
<1>5. CASE Lock(c)
  <2>1. call'[c].pc # "idle" \/ Return(c, "error")
    BY <1>4, <1>5, Moves DEF Lock, SaveRead, Lookup, AfterSave, CallRecord
  <2> QED
    BY <1>1, <1>2, <2>1
<1>6. CASE SaveStore(c) \/ Mkdir(c) \/ EditRead(c) \/ ApplyEdit(c) \/ EditDone(c)
             \/ OpenTrunc(c) \/ Unlink(c)
  <2>1. CASE SaveStore(c)
    BY <1>1, <1>4, <2>1 DEF SaveStore, AfterSave, CallRecord
  <2>2. CASE Mkdir(c) \/ EditDone(c) \/ OpenTrunc(c) \/ Unlink(c)
    BY <1>2, <1>3, <2>2 DEF Mkdir, EditDone, OpenTrunc, Unlink, Fail
  <2>3. CASE EditRead(c)
    BY <1>1, <1>2, <1>4, <2>3 DEF EditRead, CallRecord
  <2>4. CASE ApplyEdit(c)
    BY <1>1, <1>4, <2>4 DEF ApplyEdit, At, CallRecord
  <2> QED
    BY <1>6, <2>1, <2>2, <2>3, <2>4
<1>7. CASE WriteAll(c)
  <2>1. At(c, "write") /\ Work(c)
    BY <1>7 DEF WriteAll, Work
  <2>2. CASE Fill(c, call[c].text) /\ AfterWrite(c)
    <3>1. disk'[Path(c)] = call[c].text
      BY <2>1, <2>2, WholeWrite
    <3>2. call[c].op = "edit_file" /\ \E q \in {"ok", "partial"} : Return(c, q)
      BY <1>3, <2>1, <2>2, Working DEF AfterWrite
    <3> QED
      BY <1>2, <3>1, <3>2 DEF Meant
  <2> QED
    BY <1>2, <1>7, <2>2 DEF WriteAll, Fail
<1>8. CASE Stat(c)
  <2>1. Work(c) /\ At(c, "stat") /\ UNCHANGED disk
    BY <1>8 DEF Work, Stat, fsVars
  <2>2. disk[Path(c)] = call[c].text /\ call[c].op = "write_file" /\ disk[Path(c)] # NoFile
    BY <2>1, Working DEF Knows, Shape, At
  <2> QED
    BY <1>2, <1>8, <2>1, <2>2 DEF Stat, Meant
<1>9. CASE Forget(c)
  <2>1. Work(c) /\ At(c, "forget") /\ UNCHANGED disk
    BY <1>9 DEF Work, Forget, fsVars
  <2>2. disk[Path(c)] = entries[Path(c)] /\ call[c].op = "undo"
    BY <2>1, Working DEF Knows, Shape, At
  <2> QED
    BY <1>2, <1>9, <2>1, <2>2 DEF Forget, Meant
<1> QED
  BY <1>5, <1>6, <1>7, <1>8, <1>9 DEF Work

(* An answer of success is true of the disk: the file has what the call meant   *)
(* it to have, and write_file finds it.                                       *)
THEOREM AnswersAreOnDisk == ASSUME Serial PROVE Spec => AnswerIsOnDisk
<1> DEFINE True(c) ==
      Returns(c) =>
        \/ call'[c].reply \in {"ok", "partial"} /\ disk'[Path(c)] = Meant(c)
        \/ call'[c].reply = "error"
        \/ Crash
<1>1. ASSUME SerialInv, [Next]_vars
      PROVE  [\A c \in Calls : True(c)]_vars
  <2> SUFFICES ASSUME Next, NEW c \in Calls, Returns(c), ~Crash
               PROVE  True(c)
    BY <1>1
  <2>1. PICK d \in Calls : Arrive(d) \/ Lock(d) \/ Work(d)
    BY DEF Next, Serial
  <2>2. CASE Arrive(d)
    <3>1. call'[c].pc = call[c].pc \/ At(c, "idle")
      BY <1>1, <2>2, ArriveLocal DEF SerialInv
    <3> QED
      BY <3>1 DEF Returns, At
  <2>3. CASE Lock(d) \/ Work(d)
    <3>1. c = d
      BY <1>1, <2>3, StepLocal DEF Returns, SerialInv, At
    <3> QED
      BY <1>1, <2>3, <3>1, ReturnsTruly
  <2> QED
    BY <2>1, <2>2, <2>3
<1> QED
  BY <1>1, SerialInvariant, PTL DEF Spec, AnswerIsOnDisk
===============================================================================
