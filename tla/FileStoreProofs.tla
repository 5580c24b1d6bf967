---------------------------- MODULE FileStoreProofs ----------------------------
(******************************************************************************)
(* Proofs about FileStore for any set of calls, paths, tokens and edits.       *)
(******************************************************************************)
EXTENDS FileStore, SequenceTheorems, TLAPS

-------------------------------------------------------------------------------
(* Contents stay contents.                                                    *)

LEMMA PrefixType ==
  ASSUME NEW t \in Content, NEW s \in Prefixes(t)
  PROVE  s \in Content
<1>1. PICK n \in 0..(Len(t) - 1) : s = SubSeq(t, 1, n)
  BY DEF Prefixes
<1>2. \A i \in 1..n : t[i] \in Tokens
  BY LenProperties, ElementOfSeq DEF Content
<1> QED
  BY <1>1, <1>2, SubSeqProperties DEF Content

LEMMA OverlayType ==
  ASSUME NEW new \in Content, NEW old \in Content
  PROVE  Overlay(new, old) \in Content
<1>1. Len(new) \in Nat /\ Len(old) \in Nat
  BY LenProperties DEF Content
<1>2. \A i \in (Len(new) + 1)..Len(old) : old[i] \in Tokens
  BY <1>1, ElementOfSeq DEF Content
<1>3. SubSeq(old, Len(new) + 1, Len(old)) \in Content
  BY <1>1, <1>2, SubSeqProperties DEF Content
<1> QED
  BY <1>3, ConcatProperties DEF Overlay, Content

LEMMA ReplacedType ==
  ASSUME NEW t \in Content, NEW e \in Edit
  PROVE  Replaced(t, e) \in Content
<1>1. Len(t) \in Nat
  BY LenProperties DEF Content
<1>2. \A i \in 1..Len(t) : t[i] \in Tokens
  BY ElementOfSeq DEF Content
<1>3. Replaced(t, e) \in [1..Len(t) -> Tokens]
  BY <1>2 DEF Replaced, Edit
<1> QED
  BY <1>1, <1>3, SeqDef DEF Content

(* Replacing the record of one call leaves the others alone.                  *)
LEMMA CallUpdate ==
  ASSUME TypeOK, NEW c \in Calls, NEW r \in CallRecord,
         r.pc # "idle" => r.path \in Paths,
         call' = [call EXCEPT ![c] = r]
  PROVE  /\ call' \in [Calls -> CallRecord]
         /\ \A d \in Calls : call'[d] = IF d = c THEN r ELSE call[d]
         /\ \A d \in Calls : ~At(d, "idle")' => Path(d)' \in Paths
  BY DEF TypeOK, At, Path

LEMMA BlankType ==
  ASSUME NEW r \in Replies
  PROVE  [Blank EXCEPT !.reply = r] \in CallRecord
  BY EmptySeq DEF Blank, CallRecord, Labels, Ops, Replies, Image, Content

-------------------------------------------------------------------------------
(* The initial states satisfy the invariant.                                  *)
LEMMA InitLockInv == Init => LockInv
<1> SUFFICES ASSUME Init PROVE LockInv
  OBVIOUS
<1>1. Blank \in CallRecord
  BY EmptySeq DEF Blank, CallRecord, Labels, Ops, Replies, Image, Content
<1>2. TypeOK
  BY <1>1, FileStoreAssumption DEF Init, TypeOK, Image, Blank, At
<1>3. \A c \in Calls : Shape(c)
  BY DEF Init, Shape, At, Blank
<1>4. OpenIsWriting
  BY DEF Init, OpenIsWriting
<1>5. LockDiscipline
  BY FileStoreAssumption DEF Init, LockDiscipline, InCritical, Blank
<1> QED
  BY <1>2, <1>3, <1>4, <1>5 DEF LockInv

-------------------------------------------------------------------------------
(* A step replaces the record of one call.  What the new record, the files and  *)
(* the lock must be like for the invariant to be kept:                         *)
WellShaped(r) ==
  /\ r \in CallRecord
  /\ r.pc # "idle" => r.path \in Paths
  /\ r.pc = "idle" <=> r.op = "none"
  /\ r.pc \in {"read", "apply"} => r.op = "edit_file"
  /\ r.pc \in {"mkdir", "stat"} => r.op = "write_file"
  /\ r.pc \in {"save", "store"} => r.op \in {"write_file", "edit_file"}
  /\ r.pc \in {"restore", "unlink", "forget"} => r.op = "undo"

Holds(r) ==
  \/ r.pc \in {"store", "unlink", "forget"}
  \/ r.op = "undo" /\ r.pc \in {"open", "write"}

LEMMA RecordsWellShaped ==
  ASSUME LockInv, NEW c \in Calls
  PROVE  WellShaped(call[c]) /\ (mu = c <=> Holds(call[c]))
  BY DEF LockInv, TypeOK, WellShaped, Shape, LockDiscipline, InCritical, Holds,
         At, Path

LEMMA CallStep ==
  ASSUME LockInv, NEW c \in Calls, NEW r, WellShaped(r),
         call' = [call EXCEPT ![c] = r],
         disk' \in [Paths -> Image], parents' \subseteq Paths,
         open' \subseteq Calls, entries' \in [Paths -> Image \cup {None}],
         \A d \in open' : call'[d].pc = "write" /\ disk'[call'[d].path] # NoFile,
         Holds(r) => mu \in {c, None},
         mu' = IF Holds(r) THEN c ELSE IF mu = c THEN None ELSE mu
  PROVE  LockInv'
<1>1. /\ call' \in [Calls -> CallRecord]
      /\ \A d \in Calls : call'[d] = IF d = c THEN r ELSE call[d]
      /\ \A d \in Calls : ~At(d, "idle")' => Path(d)' \in Paths
  BY CallUpdate DEF LockInv, WellShaped
<1>2. TypeOK'
  BY <1>1 DEF LockInv, TypeOK
<1>3. \A d \in Calls : Shape(d)'
  BY <1>1 DEF LockInv, Shape, WellShaped, At
<1>4. OpenIsWriting'
  BY <1>1 DEF OpenIsWriting, At, Path
<1>5. None \notin Calls
  BY FileStoreAssumption
<1>6. ASSUME NEW d \in Calls
      PROVE  mu' = d <=> InCritical(d)'
  <2>1. InCritical(d)' <=> Holds(call'[d])
    BY DEF InCritical, Holds
  <2>2. mu = d <=> Holds(call[d])
    BY RecordsWellShaped
  <2>3. CASE d = c
    BY <1>1, <1>5, <2>1, <2>3
  <2>4. CASE d # c
    BY <1>1, <1>5, <2>1, <2>2, <2>4
  <2> QED
    BY <2>3, <2>4
<1> QED
  BY <1>2, <1>3, <1>4, <1>6 DEF LockInv, LockDiscipline

(* The steps that leave the files and the descriptors alone.                   *)
LEMMA QuietStep ==
  ASSUME LockInv, NEW c \in Calls, NEW r, WellShaped(r), ~At(c, "write"),
         call' = [call EXCEPT ![c] = r],
         UNCHANGED <<disk, open>>, parents' \subseteq Paths,
         entries' \in [Paths -> Image \cup {None}],
         Holds(r) => mu \in {c, None},
         mu' = IF Holds(r) THEN c ELSE IF mu = c THEN None ELSE mu
  PROVE  LockInv'
<1>1. \A d \in open : d # c /\ call'[d] = call[d]
  BY DEF LockInv, TypeOK, OpenIsWriting, At
<1>2. \A d \in open' : call'[d].pc = "write" /\ disk'[call'[d].path] # NoFile
  BY <1>1 DEF LockInv, OpenIsWriting, At, Path
<1> QED
  BY <1>2, CallStep DEF LockInv, TypeOK

(* The end of a handler that has not got a descriptor, with or without the lock. *)
LEMMA ReturnStep ==
  ASSUME LockInv, NEW c \in Calls, NEW q \in Replies, ~At(c, "write"),
         Return(c, q),
         UNCHANGED <<disk, open>>, parents' \subseteq Paths,
         entries' \in [Paths -> Image \cup {None}],
         mu' = IF mu = c THEN None ELSE mu
  PROVE  LockInv'
<1> DEFINE r == [Blank EXCEPT !.reply = q]
<1>1. WellShaped(r) /\ ~Holds(r)
  BY BlankType DEF WellShaped, Holds, Blank
<1>2. call' = [call EXCEPT ![c] = r]
  BY DEF Return
<1> HIDE DEF r
<1> QED
  BY <1>1, <1>2, QuietStep

(* The record of a call that goes to another label, all else the same.         *)
LEMMA GotoRecord ==
  ASSUME LockInv, NEW c \in Calls, NEW l \in Labels, Goto(c, l)
  PROVE  LET r == [call[c] EXCEPT !.pc = l]
         IN  /\ r \in CallRecord
             /\ call' = [call EXCEPT ![c] = r]
             /\ r.pc = l /\ r.op = call[c].op /\ r.path = call[c].path
             /\ r.text = call[c].text
<1>1. call \in [Calls -> CallRecord] /\ call[c] \in CallRecord
  BY DEF LockInv, TypeOK
<1>2. call' = [call EXCEPT ![c] = [call[c] EXCEPT !.pc = l]]
  BY <1>1 DEF Goto
<1> QED
  BY <1>1, <1>2 DEF CallRecord

-------------------------------------------------------------------------------
(* Each step keeps the invariant: one lemma for each action.                   *)

LEMMA ArriveLockInv ==
  ASSUME LockInv, NEW c \in Calls, Arrive(c)
  PROVE  LockInv'
<1>1. ASSUME NEW p \in Paths, NEW o \in {"write_file", "edit_file", "undo"},
             NEW l, NEW t \in Content, NEW b \in Seq(Edit),
             <<o, l>> \in {<<"write_file", "save">>, <<"edit_file", "read">>,
                           <<"undo", "restore">>},
             Begin(c, p, o, l, t, b)
      PROVE  LockInv'
  <2> DEFINE r == [Blank EXCEPT !.pc = l, !.op = o, !.path = p, !.text = t, !.edits = b]
  <2>1. WellShaped(r) /\ ~Holds(r)
    BY <1>1 DEF WellShaped, Holds, Blank, CallRecord, Labels, Ops, Replies, Image
  <2>2. /\ call' = [call EXCEPT ![c] = r]
        /\ UNCHANGED <<disk, open, parents, entries, mu>>
        /\ At(c, "idle")
    BY <1>1 DEF Begin, MayBegin, fsVars, undoVars
  <2> HIDE DEF r
  <2>3. mu # c
    BY <2>2, RecordsWellShaped DEF At, Holds, WellShaped
  <2> QED
    BY <2>1, <2>2, <2>3, QuietStep DEF At, LockInv, TypeOK
<1>2. CASE Reject(c)
  <2>1. mu # c
    BY <1>2, RecordsWellShaped DEF Reject, At, Holds, WellShaped
  <2> QED
    BY <1>2, <2>1, ReturnStep
       DEF Reject, At, LockInv, TypeOK, fsVars, undoVars, Replies
<1>3. <<>> \in Content /\ <<>> \in Seq(Edit)
  BY EmptySeq DEF Content
<1>4. ASSUME NEW p \in Paths, NEW t \in Texts, BeginWriteFile(c, p, t)
      PROVE  LockInv'
  BY <1>1, <1>3, <1>4, FileStoreAssumption DEF BeginWriteFile
<1>5. ASSUME NEW p \in Paths, NEW b \in EditBatches, BeginEditFile(c, p, b)
      PROVE  LockInv'
  BY <1>1, <1>3, <1>5, FileStoreAssumption DEF BeginEditFile
<1>6. ASSUME NEW p \in Paths, BeginUndo(c, p)
      PROVE  LockInv'
  BY <1>1, <1>3, <1>6 DEF BeginUndo
<1> QED
  BY <1>2, <1>4, <1>5, <1>6 DEF Arrive

LEMMA SaveReadLockInv ==
  ASSUME LockInv, NEW c \in Calls, SaveRead(c)
  PROVE  LockInv'
<1>1. WellShaped(call[c]) /\ call[c].pc = "save" /\ mu = None /\ mu # c
  BY RecordsWellShaped, FileStoreAssumption DEF SaveRead, At, Holds
<1>2. UNCHANGED <<disk, open, parents, entries>>
  BY DEF SaveRead, fsVars
<1>3. CASE /\ call' = [call EXCEPT ![c].pc = "store", ![c].image = disk[Path(c)]]
           /\ mu' = c
  <2> DEFINE r == [call[c] EXCEPT !.pc = "store", !.image = disk[Path(c)]]
  <2>1. disk[Path(c)] \in Image
    BY <1>1 DEF LockInv, TypeOK, WellShaped, Path
  <2>2. WellShaped(r) /\ Holds(r)
    BY <1>1, <2>1 DEF WellShaped, Holds, CallRecord, Labels
  <2>3. call' = [call EXCEPT ![c] = r]
    BY <1>3 DEF LockInv, TypeOK
  <2> HIDE DEF r
  <2> QED
    BY <1>1, <1>2, <1>3, <2>2, <2>3, QuietStep DEF LockInv, TypeOK, At
<1>4. CASE Goto(c, AfterSave(c)) /\ UNCHANGED mu
  <2> DEFINE r == [call[c] EXCEPT !.pc = AfterSave(c)]
  <2>1. /\ AfterSave(c) \in {"mkdir", "apply"}
        /\ AfterSave(c) = "mkdir" => call[c].op = "write_file"
        /\ AfterSave(c) = "apply" => call[c].op = "edit_file"
    BY <1>1 DEF AfterSave, WellShaped
  <2>2. AfterSave(c) \in Labels
    BY <2>1 DEF Labels
  <2>3. /\ r \in CallRecord /\ call' = [call EXCEPT ![c] = r]
        /\ r.pc = AfterSave(c) /\ r.op = call[c].op /\ r.path = call[c].path
    BY <1>4, <2>2, GotoRecord
  <2> HIDE DEF r
  <2>4. WellShaped(r) /\ ~Holds(r)
    BY <1>1, <2>1, <2>3 DEF WellShaped, Holds
  <2> QED
    BY <1>1, <1>2, <1>4, <2>3, <2>4, QuietStep DEF LockInv, TypeOK, At
<1> QED
  BY <1>3, <1>4 DEF SaveRead

LEMMA SaveStoreLockInv ==
  ASSUME LockInv, NEW c \in Calls, SaveStore(c)
  PROVE  LockInv'
<1> DEFINE r == [call[c] EXCEPT !.pc = AfterSave(c), !.image = NoFile]
<1>1. WellShaped(call[c]) /\ call[c].pc = "store" /\ mu = c /\ mu' = None
  BY RecordsWellShaped DEF SaveStore, At, Holds
<1>2. WellShaped(r) /\ ~Holds(r)
  BY <1>1 DEF WellShaped, Holds, AfterSave, CallRecord, Labels, Image
<1>3. call' = [call EXCEPT ![c] = r]
  BY DEF SaveStore, LockInv, TypeOK
<1>4. /\ UNCHANGED <<disk, open, parents>>
      /\ entries' \in [Paths -> Image \cup {None}]
  BY <1>1 DEF SaveStore, fsVars, LockInv, TypeOK, WellShaped, CallRecord, Path
<1> HIDE DEF r
<1> QED
  BY <1>1, <1>2, <1>3, <1>4, QuietStep DEF LockInv, TypeOK, At

LEMMA MkdirLockInv ==
  ASSUME LockInv, NEW c \in Calls, Mkdir(c)
  PROVE  LockInv'
<1>1. WellShaped(call[c]) /\ call[c].pc = "mkdir" /\ call[c].op = "write_file" /\ mu # c
  BY RecordsWellShaped DEF Mkdir, At, Holds, WellShaped
<1>2. UNCHANGED <<disk, open, entries, mu>> /\ parents' \subseteq Paths
  BY <1>1 DEF Mkdir, undoVars, LockInv, TypeOK, WellShaped, Path
<1>3. CASE Goto(c, "open")
  <2> DEFINE r == [call[c] EXCEPT !.pc = "open"]
  <2>1. WellShaped(r) /\ ~Holds(r) /\ call' = [call EXCEPT ![c] = r]
    BY <1>1, <1>3, GotoRecord DEF WellShaped, Holds, Labels
  <2> HIDE DEF r
  <2> QED
    BY <1>1, <1>2, <2>1, QuietStep DEF LockInv, TypeOK, At
<1>4. CASE Return(c, "error")
  BY <1>1, <1>2, <1>4, ReturnStep DEF LockInv, TypeOK, At, Replies
<1> QED
  BY <1>3, <1>4 DEF Mkdir

LEMMA EditReadLockInv ==
  ASSUME LockInv, NEW c \in Calls, EditRead(c)
  PROVE  LockInv'
<1>1. WellShaped(call[c]) /\ call[c].pc = "read" /\ call[c].op = "edit_file" /\ mu # c
  BY RecordsWellShaped DEF EditRead, At, Holds, WellShaped
<1>2. UNCHANGED <<disk, open, parents, entries, mu>>
  BY DEF EditRead, fsVars, undoVars
<1>3. CASE /\ disk[Path(c)] # NoFile
           /\ call' = [call EXCEPT ![c].pc = "save", ![c].text = disk[Path(c)]]
  <2> DEFINE r == [call[c] EXCEPT !.pc = "save", !.text = disk[Path(c)]]
  <2>1. disk[Path(c)] \in Content
    BY <1>1, <1>3 DEF LockInv, TypeOK, WellShaped, Path, Image
  <2>2. WellShaped(r) /\ ~Holds(r)
    BY <1>1, <2>1 DEF WellShaped, Holds, CallRecord, Labels
  <2>3. call' = [call EXCEPT ![c] = r]
    BY <1>3 DEF LockInv, TypeOK
  <2> HIDE DEF r
  <2> QED
    BY <1>1, <1>2, <2>2, <2>3, QuietStep DEF LockInv, TypeOK, At
<1>4. CASE Return(c, "error")
  BY <1>1, <1>2, <1>4, ReturnStep DEF LockInv, TypeOK, At, Replies
<1> QED
  BY <1>3, <1>4 DEF EditRead

LEMMA ApplyEditLockInv ==
  ASSUME LockInv, NEW c \in Calls, ApplyEdit(c)
  PROVE  LockInv'
<1> DEFINE t == call[c].text
           e == Head(call[c].edits)
           hit  == [call[c] EXCEPT !.text = Replaced(t, e), !.applied = TRUE,
                                   !.edits = Tail(@)]
           miss == [call[c] EXCEPT !.missed = TRUE, !.edits = Tail(@)]
<1>1. WellShaped(call[c]) /\ call[c].pc = "apply" /\ call[c].op = "edit_file" /\ mu # c
  BY RecordsWellShaped DEF ApplyEdit, At, Holds, WellShaped
<1>2. UNCHANGED <<disk, open, parents, entries, mu>>
  BY DEF ApplyEdit, fsVars, undoVars
<1>3. t \in Content /\ e \in Edit /\ Tail(call[c].edits) \in Seq(Edit)
  BY <1>1, HeadTailProperties DEF ApplyEdit, WellShaped, CallRecord
<1>4. Replaced(t, e) \in Content
  BY <1>3, ReplacedType
<1>5. WellShaped(hit) /\ ~Holds(hit) /\ WellShaped(miss) /\ ~Holds(miss)
  BY <1>1, <1>3, <1>4 DEF WellShaped, Holds, CallRecord
<1>6. \/ call' = [call EXCEPT ![c] = hit]
      \/ call' = [call EXCEPT ![c] = miss]
  BY DEF ApplyEdit, LockInv, TypeOK
<1> HIDE DEF hit, miss
<1> QED
  BY <1>1, <1>2, <1>5, <1>6, QuietStep DEF LockInv, TypeOK, At

LEMMA EditDoneLockInv ==
  ASSUME LockInv, NEW c \in Calls, EditDone(c)
  PROVE  LockInv'
<1>1. WellShaped(call[c]) /\ call[c].pc = "apply" /\ call[c].op = "edit_file" /\ mu # c
  BY RecordsWellShaped DEF EditDone, At, Holds, WellShaped
<1>2. UNCHANGED <<disk, open, parents, entries, mu>>
  BY DEF EditDone, fsVars, undoVars
<1>3. CASE Goto(c, "open")
  <2> DEFINE r == [call[c] EXCEPT !.pc = "open"]
  <2>1. WellShaped(r) /\ ~Holds(r) /\ call' = [call EXCEPT ![c] = r]
    BY <1>1, <1>3, GotoRecord DEF WellShaped, Holds, Labels
  <2> HIDE DEF r
  <2> QED
    BY <1>1, <1>2, <2>1, QuietStep DEF LockInv, TypeOK, At
<1>4. CASE Return(c, "error")
  BY <1>1, <1>2, <1>4, ReturnStep DEF LockInv, TypeOK, At, Replies
<1> QED
  BY <1>3, <1>4 DEF EditDone

(* An error before the descriptor is got, in Restore with the lock held.       *)
LEMMA FailLockInv ==
  ASSUME LockInv, NEW c \in Calls, ~At(c, "write"), Fail(c),
         UNCHANGED <<disk, open, parents, entries>>
  PROVE  LockInv'
  BY ReturnStep DEF Fail, LockInv, TypeOK, Replies

LEMMA OpenTruncLockInv ==
  ASSUME LockInv, NEW c \in Calls, OpenTrunc(c)
  PROVE  LockInv'
<1>1. WellShaped(call[c]) /\ call[c].pc = "open" /\ (mu = c <=> Holds(call[c]))
  BY RecordsWellShaped DEF OpenTrunc, At
<1>2. UNCHANGED <<parents, entries>> /\ Path(c) \in Paths
  BY <1>1 DEF OpenTrunc, WellShaped, Path
<1>3. CASE /\ disk' = [disk EXCEPT ![Path(c)] = <<>>]
           /\ open' = open \cup {c}
           /\ Goto(c, "write")
           /\ UNCHANGED mu
  <2> DEFINE r == [call[c] EXCEPT !.pc = "write"]
  <2>1. /\ r \in CallRecord /\ call' = [call EXCEPT ![c] = r]
        /\ r.pc = "write" /\ r.op = call[c].op /\ r.path = call[c].path
    BY <1>3, GotoRecord DEF Labels
  <2> HIDE DEF r
  <2>2. WellShaped(r) /\ (Holds(r) <=> Holds(call[c]))
    BY <1>1, <2>1 DEF WellShaped, Holds
  <2>3. <<>> \in Content /\ <<>> # NoFile
    BY EmptySeq, FileStoreAssumption DEF Content
  <2>4. disk' \in [Paths -> Image] /\ open' \subseteq Calls
    BY <1>2, <1>3, <2>3 DEF LockInv, TypeOK, Image
  <2>5. \A d \in Calls : call'[d] = IF d = c THEN r ELSE call[d]
    BY <2>1 DEF LockInv, TypeOK
  <2>6. ASSUME NEW d \in open'
        PROVE  call'[d].pc = "write" /\ disk'[call'[d].path] # NoFile
    <3>1. d \in Calls /\ call'[d].pc = "write" /\ call'[d].path = call[d].path
      BY <1>3, <2>1, <2>4, <2>5 DEF LockInv, OpenIsWriting, At
    <3>2. call[d].path \in Paths
      BY <1>1, <3>1, <1>3, RecordsWellShaped DEF WellShaped, LockInv, OpenIsWriting, At
    <3>3. d # c => disk[call[d].path] # NoFile
      BY <1>3 DEF LockInv, OpenIsWriting, Path
    <3> QED
      BY <1>3, <2>3, <3>1, <3>2, <3>3 DEF LockInv, TypeOK, Path
  <2> QED
    BY <1>1, <1>2, <1>3, <2>1, <2>2, <2>4, <2>6, CallStep DEF LockInv, TypeOK
<1>4. CASE Fail(c) /\ UNCHANGED <<disk, open>>
  BY <1>1, <1>2, <1>4, FailLockInv DEF At
<1> QED
  BY <1>3, <1>4 DEF OpenTrunc

(* Filling the file keeps it a file, and closes this call's descriptor.        *)
LEMMA FillType ==
  ASSUME LockInv, NEW c \in Calls, At(c, "write"), NEW t \in Content, Fill(c, t)
  PROVE  /\ disk' \in [Paths -> Image]
         /\ open' \subseteq Calls
         /\ \A d \in open' : /\ d # c /\ d \in open
                             /\ disk'[Path(d)] # NoFile
<1>1. Path(c) \in Paths
  BY DEF LockInv, TypeOK, At
<1>2. c \in open => disk[Path(c)] \in Content
  BY <1>1 DEF LockInv, TypeOK, OpenIsWriting, Image
<1>3. c \in open => Overlay(t, disk[Path(c)]) \in Content
  BY <1>2, OverlayType
<1>4. NoFile \notin Content
  BY FileStoreAssumption
<1>5. \A d \in open : Path(d) \in Paths
  BY DEF LockInv, TypeOK, OpenIsWriting, At
<1>6. disk' \in [Paths -> Image] /\ open' \subseteq Calls
  BY <1>1, <1>3 DEF Fill, LockInv, TypeOK, Image
<1>7. \A d \in open' : d # c /\ d \in open
  BY DEF Fill
<1>8. \A d \in open : disk'[Path(d)] # NoFile
  BY <1>1, <1>3, <1>4, <1>5 DEF Fill, LockInv, TypeOK, OpenIsWriting
<1> QED
  BY <1>6, <1>7, <1>8

LEMMA WriteAllLockInv ==
  ASSUME LockInv, NEW c \in Calls, WriteAll(c)
  PROVE  LockInv'
<1>1. /\ WellShaped(call[c]) /\ call[c].pc = "write" /\ At(c, "write")
      /\ (mu = c <=> Holds(call[c]))
      /\ call[c].text \in Content
  BY RecordsWellShaped DEF WriteAll, At, WellShaped, CallRecord
<1>2. UNCHANGED <<parents, entries>>
  BY DEF WriteAll
<1>3. ASSUME NEW r, WellShaped(r), call' = [call EXCEPT ![c] = r],
             NEW t \in Content, Fill(c, t),
             Holds(r) => mu = c,
             mu' = IF Holds(r) THEN c ELSE IF mu = c THEN None ELSE mu
      PROVE  LockInv'
  <2>1. /\ disk' \in [Paths -> Image] /\ open' \subseteq Calls
        /\ \A d \in open' : d # c /\ d \in open /\ disk'[Path(d)] # NoFile
    BY <1>1, <1>3, FillType
  <2>2. \A d \in open' : call'[d] = call[d] /\ call[d].pc = "write"
    BY <1>3, <2>1 DEF LockInv, TypeOK, OpenIsWriting, At
  <2>3. \A d \in open' : call'[d].pc = "write" /\ disk'[call'[d].path] # NoFile
    BY <2>1, <2>2 DEF Path
  <2> QED
    BY <1>2, <1>3, <2>1, <2>3, CallStep DEF LockInv, TypeOK
<1>4. ASSUME NEW q \in {"ok", "partial", "error"}, Return(c, q),
             NEW t \in Content, Fill(c, t),
             mu' = IF mu = c THEN None ELSE mu
      PROVE  LockInv'
  <2> DEFINE r == [Blank EXCEPT !.reply = q]
  <2>1. WellShaped(r) /\ ~Holds(r)
    BY BlankType DEF WellShaped, Holds, Blank, Replies
  <2>2. call' = [call EXCEPT ![c] = r]
    BY <1>4 DEF Return
  <2> HIDE DEF r
  <2> QED
    BY <1>3, <1>4, <2>1, <2>2
<1>5. CASE Fill(c, call[c].text) /\ AfterWrite(c) /\ UNCHANGED mu
  <2>1. CASE call[c].op = "write_file"
    <3> DEFINE r == [call[c] EXCEPT !.pc = "stat"]
    <3>1. /\ r \in CallRecord /\ call' = [call EXCEPT ![c] = r]
          /\ r.pc = "stat" /\ r.op = call[c].op /\ r.path = call[c].path
      BY <1>5, <2>1, GotoRecord DEF AfterWrite, Labels
    <3> HIDE DEF r
    <3>2. WellShaped(r) /\ ~Holds(r) /\ mu # c
      BY <1>1, <2>1, <3>1 DEF WellShaped, Holds
    <3> QED
      BY <1>1, <1>3, <1>5, <3>1, <3>2
  <2>2. CASE call[c].op = "edit_file"
    <3>1. mu # c
      BY <1>1, <2>2 DEF Holds
    <3>2. PICK q \in {"ok", "partial"} : Return(c, q)
      BY <1>5, <2>2 DEF AfterWrite
    <3> QED
      BY <1>1, <1>4, <1>5, <3>1, <3>2
  <2>3. CASE call[c].op = "undo"
    <3> DEFINE r == [call[c] EXCEPT !.pc = "forget"]
    <3>1. /\ r \in CallRecord /\ call' = [call EXCEPT ![c] = r]
          /\ r.pc = "forget" /\ r.op = call[c].op /\ r.path = call[c].path
      BY <1>5, <2>3, GotoRecord DEF AfterWrite, Labels
    <3> HIDE DEF r
    <3>2. WellShaped(r) /\ Holds(r) /\ mu = c
      BY <1>1, <2>3, <3>1 DEF WellShaped, Holds
    <3> QED
      BY <1>1, <1>3, <1>5, <3>1, <3>2
  <2>4. call[c].op \in {"write_file", "edit_file", "undo"}
    BY <1>1 DEF WellShaped, CallRecord, Ops
  <2> QED
    BY <2>1, <2>2, <2>3, <2>4
<1>6. CASE (\E t \in Prefixes(call[c].text) : Fill(c, t)) /\ Fail(c)
  <2>1. PICK t \in Content : Fill(c, t)
    BY <1>1, <1>6, PrefixType
  <2> QED
    BY <1>4, <1>6, <2>1 DEF Fail
<1> QED
  BY <1>5, <1>6 DEF WriteAll

LEMMA StatLockInv ==
  ASSUME LockInv, NEW c \in Calls, Stat(c)
  PROVE  LockInv'
<1>1. call[c].pc = "stat" /\ call[c].op = "write_file" /\ mu # c
  BY RecordsWellShaped DEF Stat, At, Holds, WellShaped
<1>2. PICK q \in {"ok", "panic"} : Return(c, q)
  BY DEF Stat
<1> QED
  BY <1>1, <1>2, ReturnStep DEF Stat, LockInv, TypeOK, At, Replies, fsVars, undoVars

LEMMA LookupLockInv ==
  ASSUME LockInv, NEW c \in Calls, Lookup(c)
  PROVE  LockInv'
<1>1. WellShaped(call[c]) /\ call[c].pc = "restore" /\ call[c].op = "undo" /\ mu = None
  BY RecordsWellShaped DEF Lookup, At, WellShaped
<1>2. UNCHANGED <<disk, open, parents, entries>> /\ mu # c
  BY <1>1, FileStoreAssumption DEF Lookup, fsVars
<1>3. CASE Return(c, "error") /\ UNCHANGED mu
  BY <1>1, <1>2, <1>3, ReturnStep DEF LockInv, TypeOK, At, Replies
<1>4. CASE Goto(c, "unlink") /\ mu' = c
  <2> DEFINE r == [call[c] EXCEPT !.pc = "unlink"]
  <2>1. WellShaped(r) /\ Holds(r) /\ call' = [call EXCEPT ![c] = r]
    BY <1>1, <1>4, GotoRecord DEF WellShaped, Holds, Labels
  <2> HIDE DEF r
  <2> QED
    BY <1>1, <1>2, <1>4, <2>1, QuietStep DEF LockInv, TypeOK, At
<1>5. CASE /\ entries[Path(c)] \notin {None, NoFile}
           /\ call' = [call EXCEPT ![c].pc = "open", ![c].text = entries[Path(c)]]
           /\ mu' = c
  <2> DEFINE r == [call[c] EXCEPT !.pc = "open", !.text = entries[Path(c)]]
  <2>1. entries[Path(c)] \in Content
    BY <1>1, <1>5 DEF LockInv, TypeOK, WellShaped, Path, Image
  <2>2. WellShaped(r) /\ Holds(r)
    BY <1>1, <2>1 DEF WellShaped, Holds, CallRecord, Labels
  <2>3. call' = [call EXCEPT ![c] = r]
    BY <1>5 DEF LockInv, TypeOK
  <2> HIDE DEF r
  <2> QED
    BY <1>1, <1>2, <1>5, <2>2, <2>3, QuietStep DEF LockInv, TypeOK, At
<1> QED
  BY <1>3, <1>4, <1>5 DEF Lookup

LEMMA UnlinkLockInv ==
  ASSUME LockInv, NEW c \in Calls, Unlink(c)
  PROVE  LockInv'
<1>1. /\ WellShaped(call[c]) /\ call[c].pc = "unlink" /\ call[c].op = "undo"
      /\ mu = c
  BY RecordsWellShaped DEF Unlink, At, WellShaped, Holds
<1>2. UNCHANGED <<parents, entries>> /\ Path(c) \in Paths
  BY <1>1 DEF Unlink, WellShaped, Path
<1>3. CASE /\ disk' = [disk EXCEPT ![Path(c)] = NoFile]
           /\ open' = {d \in open : Path(d) # Path(c)}
           /\ Goto(c, "forget")
           /\ UNCHANGED mu
  <2> DEFINE r == [call[c] EXCEPT !.pc = "forget"]
  <2>1. WellShaped(r) /\ Holds(r) /\ call' = [call EXCEPT ![c] = r]
    BY <1>1, <1>3, GotoRecord DEF WellShaped, Holds, Labels
  <2> HIDE DEF r
  <2>2. disk' \in [Paths -> Image] /\ open' \subseteq Calls
    BY <1>2, <1>3 DEF LockInv, TypeOK, Image
  <2>3. \A d \in open' : /\ d \in open /\ d # c /\ call'[d] = call[d]
                         /\ Path(d) # Path(c) /\ At(d, "write") /\ Path(d) \in Paths
    BY <1>3, <2>1 DEF LockInv, TypeOK, OpenIsWriting, At
  <2>4. \A d \in open' : call'[d].pc = "write" /\ disk'[call'[d].path] # NoFile
    BY <1>3, <2>3 DEF LockInv, TypeOK, OpenIsWriting, At, Path
  <2> QED
    BY <1>1, <1>2, <1>3, <2>1, <2>2, <2>4, CallStep DEF LockInv, TypeOK
<1>4. CASE Fail(c) /\ UNCHANGED <<disk, open>>
  BY <1>1, <1>2, <1>4, FailLockInv DEF At
<1> QED
  BY <1>3, <1>4 DEF Unlink

LEMMA ForgetLockInv ==
  ASSUME LockInv, NEW c \in Calls, Forget(c)
  PROVE  LockInv'
<1>1. WellShaped(call[c]) /\ call[c].pc = "forget" /\ mu = c
  BY RecordsWellShaped DEF Forget, At, Holds
<1>2. UNCHANGED <<disk, open, parents>> /\ entries' \in [Paths -> Image \cup {None}]
  BY <1>1 DEF Forget, fsVars, LockInv, TypeOK
<1> QED
  BY <1>1, <1>2, ReturnStep DEF Forget, LockInv, TypeOK, At, Replies

(* A shell command touches the files and the descriptors only.                 *)
LEMMA ShellLockInv ==
  ASSUME LockInv, NEW p \in ShellPaths, Shell(p)
  PROVE  LockInv'
<1>1. UNCHANGED <<entries, mu, call>> /\ p \in Paths
  BY FileStoreAssumption DEF Shell, undoVars
<1>2. Texts \subseteq Content /\ NoFile \notin Content
  BY FileStoreAssumption
<1>3. \A d \in open : At(d, "write") /\ Path(d) \in Paths /\ disk[Path(d)] # NoFile
  BY DEF LockInv, TypeOK, OpenIsWriting, At
<1>4. /\ disk' \in [Paths -> Image] /\ parents' \subseteq Paths
      /\ open' \subseteq open
      /\ \A d \in open' : disk'[Path(d)] # NoFile
  <2>1. CASE ShellWrite(p)
    BY <1>1, <1>2, <1>3, <2>1 DEF ShellWrite, LockInv, TypeOK, Image
  <2>2. CASE ShellRemove(p)
    BY <1>1, <1>3, <2>2 DEF ShellRemove, LockInv, TypeOK, Image
  <2>3. CASE ShellMkdir(p)
    BY <1>1, <1>3, <2>3 DEF ShellMkdir, LockInv, TypeOK
  <2> QED
    BY <2>1, <2>2, <2>3 DEF Shell
<1>5. TypeOK'
  BY <1>1, <1>4 DEF LockInv, TypeOK, At, Path
<1>6. OpenIsWriting'
  BY <1>1, <1>3, <1>4 DEF OpenIsWriting, At, Path
<1> QED
  BY <1>1, <1>5, <1>6 DEF LockInv, Shape, LockDiscipline, InCritical, At

LEMMA CrashLockInv ==
  ASSUME LockInv, Crash
  PROVE  LockInv'
<1>1. Blank \in CallRecord
  BY EmptySeq DEF Blank, CallRecord, Labels, Ops, Replies, Image, Content
<1>2. \A c \in Calls : call'[c] = Blank
  BY DEF Crash
<1>3. TypeOK'
  BY <1>1 DEF LockInv, TypeOK, Crash, At, Blank
<1>4. (\A c \in Calls : Shape(c))'
  BY <1>2 DEF Shape, At, Blank
<1>5. OpenIsWriting'
  BY DEF Crash, OpenIsWriting
<1>6. LockDiscipline'
  BY <1>2, FileStoreAssumption DEF Crash, LockDiscipline, InCritical, Blank
<1> QED
  BY <1>3, <1>4, <1>5, <1>6 DEF LockInv

-------------------------------------------------------------------------------
LEMMA StutterLockInv ==
  ASSUME LockInv, UNCHANGED vars
  PROVE  LockInv'
  BY DEF LockInv, TypeOK, Shape, OpenIsWriting, LockDiscipline, InCritical, At,
         Path, vars

LEMMA NextLockInv ==
  ASSUME LockInv, [Next]_vars
  PROVE  LockInv'
<1>1. ASSUME NEW c \in Calls, Arrive(c) PROVE LockInv'
  BY <1>1, ArriveLockInv
<1>2. ASSUME NEW c \in Calls, Lock(c) PROVE LockInv'
  BY <1>2, SaveReadLockInv, LookupLockInv DEF Lock
<1>3. ASSUME NEW c \in Calls, Work(c) PROVE LockInv'
  BY <1>3, SaveStoreLockInv, MkdirLockInv, EditReadLockInv, ApplyEditLockInv,
     EditDoneLockInv, OpenTruncLockInv, WriteAllLockInv, StatLockInv,
     UnlinkLockInv, ForgetLockInv DEF Work
<1>4. ASSUME NEW p \in ShellPaths, Shell(p) PROVE LockInv'
  BY <1>4, ShellLockInv
<1> QED
  BY <1>1, <1>2, <1>3, <1>4, CrashLockInv, StutterLockInv DEF Next

(* The strengthened invariant holds in every reachable state: overlapping      *)
(* calls, failing system calls, shell commands and crashes included.           *)
THEOREM LockInvariant == Spec => []LockInv
<1>1. LockInv /\ [Next]_vars => LockInv'
  BY NextLockInv
<1> QED
  BY InitLockInv, <1>1, PTL DEF Spec

(* Every variable keeps to its type.                                          *)
THEOREM TypeCorrect == Spec => []TypeOK
<1>1. LockInv => TypeOK
  BY DEF LockInv
<1> QED
  BY LockInvariant, <1>1, PTL

(* UndoStore.mu is held exactly inside Save and Restore: no error path of       *)
(* either returns with it, and nobody else gets into them meanwhile.           *)
THEOREM LockIsDisciplined == Spec => []LockDiscipline
<1>1. LockInv => LockDiscipline
  BY DEF LockInv
<1> QED
  BY LockInvariant, <1>1, PTL

(* The undo entries are changed only by the holder of the lock, or lost with   *)
(* the whole process.                                                         *)
THEOREM EntriesChangeUnderLock == Spec => EntriesUnderLock
<1>1. ASSUME LockInv, [Next]_vars
      PROVE  [entries' # entries => Crash \/ mu # None]_vars
  <2>1. ASSUME NEW c \in Calls, SaveStore(c) \/ Forget(c) PROVE mu # None
    BY <1>1, <2>1, FileStoreAssumption
       DEF LockInv, LockDiscipline, InCritical, SaveStore, Forget, At
  <2>2. ASSUME NEW c \in Calls, Arrive(c) PROVE UNCHANGED entries
    BY <2>2 DEF Arrive, BeginWriteFile, BeginEditFile, BeginUndo, Begin, Reject, undoVars
  <2>3. ASSUME NEW c \in Calls, Lock(c) PROVE UNCHANGED entries
    BY <2>3 DEF Lock, SaveRead, Lookup
  <2>4. ASSUME NEW c \in Calls, Work(c) PROVE UNCHANGED entries \/ SaveStore(c) \/ Forget(c)
    BY <2>4 DEF Work, Mkdir, EditRead, ApplyEdit, EditDone, OpenTrunc, WriteAll,
            Stat, Unlink, undoVars
  <2>5. ASSUME NEW p \in ShellPaths, Shell(p) PROVE UNCHANGED entries
    BY <2>5 DEF Shell, undoVars
  <2> QED
    BY <1>1, <2>1, <2>2, <2>3, <2>4, <2>5 DEF Next
<1> QED
  BY LockInvariant, <1>1, PTL DEF Spec, EntriesUnderLock
===============================================================================
