-------------------------- MODULE ScratchStoreProofs --------------------------
(******************************************************************************)
(* The two safety properties of ScratchStore for any number of callers, keys   *)
(* and values.  Both rest on who holds the RWMutex at which label.             *)
(******************************************************************************)
EXTENDS ScratchStore, TLAPS

(* The read lock is held by the callers that read; the writer that has         *)
(* announced itself is the one caller that drains or writes; a writer that has *)
(* got the lock has no readers; and a list starts with all keys to copy.       *)
ReadersRead    == readers = {c \in Callers : Reading(c)}
PendingWrites  == \A c \in Callers : call[c].pc \in {"drain", "write"} <=> pending = c
WriterDrained  == \A c \in Callers : At(c, "write") => readers = {}
ListStartsFull ==
  \A c \in Callers : At(c, "rlock") /\ call[c].key = None => call[c].left = Keys

RWInv == TypeOK /\ ReadersRead /\ PendingWrites /\ WriterDrained /\ ListStartsFull
           /\ ListIsSnapshot

-------------------------------------------------------------------------------
(* The initial state satisfies the invariant.                                 *)
LEMMA RWInvInit == Init => RWInv
<1> SUFFICES ASSUME Init PROVE RWInv
  OBVIOUS
<1> USE ScratchStoreAssumption DEF Init, Blank, Empty
<1>1. TypeOK
  BY DEF TypeOK, Map, CallRecord
<1>2. ReadersRead /\ PendingWrites /\ WriterDrained /\ ListStartsFull /\ ListIsSnapshot
  BY DEF ReadersRead, PendingWrites, WriterDrained, ListStartsFull, ListIsSnapshot,
         Reading, At
<1> QED
  BY <1>1, <1>2 DEF RWInv

(* The record of a goroutine without a call has its type.                      *)
LEMMA BlankOfType == Blank \in CallRecord /\ Empty \in Map
  BY DEF Blank, CallRecord, Map, Empty

(* A call may take any record whose key fits its label.                        *)
LEMMA CallsStayTyped ==
  ASSUME TypeOK, NEW c \in Callers, NEW r \in CallRecord,
         r.pc \in {"lock", "drain", "write", "get"} => r.key \in Keys,
         call' = [call EXCEPT ![c] = r],
         data' \in Map, pending' \in Callers \cup {None}, readers' \subseteq Callers
  PROVE  TypeOK'
<1>1. call' \in [Callers -> CallRecord]
  BY DEF TypeOK
<1>2. \A d \in Callers : call'[d].pc \in {"lock", "drain", "write", "get"}
                           => call'[d].key \in Keys
  BY DEF TypeOK
<1> QED
  BY <1>1, <1>2 DEF TypeOK

(* The arrival of a call keeps the invariant.                                 *)
LEMMA ArriveRWInv ==
  ASSUME RWInv, NEW c \in Callers, Arrive(c)
  PROVE  RWInv'
<1>1. ASSUME NEW l \in {"lock", "rlock"}, NEW k \in Keys \cup {None},
             NEW v \in Values \cup {None}, NEW m \in SUBSET Keys,
             l = "lock" => k \in Keys, l = "rlock" /\ k = None => m = Keys,
             Begin(c, l, k, v, m)
      PROVE  RWInv'
  <2> DEFINE r == [Blank EXCEPT !.pc = l, !.key = k, !.value = v, !.left = m]
  <2>1. r \in CallRecord /\ r.pc = l /\ r.key = k /\ r.left = m
    BY <1>1, BlankOfType DEF Blank, CallRecord
  <2>2. call' = [call EXCEPT ![c] = r] /\ At(c, "idle") /\ UNCHANGED <<data, pending, readers>>
    BY <1>1 DEF Begin
  <2> HIDE DEF r
  <2>3. TypeOK'
    BY <1>1, <2>1, <2>2, CallsStayTyped DEF RWInv, TypeOK
  <2>4. (ReadersRead /\ PendingWrites /\ WriterDrained /\ ListStartsFull /\ ListIsSnapshot)'
    BY <1>1, <2>1, <2>2 DEF RWInv, TypeOK, ReadersRead, PendingWrites, WriterDrained,
       ListStartsFull, ListIsSnapshot, Reading, At
  <2> QED
    BY <2>3, <2>4 DEF RWInv
<1>2. CASE List(c)
  BY <1>1, <1>2 DEF List
<1>3. ASSUME NEW k \in Keys, Get(c, k) \/ Delete(c, k)
      PROVE  RWInv'
  BY <1>1, <1>3, ScratchStoreAssumption DEF Get, Delete
<1>4. ASSUME NEW k \in Keys, NEW v \in Values, Set(c, k, v)
      PROVE  RWInv'
  BY <1>1, <1>4 DEF Set
<1> QED
  BY <1>2, <1>3, <1>4 DEF Arrive

(* Taking the lock, as a writer or as a reader, keeps the invariant.           *)
LEMMA LockRWInv ==
  ASSUME RWInv, NEW c \in Callers, Lock(c)
  PROVE  RWInv'
<1> USE DEF RWInv, TypeOK, Map, CallRecord, At
<1>1. CASE Announce(c)
  <2>1. TypeOK'
    BY <1>1 DEF Announce
  <2>2. (ReadersRead /\ PendingWrites /\ WriterDrained)'
    BY <1>1, ScratchStoreAssumption
       DEF Announce, ReadersRead, PendingWrites, WriterDrained, Reading
  <2>3. (ListStartsFull /\ ListIsSnapshot)'
    BY <1>1 DEF Announce, ListStartsFull, ListIsSnapshot
  <2> QED
    BY <2>1, <2>2, <2>3
<1>2. CASE RLock(c)
  <2>1. TypeOK'
    BY <1>2 DEF RLock
  <2>2. (ReadersRead /\ PendingWrites /\ WriterDrained)'
    BY <1>2, ScratchStoreAssumption
       DEF RLock, ReadersRead, PendingWrites, WriterDrained, Reading
  <2>3. (ListStartsFull /\ ListIsSnapshot)'
    BY <1>2 DEF RLock, ListStartsFull, ListIsSnapshot
  <2> QED
    BY <2>1, <2>2, <2>3
<1> QED
  BY <1>1, <1>2 DEF Lock

(* What is done under the lock, and letting go of it, keeps the invariant: a   *)
(* Store meets no list that is being copied.                                  *)
LEMMA WorkRWInv ==
  ASSUME RWInv, NEW c \in Callers, Work(c)
  PROVE  RWInv'
<1> USE DEF RWInv, At
<1>1. CASE Acquire(c)
  <2>1. TypeOK'
    BY <1>1 DEF Acquire, TypeOK, CallRecord
  <2>2. (ReadersRead /\ PendingWrites /\ WriterDrained)'
    BY <1>1 DEF Acquire, TypeOK, CallRecord, ReadersRead, PendingWrites, WriterDrained, Reading
  <2>3. (ListStartsFull /\ ListIsSnapshot)'
    BY <1>1 DEF Acquire, TypeOK, CallRecord, ListStartsFull, ListIsSnapshot
  <2> QED
    BY <2>1, <2>2, <2>3
<1>2. CASE Store(c)
  <2>1. Blank \in CallRecord
    BY BlankOfType
  <2>2. call[c].key \in Keys /\ call[c].value \in Values \cup {None}
    BY <1>2 DEF Store, TypeOK, CallRecord
  <2>3. TypeOK'
    BY <1>2, <2>1, <2>2 DEF Store, TypeOK, Map, Blank
  <2>4. (ReadersRead /\ PendingWrites /\ WriterDrained)'
    BY <1>2, ScratchStoreAssumption
       DEF Store, TypeOK, Blank, ReadersRead, PendingWrites, WriterDrained, Reading
  <2>5. (ListStartsFull /\ ListIsSnapshot)'
    BY <1>2 DEF Store, TypeOK, Blank, ReadersRead, WriterDrained, Reading,
       ListStartsFull, ListIsSnapshot
  <2> QED
    BY <2>3, <2>4, <2>5
<1>3. CASE Load(c)
  <2>1. data[call[c].key] \in Values \cup {None}
    BY <1>3 DEF Load, TypeOK, Map
  <2> DEFINE r == [Blank EXCEPT !.value = data[call[c].key]]
  <2>2. r.pc = "idle"
    BY DEF Blank
  <2>3. r \in CallRecord
    BY <2>1, BlankOfType DEF Blank, CallRecord
  <2>4. call' = [call EXCEPT ![c] = r] /\ UNCHANGED data
    BY <1>3 DEF Load
  <2> HIDE DEF r
  <2>5. TypeOK'
    BY <1>3, <2>2, <2>3, <2>4, CallsStayTyped DEF Load, TypeOK
  <2>6. (ReadersRead /\ PendingWrites /\ WriterDrained)'
    BY <1>3, <2>2, <2>4
       DEF Load, TypeOK, ReadersRead, PendingWrites, WriterDrained, Reading
  <2>7. (ListStartsFull /\ ListIsSnapshot)'
    BY <2>2, <2>4 DEF TypeOK, ListStartsFull, ListIsSnapshot
  <2> QED
    BY <2>5, <2>6, <2>7
<1>4. CASE Copy(c)
  <2>1. PICK k \in call[c].left :
          call' = [call EXCEPT ![c].left = @ \ {k}, ![c].out[k] = data[k]]
    BY <1>4 DEF Copy
  <2>2. k \in Keys /\ data[k] \in Values \cup {None}
    BY <2>1 DEF TypeOK, CallRecord, Map
  <2> DEFINE r == [call[c] EXCEPT !.left = @ \ {k}, !.out[k] = data[k]]
  <2>7. call[c] \in CallRecord
    BY DEF TypeOK
  <2>3. r \in CallRecord /\ r.pc = "copy"
    BY <1>4, <2>7, <2>2 DEF Copy, CallRecord, Map
  <2>8. call' = [call EXCEPT ![c] = r]
    BY <2>1
  <2>6. TypeOK'
    BY <1>4, <2>3, <2>8, CallsStayTyped DEF Copy, TypeOK
  <2>4. (ReadersRead /\ PendingWrites /\ WriterDrained /\ ListStartsFull)'
    BY <1>4, <2>1 DEF Copy, TypeOK, CallRecord, ReadersRead, PendingWrites, WriterDrained,
       ListStartsFull, Reading
  <2>5. ListIsSnapshot'
    BY <1>4, <2>1, <2>2 DEF Copy, TypeOK, CallRecord, Map, ListIsSnapshot
  <2> QED
    BY <2>6, <2>4, <2>5
<1>5. CASE RUnlock(c)
  <2> DEFINE r == [Blank EXCEPT !.out = call[c].out]
  <2>1. r.pc = "idle"
    BY DEF Blank
  <2>2. r \in CallRecord
    BY BlankOfType DEF TypeOK, Blank, CallRecord
  <2>3. call' = [call EXCEPT ![c] = r] /\ UNCHANGED data
    BY <1>5 DEF RUnlock
  <2> HIDE DEF r
  <2>4. TypeOK'
    BY <1>5, <2>1, <2>2, <2>3, CallsStayTyped DEF RUnlock, TypeOK
  <2>5. (ReadersRead /\ PendingWrites /\ WriterDrained)'
    BY <1>5, <2>1, <2>3
       DEF RUnlock, TypeOK, ReadersRead, PendingWrites, WriterDrained, Reading
  <2>6. (ListStartsFull /\ ListIsSnapshot)'
    BY <2>1, <2>3 DEF TypeOK, ListStartsFull, ListIsSnapshot
  <2> QED
    BY <2>4, <2>5, <2>6
<1> QED
  BY <1>1, <1>2, <1>3, <1>4, <1>5 DEF Work

(* Every reachable state satisfies the invariant.                             *)
THEOREM RWInvariant == Spec => []RWInv
<1>1. Init => RWInv
  BY RWInvInit
<1>2. RWInv /\ [Next]_vars => RWInv'
  <2> SUFFICES ASSUME RWInv, [Next]_vars PROVE RWInv'
    OBVIOUS
  <2>1. CASE UNCHANGED vars
    BY <2>1 DEF vars, RWInv, TypeOK, ReadersRead, PendingWrites, WriterDrained,
       ListStartsFull, ListIsSnapshot, Reading, At
  <2>2. CASE Next
    BY <2>2, ArriveRWInv, LockRWInv, WorkRWInv DEF Next
  <2> QED
    BY <2>1, <2>2
<1> QED
  BY <1>1, <1>2, PTL DEF Spec

(* Every variable keeps to its type: a caller that waits for the lock to write, *)
(* or to read one entry, has a key.                                           *)
THEOREM TypeCorrect == Spec => []TypeOK
<1>1. RWInv => TypeOK
  BY DEF RWInv
<1> QED
  BY <1>1, RWInvariant, PTL

(* No goroutine writes the map while another reads or writes it, however many  *)
(* callers set, get, delete and list.                                         *)
THEOREM WriterIsAlone == Spec => []WriterAlone
<1>1. RWInv => WriterAlone
  BY DEF RWInv, ReadersRead, PendingWrites, WriterDrained, WriterAlone, Reading, At
<1> QED
  BY <1>1, RWInvariant, PTL

(* What a list has copied is at every moment what the map holds.               *)
THEOREM ListCopiesOneInstant == Spec => []ListIsSnapshot
<1>1. RWInv => ListIsSnapshot
  BY DEF RWInv
<1> QED
  BY <1>1, RWInvariant, PTL
===============================================================================
