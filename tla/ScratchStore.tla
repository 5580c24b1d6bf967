----------------------------- MODULE ScratchStore -----------------------------
(******************************************************************************)
(* The scratch tool and its ScratchStore (internal/state/scratch.go): a map    *)
(* behind a sync.RWMutex, used by every session's goroutines at once.  A Go    *)
(* map that is written while somebody else reads or writes it is corrupt or    *)
(* ends the process, and list goes through the whole map: one turn of its loop *)
(* is one action.                                                             *)
(******************************************************************************)
EXTENDS FiniteSets

CONSTANTS
  Callers,  (* goroutines that serve calls of the scratch tool                *)
  Keys, Values,
  None      (* no key, no value, no caller                                           *)

ASSUME ScratchStoreAssumption == None \notin Keys \cup Values \cup Callers

VARIABLES
  data,     (* ScratchStore.data, None at the keys that are absent            *)
  pending,  (* the writer that holds the lock or waits for readers to leave:  *)
            (* from then on no new reader gets in                            *)
  readers,  (* holders of the read lock                                       *)
  call      (* call[c]: the handler that c runs                               *)

vars == <<data, pending, readers, call>>

Map == [Keys -> Values \cup {None}]
CallRecord ==
  [pc : {"idle", "lock", "drain", "write", "rlock", "get", "copy"},
   key : Keys \cup {None}, value : Values \cup {None},
   left : SUBSET Keys, out : Map]

Empty == [k \in Keys |-> None]
Blank == [pc |-> "idle", key |-> None, value |-> None, left |-> {}, out |-> Empty]

At(c, l) == call[c].pc = l

Init ==
  /\ data = Empty
  /\ pending = None
  /\ readers = {}
  /\ call = [c \in Callers |-> Blank]

Begin(c, l, k, v, m) ==
  /\ At(c, "idle")
  /\ call' = [call EXCEPT ![c] =
       [Blank EXCEPT !.pc = l, !.key = k, !.value = v, !.left = m]]
  /\ UNCHANGED <<data, pending, readers>>

Set(c, k, v) == Begin(c, "lock", k, v, {})
Delete(c, k) == Begin(c, "lock", k, None, {})
Get(c, k)    == Begin(c, "rlock", k, None, {})
List(c)      == Begin(c, "rlock", None, None, Keys)

-------------------------------------------------------------------------------
(* Variant: Set and Delete take the read lock.                                *)
AnnounceAsReader(c) ==
  /\ At(c, "lock")
  /\ pending = None
  /\ readers' = readers \cup {c}
  /\ call' = [call EXCEPT ![c].pc = "write"]
  /\ UNCHANGED <<data, pending>>

(* Lock: one writer at a time announces itself, then waits for the readers.    *)
Announce(c) ==
  /\ At(c, "lock")
  /\ pending = None
  /\ pending' = c
  /\ call' = [call EXCEPT ![c].pc = "drain"]
  /\ UNCHANGED <<data, readers>>

Acquire(c) ==
  /\ At(c, "drain")
  /\ readers = {}
  /\ call' = [call EXCEPT ![c].pc = "write"]
  /\ UNCHANGED <<data, pending, readers>>

(* The body of Set or Delete, and Unlock.                                     *)
Store(c) ==
  /\ At(c, "write")
  /\ data' = [data EXCEPT ![call[c].key] = call[c].value]
  /\ pending' = None
  /\ call' = [call EXCEPT ![c] = Blank]
  /\ UNCHANGED readers

(* Variants: List copies without the lock; list is taken for get.              *)
RLockForOneKey(c) ==
  /\ At(c, "rlock")
  /\ pending = None
  /\ readers' = IF call[c].key = None THEN readers ELSE readers \cup {c}
  /\ call' = [call EXCEPT ![c].pc = IF call[c].key = None THEN "copy" ELSE "get"]
  /\ UNCHANGED <<data, pending>>

RLockForGet(c) ==
  /\ At(c, "rlock")
  /\ pending = None
  /\ readers' = readers \cup {c}
  /\ call' = [call EXCEPT ![c].pc = "get"]
  /\ UNCHANGED <<data, pending>>

RLock(c) ==
  /\ At(c, "rlock")
  /\ pending = None
  /\ readers' = readers \cup {c}
  /\ call' = [call EXCEPT ![c].pc = IF call[c].key = None THEN "copy" ELSE "get"]
  /\ UNCHANGED <<data, pending>>

(* Variant: Get returns "not found" without unlocking.                        *)
LoadLeaks(c) ==
  /\ At(c, "get")
  /\ readers' = IF data[call[c].key] = None THEN readers ELSE readers \ {c}
  /\ call' = [call EXCEPT ![c] = [Blank EXCEPT !.value = data[call[c].key]]]
  /\ UNCHANGED <<data, pending>>

(* The body of Get, and RUnlock.                                              *)
Load(c) ==
  /\ At(c, "get")
  /\ readers' = readers \ {c}
  /\ call' = [call EXCEPT ![c] = [Blank EXCEPT !.value = data[call[c].key]]]
  /\ UNCHANGED <<data, pending>>

(* List copies the entries in map order, which is arbitrary ...               *)
Copy(c) ==
  /\ At(c, "copy")
  /\ \E k \in call[c].left :
       call' = [call EXCEPT ![c].left = @ \ {k}, ![c].out[k] = data[k]]
  /\ UNCHANGED <<data, pending, readers>>

(* ... and lets go of the lock; the handler marshals the copy.                 *)
RUnlock(c) ==
  /\ At(c, "copy")
  /\ call[c].left = {}
  /\ readers' = readers \ {c}
  /\ call' = [call EXCEPT ![c] = [Blank EXCEPT !.out = call[c].out]]
  /\ UNCHANGED <<data, pending>>

-------------------------------------------------------------------------------
Arrive(c) ==
  \/ List(c)
  \/ \E k \in Keys : Get(c, k) \/ Delete(c, k) \/ \E v \in Values : Set(c, k, v)
Lock(c) == Announce(c) \/ RLock(c)
Work(c) == Acquire(c) \/ Store(c) \/ Load(c) \/ Copy(c) \/ RUnlock(c)

Next == \E c \in Callers : Arrive(c) \/ Lock(c) \/ Work(c)
Spec == Init /\ [][Next]_vars

(* sync.RWMutex lets the readers in that waited for a writer before the next   *)
(* writer, and its writers' mutex has a starvation mode.                       *)
Fairness == \A c \in Callers : WF_vars(Work(c)) /\ SF_vars(Lock(c))
FairSpec == Spec /\ Fairness

-------------------------------------------------------------------------------
(* Every variable keeps to its type.                                          *)
TypeOK ==
  /\ data \in Map
  /\ pending \in Callers \cup {None}
  /\ readers \subseteq Callers
  /\ call \in [Callers -> CallRecord]
  /\ \A c \in Callers : call[c].pc \in {"lock", "drain", "write", "get"}
                          => call[c].key \in Keys

(* The map is never written while another goroutine is reading or writing it   *)
(* (a fatal error of the Go runtime).                                         *)
Reading(c)  == call[c].pc \in {"get", "copy"}
WriterAlone ==
  \A c, d \in Callers :
    At(c, "write") /\ c # d => ~At(d, "write") /\ ~Reading(d)

(* A list shows the map as it is at one instant: what it has copied so far is  *)
(* still what the map holds, down to the last entry.                          *)
ListIsSnapshot ==
  \A c \in Callers :
    At(c, "copy") => \A k \in Keys \ call[c].left : call[c].out[k] = data[k]

(* Readers do not shut writers out, nor writers readers: every call returns.   *)
EveryCallReturns == \A c \in Callers : ~At(c, "idle") ~> At(c, "idle")
===============================================================================
