-------------------------- MODULE ProcessStoreProofs --------------------------
(******************************************************************************)
(* The safety properties of ProcessStore for any number of exec calls and      *)
(* clients, with crashes.  They rest on three things: the ids that the counter *)
(* has given are distinct, what a label of a handler or a waiter says of the   *)
(* shell, and that a shell which is over changes no more.                      *)
(******************************************************************************)
EXTENDS ProcessStore, FiniteSetTheorems, TLAPS

(* The calls that have taken an id from the counter of the present server: the *)
(* counter is their number, and no two of them have the same id.               *)
Counted == {j \in Jobs : job[j].id # 0 /\ ~job[j].lost}
IdsAreFresh ==
  /\ counter = Cardinality(Counted)
  /\ \A j \in Counted : job[j].id <= counter
  /\ \A j, l \in Counted : job[j].id = job[l].id => j = l

(* An id is registered for the background job that has it and no other.        *)
Registration ==
  /\ \A i \in Ids : processes[i] # None =>
       /\ job[processes[i]].id = i /\ job[processes[i]].bg
       /\ job[processes[i]].pc \in {"spawn", "end"}
       /\ ~job[processes[i]].lost
  /\ \A j \in Jobs :
       job[j].bg /\ ~job[j].lost /\ (job[j].pc = "spawn" \/ job[j].reply = "id")
         => job[j].id # 0 /\ processes[job[j].id] = j

(* What the labels of the handler (r) and the waiter (w) of a call say of the   *)
(* call, of its shell (c) and of its ProcessInfo (i).                          *)
Reaped == {"drain", "publish", "send", "sent", "end"}
JobFits(r, c, w, i) ==
  /\ r.pc \in {"new", "count"} => r.id = 0
  /\ r.bg /\ r.pc \in {"fork", "register"} => r.id # 0
  /\ r.pc \in {"count", "register"} => r.bg
  /\ r.pc = "select" => ~r.bg
  /\ r.pc # "end" => r.reply = "none" /\ ~r.lost
  /\ r.reply = "id" => r.bg
  /\ r.pc \in {"new", "count", "fork", "register", "spawn"} \/ r.lost
       => w.pc = "none" /\ ~i.done
  /\ r.pc \in {"register", "spawn", "select"} => c.os # "none"
  /\ r.pc = "snapshot" => c.os \in {"zombie", "reaped"}
  /\ c.os \in {"zombie", "reaped"} => c.code # None
  /\ w.pc \in Reaped => c.os = "reaped"
JobsFit == \A j \in Jobs : JobFits(job[j], child[j], waiter[j], info[j])

(* A client that is not idle works on a job that has been registered.          *)
ClientsFit ==
  client \in [Clients -> ClientRecord]
    /\ \A k \in Clients : client[k].pc # "idle" => client[k].cur \in Jobs

PSInv == TypeOK /\ IdsAreFresh /\ Registration /\ JobsFit /\ ClientsFit

(* The shell is over, and so is everybody who could write to its output.       *)
Over(c) == c.os = "reaped" /\ ~c.held /\ c.copied = c.written

(* A waiter that has reaped the shell has its code; once cmd.Wait has returned  *)
(* it has seen the end of the output; and so it is when Done is set.  What the *)
(* handler answers is taken from there.                                       *)
JobTells(r, c, w, i) ==
  /\ w.pc \in Reaped => w.code = c.code
  /\ w.pc \in Reaped \ {"drain"} => Over(c)
  /\ i.done => Over(c)
  /\ r.reply = "result" => Over(c) /\ r.code = c.code /\ r.out = c.written
  /\ r.reply = "timeout" => c.os \in {"zombie", "reaped"}
TruthInv == \A j \in Jobs : JobTells(job[j], child[j], waiter[j], info[j])

(* What a step keeps; copying the output must not fail for the truth.          *)
Kept == PSInv' /\ ("copy" \notin Faults /\ TruthInv => TruthInv')

-------------------------------------------------------------------------------
(* The records of the initial state have their types.                         *)
LEMMA EmptyRecords ==
  /\ NoWaiter \in WaiterRecord /\ NoWaiter.pc = "none"
  /\ NoInfo \in InfoRecord /\ ~NoInfo.done
  /\ NoClient \in ClientRecord /\ NoClient.pc = "idle"
  BY ProcessStoreAssumption
     DEF NoWaiter, WaiterRecord, NoInfo, InfoRecord, NoClient, ClientRecord

(* The ids are numbers.                                                       *)
LEMMA JobsFinite == Cardinality(Jobs) \in Nat /\ Ids \subseteq Nat /\ 0 \notin Ids
  BY ProcessStoreAssumption, FS_CardinalityType DEF Ids

LEMMA PSInvInit == Init => PSInv /\ TruthInv
<1> SUFFICES ASSUME Init PROVE PSInv /\ TruthInv
  OBVIOUS
<1> USE ProcessStoreAssumption, JobsFinite, EmptyRecords DEF Init
<1>1. TypeOK
  BY DEF TypeOK, JobRecord, ChildRecord
<1>2. Counted = {}
  BY DEF Counted
<1>3. IdsAreFresh
  BY <1>2, FS_EmptySet DEF IdsAreFresh
<1>4. Registration /\ JobsFit /\ ClientsFit /\ TruthInv
  BY DEF Registration, JobsFit, JobFits, ClientsFit, TruthInv, JobTells, Reaped
<1> QED
  BY <1>1, <1>3, <1>4 DEF PSInv

(* Only Count and Crash touch the ids.                                        *)
LEMMA IdsStayFresh ==
  ASSUME IdsAreFresh, counter' = counter,
         \A j \in Jobs : job'[j].id = job[j].id /\ job'[j].lost = job[j].lost
  PROVE  IdsAreFresh'
<1>1. Counted' = Counted
  BY DEF Counted
<1> QED
  BY <1>1 DEF IdsAreFresh, Counted

(* A step that gives one call the records r, c, w and i, within what its labels *)
(* say, and leaves the ids, the registry and the truth of its answers as they  *)
(* are.                                                                       *)
StepOf(j, r, c, w, i) ==
  /\ r \in JobRecord /\ c \in ChildRecord /\ w \in WaiterRecord /\ i \in InfoRecord
  /\ job' = [job EXCEPT ![j] = r] /\ child' = [child EXCEPT ![j] = c]
  /\ waiter' = [waiter EXCEPT ![j] = w] /\ info' = [info EXCEPT ![j] = i]
  /\ r.id = job[j].id /\ r.lost = job[j].lost
  /\ job[j].bg /\ job[j].pc \in {"spawn", "end"} => r.bg /\ r.pc \in {"spawn", "end"}
  /\ r.bg /\ (r.pc = "spawn" \/ r.reply = "id")
       => job[j].bg /\ (job[j].pc = "spawn" \/ job[j].reply = "id")
  /\ JobFits(r, c, w, i)
  /\ "copy" \notin Faults /\ JobTells(job[j], child[j], waiter[j], info[j])
       => JobTells(r, c, w, i)

(* Such a step keeps the invariant.                                           *)
LEMMA OneJobStep ==
  ASSUME PSInv, ClientsFit', UNCHANGED <<counter, processes>>,
         NEW j \in Jobs, NEW r, NEW c, NEW w, NEW i, StepOf(j, r, c, w, i)
  PROVE  Kept
<1> USE DEF StepOf
<1>1. TypeOK'
  BY DEF PSInv, TypeOK, ClientsFit
<1>2. IdsAreFresh'
  BY IdsStayFresh DEF PSInv, TypeOK
<1>3. Registration'
  BY DEF PSInv, TypeOK, Registration
<1>4. JobsFit'
  BY DEF PSInv, TypeOK, JobsFit
<1>5. "copy" \notin Faults /\ TruthInv => TruthInv'
  BY DEF PSInv, TypeOK, TruthInv
<1> QED
  BY <1>1, <1>2, <1>3, <1>4, <1>5 DEF PSInv, Kept

(* What the invariant says of one call.                                       *)
LEMMA OneJob ==
  ASSUME PSInv, NEW j \in Jobs
  PROVE  /\ job[j] \in JobRecord /\ child[j] \in ChildRecord
         /\ waiter[j] \in WaiterRecord /\ info[j] \in InfoRecord
         /\ JobFits(job[j], child[j], waiter[j], info[j])
         /\ job = [job EXCEPT ![j] = job[j]] /\ child = [child EXCEPT ![j] = child[j]]
         /\ waiter = [waiter EXCEPT ![j] = waiter[j]] /\ info = [info EXCEPT ![j] = info[j]]
  BY DEF PSInv, TypeOK, JobsFit

(* Nothing happens to the clients.                                            *)
LEMMA ClientsUnchanged ==
  ASSUME PSInv, UNCHANGED client
  PROVE  ClientsFit'
  BY DEF PSInv, ClientsFit

-------------------------------------------------------------------------------
(* The steps of the handler of exec.                                          *)

LEMMA CallKept ==
  ASSUME PSInv, NEW j \in Jobs, NEW bg \in BOOLEAN, Call(j, bg)
  PROVE  Kept
<1> DEFINE r == [job[j] EXCEPT !.pc = IF bg THEN "count" ELSE "fork", !.bg = bg]
<1>1. job[j].pc = "new" /\ job' = [job EXCEPT ![j] = r]
  BY DEF Call, JobAt
<1>2. UNCHANGED <<counter, processes, child, waiter, info, client>>
  BY DEF Call
<1>3. /\ r \in JobRecord /\ r.pc = (IF bg THEN "count" ELSE "fork") /\ r.bg = bg
      /\ r.id = job[j].id /\ r.lost = job[j].lost /\ r.reply = job[j].reply
  BY <1>1, OneJob DEF JobRecord
<1> HIDE DEF r
<1>4. JobFits(r, child[j], waiter[j], info[j])
  BY <1>1, <1>3, OneJob DEF JobFits
<1>5. job[j].reply = "none"
  BY <1>1, OneJob DEF JobFits
<1>6. JobTells(job[j], child[j], waiter[j], info[j]) => JobTells(r, child[j], waiter[j], info[j])
  BY <1>3, <1>5 DEF JobTells
<1>7. StepOf(j, r, child[j], waiter[j], info[j])
  BY <1>1, <1>2, <1>3, <1>4, <1>5, <1>6, OneJob DEF StepOf
<1> QED
  BY <1>2, <1>7, ClientsUnchanged, OneJobStep

(* The id that Count gives is new: there are never more of them than calls.    *)
LEMMA CountKept ==
  ASSUME PSInv, NEW j \in Jobs, Count(j)
  PROVE  Kept
<1> USE DEF PSInv
<1> DEFINE r == [job[j] EXCEPT !.pc = "fork", !.id = counter + 1]
<1>1. /\ job[j] \in JobRecord /\ job[j].pc = "count" /\ job[j].id = 0
      /\ job[j].reply = "none" /\ ~job[j].lost /\ job' = [job EXCEPT ![j] = r]
  BY OneJob DEF Count, JobAt, JobFits
<1>2. /\ counter \in Nat /\ counter' = counter + 1
      /\ UNCHANGED <<processes, child, waiter, info, client>>
  BY JobsFinite DEF Count, TypeOK
<1>3. /\ r.pc = "fork" /\ r.id = counter + 1 /\ r.bg = job[j].bg
      /\ ~r.lost /\ r.reply = "none"
  BY <1>1 DEF JobRecord
<1>4. counter + 1 \in Ids => r \in JobRecord
  BY <1>1 DEF JobRecord
<1> HIDE DEF r
<1>5. j \notin Counted /\ Counted' = Counted \cup {j}
  BY <1>1, <1>2, <1>3 DEF Counted, TypeOK
<1>6. counter + 1 = Cardinality(Counted') /\ counter + 1 \in Ids
  <2>1. IsFiniteSet(Counted) /\ Counted' \subseteq Jobs
    BY ProcessStoreAssumption, FS_Subset DEF Counted
  <2>2. Cardinality(Counted \cup {j}) = Cardinality(Counted) + 1
    BY <1>5, <2>1, FS_AddElement
  <2>3. Cardinality(Counted') <= Cardinality(Jobs)
    BY ProcessStoreAssumption, <2>1, FS_Subset
  <2> QED
    BY <1>2, <1>5, <2>2, <2>3, JobsFinite DEF IdsAreFresh, Ids
<1>7. TypeOK'
  BY <1>1, <1>2, <1>4, <1>6 DEF TypeOK, Ids
<1>8. IdsAreFresh'
  <2>1. \A l \in Counted : job[l].id \in Nat /\ job[l].id <= counter /\ job'[l] = job[l]
    <3> TAKE l \in Counted
    <3>1. l \in Jobs /\ l # j /\ job[l] \in JobRecord
      BY <1>5 DEF Counted, TypeOK
    <3>2. job[l].id \in Nat
      <4>1. job[l].id \in Ids \cup {0}
        BY <3>1 DEF JobRecord
      <4> QED
        BY <4>1, JobsFinite DEF Ids
    <3>3. job[l].id <= counter
      BY DEF IdsAreFresh
    <3>4. job'[l] = job[l]
      BY <1>1, <3>1 DEF TypeOK
    <3> QED
      BY <3>2, <3>3, <3>4
  <2> QED
    BY <1>1, <1>2, <1>3, <1>5, <1>6, <2>1 DEF IdsAreFresh, TypeOK
<1>9. Registration'
  BY <1>1, <1>2, <1>3 DEF TypeOK, Registration
<1>10. JobFits(r, child[j], waiter[j], info[j])
  BY <1>1, <1>2, <1>3, OneJob DEF JobFits
<1>11. JobsFit' /\ ClientsFit'
  BY <1>1, <1>2, <1>10, ClientsUnchanged DEF TypeOK, JobsFit
<1>12. TruthInv => TruthInv'
  BY <1>1, <1>2, <1>3 DEF TypeOK, TruthInv, JobTells
<1> QED
  BY <1>7, <1>8, <1>9, <1>11, <1>12 DEF Kept

LEMMA ForkKept ==
  ASSUME PSInv, NEW j \in Jobs, Fork(j)
  PROVE  Kept
<1>1. job[j].pc = "fork" /\ UNCHANGED <<counter, processes, waiter, info, client>>
  BY DEF Fork, JobAt
<1>2. job[j].reply = "none"
  BY <1>1, OneJob DEF JobFits
<1>3. CASE job' = [job EXCEPT ![j].pc = "end", ![j].reply = "error"] /\ UNCHANGED child
  <2> DEFINE r == [job[j] EXCEPT !.pc = "end", !.reply = "error"]
  <2>1. job' = [job EXCEPT ![j] = r]
    BY <1>3
  <2>2. /\ r \in JobRecord /\ r.bg = job[j].bg /\ r.id = job[j].id /\ r.lost = job[j].lost
        /\ r.pc = "end" /\ r.reply = "error"
    BY OneJob DEF JobRecord
  <2> HIDE DEF r
  <2>3. JobFits(r, child[j], waiter[j], info[j])
    BY <1>1, <2>2, OneJob DEF JobFits, Reaped
  <2>4. JobTells(job[j], child[j], waiter[j], info[j]) => JobTells(r, child[j], waiter[j], info[j])
    BY <2>2 DEF JobTells
  <2>5. StepOf(j, r, child[j], waiter[j], info[j])
    BY <1>1, <1>3, <2>1, <2>2, <2>3, <2>4, OneJob DEF StepOf
  <2> QED
    BY <1>1, <2>5, ClientsUnchanged, OneJobStep
<1>4. CASE /\ child' = [child EXCEPT ![j].os = "running"]
           /\ job' = [job EXCEPT ![j].pc = IF job[j].bg THEN "register" ELSE "spawn"]
  <2> DEFINE r == [job[j] EXCEPT !.pc = IF job[j].bg THEN "register" ELSE "spawn"]
             c == [child[j] EXCEPT !.os = "running"]
  <2>1. job' = [job EXCEPT ![j] = r] /\ child' = [child EXCEPT ![j] = c]
    BY <1>4
  <2>2. /\ r \in JobRecord /\ r.bg = job[j].bg /\ r.id = job[j].id /\ r.lost = job[j].lost
        /\ r.pc = (IF job[j].bg THEN "register" ELSE "spawn") /\ r.reply = job[j].reply
    BY OneJob DEF JobRecord
  <2>3. c \in ChildRecord /\ c.os = "running"
    BY OneJob DEF ChildRecord
  <2> HIDE DEF r, c
  <2>4. JobFits(r, c, waiter[j], info[j])
    BY <1>1, <2>2, <2>3, OneJob DEF JobFits, Reaped
  <2>5. JobTells(r, c, waiter[j], info[j])
    BY <1>1, <1>2, <2>2, OneJob DEF JobTells, JobFits, Reaped
  <2>6. StepOf(j, r, c, waiter[j], info[j])
    BY <1>1, <1>2, <2>1, <2>2, <2>3, <2>4, <2>5, OneJob DEF StepOf
  <2> QED
    BY <1>1, <2>6, ClientsUnchanged, OneJobStep
<1> QED
  BY <1>3, <1>4 DEF Fork

(* No other job of the present server has the id that is registered.           *)
LEMMA RegisterKept ==
  ASSUME PSInv, NEW j \in Jobs, Register(j)
  PROVE  Kept
<1> USE DEF PSInv
<1> DEFINE r == [job[j] EXCEPT !.pc = "spawn"]
<1>1. /\ job[j].pc = "register" /\ job' = [job EXCEPT ![j] = r]
      /\ processes' = [processes EXCEPT ![job[j].id] = j]
      /\ UNCHANGED <<counter, child, waiter, info, client>>
  BY DEF Register, JobAt
<1>2. /\ r \in JobRecord /\ r.pc = "spawn" /\ r.bg = job[j].bg
      /\ r.id = job[j].id /\ r.lost = job[j].lost /\ r.reply = job[j].reply
  BY OneJob DEF JobRecord
<1> HIDE DEF r
<1>3. job[j].bg /\ ~job[j].lost /\ job[j].id # 0 /\ job[j].reply = "none"
  BY <1>1, OneJob DEF JobFits
<1>4. j \in Counted /\ job[j].id \in Ids
  BY <1>3, OneJob DEF Counted, JobRecord
<1>5. TypeOK'
  BY <1>1, <1>2, <1>4 DEF TypeOK
<1>6. IdsAreFresh'
  BY <1>1, <1>2, IdsStayFresh DEF TypeOK
<1>7. Registration'
  <2>1. processes'[job[j].id] = j /\ \A i \in Ids \ {job[j].id} : processes'[i] = processes[i]
    BY <1>1, <1>4 DEF TypeOK
  <2>2. \A l \in Jobs \ {j} : ~job[l].lost /\ job[l].id # 0 => job[l].id # job[j].id
    BY <1>4 DEF IdsAreFresh, Counted
  <2>3. \A l \in Jobs : job[l].id # 0 => job[l].id \in Ids
    BY DEF TypeOK, JobRecord
  <2>4. \A i \in Ids : processes[i] # None => processes[i] \in Jobs /\ processes[i] # j
    BY <1>1 DEF Registration, TypeOK
  <2>5. job'[j] = r /\ \A l \in Jobs \ {j} : job'[l] = job[l]
    BY <1>1 DEF TypeOK
  <2>6. ASSUME NEW i \in Ids, processes'[i] # None
        PROVE  /\ job'[processes'[i]].id = i /\ job'[processes'[i]].bg
               /\ job'[processes'[i]].pc \in {"spawn", "end"}
               /\ ~job'[processes'[i]].lost
    <3>1. CASE i = job[j].id
      BY <1>2, <1>3, <2>1, <2>5, <3>1
    <3>2. CASE i # job[j].id
      BY <2>1, <2>4, <2>5, <2>6, <3>2 DEF Registration
    <3> QED
      BY <3>1, <3>2
  <2>7. ASSUME NEW l \in Jobs, job'[l].bg, ~job'[l].lost,
               job'[l].pc = "spawn" \/ job'[l].reply = "id"
        PROVE  job'[l].id # 0 /\ processes'[job'[l].id] = l
    <3>1. CASE l = j
      BY <1>2, <1>3, <2>1, <2>5, <3>1
    <3>2. CASE l # j
      BY <2>1, <2>2, <2>3, <2>5, <2>7, <3>2 DEF Registration
    <3> QED
      BY <3>1, <3>2
  <2> QED
    BY <2>6, <2>7 DEF Registration
<1>8. JobFits(r, child[j], waiter[j], info[j])
  BY <1>1, <1>2, OneJob DEF JobFits, Reaped
<1>9. JobsFit' /\ ClientsFit'
  BY <1>1, <1>8, ClientsUnchanged DEF TypeOK, JobsFit
<1>10. TruthInv => TruthInv'
  BY <1>1, <1>2, <1>3 DEF TypeOK, TruthInv, JobTells
<1> QED
  BY <1>5, <1>6, <1>7, <1>9, <1>10 DEF Kept

LEMMA SpawnWaiterKept ==
  ASSUME PSInv, NEW j \in Jobs, SpawnWaiter(j)
  PROVE  Kept
<1> DEFINE r == [job[j] EXCEPT !.pc = IF job[j].bg THEN "end" ELSE "select",
                               !.reply = IF job[j].bg THEN "id" ELSE "none"]
           w == [waiter[j] EXCEPT !.pc = "wait"]
<1>1. /\ job[j].pc = "spawn"
      /\ job' = [job EXCEPT ![j] = r] /\ waiter' = [waiter EXCEPT ![j] = w]
      /\ UNCHANGED <<counter, processes, child, info, client>>
  BY DEF SpawnWaiter, JobAt
<1>2. /\ r \in JobRecord /\ r.bg = job[j].bg /\ r.id = job[j].id /\ r.lost = job[j].lost
      /\ r.pc = (IF job[j].bg THEN "end" ELSE "select")
      /\ r.reply = (IF job[j].bg THEN "id" ELSE "none")
  BY OneJob DEF JobRecord
<1>3. w \in WaiterRecord /\ w.pc = "wait"
  BY OneJob DEF WaiterRecord
<1> HIDE DEF r, w
<1>4. JobFits(r, child[j], w, info[j])
  <2>1. ~job[j].lost /\ ~r.lost /\ child[j].os # "none"
    BY <1>1, <1>2, OneJob DEF JobFits
  <2>2. CASE r.bg
    BY <1>1, <1>2, <1>3, <2>1, <2>2, OneJob DEF JobFits, Reaped
  <2>3. CASE ~r.bg
    BY <1>1, <1>2, <1>3, <2>1, <2>3, OneJob DEF JobFits, Reaped
  <2> QED
    BY <2>2, <2>3
<1>5. JobTells(r, child[j], w, info[j])
  BY <1>1, <1>2, <1>3, OneJob DEF JobTells, JobFits, Reaped
<1>6. StepOf(j, r, child[j], w, info[j])
  BY <1>1, <1>2, <1>3, <1>4, <1>5, OneJob DEF StepOf
<1> QED
  BY <1>1, <1>6, ClientsUnchanged, OneJobStep

LEMMA ReceiveResultKept ==
  ASSUME PSInv, NEW j \in Jobs, ReceiveResult(j)
  PROVE  Kept
<1> DEFINE r == [job[j] EXCEPT !.pc = "end",
                               !.reply = IF waiter[j].failed THEN "error" ELSE "result",
                               !.code = waiter[j].code, !.out = child[j].copied]
           w == [waiter[j] EXCEPT !.pc = "end"]
<1>1. /\ job[j].pc = "select" /\ waiter[j].pc = "sent"
      /\ job' = [job EXCEPT ![j] = r] /\ waiter' = [waiter EXCEPT ![j] = w]
      /\ UNCHANGED <<counter, processes, child, info, client>>
  BY DEF ReceiveResult, JobAt, WaiterAt
<1>2. waiter[j].code \in Codes \cup {Killed} /\ child[j].copied \in 0..MaxOutput
  BY OneJob DEF WaiterRecord, ChildRecord
<1>3. /\ r \in JobRecord /\ r.bg = job[j].bg /\ r.id = job[j].id /\ r.lost = job[j].lost
      /\ r.pc = "end" /\ r.reply \in {"error", "result"}
      /\ r.code = waiter[j].code /\ r.out = child[j].copied
  BY <1>2, OneJob DEF JobRecord
<1>4. w \in WaiterRecord /\ w.pc = "end" /\ w.code = waiter[j].code
  BY OneJob DEF WaiterRecord
<1> HIDE DEF r, w
<1>5. JobFits(r, child[j], w, info[j])
  BY <1>1, <1>3, <1>4, OneJob DEF JobFits, Reaped
<1>6. JobTells(job[j], child[j], waiter[j], info[j]) => JobTells(r, child[j], w, info[j])
  BY <1>1, <1>3, <1>4 DEF JobTells, Over, Reaped
<1>7. StepOf(j, r, child[j], w, info[j])
  BY <1>1, <1>3, <1>4, <1>5, <1>6, OneJob DEF StepOf
<1> QED
  BY <1>1, <1>7, ClientsUnchanged, OneJobStep

(* Kill leaves a shell that has ended as it is, and ends one that runs.         *)
LEMMA KillShellEnds ==
  ASSUME PSInv, NEW j \in Jobs, KillShell(j)
  PROVE  \E c \in ChildRecord :
           /\ child' = [child EXCEPT ![j] = c]
           /\ \/ c = child[j] /\ c.os # "running"
              \/ /\ child[j].os = "running" /\ c.os = "zombie" /\ c.code = Killed
                 /\ c.held = child[j].held /\ c.written = child[j].written
                 /\ c.copied = child[j].copied
<1>1. CASE child[j].os # "running"
  BY <1>1, OneJob DEF KillShell
<1>2. CASE child[j].os = "running"
  <2> DEFINE c == [child[j] EXCEPT !.os = "zombie", !.code = Killed]
  <2>1. child' = [child EXCEPT ![j] = c]
    BY <1>2 DEF KillShell
  <2>2. /\ c \in ChildRecord /\ c.os = "zombie" /\ c.code = Killed
        /\ c.held = child[j].held /\ c.written = child[j].written
        /\ c.copied = child[j].copied
    BY OneJob DEF ChildRecord
  <2> QED
    BY <1>2, <2>1, <2>2
<1> QED
  BY <1>1, <1>2

(* A call that has timed out has left no running shell behind.                 *)
LEMMA TimeoutKept ==
  ASSUME PSInv, NEW j \in Jobs, Timeout(j)
  PROVE  Kept
<1> DEFINE r == [job[j] EXCEPT !.pc = "snapshot"]
<1>1. /\ job[j].pc = "select" /\ job' = [job EXCEPT ![j] = r] /\ KillShell(j)
      /\ UNCHANGED <<counter, processes, waiter, info, client>>
  BY DEF Timeout, JobAt
<1>2. /\ r \in JobRecord /\ r.pc = "snapshot" /\ r.bg = job[j].bg /\ r.id = job[j].id
      /\ r.lost = job[j].lost /\ r.reply = job[j].reply
  BY OneJob DEF JobRecord
<1> HIDE DEF r
<1>3. PICK c \in ChildRecord :
        /\ child' = [child EXCEPT ![j] = c]
        /\ \/ c = child[j] /\ c.os # "running"
           \/ child[j].os = "running" /\ c.os = "zombie" /\ c.code = Killed
  BY <1>1, KillShellEnds
<1>4. job[j].reply = "none" /\ ~job[j].bg /\ child[j].os \in {"running", "zombie", "reaped"}
  BY <1>1, OneJob DEF JobFits, ChildRecord
<1>5. Killed # None
  BY ProcessStoreAssumption
<1>6. JobFits(r, c, waiter[j], info[j])
  BY <1>1, <1>2, <1>3, <1>4, <1>5, OneJob DEF JobFits, Reaped
<1>7. JobTells(job[j], child[j], waiter[j], info[j]) => JobTells(r, c, waiter[j], info[j])
  BY <1>1, <1>2, <1>3, <1>4, OneJob DEF JobTells, Over, JobFits, Reaped
<1>8. StepOf(j, r, c, waiter[j], info[j])
  BY <1>1, <1>2, <1>3, <1>4, <1>6, <1>7, OneJob DEF StepOf
<1> QED
  BY <1>1, <1>8, ClientsUnchanged, OneJobStep

LEMMA TimeoutReplyKept ==
  ASSUME PSInv, NEW j \in Jobs, TimeoutReply(j)
  PROVE  Kept
<1> DEFINE r == [job[j] EXCEPT !.pc = "end", !.reply = "timeout",
                               !.code = Killed, !.out = child[j].copied]
<1>1. /\ job[j].pc = "snapshot" /\ job' = [job EXCEPT ![j] = r]
      /\ UNCHANGED <<counter, processes, child, waiter, info, client>>
  BY DEF TimeoutReply, JobAt
<1>2. child[j].copied \in 0..MaxOutput
  BY OneJob DEF ChildRecord
<1>3. /\ r \in JobRecord /\ r.pc = "end" /\ r.bg = job[j].bg /\ r.id = job[j].id
      /\ r.lost = job[j].lost /\ r.reply = "timeout"
  BY <1>2, OneJob DEF JobRecord
<1> HIDE DEF r
<1>4. JobFits(r, child[j], waiter[j], info[j])
  BY <1>1, <1>3, OneJob DEF JobFits, Reaped
<1>5. JobTells(job[j], child[j], waiter[j], info[j]) => JobTells(r, child[j], waiter[j], info[j])
  BY <1>1, <1>3, OneJob DEF JobTells, JobFits
<1>6. StepOf(j, r, child[j], waiter[j], info[j])
  BY <1>1, <1>3, <1>4, <1>5, OneJob DEF StepOf
<1> QED
  BY <1>1, <1>6, ClientsUnchanged, OneJobStep

-------------------------------------------------------------------------------
(* The steps of the waiter.                                                   *)

LEMMA CopyKept ==
  ASSUME PSInv, NEW j \in Jobs, Copy(j)
  PROVE  Kept
<1> DEFINE c == [child[j] EXCEPT !.copied = @ + 1]
<1>1. /\ child[j].copied < child[j].written /\ child' = [child EXCEPT ![j] = c]
      /\ waiter[j].pc \notin {"publish", "send", "sent", "end"}
      /\ UNCHANGED <<counter, processes, job, waiter, info, client>>
  BY DEF Copy
<1>2. /\ MaxOutput \in Nat /\ child[j].copied \in 0..MaxOutput
      /\ child[j].written \in 0..MaxOutput
  BY OneJob, ProcessStoreAssumption DEF ChildRecord
<1>3. child[j].copied + 1 \in 0..MaxOutput /\ child[j].copied # child[j].written
  BY <1>1, <1>2
<1>4. c \in ChildRecord /\ c.os = child[j].os /\ c.code = child[j].code
  BY <1>3, OneJob DEF ChildRecord
<1> HIDE DEF c
<1>5. JobFits(job[j], c, waiter[j], info[j])
  BY <1>4, OneJob DEF JobFits
<1>6. JobTells(job[j], child[j], waiter[j], info[j]) => JobTells(job[j], c, waiter[j], info[j])
  BY <1>1, <1>3, <1>4 DEF JobTells, Over, Reaped
<1>7. StepOf(j, job[j], c, waiter[j], info[j])
  BY <1>1, <1>4, <1>5, <1>6, OneJob DEF StepOf
<1> QED
  BY <1>1, <1>7, ClientsUnchanged, OneJobStep

LEMMA ReapKept ==
  ASSUME PSInv, NEW j \in Jobs, Reap(j)
  PROVE  Kept
<1> DEFINE c == [child[j] EXCEPT !.os = "reaped"]
           w == [waiter[j] EXCEPT !.pc = "drain", !.code = child[j].code]
<1>1. /\ waiter[j].pc = "wait" /\ child[j].os = "zombie"
      /\ child' = [child EXCEPT ![j] = c] /\ waiter' = [waiter EXCEPT ![j] = w]
      /\ UNCHANGED <<counter, processes, job, info, client>>
  BY DEF Reap, WaiterAt
<1>2. child[j].code \in Codes \cup {Killed}
  BY <1>1, OneJob DEF JobFits, ChildRecord
<1>3. c \in ChildRecord /\ c.os = "reaped" /\ c.code = child[j].code
  BY OneJob DEF ChildRecord
<1>4. w \in WaiterRecord /\ w.pc = "drain" /\ w.code = child[j].code
  BY <1>2, OneJob DEF WaiterRecord
<1> HIDE DEF c, w
<1>5. JobFits(job[j], c, w, info[j])
  BY <1>1, <1>3, <1>4, OneJob DEF JobFits
<1>6. JobTells(job[j], child[j], waiter[j], info[j]) => JobTells(job[j], c, w, info[j])
  BY <1>1, <1>3, <1>4 DEF JobTells, Over, Reaped
<1>7. StepOf(j, job[j], c, w, info[j])
  BY <1>1, <1>3, <1>4, <1>5, <1>6, OneJob DEF StepOf
<1> QED
  BY <1>1, <1>7, ClientsUnchanged, OneJobStep

(* A step that moves the waiter alone.                                        *)
LEMMA WaiterStep ==
  ASSUME PSInv, NEW j \in Jobs, NEW w \in WaiterRecord,
         waiter' = [waiter EXCEPT ![j] = w],
         UNCHANGED <<counter, processes, job, child, info, client>>,
         waiter[j].pc \in Reaped, w.pc \in Reaped,
         \/ "copy" \in Faults
         \/ /\ w.code = waiter[j].code
            /\ w.pc = "drain" \/ waiter[j].pc # "drain" \/ Over(child[j])
  PROVE  Kept
<1>1. JobFits(job[j], child[j], w, info[j])
  BY OneJob DEF JobFits, Reaped
<1>2. "copy" \notin Faults /\ JobTells(job[j], child[j], waiter[j], info[j])
        => JobTells(job[j], child[j], w, info[j])
  BY DEF JobTells
<1>3. StepOf(j, job[j], child[j], w, info[j])
  BY <1>1, <1>2, OneJob DEF StepOf
<1> QED
  BY <1>3, ClientsUnchanged, OneJobStep

(* cmd.Wait returns when the output has come to its end.                       *)
LEMMA WaitReturnsKept ==
  ASSUME PSInv, NEW j \in Jobs, WaitReturns(j)
  PROVE  Kept
<1> DEFINE w == [waiter[j] EXCEPT !.pc = AfterWait(j)]
<1>1. /\ waiter[j].pc = "drain" /\ ~child[j].held /\ child[j].copied = child[j].written
      /\ waiter' = [waiter EXCEPT ![j] = w]
      /\ UNCHANGED <<counter, processes, job, child, info, client>>
  BY DEF WaitReturns, WaiterAt
<1>2. w \in WaiterRecord /\ w.pc \in Reaped /\ w.code = waiter[j].code
  BY OneJob DEF WaiterRecord, AfterWait, Reaped
<1> HIDE DEF w
<1>3. Over(child[j])
  BY <1>1, OneJob DEF JobFits, Over, Reaped
<1> QED
  BY <1>1, <1>2, <1>3, WaiterStep DEF Reaped

LEMMA CopyFailsKept ==
  ASSUME PSInv, NEW j \in Jobs, CopyFails(j)
  PROVE  Kept
<1> DEFINE w == [waiter[j] EXCEPT !.pc = AfterWait(j), !.failed = (child[j].code = 0),
                                  !.code = IF @ = 0 THEN Killed ELSE @]
<1>1. /\ waiter[j].pc = "drain" /\ "copy" \in Faults
      /\ waiter' = [waiter EXCEPT ![j] = w]
      /\ UNCHANGED <<counter, processes, job, child, info, client>>
  BY DEF CopyFails, WaiterAt
<1>2. w \in WaiterRecord /\ w.pc \in Reaped
  BY OneJob DEF WaiterRecord, AfterWait, Reaped
<1> HIDE DEF w
<1> QED
  BY <1>1, <1>2, WaiterStep DEF Reaped

(* The result goes into the channel, or the goroutine ends.                    *)
LEMMA WaiterMovesOnKept ==
  ASSUME PSInv, NEW j \in Jobs, Send(j) \/ WaiterEnds(j)
  PROVE  Kept
<1>1. ASSUME NEW l \in {"sent", "end"}, waiter[j].pc \in {"send", "publish"},
             waiter' = [waiter EXCEPT ![j].pc = l],
             UNCHANGED <<counter, processes, job, child, info, client>>
      PROVE  Kept
  <2> DEFINE w == [waiter[j] EXCEPT !.pc = l]
  <2>1. waiter' = [waiter EXCEPT ![j] = w]
    BY <1>1
  <2>2. w \in WaiterRecord /\ w.pc \in Reaped /\ w.code = waiter[j].code
    BY OneJob DEF WaiterRecord, Reaped
  <2> HIDE DEF w
  <2> QED
    BY <1>1, <2>1, <2>2, WaiterStep DEF Reaped
<1> QED
  BY <1>1 DEF Send, WaiterEnds, WaiterAt

(* Done and ExitCode are stored when Wait has returned.                        *)
LEMMA PublishKept ==
  ASSUME PSInv, NEW j \in Jobs, PublishDone(j) \/ PublishCode(j)
  PROVE  Kept
<1>1. waiter[j].pc = "publish" /\ UNCHANGED <<counter, processes, job, child, waiter, client>>
  BY DEF PublishDone, PublishCode, WaiterAt
<1>2. ASSUME NEW i \in InfoRecord, info' = [info EXCEPT ![j] = i]
      PROVE  Kept
  <2>1. JobFits(job[j], child[j], waiter[j], i)
    BY <1>1, OneJob DEF JobFits, Reaped
  <2>2. JobTells(job[j], child[j], waiter[j], info[j])
          => JobTells(job[j], child[j], waiter[j], i)
    BY <1>1 DEF JobTells, Reaped
  <2>3. StepOf(j, job[j], child[j], waiter[j], i)
    BY <1>1, <1>2, <2>1, <2>2, OneJob DEF StepOf
  <2> QED
    BY <1>1, <2>3, ClientsUnchanged, OneJobStep
<1>3. CASE PublishDone(j)
  <2> DEFINE i == [info[j] EXCEPT !.done = TRUE]
  <2>1. info' = [info EXCEPT ![j] = i] /\ i \in InfoRecord
    BY <1>3, OneJob DEF PublishDone, InfoRecord
  <2> QED
    BY <1>2, <2>1
<1>4. CASE PublishCode(j)
  <2> DEFINE i == [info[j] EXCEPT !.exit = waiter[j].code]
  <2>1. info' = [info EXCEPT ![j] = i] /\ i \in InfoRecord
    BY <1>4, OneJob DEF PublishCode, InfoRecord, WaiterRecord
  <2> QED
    BY <1>2, <2>1
<1> QED
  BY <1>3, <1>4

-------------------------------------------------------------------------------
(* The shell and its descendants, and the signal of Kill.                      *)

(* A shell that is over changes no more; one that runs or leaves somebody with *)
(* its pipes may do anything else.                                            *)
LEMMA ShellStep ==
  ASSUME PSInv, ClientsFit', NEW j \in Jobs, NEW c \in ChildRecord,
         child' = [child EXCEPT ![j] = c],
         UNCHANGED <<counter, processes, job, waiter, info>>,
         \/ c.os = child[j].os
         \/ child[j].os = "running" /\ c.os = "zombie",
         c.os \in {"zombie", "reaped"} => c.code # None,
         child[j].os = "reaped" => c.code = child[j].code,
         Over(child[j]) => Over(c) /\ c.written = child[j].written
  PROVE  Kept
<1>1. JobFits(job[j], c, waiter[j], info[j])
  BY OneJob DEF JobFits
<1>2. JobTells(job[j], child[j], waiter[j], info[j]) => JobTells(job[j], c, waiter[j], info[j])
  <2>1. waiter[j].pc \in Reaped => child[j].os = "reaped"
    BY OneJob DEF JobFits
  <2>2. Over(child[j]) => child[j].os = "reaped"
    BY DEF Over
  <2> QED
    BY <2>1, <2>2 DEF JobTells
<1>3. StepOf(j, job[j], c, waiter[j], info[j])
  BY <1>1, <1>2, OneJob DEF StepOf
<1> QED
  BY <1>3, OneJobStep

LEMMA CommandKept ==
  ASSUME PSInv, NEW j \in Jobs, Command(j)
  PROVE  Kept
<1>1. UNCHANGED <<counter, processes, job, waiter, info, client>> /\ ClientsFit'
  BY ClientsUnchanged DEF Command, Write, Detach, Release, Exit
<1>2. /\ child[j] \in ChildRecord
      /\ child[j].os \in {"zombie", "reaped"} => child[j].code # None
  BY OneJob DEF JobFits
<1>3. CASE Write(j)
  <2> DEFINE c == [child[j] EXCEPT !.written = @ + 1]
  <2>1. /\ child[j].os = "running" \/ child[j].held
        /\ child[j].written < MaxOutput /\ child' = [child EXCEPT ![j] = c]
    BY <1>3 DEF Write, Alive
  <2>2. child[j].written + 1 \in 0..MaxOutput
    <3>1. child[j].written \in 0..MaxOutput /\ MaxOutput \in Nat
      BY <1>2, ProcessStoreAssumption DEF ChildRecord
    <3> QED
      BY <2>1, <3>1
  <2>3. /\ c \in ChildRecord /\ c.os = child[j].os /\ c.code = child[j].code
        /\ c.os \in {"zombie", "reaped"} => c.code # None
    BY <1>2, <2>2 DEF ChildRecord
  <2> HIDE DEF c
  <2>4. ~Over(child[j])
    BY <2>1 DEF Over
  <2> QED
    BY <1>1, <1>2, <2>1, <2>3, <2>4, ShellStep
<1>4. CASE Detach(j)
  <2> DEFINE c == [child[j] EXCEPT !.held = TRUE]
  <2>1. child[j].os = "running" /\ child' = [child EXCEPT ![j] = c]
    BY <1>4 DEF Detach
  <2>2. /\ c \in ChildRecord /\ c.os = child[j].os /\ c.code = child[j].code
        /\ c.os \in {"zombie", "reaped"} => c.code # None
    BY <1>2 DEF ChildRecord
  <2> HIDE DEF c
  <2>3. ~Over(child[j])
    BY <2>1 DEF Over
  <2> QED
    BY <1>1, <1>2, <2>1, <2>2, <2>3, ShellStep
<1>5. CASE Release(j)
  <2> DEFINE c == [child[j] EXCEPT !.held = FALSE]
  <2>1. child[j].held /\ child' = [child EXCEPT ![j] = c]
    BY <1>5 DEF Release
  <2>2. /\ c \in ChildRecord /\ c.os = child[j].os /\ c.code = child[j].code
        /\ c.os \in {"zombie", "reaped"} => c.code # None
    BY <1>2 DEF ChildRecord
  <2> HIDE DEF c
  <2>3. ~Over(child[j])
    BY <2>1 DEF Over
  <2> QED
    BY <1>1, <1>2, <2>1, <2>2, <2>3, ShellStep
<1>6. ASSUME NEW e \in Codes, Exit(j, e)
      PROVE  Kept
  <2> DEFINE c == [child[j] EXCEPT !.os = "zombie", !.code = e]
  <2>1. child[j].os = "running" /\ child' = [child EXCEPT ![j] = c]
    BY <1>6 DEF Exit
  <2>2. c \in ChildRecord /\ c.os = "zombie" /\ c.code = e /\ e # None
    BY <1>2, ProcessStoreAssumption DEF ChildRecord
  <2> HIDE DEF c
  <2>3. ~Over(child[j]) /\ child[j].os # "reaped"
    BY <2>1 DEF Over
  <2> QED
    BY <1>1, <2>1, <2>2, <2>3, ShellStep
<1> QED
  BY <1>3, <1>4, <1>5, <1>6 DEF Command

-------------------------------------------------------------------------------
(* The clients.                                                               *)

(* A client that moves has a job.                                             *)
LEMMA ClientMoves ==
  ASSUME PSInv, NEW k \in Clients, NEW r \in ClientRecord,
         client' = [client EXCEPT ![k] = r], r.pc # "idle" => r.cur \in Jobs
  PROVE  ClientsFit'
  BY DEF PSInv, ClientsFit

(* Clients look, most of the time.                                            *)
LEMMA OnlyClients ==
  ASSUME PSInv, ClientsFit', UNCHANGED <<counter, processes, job, child, waiter, info>>
  PROVE  Kept
<1>1. TypeOK' /\ IdsAreFresh' /\ Registration'
  BY DEF PSInv, TypeOK, ClientsFit, IdsAreFresh, Counted, Registration
<1>2. JobsFit' /\ (TruthInv => TruthInv')
  BY DEF PSInv, JobsFit, TruthInv
<1> QED
  BY <1>1, <1>2 DEF PSInv, Kept

LEMMA AskKept ==
  ASSUME PSInv, NEW k \in Clients, Ask(k)
  PROVE  Kept
<1>1. UNCHANGED <<counter, processes, job, child, waiter, info>>
  BY DEF Ask, List, Status, KillLookup
<1>2. processes \in [Ids -> Jobs \cup {None}] /\ child \in [Jobs -> ChildRecord]
  BY DEF PSInv, TypeOK
<1>3. CASE List(k)
  <2>1. PICK j \in Registered :
          client' = [client EXCEPT ![k] =
            [NoClient EXCEPT !.pc = "done", !.cur = j, !.listing = TRUE,
                             !.left = Registered \ {j}]]
    BY <1>3 DEF List
  <2> DEFINE r == [NoClient EXCEPT !.pc = "done", !.cur = j, !.listing = TRUE,
                                   !.left = Registered \ {j}]
  <2>2. Registered \subseteq Jobs
    BY <1>2 DEF Registered
  <2>3. r \in ClientRecord /\ r.cur \in Jobs
    BY <2>2, EmptyRecords DEF ClientRecord
  <2>4. client' = [client EXCEPT ![k] = r]
    BY <2>1
  <2> HIDE DEF r
  <2> QED
    BY <1>1, <2>3, <2>4, ClientMoves, OnlyClients
<1>4. ASSUME NEW n \in Ids, Status(k, n)
      PROVE  Kept
  <2> DEFINE r == [NoClient EXCEPT !.pc = "done", !.cur = processes[n],
                                   !.out = child[processes[n]].copied]
  <2>1. client' = [client EXCEPT ![k] = r] /\ processes[n] \in Jobs
    BY <1>2, <1>4 DEF Status
  <2>2. child[processes[n]].copied \in 0..MaxOutput
    BY <1>2, <2>1 DEF ChildRecord
  <2>3. r \in ClientRecord /\ r.cur \in Jobs
    BY <2>1, <2>2, EmptyRecords DEF ClientRecord
  <2> HIDE DEF r
  <2> QED
    BY <1>1, <2>1, <2>3, ClientMoves, OnlyClients
<1>5. ASSUME NEW n \in Ids, KillLookup(k, n)
      PROVE  Kept
  <2> DEFINE r == [NoClient EXCEPT !.pc = "check", !.cur = processes[n]]
  <2>1. client' = [client EXCEPT ![k] = r] /\ processes[n] \in Jobs
    BY <1>2, <1>5 DEF KillLookup
  <2>2. r \in ClientRecord /\ r.cur \in Jobs
    BY <2>1, EmptyRecords DEF ClientRecord
  <2> HIDE DEF r
  <2> QED
    BY <1>1, <2>1, <2>2, ClientMoves, OnlyClients
<1> QED
  BY <1>3, <1>4, <1>5 DEF Ask

LEMMA AnswerKept ==
  ASSUME PSInv, NEW k \in Clients, Answer(k)
  PROVE  Kept
<1>1. UNCHANGED <<counter, processes, job, waiter, info>>
  BY DEF Answer, ReadDone, ReadCode, NextEntry, KillCheck, KillSignal, KillReply
<1>2. client[k] \in ClientRecord /\ client[k].pc # "idle" /\ client[k].cur \in Jobs
  <2>1. client[k].pc # "idle"
    BY DEF Answer, ReadDone, ReadCode, NextEntry, KillCheck, KillSignal, KillReply, ClientAt
  <2> QED
    BY <2>1 DEF PSInv, ClientsFit
<1>3. ASSUME client' = [client EXCEPT ![k] = NoClient]
      PROVE  ClientsFit'
  BY <1>3, EmptyRecords, ClientMoves
<1>4. CASE ReadDone(k)
  <2> DEFINE r == [client[k] EXCEPT !.pc = "code", !.done = info[client[k].cur].done]
  <2>1. client' = [client EXCEPT ![k] = r] /\ UNCHANGED child
    BY <1>4 DEF ReadDone
  <2>2. info[client[k].cur].done \in BOOLEAN
    BY <1>2, OneJob DEF InfoRecord
  <2>3. r \in ClientRecord /\ r.cur = client[k].cur
    BY <1>2, <2>2 DEF ClientRecord
  <2> HIDE DEF r
  <2> QED
    BY <1>1, <1>2, <2>1, <2>3, ClientMoves, OnlyClients
<1>5. CASE ReadCode(k)
  <2> DEFINE r == [client[k] EXCEPT !.pc = "report", !.exit = info[client[k].cur].exit]
  <2>1. client' = [client EXCEPT ![k] = r] /\ UNCHANGED child
    BY <1>5 DEF ReadCode
  <2>2. info[client[k].cur].exit \in Codes \cup {Killed}
    BY <1>2, OneJob DEF InfoRecord
  <2>3. r \in ClientRecord /\ r.cur = client[k].cur
    BY <1>2, <2>2 DEF ClientRecord
  <2> HIDE DEF r
  <2> QED
    BY <1>1, <1>2, <2>1, <2>3, ClientMoves, OnlyClients
<1>6. CASE NextEntry(k)
  <2>1. ASSUME NEW j \in client[k].left,
               client' = [client EXCEPT ![k].pc = "done", ![k].cur = j,
                                        ![k].left = @ \ {j}]
        PROVE  ClientsFit'
    <3> DEFINE r == [client[k] EXCEPT !.pc = "done", !.cur = j, !.left = @ \ {j}]
    <3>1. client' = [client EXCEPT ![k] = r]
      BY <2>1
    <3>2. j \in Jobs /\ client[k].left \ {j} \in SUBSET Jobs
      BY <1>2 DEF ClientRecord
    <3>3. r \in ClientRecord /\ r.cur \in Jobs
      BY <1>2, <3>2 DEF ClientRecord
    <3> HIDE DEF r
    <3> QED
      BY <3>1, <3>3, ClientMoves
  <2>2. UNCHANGED child
    BY <1>6 DEF NextEntry
  <2> QED
    BY <1>1, <1>3, <1>6, <2>1, <2>2, OnlyClients DEF NextEntry
<1>7. ASSUME NEW l \in {"kill", "killed"}, client' = [client EXCEPT ![k].pc = l]
      PROVE  ClientsFit'
  <2> DEFINE r == [client[k] EXCEPT !.pc = l]
  <2>1. client' = [client EXCEPT ![k] = r]
    BY <1>7
  <2>2. r \in ClientRecord /\ r.cur = client[k].cur
    BY <1>2 DEF ClientRecord
  <2> HIDE DEF r
  <2> QED
    BY <1>2, <2>1, <2>2, ClientMoves
<1>8. CASE KillCheck(k)
  BY <1>1, <1>3, <1>7, <1>8, OnlyClients DEF KillCheck
<1>9. CASE KillSignal(k)
  <2>1. CASE UNCHANGED child
    BY <1>1, <1>3, <1>7, <1>9, <2>1, OnlyClients DEF KillSignal
  <2>2. CASE ~UNCHANGED child
    <3>1. KillShell(client[k].cur) /\ ClientsFit'
      BY <1>7, <1>9, <2>2 DEF KillSignal
    <3> DEFINE j == client[k].cur
    <3>2. PICK c \in ChildRecord :
            /\ child' = [child EXCEPT ![j] = c]
            /\ \/ c = child[j] /\ c.os # "running"
               \/ child[j].os = "running" /\ c.os = "zombie" /\ c.code = Killed
      BY <1>2, <3>1, KillShellEnds
    <3>3. j \in Jobs /\ child[j].os = "running" /\ c.os = "zombie" /\ c.code # None
      BY <1>2, <2>2, <3>2, OneJob, ProcessStoreAssumption
    <3> HIDE DEF j
    <3>4. ~Over(child[j]) /\ child[j].os # "reaped"
      BY <3>3 DEF Over
    <3> QED
      BY <1>1, <3>1, <3>2, <3>3, <3>4, ShellStep
  <2> QED
    BY <2>1, <2>2
<1>10. CASE KillReply(k)
  BY <1>1, <1>3, <1>10, OnlyClients DEF KillReply
<1> QED
  BY <1>4, <1>5, <1>6, <1>8, <1>9, <1>10 DEF Answer

-------------------------------------------------------------------------------
(* A crash forgets the ids, the registry, the waiters and the clients; calls    *)
(* that were running are lost.                                                *)
LEMMA CrashKept ==
  ASSUME PSInv, Crash
  PROVE  Kept
<1>1. /\ counter' = 0 /\ processes' = [i \in Ids |-> None] /\ child' = child
      /\ waiter' = [j \in Jobs |-> NoWaiter] /\ info' = [j \in Jobs |-> NoInfo]
      /\ client' = [k \in Clients |-> NoClient]
      /\ job' = [j \in Jobs |-> IF j \in Started
                    THEN [job[j] EXCEPT !.pc = "end", !.lost = TRUE] ELSE job[j]]
  BY DEF Crash
<1>2. ASSUME NEW j \in Jobs
      PROVE  /\ job'[j] \in JobRecord
             /\ job'[j].id # 0 => job'[j].lost
             /\ job'[j].pc = "spawn" \/ job'[j].reply = "id" => job'[j].lost
             /\ JobFits(job'[j], child'[j], waiter'[j], info'[j])
             /\ JobTells(job[j], child[j], waiter[j], info[j])
                  => JobTells(job'[j], child'[j], waiter'[j], info'[j])
  <2>1. /\ child'[j] = child[j] /\ waiter'[j].pc = "none" /\ ~info'[j].done
        /\ JobFits(job[j], child[j], waiter[j], info[j]) /\ job[j] \in JobRecord
    BY <1>1, OneJob, EmptyRecords
  <2>2. CASE j \in Started
    <3> DEFINE r == [job[j] EXCEPT !.pc = "end", !.lost = TRUE]
    <3>1. job'[j] = r
      BY <1>1, <2>2
    <3>2. /\ r \in JobRecord /\ r.pc = "end" /\ r.lost
          /\ r.id = job[j].id /\ r.bg = job[j].bg /\ r.reply = job[j].reply
          /\ r.code = job[j].code /\ r.out = job[j].out
      BY <2>1 DEF JobRecord
    <3> HIDE DEF r
    <3> QED
      BY <2>1, <3>1, <3>2 DEF JobFits, JobTells, Reaped
  <2>3. CASE j \notin Started
    <3>1. job'[j] = job[j]
      BY <1>1, <2>3
    <3>2. job[j].pc = "new" \/ job[j].lost
      BY <2>3 DEF Started, JobAt
    <3> QED
      BY <2>1, <3>1, <3>2 DEF JobFits, JobTells, Reaped
  <2> QED
    BY <2>2, <2>3
<1>3. TypeOK' /\ ClientsFit'
  <2>1. job' = [j \in Jobs |-> job'[j]]
    BY <1>1
  <2>2. job' \in [Jobs -> JobRecord]
    BY <1>2, <2>1
  <2>3. ClientsFit'
    BY <1>1, EmptyRecords DEF ClientsFit
  <2>4. counter' \in 0..Cardinality(Jobs)
    <3>1. counter' = 0
      BY <1>1
    <3> QED
      BY <3>1, JobsFinite
  <2>6. processes' \in [Ids -> Jobs \cup {None}]
    BY <1>1
  <2>5. waiter' \in [Jobs -> WaiterRecord] /\ info' \in [Jobs -> InfoRecord]
    BY <1>1, EmptyRecords
  <2> QED
    BY <1>1, <2>2, <2>3, <2>4, <2>5, <2>6 DEF PSInv, TypeOK, ClientsFit
<1>4. Counted' = {}
  BY <1>2 DEF Counted
<1>5. IdsAreFresh'
  BY <1>1, <1>4, FS_EmptySet DEF IdsAreFresh
<1>6. Registration'
  BY <1>1, <1>2 DEF Registration
<1>7. JobsFit' /\ (TruthInv => TruthInv')
  BY <1>2 DEF JobsFit, TruthInv
<1> QED
  BY <1>3, <1>5, <1>6, <1>7 DEF PSInv, Kept

-------------------------------------------------------------------------------
(* Every step keeps the invariant.                                            *)
LEMMA NextKept == PSInv /\ [Next]_vars => Kept
<1> SUFFICES ASSUME PSInv, [Next]_vars PROVE Kept
  OBVIOUS
<1>1. CASE UNCHANGED vars
  BY <1>1, ClientsUnchanged, OnlyClients DEF vars
<1>2. ASSUME NEW j \in Jobs, NEW bg \in BOOLEAN, Call(j, bg)
      PROVE  Kept
  BY <1>2, CallKept
<1>3. ASSUME NEW j \in Jobs, Handler(j) \/ Timeout(j)
      PROVE  Kept
  BY <1>3, CountKept, ForkKept, RegisterKept, SpawnWaiterKept, ReceiveResultKept,
     TimeoutKept, TimeoutReplyKept DEF Handler
<1>4. ASSUME NEW j \in Jobs, Copy(j) \/ Waiter(j) \/ CopyFails(j) \/ Command(j)
      PROVE  Kept
  BY <1>4, CopyKept, ReapKept, WaitReturnsKept, CopyFailsKept, WaiterMovesOnKept,
     PublishKept, CommandKept DEF Waiter
<1>5. ASSUME NEW k \in Clients, Ask(k) \/ Answer(k)
      PROVE  Kept
  BY <1>5, AskKept, AnswerKept
<1> QED
  BY <1>1, <1>2, <1>3, <1>4, <1>5, CrashKept DEF Next

(* Every reachable state satisfies the invariant, whatever fails.              *)
THEOREM PSInvariant == Spec => []PSInv
<1>1. Init => PSInv
  BY PSInvInit
<1>2. PSInv /\ [Next]_vars => PSInv'
  BY NextKept DEF Kept
<1> QED
  BY <1>1, <1>2, PTL DEF Spec

(* Every variable keeps to its type; the counter never runs ahead of the calls. *)
THEOREM TypeCorrect == Spec => []TypeOK
<1>1. PSInv => TypeOK
  BY DEF PSInv
<1> QED
  BY <1>1, PSInvariant, PTL

(* The id that exec has answered with names its own process until the server    *)
(* ends, and never a process of an earlier server: however many calls to Start  *)
(* are between their two critical sections, and whatever fails.                *)
THEOREM IdsNameTheirJobs == Spec => []IdNamesItsJob
<1>1. PSInv => IdNamesItsJob
  BY DEF PSInv, Registration, JobsFit, JobFits, IdNamesItsJob, Registered
<1> QED
  BY <1>1, PSInvariant, PTL

(* Where copying the output does not fail, what the waiters know is true too.   *)
THEOREM TruthInvariant ==
  ASSUME "copy" \notin Faults
  PROVE  Spec => [](PSInv /\ TruthInv)
<1>1. Init => PSInv /\ TruthInv
  BY PSInvInit
<1>2. PSInv /\ TruthInv /\ [Next]_vars => (PSInv /\ TruthInv)'
  BY NextKept DEF Kept
<1> QED
  BY <1>1, <1>2, PTL DEF Spec

(* Done is reported only of a process that is over, with all of its output.    *)
THEOREM DoneIsOver ==
  ASSUME "copy" \notin Faults
  PROVE  Spec => []DoneMeansOver
<1>1. TruthInv => DoneMeansOver
  BY DEF TruthInv, JobTells, Over, DoneMeansOver
<1> QED
  BY <1>1, TruthInvariant, PTL

(* A foreground exec answers with the exit code and the whole output of its     *)
(* shell, or has timed out and left no running shell behind.                   *)
THEOREM ExecIsTruthful ==
  ASSUME "copy" \notin Faults
  PROVE  Spec => []ExecAnswersTruly
<1>1. TruthInv => ExecAnswersTruly
  BY DEF TruthInv, JobTells, Over, ExecAnswersTruly
<1> QED
  BY <1>1, TruthInvariant, PTL
===============================================================================
