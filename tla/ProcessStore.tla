----------------------------- MODULE ProcessStore -----------------------------
(******************************************************************************)
(* The process half of filesystem-mcp: the exec, process_status and            *)
(* process_kill tools and the ProcessStore they share                          *)
(* (internal/state/processes.go).                                             *)
(*                                                                            *)
(* A job is one exec tool call, in the foreground (Exec) or in the background  *)
(* (Start), with the shell it starts, the goroutine that waits for the shell   *)
(* and, for a background job, its ProcessInfo.  A client is a goroutine that   *)
(* serves process_status and process_kill calls, one after another.            *)
(*                                                                            *)
(* ProcessStore.mu protects the counter and the map, and every critical        *)
(* section is one action.  It does not protect ProcessInfo.Done and ExitCode:  *)
(* the waiter stores them, and the handlers read them, without it.             *)
(******************************************************************************)
EXTENDS Integers, FiniteSets

CONSTANTS
  Jobs,       (* exec tool calls                                             *)
  Clients,    (* goroutines that serve process_status and process_kill        *)
  Codes,      (* codes a shell may exit with                                 *)
  MaxOutput,  (* bound on the pieces of output of a job                      *)
  Detaches,   (* may a shell leave a descendant that holds its output pipes? *)
  Faults,     (* "fork": cmd.Start fails; "copy": copying the output fails   *)
  Crashes,    (* may the server end and start again?                          *)
  None        (* no job, no exit code yet                                    *)

Killed == -1      (* ExitCode() of a shell that a signal ended, and the code   *)
                  (* reported when Wait fails in another way                  *)
Ids    == 1..Cardinality(Jobs)     (* proc_1, proc_2, ...                      *)

ASSUME ProcessStoreAssumption ==
  /\ IsFiniteSet(Jobs)
  /\ Codes \subseteq Nat /\ 0 \in Codes
  /\ MaxOutput \in Nat
  /\ Detaches \in BOOLEAN /\ Crashes \in BOOLEAN
  /\ None \notin Jobs \cup Codes \cup {Killed}

VARIABLES
  counter,    (* ProcessStore.counter                                         *)
  processes,  (* ProcessStore.processes: the job registered under an id       *)
  job,        (* job[j]: the handler of the exec call j                       *)
  child,      (* child[j]: its shell, the pipe and the buffer of its output    *)
  waiter,     (* waiter[j]: the goroutine in cmd.Wait, and what Wait returned  *)
  info,       (* info[j]: the Done and ExitCode fields of its ProcessInfo     *)
  client      (* client[k]: the handler that k runs                           *)

vars == <<counter, processes, job, child, waiter, info, client>>

JobRecord ==
  [pc : {"new", "count", "fork", "register", "spawn", "select", "snapshot", "end"},
   bg : BOOLEAN, id : Ids \cup {0}, lost : BOOLEAN,
   reply : {"none", "id", "result", "timeout", "error"},
   code : Codes \cup {Killed}, out : 0..MaxOutput]
ChildRecord ==
  [os : {"none", "running", "zombie", "reaped"}, code : Codes \cup {Killed, None},
   held : BOOLEAN, written : 0..MaxOutput, copied : 0..MaxOutput]
WaiterRecord ==
  [pc : {"none", "wait", "drain", "publish", "send", "sent", "end"},
   code : Codes \cup {Killed}, failed : BOOLEAN]
InfoRecord   == [done : BOOLEAN, exit : Codes \cup {Killed}]
ClientRecord ==
  [pc : {"idle", "done", "code", "report", "check", "kill", "killed"},
   left : SUBSET Jobs, cur : Jobs \cup {None}, listing : BOOLEAN,
   done : BOOLEAN, exit : Codes \cup {Killed}, out : 0..MaxOutput]

NoWaiter == [pc |-> "none", code |-> 0, failed |-> FALSE]
NoInfo   == [done |-> FALSE, exit |-> 0]
NoClient == [pc |-> "idle", left |-> {}, cur |-> None, listing |-> FALSE,
             done |-> FALSE, exit |-> 0, out |-> 0]

Init ==
  /\ counter = 0
  /\ processes = [i \in Ids |-> None]
  /\ job = [j \in Jobs |-> [pc |-> "new", bg |-> FALSE, id |-> 0,
                            lost |-> FALSE, reply |-> "none", code |-> 0, out |-> 0]]
  /\ child = [j \in Jobs |-> [os |-> "none", code |-> None, held |-> FALSE,
                              written |-> 0, copied |-> 0]]
  /\ waiter = [j \in Jobs |-> NoWaiter]
  /\ info = [j \in Jobs |-> NoInfo]
  /\ client = [k \in Clients |-> NoClient]

JobAt(j, l)    == job[j].pc = l
WaiterAt(j, l) == waiter[j].pc = l
ClientAt(k, l) == client[k].pc = l

-------------------------------------------------------------------------------
(* The handler of exec.                                                       *)

(* Arguments are checked; background selects Start, else Exec.                *)
Call(j, bg) ==
  /\ JobAt(j, "new")
  /\ job' = [job EXCEPT ![j].pc = IF bg THEN "count" ELSE "fork", ![j].bg = bg]
  /\ UNCHANGED <<counter, processes, child, waiter, info, client>>

(* Variants: the id is the size of the map plus one; the counter counts twice. *)
CountBySize(j) ==
  /\ JobAt(j, "count")
  /\ counter' = counter + 1
  /\ job' = [job EXCEPT ![j].pc = "fork",
               ![j].id = Cardinality({i \in Ids : processes[i] # None}) + 1]
  /\ UNCHANGED <<processes, child, waiter, info, client>>

CountTwice(j) ==
  /\ JobAt(j, "count")
  /\ counter' = counter + 2
  /\ job' = [job EXCEPT ![j].pc = "fork", ![j].id = counter + 1]
  /\ UNCHANGED <<processes, child, waiter, info, client>>

(* The first critical section of Start: a fresh id.                           *)
Count(j) ==
  /\ JobAt(j, "count")
  /\ counter' = counter + 1
  /\ job' = [job EXCEPT ![j].pc = "fork", ![j].id = counter + 1]
  /\ UNCHANGED <<processes, child, waiter, info, client>>

(* cmd.Start; a failure leaves an id that is never used.                      *)
Fork(j) ==
  /\ JobAt(j, "fork")
  /\ \/ /\ child' = [child EXCEPT ![j].os = "running"]
        /\ job' = [job EXCEPT ![j].pc = IF job[j].bg THEN "register" ELSE "spawn"]
     \/ /\ "fork" \in Faults
        /\ job' = [job EXCEPT ![j].pc = "end", ![j].reply = "error"]
        /\ UNCHANGED child
  /\ UNCHANGED <<counter, processes, waiter, info, client>>

(* The second critical section of Start.                                      *)
Register(j) ==
  /\ JobAt(j, "register")
  /\ processes' = [processes EXCEPT ![job[j].id] = j]
  /\ job' = [job EXCEPT ![j].pc = "spawn"]
  /\ UNCHANGED <<counter, child, waiter, info, client>>

(* The waiting goroutine starts; Start returns the id, Exec goes on to select. *)
SpawnWaiter(j) ==
  /\ JobAt(j, "spawn")
  /\ waiter' = [waiter EXCEPT ![j].pc = "wait"]
  /\ job' = [job EXCEPT ![j].pc = IF job[j].bg THEN "end" ELSE "select",
                        ![j].reply = IF job[j].bg THEN "id" ELSE "none"]
  /\ UNCHANGED <<counter, processes, child, info, client>>

(* select in Exec, the case of the channel (capacity 1): the result of Wait.   *)
(* The buffer is read when Wait has returned, so nothing is added to it.       *)
ReceiveResult(j) ==
  /\ JobAt(j, "select") /\ WaiterAt(j, "sent")
  /\ job' = [job EXCEPT ![j].pc = "end",
                        ![j].reply = IF waiter[j].failed THEN "error" ELSE "result",
                        ![j].code = waiter[j].code,
                        ![j].out = child[j].copied]
  /\ waiter' = [waiter EXCEPT ![j].pc = "end"]
  /\ UNCHANGED <<counter, processes, child, info, client>>

(* Process.Kill signals the shell alone; a zombie takes no notice.             *)
KillShell(j) ==
  child' = IF child[j].os = "running"
           THEN [child EXCEPT ![j].os = "zombie", ![j].code = Killed]
           ELSE child

(* Variant: the timeout does not kill.                                        *)
TimeoutNoKill(j) ==
  /\ JobAt(j, "select")
  /\ job' = [job EXCEPT ![j].pc = "snapshot"]
  /\ UNCHANGED <<counter, processes, child, waiter, info, client>>

(* select in Exec, the case of the timer, which may win against a result that  *)
(* is there already; an error of Kill is ignored.                              *)
Timeout(j) ==
  /\ JobAt(j, "select")
  /\ KillShell(j)
  /\ job' = [job EXCEPT ![j].pc = "snapshot"]
  /\ UNCHANGED <<counter, processes, waiter, info, client>>

(* Variant: Exec waits for the waiter after it has killed the shell.           *)
TimeoutWaits(j) ==
  /\ JobAt(j, "snapshot") /\ WaiterAt(j, "sent")
  /\ job' = [job EXCEPT ![j].pc = "end", ![j].reply = "timeout",
                        ![j].code = Killed, ![j].out = child[j].copied]
  /\ UNCHANGED <<counter, processes, child, waiter, info, client>>

(* Exec answers without waiting for the waiter.                               *)
TimeoutReply(j) ==
  /\ JobAt(j, "snapshot")
  /\ job' = [job EXCEPT ![j].pc = "end", ![j].reply = "timeout",
                        ![j].code = Killed, ![j].out = child[j].copied]
  /\ UNCHANGED <<counter, processes, child, waiter, info, client>>

-------------------------------------------------------------------------------
(* cmd.Wait in the waiter: reap the shell, then wait for the goroutine that    *)
(* copies the output, which ends when nobody holds the pipe any more.          *)

Copy(j) ==
  /\ child[j].copied < child[j].written /\ ~job[j].lost
  /\ ~(waiter[j].pc \in {"publish", "send", "sent", "end"})
  /\ child' = [child EXCEPT ![j].copied = @ + 1]
  /\ UNCHANGED <<counter, processes, job, waiter, info, client>>

Reap(j) ==
  /\ WaiterAt(j, "wait") /\ child[j].os = "zombie"
  /\ child' = [child EXCEPT ![j].os = "reaped"]
  /\ waiter' = [waiter EXCEPT ![j].pc = "drain", ![j].code = child[j].code]
  /\ UNCHANGED <<counter, processes, job, info, client>>

AfterWait(j) == IF job[j].bg THEN "publish" ELSE "send"

(* Variant: Process.Wait in place of cmd.Wait, which waits for the output too.  *)
WaitNoDrain(j) ==
  /\ WaiterAt(j, "drain")
  /\ waiter' = [waiter EXCEPT ![j].pc = AfterWait(j)]
  /\ UNCHANGED <<counter, processes, job, child, info, client>>

WaitReturns(j) ==
  /\ WaiterAt(j, "drain")
  /\ ~child[j].held
  /\ child[j].copied = child[j].written
  /\ waiter' = [waiter EXCEPT ![j].pc = AfterWait(j)]
  /\ UNCHANGED <<counter, processes, job, child, info, client>>

(* Copying the output fails: an error of its own if the shell's code was 0.     *)
CopyFails(j) ==
  /\ "copy" \in Faults
  /\ WaiterAt(j, "drain")
  /\ waiter' = [waiter EXCEPT ![j].pc = AfterWait(j),
                  ![j].failed = (child[j].code = 0),
                  ![j].code = IF @ = 0 THEN Killed ELSE @]
  /\ UNCHANGED <<counter, processes, job, child, info, client>>

(* Variant: the channel has no buffer.                                        *)
SendUnbuffered(j) ==
  /\ WaiterAt(j, "send") /\ JobAt(j, "select")
  /\ waiter' = [waiter EXCEPT ![j].pc = "sent"]
  /\ UNCHANGED <<counter, processes, job, child, info, client>>

(* Exec's waiter puts the result into the channel, which has room for it.      *)
Send(j) ==
  /\ WaiterAt(j, "send")
  /\ waiter' = [waiter EXCEPT ![j].pc = "sent"]
  /\ UNCHANGED <<counter, processes, job, child, info, client>>

(* Variant: Done is stored only when Wait returned no error.                   *)
PublishSuccess(j) ==
  /\ WaiterAt(j, "publish")
  /\ ~info[j].done /\ waiter[j].code = 0
  /\ info' = [info EXCEPT ![j].done = TRUE]
  /\ UNCHANGED <<counter, processes, job, child, waiter, client>>

(* Start's waiter stores Done and, when Wait returned an error, ExitCode.  No  *)
(* lock orders the stores for a reader, who may see either one first.          *)
PublishDone(j) ==
  /\ WaiterAt(j, "publish")
  /\ ~info[j].done
  /\ info' = [info EXCEPT ![j].done = TRUE]
  /\ UNCHANGED <<counter, processes, job, child, waiter, client>>

PublishCode(j) ==
  /\ WaiterAt(j, "publish")
  /\ info[j].exit # waiter[j].code
  /\ info' = [info EXCEPT ![j].exit = waiter[j].code]
  /\ UNCHANGED <<counter, processes, job, child, waiter, client>>

WaiterEnds(j) ==
  /\ WaiterAt(j, "publish")
  /\ info[j] = [done |-> TRUE, exit |-> waiter[j].code]
  /\ waiter' = [waiter EXCEPT ![j].pc = "end"]
  /\ UNCHANGED <<counter, processes, job, child, info, client>>

-------------------------------------------------------------------------------
(* process_status.  Status looks the job up and reads the buffers under the    *)
(* lock; the handler then reads Done and ExitCode without it.  List copies the *)
(* pointers under the lock; the handler goes through them in map order.        *)

Registered == {processes[i] : i \in Ids} \ {None}

Status(k, i) ==
  /\ ClientAt(k, "idle")
  /\ processes[i] # None
  /\ client' = [client EXCEPT ![k] =
       [NoClient EXCEPT !.pc = "done", !.cur = processes[i],
                        !.out = child[processes[i]].copied]]
  /\ UNCHANGED <<counter, processes, job, child, waiter, info>>

List(k) ==
  /\ ClientAt(k, "idle")
  /\ \E j \in Registered :
       client' = [client EXCEPT ![k] =
         [NoClient EXCEPT !.pc = "done", !.cur = j, !.listing = TRUE,
                          !.left = Registered \ {j}]]
  /\ UNCHANGED <<counter, processes, job, child, waiter, info>>

ReadDone(k) ==
  /\ ClientAt(k, "done")
  /\ client' = [client EXCEPT ![k].pc = "code",
                              ![k].done = info[client[k].cur].done]
  /\ UNCHANGED <<counter, processes, job, child, waiter, info>>

ReadCode(k) ==
  /\ ClientAt(k, "code")
  /\ client' = [client EXCEPT ![k].pc = "report",
                              ![k].exit = info[client[k].cur].exit]
  /\ UNCHANGED <<counter, processes, job, child, waiter, info>>

(* The entry of one job is complete: on to the next one, or the reply is sent. *)
NextEntry(k) ==
  /\ ClientAt(k, "report")
  /\ \/ /\ client[k].left = {}
        /\ client' = [client EXCEPT ![k] = NoClient]
     \/ \E j \in client[k].left :
          client' = [client EXCEPT ![k].pc = "done", ![k].cur = j,
                                   ![k].left = @ \ {j}]
  /\ UNCHANGED <<counter, processes, job, child, waiter, info>>

-------------------------------------------------------------------------------
(* process_kill: the lookup is under the lock, the test of Done and the signal *)
(* are not.  An unknown id is refused and changes nothing.                     *)

KillLookup(k, i) ==
  /\ ClientAt(k, "idle")
  /\ processes[i] # None
  /\ client' = [client EXCEPT ![k] =
                  [NoClient EXCEPT !.pc = "check", !.cur = processes[i]]]
  /\ UNCHANGED <<counter, processes, job, child, waiter, info>>

KillCheck(k) ==
  /\ ClientAt(k, "check")
  /\ \/ /\ info[client[k].cur].done
        /\ client' = [client EXCEPT ![k] = NoClient]
     \/ /\ ~info[client[k].cur].done
        /\ client' = [client EXCEPT ![k].pc = "kill"]
  /\ UNCHANGED <<counter, processes, job, child, waiter, info>>

KillSignal(k) ==
  /\ ClientAt(k, "kill")
  /\ \/ /\ child[client[k].cur].os = "reaped"
        /\ client' = [client EXCEPT ![k] = NoClient]
        /\ UNCHANGED child
     \/ /\ child[client[k].cur].os # "reaped"
        /\ KillShell(client[k].cur)
        /\ client' = [client EXCEPT ![k].pc = "killed"]
  /\ UNCHANGED <<counter, processes, job, waiter, info>>

(* The reply "Process ... killed" is sent.                                    *)
KillReply(k) ==
  /\ ClientAt(k, "killed")
  /\ client' = [client EXCEPT ![k] = NoClient]
  /\ UNCHANGED <<counter, processes, job, child, waiter, info>>

-------------------------------------------------------------------------------
(* The shell and its descendants, which run as they like.  Nobody reads what   *)
(* they write once the server that started them is gone.                       *)

Alive(j) == child[j].os = "running" \/ child[j].held

Write(j) ==
  /\ Alive(j) /\ ~job[j].lost
  /\ child[j].written < MaxOutput
  /\ child' = [child EXCEPT ![j].written = @ + 1]
  /\ UNCHANGED <<counter, processes, job, waiter, info, client>>

Detach(j) ==
  /\ Detaches
  /\ child[j].os = "running" /\ ~child[j].held
  /\ child' = [child EXCEPT ![j].held = TRUE]
  /\ UNCHANGED <<counter, processes, job, waiter, info, client>>

Release(j) ==
  /\ child[j].held
  /\ child' = [child EXCEPT ![j].held = FALSE]
  /\ UNCHANGED <<counter, processes, job, waiter, info, client>>

Exit(j, r) ==
  /\ child[j].os = "running"
  /\ child' = [child EXCEPT ![j].os = "zombie", ![j].code = r]
  /\ UNCHANGED <<counter, processes, job, waiter, info, client>>

-------------------------------------------------------------------------------
(* The server ends at any moment and main starts it again with a new, empty    *)
(* store.  Handlers, waiters and the jobs of the old server are gone; their     *)
(* shells live on, without anybody who waits for them.                         *)
Started == {j \in Jobs : ~JobAt(j, "new") /\ ~job[j].lost}

Crash ==
  /\ Crashes /\ Started # {}
  /\ counter' = 0
  /\ processes' = [i \in Ids |-> None]
  /\ job' = [j \in Jobs |-> IF j \in Started
                THEN [job[j] EXCEPT !.pc = "end", !.lost = TRUE] ELSE job[j]]
  /\ waiter' = [j \in Jobs |-> NoWaiter]
  /\ info' = [j \in Jobs |-> NoInfo]
  /\ client' = [k \in Clients |-> NoClient]
  /\ UNCHANGED child

-------------------------------------------------------------------------------
Handler(j) ==
  \/ Count(j) \/ Fork(j) \/ Register(j) \/ SpawnWaiter(j)
  \/ ReceiveResult(j) \/ TimeoutReply(j)
Waiter(j) ==
  \/ Reap(j) \/ WaitReturns(j) \/ Send(j)
  \/ PublishDone(j) \/ PublishCode(j) \/ WaiterEnds(j)
Answer(k) ==
  \/ ReadDone(k) \/ ReadCode(k) \/ NextEntry(k)
  \/ KillCheck(k) \/ KillSignal(k) \/ KillReply(k)
Ask(k) == List(k) \/ \E i \in Ids : Status(k, i) \/ KillLookup(k, i)
Command(j) ==
  \/ Write(j) \/ Detach(j) \/ Release(j) \/ \E r \in Codes : Exit(j, r)

Next ==
  \/ \E j \in Jobs : \/ \E bg \in BOOLEAN : Call(j, bg)
                     \/ Handler(j) \/ Timeout(j) \/ Copy(j)
                     \/ Waiter(j) \/ CopyFails(j) \/ Command(j)
  \/ \E k \in Clients : Ask(k) \/ Answer(k)
  \/ Crash

Spec == Init /\ [][Next]_vars

(* The Go scheduler runs every runnable goroutine and every timer expires.     *)
(* Nothing is assumed of the shells: they may run for ever.                    *)
Fairness ==
  /\ \A j \in Jobs : /\ WF_vars(Handler(j)) /\ WF_vars(Timeout(j))
                     /\ WF_vars(Copy(j)) /\ WF_vars(Waiter(j))
  /\ \A k \in Clients : WF_vars(Answer(k))
FairSpec == Spec /\ Fairness

-------------------------------------------------------------------------------
(* Every variable keeps to its type.                                          *)
TypeOK ==
  /\ counter \in 0..Cardinality(Jobs)
  /\ processes \in [Ids -> Jobs \cup {None}]
  /\ job \in [Jobs -> JobRecord]
  /\ child \in [Jobs -> ChildRecord]
  /\ waiter \in [Jobs -> WaiterRecord]
  /\ info \in [Jobs -> InfoRecord]
  /\ client \in [Clients -> ClientRecord]

(* The id that exec has answered with names that call's own process for as      *)
(* long as the server runs, however many calls to Start are between their two  *)
(* critical sections; and no id names a process of the server before it.       *)
IdNamesItsJob ==
  \A j \in Jobs :
    /\ job[j].reply = "id" /\ ~job[j].lost => processes[job[j].id] = j
    /\ job[j].lost => j \notin Registered

(* A process is marked Done only when it is over: the shell is reaped, nobody   *)
(* can write to its output any more, and all the output is in the buffers.     *)
(* (Where copying the output does not fail.)                                   *)
DoneMeansOver ==
  \A j \in Jobs :
    info[j].done => /\ child[j].os = "reaped" /\ ~child[j].held
                    /\ child[j].copied = child[j].written

(* A result that a foreground exec answers with has the shell's own exit code  *)
(* and the whole output, of the descendants that share its pipes too; a call   *)
(* that timed out has left no running shell behind.                            *)
ExecAnswersTruly ==
  \A j \in Jobs :
    /\ job[j].reply = "result" =>
         /\ child[j].os = "reaped" /\ ~child[j].held
         /\ job[j].code = child[j].code
         /\ job[j].out = child[j].written
    /\ job[j].reply = "timeout" => child[j].os \in {"zombie", "reaped"}

(* "Timeout in seconds for foreground commands" (tools.go:168): a foreground   *)
(* exec answers even if its shell and its descendants run for ever.            *)
ExecAnswers == \A j \in Jobs : JobAt(j, "select") ~> JobAt(j, "end")

(* The goroutine that waits for a shell ends once the shell and the holders of *)
(* its pipes have: also when Exec gave up long ago and nobody receives from    *)
(* its channel.                                                               *)
WaiterEndsWithShell ==
  \A j \in Jobs :
    child[j].os = "zombie" /\ ~child[j].held ~> waiter[j].pc \in {"sent", "end"}

(* A job that process_kill has reported killed is reported Done in the end      *)
(* ("Kill a background process", README.md:40), unless a descendant of its      *)
(* shell holds the output for ever.                                           *)
KilledJobIsDone ==
  \A j \in Jobs :
    <>[]~child[j].held =>
      ((\E k \in Clients : ClientAt(k, "killed") /\ client[k].cur = j)
         ~> info[j].done)

(* What process_status reports of a job that is done is what became of it       *)
(* ("Get output and status of a background process", README.md:39).            *)
DoneReportHasExitCode ==
  \A k \in Clients :
    ClientAt(k, "report") /\ client[k].done
      => client[k].exit = child[client[k].cur].code
===============================================================================
