# filesystem-mcp in TLA+

Specifications, model-checking configurations and machine-checked proofs for
filesystem-mcp, a Model Context Protocol server written in Go that gives a
client files, a shell, processes and a scratch pad (`src/`).  Paths below are
relative to `src/`.

## The system

| component | code | state | operations |
|---|---|---|---|
| file-changing tools | `internal/tools/tool_write_file.go`, `tool_edit_file.go`, `tool_undo.go` | locals of a handler | `write_file`, `edit_file`, `undo` |
| undo history | `internal/state/undo.go` | `entries`: one entry per path; `mu` | `Save`, `Restore` |
| process registry | `internal/state/processes.go` | `counter`, `processes`, per process `Done`, `ExitCode`, output buffers; `mu` | `Start`, `Exec`, `Status`, `Kill`, `List`, a waiter goroutine per shell |
| process tools | `internal/tools/tool_exec.go`, `tool_processes.go` | locals of a handler | `exec`, `process_status`, `process_kill` |
| scratch pad | `internal/state/scratch.go`, `internal/tools/tool_scratch.go` | `data`, an `RWMutex` | `set`, `get`, `delete`, `list` |
| RBAC engine | `internal/rbac/rbac.go` | the compiled rules, fixed at start | `Check` |
| JWT middleware | `internal/middlewares/jwt_validation*.go` | `jwks`, `mutex`, compiled conditions | a request; the worker `cacheJWKS` |
| reading tools | `tool_ls.go`, `tool_read_file.go`, `tool_search.go`, `tool_diff.go`, `tool_system_info.go` | none | one handler each |
| access log, OAuth metadata, configuration, start-up | `internal/middlewares/logging.go`, `internal/handlers`, `internal/config`, `internal/globals`, `cmd/main.go` | configuration | |

How they interact.  A tool call arrives over stdio or HTTP.  Over HTTP it passes
the access log and the JWT middleware, which puts the token's payload into the
request context.  The MCP library runs each call in a goroutine of its own.  The
handler checks its arguments, asks `rbac.Engine.Check` with the paths of the call
and the payload, and then works on the file system and on the three stores, which
all sessions share.  The stores know nothing of each other; they meet in the file
system, which `write_file`, `edit_file`, `undo` and the commands run by `exec`
change at the same time.

What is hard about it, and what makes each component correct:

* **Undo.**  The lock of the undo history covers `Save` and covers `Restore`, but
  not the read and the write of the file around them.  Each system call may fail,
  and every handler has its own way on from each failure.  It is correct if a
  file is overwritten only when undo would bring its content back, if a failed
  undo can be tried again, and if nobody leaves with the lock.
* **Processes.**  `Start` takes the lock twice; `Done` and `ExitCode` are stored
  and read without it; `cmd.Wait` waits for every holder of the output pipes; the
  timer of `Exec` races the end of the shell.  It is correct if ids name their
  processes, if `Done` means over, if an answer is complete, if `exec` answers at
  all, and if no waiter is left behind.
* **Scratch.**  A Go map must not be written while somebody else uses it, and
  `list` uses all of it.
* **RBAC.**  Two nested loops with early returns and a default.  It is correct if
  the verdict is what the rules say of every path of the call.
* **JWT.**  The key set changes at the provider, is fetched in the background and
  is replaced while requests are half way through their checks.  It is correct if
  only verified requests pass, if no good request is refused, and if the cache
  catches up.
* **The way of a request.**  The payload goes from the middleware through the
  context to the engine, and the tools, their categories and their paths are
  kept in three places.  It is correct if a tool runs only for a caller and on
  paths that the rules grant, and is refused only for want of that.
* **Reading tools.**  They go through a tree that others change, with limits,
  ranges and windows that have borders.  They are correct if what nobody changed
  is answered completely and once, if a diff is minimal, if a range is cut where
  it says, and if every call ends.

The list `hazards` in `PROJECT.json` names the places in the code where these can
go wrong, each with the properties that would show it.

## Modules

| module | models |
|---|---|
| `FileStore` | the three file-changing tools, `UndoStore`, the file system under them, commands that change files, a restart of the server |
| `UndoHistory` | the abstract specification of undo |
| `FileHistory` | the refinement of `UndoHistory` by `FileStore`, and what a successful answer says |
| `LastModification` | `FileStore` with the history variable `prior`, for the description of the undo tool |
| `FileStoreProofs`, `FileHistoryProofs` | theorems about `FileStore`, and the refinement |
| `ProcessStore` | `exec`, `process_status`, `process_kill`, `ProcessStore`, the shells |
| `ScratchStore` | the scratch tool and its store |
| `PathGlob`, `AccessControl` | `matchGlob`, and `Check` with its loops |
| `JwtValidation` | the HTTP requests' token checks and the JWKS worker |
| `Server` | a request from the transport through the token checks, the context and `Check` to its tool |
| `FileTree` | directories and files as the reading tools see them, and what changes them meanwhile |
| `FileSearch`, `DirListing`, `LineDiff`, `LineRanges` | `search`, `ls`, `diff`, `read_file` |
| `ReadingTools` | the four over one tree |
| `ProcessStoreProofs`, `ScratchStoreProofs`, `AccessControlProofs` | theorems about the module of that name |
| `ServerProofs` | theorems about `JwtValidation` and, on top of them, about `Server` |
| `ReadingProofs` | theorems about `read_file` and `diff` |
| `WalkProofs` | theorems about `search` and `ls`, and about the four reading tools together |
| `MC...` | constants for TLC |

`PROJECT.json`, `map`, gives the lines of each definition.  A definition called a
*variant* in its comment is a plausible slip in the one below it; `mutants` lists
which property notices which.

How they compose.  `FileHistory` and `LastModification` extend `FileStore`;
`Server` extends `JwtValidation` and instantiates `AccessControl`;
`ReadingTools` puts the four reading tools over one `FileTree`.  `FileStore`,
`ProcessStore` and `ScratchStore` share no state in the code and none here: what
one means for another, a shell command that changes a file for instance, is an
action of its environment.

### FileStore

`call[c]` holds the locals of the handler that goroutine `c` runs, with the label
`pc` of its next step; `Blank` is a goroutine without a call.  `disk`, `parents`
and `open` are the file system: contents, existing parent directories, and the
descriptors that still refer to the file at their path (an unlinked file lives on
as an orphan).  `entries` and `mu` are the fields of `UndoStore`.

| code | actions |
|---|---|
| argument checks, `sanitizePath`, RBAC | `Reject`, or `Begin...` |
| `UndoStore.Save` | `SaveRead` (lock and read), `SaveStore` (store and unlock) |
| `os.MkdirAll` | `Mkdir` |
| `os.ReadFile` in `edit_file` | `EditRead` |
| the loop over the edits | `ApplyEdit`, once per edit; `EditDone` after it |
| `os.WriteFile` in all three tools | `OpenTrunc`, `WriteAll` |
| `os.Stat` in `write_file` | `Stat` |
| `UndoStore.Restore` | `Lookup` (lock), `Unlink` or `OpenTrunc`, `WriteAll`, `Forget` (delete and unlock) |
| `cmd/main.go`, new stores at start | `Crash` |
| commands run by `exec` | `ShellWrite`, `ShellRemove`, `ShellMkdir` |

Abstractions.  A file is a sequence of tokens, and an `old_text` is one token or
the empty text: enough for an edit that applies once, applies twice, is refused
or does not occur, for a write that is cut short, and for two writes that mix.
A read of a file is one step.  Every path has a parent directory of its own.
`write_file`'s reply `"panic"` is the nil `info` after a failed `os.Stat`.
The constants `Overlap`, `Faults`, `ShellPaths` and `Crashes` say what may happen
around the handlers, and the properties say what they need of them.

`UndoHistory` is what a client with one call at a time on a file may rely on.  Its
variable `phase` says what is being done to a file; while it is written or
restored its content is anything (`Damage`), but it may only begin to be written
when the entry holds what is there, only a restored file loses its entry, and a
restore that fails goes back to `"quiet"` with the entry kept.  `FileHistory`
computes `phase` from the labels of the handlers.

### ProcessStore

A job is one `exec` call: `job[j]` is its handler, `child[j]` the shell with its
output pipe and buffer, `waiter[j]` the goroutine in `cmd.Wait`, `info[j]` the
fields `Done` and `ExitCode`.  A client `k` serves `process_status` and
`process_kill` calls.  Every critical section of `ProcessStore.mu` is one action;
every access outside of it is an action of its own: `PublishDone` and
`PublishCode` in either order, `ReadDone` before `ReadCode`, `KillCheck` before
`KillSignal`.  `Detach` gives the output pipe to a descendant, which `KillShell`
does not touch, and `WaitReturns` waits for it, as `cmd.Wait` does.
The two output streams are one.  The reads of the two buffers in `Status` are one
step, under the lock.  Signals other than the kill are not modelled: the code has
none (`Kill` ignores its `signal` parameter).  `Crash` ends the server and starts
it with an empty store: its jobs are `lost`, their shells run on without a reader.

### ScratchStore

`pending` and `readers` are the `RWMutex`: a writer announces itself, keeps new
readers out, and waits for the readers inside.  Each turn of the loop in `List`
is an action.

### AccessControl and PathGlob

The variables `path` and `rule` are the loop indices of `Check` and `checkPath`;
one action is one turn.  A CEL expression is a condition that a payload makes
true, false or fail.  Patterns and paths are sequences of characters because the
outcome of `matchGlob` depends on them; `?`, character classes and escapes of
`filepath.Match` are left out.  Paths are absolute, so `filepath.Abs` in
`checkPath` does nothing.

### JwtValidation

`published` is the list of key sets the provider has published, `worker` and
`jwks` are the worker and its cache, `request[h]` is a request with the pointer
to the key set it took.  `config` says whether validation is enabled and whether
the conditions compile: `NewJWTValidationMiddleware` compiles them either way, and
`main` only logs a failure and goes on with a nil middleware.  Decoding the
payload after a token has been verified cannot fail any more (the JWT library has
decoded it) and has no step of its own.  A key has a type and a secret, and an
algorithm belongs to a type (`Family`, the table of `getSigningMethod`): a token
verifies only with a key of the type its algorithm takes.

### Server

`Receive` is `Arrive` of `JwtValidation` over HTTP; `Dispatch` is the MCP library
taking the tool call out of a request that was let through, with the payload that
the middleware put into its context; `DispatchStdio` is a call without any.
`Handle` begins the registered handler: `system_info` and `scratch` do not ask the
engine, the others begin with `Check`, whose loops are the actions of
`AccessControl` (`CheckStep`).  `bearer` is bookkeeping: whose token came with the
call, for the properties to compare with the payload that the engine was given.
What the tool does afterwards is in the other modules.

### FileTree, FileSearch, DirListing, LineDiff, LineRanges

`tree` maps a name to a directory, the lines of a file, or nothing; `locked` are
the names that cannot be opened or scanned; `touched` remembers what others have
changed since the call began, so that the properties can speak of the rest.  A
file is read in one step and a directory in one step; everything between two of
them is a step at which others may change the tree: between `ReadDir` and `Info`
in `ls`, between a name and its file in `search`, between the two files in `diff`.
The recursion of `listDir` and of `filepath.Walk` is a list of what is left to do.
`computeDiff` is modelled loop by loop: a cell of the table, a line of the way
back, an exchange of the reversal are one step each.  A regular expression stands
for the lines it matches, a glob for the names.  `Int64` wraps around at
`MaxInt`, which the configuration sets to 7.  `Order` lists the names as sorted
paths: a directory, then all that is below it, then the next name beside it.
`Sorted` and `InOrder` take the names of a directory and the numbers of the lines
found in that order; they say which element comes k-th, not how to go through a
sequence, so that one can prove about them.  `SearchLeft`, `ListLeft`, `DiffLeft`
and `ReadLeft` count what the loops of the handlers have before them, from the
outer loop to the inner one.

## Runs

| run | module | what it shows | bounds |
|---|---|---|---|
| `fs_serial` | `MCFileHistory` | `TypeOK`, `UndoCovers`, `SerialInv`, `EntryOutlivesFailure`, `ImplementsUndoHistory`, `AnswerIsOnDisk` | 2 goroutines, 2 files, 2 texts and absence, 2 batches of two edits, all faults but `"save"`, restarts; one call at a time on a file |
| `fs_overlap` | `MCFileStore` | `LockDiscipline`, `EntriesUnderLock`, `EveryCallReturns` | 2 goroutines on 1 file, all faults, commands, restarts |
| `fh_failed_edit` | `MCLastModification` | `UndoRevertsLastModification` is violated | 1 goroutine, 1 file, no fault |
| `ps_safety` | `MCProcessStore` | `TypeOK`, `IdNamesItsJob`, `DoneMeansOver`, `ExecAnswersTruly` | 2 jobs, 1 client, exit codes 0 and 1, 1 piece of output, descendants, failing `cmd.Start`, restarts |
| `ps_live` | `MCProcessStore` | `ExecAnswers`, `WaiterEndsWithShell`, `KilledJobIsDone` | 1 job, 2 clients, 2 pieces of output, descendants, both faults |
| `ps_done_code` | `MCProcessStore` | `DoneReportHasExitCode` is violated | 1 job, 1 client |
| `ss_check` | `MCScratchStore` | `TypeOK`, `WriterAlone`, `ListIsSnapshot`, `EveryCallReturns` | 3 callers, 2 keys, 1 value and absence |
| `ac_check` | `MCAccessControl` | `TypeOK`, `VerdictIsUnionOfRules`, `PatternReach` | every list of at most 2 of 18 rules, every tool and payload, 6 targets on up to 4 levels |
| `ac_first_match` | `MCAccessControl` | `FirstMatchWins` is violated | the same |
| `server_check` | `MCServer` | `ServerTypeOK`, `ServedIsVerified`, `RefusalIsJustified`, `RunIsAuthorised`, `DenialIsJustified`, `CacheCatchesUp` | 1 handler, 4 key sets, 8 tokens of an administrator and a user, 3 rules, 6 calls on 2 paths, 2 changes of keys, unreachable provider, answers that are no JSON, error documents in JSON, both transports |
| `jv_first_fetch` | `MCJwtValidation` | `EveryRequestIsValidated` is violated | 1 handler, no fault |
| `rt_check` | `MCReadingTools` | `TypeOK`, `SearchIsComplete`, `ContextIsAround`, `ListingIsTree`, `DiffIsMinimal`, `FragmentsAreRanges`, `EveryReadEnds`, `EveryStepIsProgress` | 5 names on 3 levels, 24 trees, one locked name or none, at most 2 changes during a call, files of at most 3 lines, int up to 7 |

Why these bounds are enough to be interesting.  Two goroutines are what a race on
a file or on the undo lock takes; a third would wait like the second.  The second
file lets two undisturbed calls run at once.  Contents have at most two tokens:
one to keep and one to lose in a write cut short.  Two jobs put one call of
`Start` between the critical sections of another; one job is enough where a
property speaks of one shell, its waiter and the clients that look at it.  Three
callers of the scratch pad are two readers and a writer, or the reverse, and a
list over two keys can be interrupted.  With two rules one can hide or follow the
other.  Requests meet only in the cached key set, so one handler beside the
worker and the provider has all the interleavings that matter; its steps after
the middleware share nothing with another request but the rules, which do not
change.  The tree of `rt_check` has a file and a hidden file that nobody changes,
and a directory with a file in it that others remove, recreate and rewrite: two
changes are what it takes to remove something and put something else in its
place.  `diff` compares the first two in all their contents, and the file that
changes with one of them and with itself, so that a change falls before, between
and after its two reads.  Changes happen while the tool has still something to look
at; a later one is not seen by it.  Three lines are enough for a tie in the table of `diff` and
for a context that the ends of the file cut.  Symmetry is used in `fs_serial` and
`ps_safety`, which check no liveness.

Deadlock checking is off for the runs of `ProcessStore` (every `exec` call is
made once, and with no job registered a client has nothing to ask), of
`AccessControl` (`Check` returns) and of `ReadingTools` (one call is made).

Fairness.  Go's scheduler runs every runnable goroutine: weak fairness on the
steps that wait for nobody.  `sync.Mutex` hands a lock to a waiter that has waited
for a millisecond, and `sync.RWMutex` lets waiting readers in before the next
writer: strong fairness on taking a lock.  Timers expire: weak fairness on
`Timeout`.  Nothing is assumed of shells, of descendants or of clients' next
calls; `KilledJobIsDone` says in its own statement that the output pipe is let go
in the end.  `CacheCatchesUp` assumes that the provider's good answers come again
and again (strong fairness on `AnswerKeys`), as the code retries after every nap, and
says in its own statement that error documents stop: one of them takes the keys
out of the cache until the next fetch.  The reading tools wait for nobody: weak
fairness on their steps is enough for `EveryReadEnds`, and nothing is assumed of those who change the tree.

## What disagrees with the documents

Runs show four of these as violations; `server_check` and `ac_check` have three more
as named exceptions of properties that hold; the others were met while modelling
and are described here only.

* `fh_failed_edit`: `edit_file` saves before it knows whether an edit applies.  An
  `edit_file` that changes nothing replaces the undo entry of the modification
  before it, and the next undo restores what is there already
  (`internal/tools/tools.go:197` promises the state before the last
  modification).  A `write_file` that fails before it opens the file does the
  same.  Two further ways to break the same property: two overlapping
  `write_file` calls on one file, which both save before either writes; and a
  failing `Save`, after which the handler goes on
  (`tool_write_file.go:39`, `tool_edit_file.go:72`).
* `ps_done_code`: a failed process can be reported as done with exit code 0,
  because `Done` and `ExitCode` are two unsynchronised fields.  In the same way
  `Status` copies the output before `Done` is read, so that a report of a process
  as done can lack its last output.
* `ac_first_match`: rules are a union, not a list in which the first match wins
  (`README.md:52`).
* `jv_first_fetch`: before the first successful fetch a request with a token makes
  the handler dereference nil.  Conditions that do not compile leave a nil
  middleware, which gives up every request, also when validation is disabled
  (`jwt_validation.go:25`).
* An error document in JSON that the provider sends in place of its keys replaces
  the cached set by an empty one, because the status of the answer is not looked
  at (`jwt_validation_utils.go:57-72`), and every token is refused until the next
  fetch, where `jwt_validation.go:22` promises "JWKS (fetched and cached from
  jwks_uri)".  `RefusalIsJustified` names this as the only way in which a token
  that every published key set accepts is refused.
* `process_status` and `process_kill` pass no path to `Check` and are allowed under
  every policy, although `README.md:60` lists them under the operation `exec`.
  `RunIsAuthorised` names them as the only tools that run without a rule that
  gives their operation.
* A pattern with a wildcard before `/**` (`README.md:81`,
  `docs/config-http.yaml:46`) matches one level only, where `README.md:97` says
  "everything recursively".  `PatternReach` says what the other patterns cover.
  It also lets `/data/**` cover `/database`, as the code does.
* `diff` answers a list of lines with `+`, `-` and blank, without the `@@` headers
  of the "unified diff format" that `internal/tools/tools.go:134` speaks of.
* `search` and `ls` pass the path of the call to `Check` and not what they find
  below it: a rule for a subtree covers the call, the policy for a path in it
  is not asked.
* A list of exactly `max_results` matches is reported as truncated.  `ls` with a
  depth of 0 or less answers an empty listing, also for a path that is not there.
  `read_file` with an offset and a limit whose sum overflows, and `diff` with a
  start beyond its end, panic.
* `sanitizePath` looks at the first brace group of a path only.
* `exec` cuts its timeout to whole seconds before it multiplies
  (`tool_exec.go:41`): 0.5 means at once.
* `process_kill` signals the shell only: a descendant that holds the output keeps
  the killed process from being reported as done (`README.md:40`).
  `KilledJobIsDone` states the condition under which it is.

## Proofs

TLAPS proves these for every value of the constants that satisfies the assumptions
(`ASSUME`) of the module.  Each component has an inductive invariant, which is
stronger than what the runs check; TLC has checked each of them on the instance of
its component's run before it was proved.

`FileStoreProofs`, for every behaviour of `Spec` (overlapping calls, faults,
commands, restarts):

* `LockInvariant`: `Spec => []LockInv`
* `TypeCorrect`: `Spec => []TypeOK`
* `LockIsDisciplined`: `Spec => []LockDiscipline`
* `EntriesChangeUnderLock`: `Spec => EntriesUnderLock`

Neither `TypeOK` nor `LockDiscipline` is inductive.  That a label fits the
handler's tool (`Shape`) must be known before the end of `os.WriteFile` can be
said to return to the right place and to hold the lock or not; and that an open
descriptor is one of a call that is about to write a file that exists
(`OpenIsWriting`) before the file's new content can be said to be a content.
`LockInv` is their conjunction.  The proof has one lemma per action; most go
through a lemma for the steps that change one call's record and nothing else.

`FileHistoryProofs`, under the assumption `Serial` (calls on one file do not
overlap, no command changes files, `Save` can read; `fs_serial` satisfies it):

* `SerialInvariant`: `Spec => []SerialInv`
* `UndoCoversDamage`: `Spec => []UndoCovers`
* `EntrySurvivesFailure`: `Spec => EntryOutlivesFailure`
* `HandlersImplementUndoHistory`: `Spec => ImplementsUndoHistory`
* `AnswersAreOnDisk`: `Spec => AnswerIsOnDisk`

`UndoCovers` speaks of the labels between `Save` and the opening of the file.  To
get there, and to know at `Forget` that the file is what the entry holds, one
needs what the handler knows at every label before: the image that `Save` read is
still the file (`"store"`), a truncated file is empty and the descriptor is its
own (`"write"`), the text being restored is the entry (`"open"`, `"write"`), the
entry says "did not exist" (`"unlink"`), the file is still the text of
`write_file` when it comes to `os.Stat`.  `Knows` collects these, and `Alone`
says that no other running call has the same path, which is why another call's
step leaves them alone.  `fs_serial` and `fs_overlap` check `SerialInv`, and
`TypeOK` and `LockDiscipline`, on their instances.

The refinement takes the same invariant and nothing else.  An action of a handler
on its path is a step of `UndoHistory` on that path and leaves the phase of every
other path alone (`Alone` again: the phase of a path is told by the label of the
one call on it); the steps that only move a label within a phase are stutters; and
`Crash` is the abstract restart.

`ProcessStoreProofs`, for every behaviour of `Spec`:

* `PSInvariant`: `Spec => []PSInv`
* `TypeCorrect`: `Spec => []TypeOK`
* `IdsNameTheirJobs`: `Spec => []IdNamesItsJob`

and where copying the output does not fail (`"copy" \notin Faults`, as in
`ps_safety`):

* `TruthInvariant`: `Spec => [](PSInv /\ TruthInv)`
* `DoneIsOver`: `Spec => []DoneMeansOver`
* `ExecIsTruthful`: `Spec => []ExecAnswersTruly`

That an id names its process needs to know that no two calls were ever given the
same number by the present server.  `IdsAreFresh` says that `counter` is the
number of calls that hold a number of this server and that these are different;
`Registration` that the map has the background calls that are past the second
critical section of `Start`, each at its number, and no others; `JobsFit` and `ClientsFit` that labels,
records and waiters of one process fit together.  `TruthInv` is what the waiter
knows: once it has reaped the shell it has its exit code, once `cmd.Wait` has
returned the output is complete and nobody can write to it any more, and all that
a handler answers comes from there.

`ScratchStoreProofs`, for every behaviour of `Spec` (its one assumption is that
`None` is none of the keys, values and callers):

* `RWInvariant`: `Spec => []RWInv`
* `TypeCorrect`: `Spec => []TypeOK`
* `WriterIsAlone`: `Spec => []WriterAlone`
* `ListCopiesOneInstant`: `Spec => []ListIsSnapshot`

Neither property is inductive: one has to know who holds the `RWMutex`.  `RWInv`
adds that the readers are the callers at `"get"` and `"copy"` (`ReadersRead`),
that the announced writer is the only caller that drains or writes
(`PendingWrites`), that a writer has no readers (`WriterDrained`), and that a
list starts with all keys (`ListStartsFull`).  A `Store` then meets no list in
the middle of its copy.

`AccessControlProofs`, for every policy, call and condition:

* `ACInvariant`: `Spec => []ACInv`
* `TypeCorrect`: `Spec => []TypeOK`
* `VerdictIsTheUnion`: `Spec => []VerdictIsUnionOfRules`

`ACInv` says what the two loop indices stand for: the paths before `path` are
allowed, the rules before `rule` do not grant the present one, and at the end the
verdict is allow with every path allowed, or deny with one that is not.  The
proof does not look into `matchGlob` or the conditions: it holds for any.
`PatternReach`, which is said without `matchGlob`, is left to TLC.

`ServerProofs`, first for every behaviour of `Spec` of `JwtValidation`:

* `JVInvariant`: `Spec => []JVInv`
* `TypeCorrect`: `Spec => []TypeOK`
* `OnlyVerifiedAreServed`: `Spec => []ServedIsVerified`
* `RefusalsAreJustified`: `Spec => RefusalIsJustified`

The cache, and what the worker is about to put there, is a key set that has been
published, or the empty one that such a document decodes to (`WorkerInv`); what a
request took is of the same kind, and every check it has passed stays true of what
it took, whatever is in the cache by now (`Underway`).  The lemma
`StepsAreAccepts` says that the checks, one after the other, come to `Accepts`, the
definition that the properties use.  `RefusalIsJustified` is about steps, because
a refused request lets go of the keys it was checked against: a step refuses only
what those keys do not accept (`ValidateRefuses`), and they are a published set
unless there are none.

and then for every behaviour of `ServerSpec`:

* `ServerInvariant`: `ServerSpec => []SInv`
* `ServerTypeCorrect`: `ServerSpec => []ServerTypeOK`
* `RunsAreAuthorised`: `ServerSpec => []RunIsAuthorised`
* `DenialsAreJustified`: `ServerSpec => []DenialIsJustified`
* `ServerServesTheVerified`: the two properties of `JwtValidation` hold here, too

`SInv` adds to `JVInv` that without HTTP no request comes through the middleware
(`TransportInv`), that the call before the engine carries the claims of a token
that a published key set accepts and, unless it is one of four tools, names a path
(`CallInv`), and the loops of the engine over
that call (`EngineInv`).  A key set stays published, so that the engine may take
its time.

`ReadingProofs`, for every behaviour of `Spec` of `ReadingTools`, that is with
others changing the tree in between:

* `ReadInvariant`: `Spec => [](TreeInv /\ ReadInv)`
* `FragmentsAreTheRanges`: `Spec => []FragmentsAreRanges`
* `DiffInvariant`: `Spec => [](TreeInv /\ DiffInv)`
* `DiffIsTheMinimum`: `Spec => []DiffIsMinimal`

For `read_file`, `ClampsStayInside` is the arithmetic: the clamps never leave the
file, also when a sum wraps around, and an end before the start comes from such a
sum only.  `ReadInv` says that of the fragments cut so far.

For `diff`, `DiffInv` follows the handler: what has been read is what the tree has
for a file that nobody touched, what is compared is what was asked for of it
(`CutIsAsked`); then three loops.  *The table* (`Filled`): a cell before the loop
variables is the recurrence of its neighbours and bounds the length of every
common subsequence of its prefixes; `CommonLastLine` and `DifferentLastLines` are
the two cases of that bound.  *The way back* (`Traced`): the script spells, read
backwards, what follows `i` and `j` in the two files, and the common lines in it
and the cell `i`, `j` add up to the last cell, so that nothing is lost at a tie;
if the two texts are equal the way is the diagonal.  *The reversal* (`Unturned`):
the script with the exchanges that are still to come undone is the traced one.  At
the end `FlippedIsMinimal` joins the bound and the count.  No induction over data
is needed: the loops are steps of the specification.

`WalkProofs`, for the same behaviours:

* `SearchInvariant`: `Spec => [](TreeTypeOK /\ SearchInv)`
* `SearchFindsAll`: `Spec => []SearchIsComplete`
* `ResultsShowTheLinesAround`: `Spec => []ContextIsAround`
* `ListInvariant`: `Spec => [](TreeTypeOK /\ ListInv)`
* `ListingShowsTheTree`: `Spec => []ListingIsTree`
* `ReadingTypeCorrect`: `Spec => []TypeOK`
* `EveryCallComesToAnEnd`: `Spec => EveryStepIsProgress`

*The tree.*  The theorems are about any finite tree of names.  That `UpFrom` is
well defined on it (`UpFromEquation`) follows from `Order`, in which every folder
comes before its contents; so does `TreeInduction`, by the name that comes first
among those that would fail.  From these: the subtrees of two names in one folder
are apart (`Siblings`), one of them comes in `Order` as a whole before the other
(`SubtreesInOrder`), and the way from a folder down to a name below it goes
through a child of the folder (`WayDown`).  `InOrderIsOrder` and
`SortedIsOrder` say that the operators of these names list each element of their
set once and in order.

*search.*  `SearchIsComplete` speaks of the end.  `SearchInv` says what is true of
the walk at every step: what is still ahead of it lies in subtrees that are apart
and were reached through directories that can be read (`WalkInv`), nothing found
so far lies in them, and what was found in a file that nobody changed is right
(`FoundInv`); and whatever should be found, is not found and is not ahead did not
fit into `max_results` any more, with all that was found in its file before it
(`BehindInv`).  At the end nothing is ahead.  Others do not break it: what they
change is no longer spoken of, and a name that is untouched all the way up is as
it was (`StableIsKept`).  That a name exists only below directories
(`FoldersAbove`) keeps the walk from missing one.  `ContextIsAround` needs of this
only `FoundInv`, and the arithmetic of the window (`ContextHolds`), short of the
overflow that the property excepts.

*ls.*  `ListInv` is the same thought with an order: the items of the to-do list
stand for regions of the tree, each before the next (`InTurn`) and all after what
has been shown (`ShownInv`), each item at the level that its path has and below
readable directories (`ItemInv`); what should be listed and is in none of the
regions has been listed (`ListedInv`).

*Progress.*  `EveryStepIsProgress` is the safety half of `EveryReadEnds`: each
step of a call, with the tree as others have left it by then, makes what is left
less.  `LessHasNoDescent` says that this cannot happen for ever.  It takes the
invariants above: that regions are apart for `search` and `ls`, that the loop
variables stay in their ranges for `diff`.  What remains for TLC is that a step
can always be taken.

Assumptions.  `FileTreeAssumption` (finite names, sorted as described, texts no
longer than an int counts), `ReadingToolsAssumption` (in a tree to begin with,
what exists is in a directory) and the types of the requests.  None limits what
others do beyond `MaxChanges`, which is any number.

Only model-checked:

* All liveness (`EveryCallReturns`, `ExecAnswers`, `WaiterEndsWithShell`,
  `KilledJobIsDone`, `CacheCatchesUp`, `EveryReadEnds`): the prover does not handle
  fairness and ENABLED.
* What the recursive function `Match` computes, and with it `PatternReach`; no
  theorem above depends on it.

## Not modelled

* The access log calls the next handler in every case; the OAuth metadata handlers
  are a proxied GET and a static document.  Neither meets a tool or a store.
* `system_info` reads the environment once; only its place in `Handle` is
  modelled.
* Configuration parsing and the expansion of the environment, the tool prefix, the
  brace check of `sanitizePath`, the layout of answers: string handling without
  state.
* The chart and the image.
* The MCP library, `net/http`, the JWT and CEL libraries, `filepath.Walk`: external,
  modelled as the code relies on them.
* The response bodies that `cacheJWKS` never closes, and the processes and buffers
  that the registry never drops: nothing bounds them, and there is no bound to
  state.
* The length of a timeout: the timer may fire at any moment.
* Symbolic links, and files that change while they are read.
