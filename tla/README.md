# A TLA+ model of vergerail

vergerail is a Rust client library that starts the `codex app-server` as a
child process, speaks JSON-RPC over its stdin and stdout, and offers sessions
(threads), runs (turns), logins, approvals and direct image generation to its
caller. This directory keeps TLA+ models of the part of it that is hard to get
right: who owns the outcome of a turn and of a request when responses,
notifications, timeouts, cancellations, dropped futures and the end of the
connection interleave on a multi-threaded Tokio runtime; who ends the
processes that were started, whoever dies first; and what is left behind, on
disk, on the wire or on a bill, when a step of several fails.

All source paths below are relative to the repository root (`src/...`); in
`PROJECT.json` they are written `src/src/...`.

## 1. Inventory

| Component | Source | State it keeps | Operations |
|---|---|---|---|
| Client (`ClientInner`) | `src/client.rs` | process handle, registries, locks, closing and disconnect flags | request, start_turn, interrupt_run, login, image generation, shutdown, disconnect |
| Turn routing | `src/session/run_state.rs` | `RunRegistry::routes`: per thread phase, turn id, deferred notifications, failure, output so far; `RunControl` bits; the terminal slot | register, acknowledge_start, replay_transition, route_event, route_terminal, fail_*, cancel, fail_active, fail_all |
| Session and Run handles | `src/session.rs` | lifecycle and start locks, `active` | start, next_event, interrupt, close, drop |
| Request registry | `src/private/request.rs` | the pending map with three flags per entry | register, take_for_completion, cancel, timeout, fail_all |
| Connection lifecycle | `src/private/connection.rs` | closing, disconnected, the retained error | begin_closing, begin_disconnect, replace_failure |
| Process handle | `src/private/process.rs` | outbound queue, writer and reader tasks, shutdown flag, stderr ring | send_tracked, shutdown, force_kill |
| Router | `src/client/router.rs` | none of its own | dispatches responses, notifications, reverse requests |
| Login registry | `src/account.rs` | waiters, a bounded cache of early completions | register, complete, wait, cancel, fail_active |
| Approvals | `src/approval.rs`, `src/approval/` | one responder per reverse request | respond, fallback on timeout or drop |
| Session registry | `src/session.rs`, `src/client.rs` | live session slots, ephemeral cleanup | create, resume, close, shutdown |
| Image generation | `src/image.rs` | one operation at a time per client | dispatch, cancel, retry after an auth refresh |
| Guardian | `src/native/vergerail_guardian.c`, `src/private/process_tree.rs` | worker pid, liveness pipe, process group | fork, stop, reap, drain the group |
| Codec | `src/private/codec.rs`, `src/private/wire.rs` | a bounded frame buffer | read a line, reject an oversized one |
| Redaction and diagnostics | `src/private/redact.rs`, `src/event.rs` | stderr ring, diagnostics ring | push, snapshot |
| Runtime package | `src/runtime.rs`, `src/runtime/` | an installation directory under a file lock | verify, install, activate |
| Values and configuration | `src/model.rs`, `src/config.rs`, `src/error.rs`, `src/private/protocol.rs` | none | validation, field extraction |
| Provider programs | `src/bin/` | none of their own | one session or image call per run |

### How they interact

The caller's tasks call `ClientInner::request`, which registers an entry in the
request registry and hands the frame to the writer task through a bounded
queue. The reader task parses frames into a bounded queue for the router task.
The router is the only reader: it completes pending requests, routes turn
notifications to `RunRegistry`, and spawns tasks for reverse requests. A turn
is registered *before* its `turn/start` is written, so notifications may come
before the response: the router defers them, the caller of `Session::start`
replays them, and both do so under the routes mutex but with gaps between two
sections. Whatever goes wrong (a failure of the queue, the deadline, a dropped
handle, a timed-out request) ends in a spawned task that interrupts the turn or
calls `disconnect`. `disconnect` runs once, in the task that calls it first:
kill the process, fail the pending requests, the runs, and the logins, in this
order.

The app-server is not the client's own child. The client starts a *monitor*,
which forks a *worker* in a session of its own, which forks the *leader* that
becomes the app-server in a process group of its own. The client talks to the
app-server over the inherited pipes, and to the monitor by TERM and KILL only.

### What is hard, and what would be correct

* *Replay against router.* Events must reach the handle in order and complete,
  although two tasks push them. `Ok` must mean nothing was lost.
* *One ending per turn.* Several code paths end a route (terminal, terminal while
  starting, refused start, cancelled start, late acknowledgement, abandoned
  run, disconnect, closed session). The result must be published once and
  `Session::active` must follow.
* *Spawned tasks act later.* `cancel_registered_run` is keyed by the thread and
  not by the run: it must not meet a newer run.
* *Who observes the outcome.* A `thread/start` that was written may have created
  a thread. If nobody will ever see its answer the connection must end with
  `OutcomeUnknown`; and a caller that is told it may retry must be told the
  truth.
* *Dropping futures.* Every `.await` of a caller is a point where it may be
  cancelled, `disconnect`'s own awaits included.
* *Custody.* Any of four processes may die or be signalled between two system
  calls of another one, and the app-server may fork while its group is emptied.
* *Money and consent.* An image request may be billed although its caller is
  gone; an approval may be decided, dropped and timed out at once.
* *What is left on disk.* A guardian's helper file, a staging directory, a
  half-extracted runtime: every step between creating and removing may fail, be
  dropped, or be killed with its process.
* *Everyone waiting on everyone.* Writer, reader, router, two kinds of kill and
  the shutdown meet in two bounded channels, one Mutex and one child.
* *Progress.* The app-server may be silent for ever: every run and every
  request must still end.

`PROJECT.json` lists the single hazards with their lines and the properties that
cover them.

## 2. Modules

| Module | Role |
|---|---|
| `TurnOwnership` | abstract: the turns of one thread are claimed, settled once, or forfeited |
| `RunRoute` | detailed: the route of a thread's turn with the router, the starting caller, the Run's holder, the interrupt, deadline and abandonment tasks, and disconnect |
| `MCRunRoute` | payload sets for TLC |
| `RunRouteTypes` | proofs: `RunRoute` is type correct |
| `RunRouteProofs` | proofs: the invariant of the ownership, and that `RunRoute` implements `TurnOwnership` |
| `RunStreamData` | lemmas on the data of a turn's stream: sums of sizes, texts, places of notifications, and what a deferral does to them |
| `RunStreamProofs` | proofs: the stream is in order and complete, the limits hold, the byte counters are exact |
| `RequestRegistry` | detailed: the outcome of a request among caller, cancellation task, writer, app-server, router and disconnect |
| `MCRequestRegistry` | request sets for TLC |
| `RequestRegistryProofs` | proofs: its inductive invariant and the safety theorems |
| `Guardian` | detailed: host, monitor, worker, leader and the leader's process group |
| `Connection` | the connection as the services see it: up, being cut, cut |
| `LoginRegistry` | detailed: managed logins among caller, waiters, router and disconnect |
| `SessionRegistry` | detailed: create, resume, start, close, one-shot clean-up and shutdown under their two locks |
| `MCServices` | the two services with their fairness, for TLC |
| `Queues` | the operators on queues that the two services share |
| `ServicesProofs` | proofs about `LoginRegistry` (one outcome, no early result lost, nobody left waiting, its two caches in step) and `SessionRegistry` (ownership of threads, the locks, the shutdown) |
| `ProcessHandle` | detailed: the child process, its tasks and channels, kills and shutdown |
| `Approvals` | detailed: the app-server's own requests among router, owner, responder task and timeout |
| `ImageOperation` | detailed: direct image generation among caller, worker thread, endpoint and guard |
| `PngScan` | algorithm: the chunk scan of `validate_png` against the grammar of a PNG |
| `MCOperations` | these four with their fairness, for TLC |
| `OperationsProofs` | proofs about these four: one answer, one bill, a clean shutdown, an exact scan |
| `RuntimeInstall` | detailed: processes that resolve and install the runtime in one cache |
| `RuntimeVerification` | detailed: the two stages of a verification with their guardians |
| `Providers` | detailed: the two provider programs around one client |
| `ScreenProgram` | algorithm: the check of a generated screen against where its nodes come to lie |
| `LineReaders` | algorithm: bytes to lines on stdout and stderr, and the ring of the latter, against the lines of the whole input |
| `MCPrograms` | `Guardian` and the last five models with their fairness, for TLC |
| `ProgramsProofs` | proofs about these six: custody, installation, verification, providers, accepted screens, exact lines |

### RunRoute

One thread and the turns started on it one after another, numbered `1..MaxRuns`.
The routes mutex is not a variable: each of its critical sections is one action,
and everything the code does between two sections is a gap where any other
action may run.

| Model | Code |
|---|---|
| `route` | the thread's entry of `RunRegistry::routes`; run 0 means no entry |
| `starter`, `batch` | the caller in `start_turn`: where it is, and the deferred notifications it took out to replay |
| `active` | `Session::active`, one flag for all runs of the session |
| `cancelling` | spawned `cancel_registered_run` tasks (from `RegisteredRunGuard`'s drop) |
| `events`, `received`, `terminal` | the bounded event channel, what the handle took from it, and the terminal slot |
| `abandoned`, `adopted`, `interrupt` | the bits of `RunControl` and the route's `abandoned` flag |
| `watch`, `deadline` | tasks in `interrupt_and_wait_for_provider_terminal`, `arm_run_deadline` |
| `link`, `fence` | disconnect: up, begun, drained, or torn (its future dropped half-way); a task about to call it |
| `provider`, `emitted`, `late` | the app-server as the client sees it |

Actions carry the name of their function where there is one (`AcknowledgeStart`,
`ReplayTransition`, `RouteEvent`, `RouteTerminal`, `CancelRegistered`,
`TryStartInterrupt`, `FailAllRuns`). Payloads are abstracted to a kind and a
size; text is its length, so "the text of the result is the concatenation of all
deltas" becomes an equation on lengths, which the sizes used tell apart.

Not in the module: more than one thread (routes of different threads share
only the mutex), notifications that carry no turn id, responses that are
malformed (both end in the same disconnect as `fence`), `Session::close`, and
the payload of errors (every error is `"error"`). An image that the provider
repeats after the terminal is only exercised with `MaxLate = 0` in `RunStream`,
because a late notification has no place in its turn's order.

### RequestRegistry

A step is what one task does between two points where another thread may
run: a section of the `pending` mutex, one atomic, one channel operation. In
particular `fail_all` takes the whole map and then answers its entries one by
one (`Drain`, `FailOne`), the caller's timeout drops its receiver before it
looks at the map (`Expire`, `TimeOut`), and the router marks the success in the
same section that removes the entry, but sends and checks later (`ReadResponse`,
`SendResponse`, `CheckHandoff`). A caller can be dropped only where it awaits
(`DropCaller`); the guard then spawns `cancel_aborted_request`.

A dispatch is as many steps as `send_tracked` has: the second test of
`shutdown_started` (`Clear`, `process.rs:392`), the store of `dispatched`
(`MarkDispatched`, `:401`) and the queueing of the frame (`Queue`, `:402`). It
awaits nothing in between, but another thread may stop the process, kill it and
run `fail_all` there. `link` follows the disconnect through its kill (`killing`,
`killed`), which may fail or not end in time (`KillEnds`): `app` says whether the
app-server is running, gone (`AppEnds` is its end by itself or by somebody else's
kill), or survived the disconnect's kill. A frame may still be written to a pipe
that nobody reads. That a guardian which was reaped has taken the app-server with
it is taken from `Guardian`.

`NonIdempotent` is the set of requests for which the code sets
`non_idempotent` (thread/start, turn/start and the like). `OperationDeadline`
says that an absolute deadline for the whole operation is set
(`with_absolute_deadline`): only then can `send_tracked` fail after it marked
the request dispatched (`Queue` leads to `overdue`, `GiveUp`).

### Guardian

A step is a system call and what follows from its result.

| Model | Code |
|---|---|
| `monitor`, `monitorStop`, `watched` | where `main` is, its `stop_requested`, and what `getppid` told it |
| `tether` | the monitor's end of `monitor_liveness_pipe`: closed by its death, its end, or the handler |
| `worker`, `stop`, `failed`, `force`, `tries`, `code` | where `run_worker` and `terminate_private_group` are, the worker's copy of `stop_requested`, the locals of the two |
| `leader`, `grouped`, `members` | the app-server, whether `setpgid` succeeded, and the other processes of its group |
| `host`, `asked`, `stray` | the Rust process; two history variables |

`RequestStop` is the signal handler: it may run between any two steps of `main`
and knows only what `main` has recorded so far (`worker_pid`, then
`liveness_fd`). The stop flag is copied by `fork`. `Scan`, `Rescan` and
`KillSurvivors` are three looks at the process table between which members
fork, exit and die; a killed process dies later (`FinishMember`). TERM obliges
nobody: whoever obeys it exits by `ExitLeader` or `ExitMember`.

Not in the module: descendants that leave the group, the app-server's habit of
leaving at the end of its stdin, the app-server's own signals to its group, the
pid of a reaped worker in the handler between `waitpid` and the reset, TERM sent
by a third party to the worker, and what `process_tree.rs` does with files.

### LoginRegistry

A step is a section of the registry's mutex or one channel operation. The
waiters are taken out of the map in the section that fixes the result and are
sent to later (`Take`, `Send`), so a result may be on its way while its waiter
gives up. `handle` follows one login from `account/login/start` to the drop of
its `Login`; between `AnswerStart` and `Register` the router may already read
the completion, which goes to the cache (`CacheEarly`), and between `Register`
and `CheckRegistered` the connection may go down. `terminal` is kept after the
release only to be able to speak about it.

Not in the module: a login id that is already active (it ends the connection),
a completion without an id (likewise), the exhaustion of waiter ids, and the
account request that follows a successful wait.

### SessionRegistry

Two Tokio mutexes order the operations: `Session::lifecycle`, one per session,
and `SessionRegistry::lifecycle`, one per client, which is held while a request
is awaited. Tokio's mutexes are fair, so each is a queue whose head holds the
lock (`sessionLock`, `lifecycle`); dropping a task removes it from the queue
wherever it stands. Each of the five kinds of task has its own variable
(`create`, `start`, `close`, `clean`, `shutdown`), and each action is what it
does between two awaits.

What other modules show in detail is one step here: the turn is `none`,
`starting` or `running` (`RunRoute`), a request ends with an answer, a refusal
or a timeout (`RequestRegistry`), and the task that ends the connection after a
lost request is the flag `fence`. `remote` is what the app-server makes of a
thread. It may obey an unsubscription that was sent even if nobody waits for the
answer; `givenUp` remembers the threads for which it did, because their `Session`
stays open and a later start meets a thread that is not loaded.

`expired` says that the operation's absolute deadline has passed
(`DeadlinePasses`, at any moment). From then on every request is refused
(`Refuses`), a create whose request has just been dispatched may end in a plain
timeout (`CreateOverdue`, as `GiveUp` of `RequestRegistry`), a clean-up ends in a
disconnect, and a shutdown that begins empties the registry and goes straight to
the process (`BeginShutdown`).

Not in the module: `audit_turn` (both locks, no change), a thread id that is
already loaded (it ends the connection), and a caller dropped inside disconnect
(see `TornDisconnect`).

### ProcessHandle

`child` is the guardian as its parent sees it (running, signalled, zombie,
reaped) and `lock` the Mutex around it, which the code holds across its waits:
a shutdown that waits for the child keeps a kill waiting. `outbound` and `events`
are the two bounded channels. `spawn` is modelled with the undoing of each of
its partial failures, and `files` is what it has put on disk. A deadline is a
step that may be taken whenever it is waited for; a result that is there is taken
first, as Tokio's `timeout` does. `expired` says that the operation's deadline
had passed before the shutdown began (it then has the fixed budget of
`cleanup_deadline`). `UndoSpawn` stands for the failures after the child exists.

Not in the module: what a frame or a message is (see `RequestRegistry`), and the
guardian's own work (see `Guardian`).

### Approvals

Per reverse request: how far the router came with it (`asked`), who holds the
event (`holder`), the bounded channel of one command (`command`), the responder
task (`responder`), what the owner was told (`reply`), and what was written
(`wire`, the last answer, and `answers`, their number). `AskedInVain` stands for
every reason to refuse a request at once: parameters that do not parse, a thread
or a turn without a run, a method that is not supported.

### ImageOperation and PngScan

`phase` is `ImageOperationState` under its mutex; `worker` is the blocking thread
that posts; `posts` and `refused` count the requests and those answered with 401
(the only answer after which the code posts again); `owed` is the set of guards
that have decided to disconnect and have not yet. The endpoint is external: it
answers, refuses or is lost.

`PngScan` is the loop of `validate_png` with its six flags. A chunk is its type
and whether it is sound in itself; what follows the loop (inflate, filters,
palette indices) may refuse or not.

### RuntimeInstall

Each resolver is a process of its own. `root` is what the managed directory
holds, abstracted to the verdict of the static verification; `cause` is a history
variable that remembers what made it so. `remove_dir_all` is two steps, and
`opened` knows which removers still have the directory open that now is the root:
one that was renamed into place meanwhile is not theirs. `DropResolve` drops the
future while the blocking installation goes on.

Not in the module: DownloadPolicy and the environment as values (they are
choices), the digests and the archive's entries.

### RuntimeVerification

One verification with or without a deadline (`timed`). `stage` is the files, by a
helper process under a guardian (with a deadline) or by a blocking worker
(without), and then the version the entrypoint prints. `disk` holds the unpacked
parts of both guardians. `stuck` remembers a removal that failed, or that the code
leaves out when the version probe cannot be set up.

### Providers and ScreenProgram

`program` is the model turn or the image of `vergerail_upagent_provider`, or
`ifsc_text_provider`. The calls of the client are external: each succeeds, fails
with the code its error is classified to, or does not return; `late` is the
deadline of `timeoutMs`, which only the first program has. `effects` is what the
model did besides writing text, by the turn and by where it shows: as an event of
the run, in the audited history, or as an image in the history only.

`ScreenProgram` has one dimension for two, and whole numbers for finite floats. It
adds up a node's place along the walk to the root, as the code does, and compares
the verdict with a definition of it by the tree (`HangsFrom`, `AcceptedFits`).
The order of the hash map does not matter to the verdict.

### LineReaders

Three readers, one per behaviour. The stream is any sequence of line feeds,
carriage returns and other bytes, cut anywhere; the properties compare what was
kept with the lines of the whole input so far. JSON text is any line that has
another byte.

## 3. Runs

Every run sets `CHECK_DEADLOCK FALSE`: runs, notifications and requests are
bounded, and the system rightly stops when they are used up.

| Run | Checks | Bounds |
|---|---|---|
| `RunStream` | `DeliveredInOrderWithoutGaps`, `SuccessIsComplete`, `RetainedBytesExact`, and under fairness `HeldRunEnds`, `DroppedRunFreesThread` | 1 turn, 3 notifications of text and an image with two sizes, queues of 2, output limit 3 |
| `RunHandover` | `CancelMeetsOwnRun`, `AtMostOneInterrupt`, refinement `ImplementsOwnership` | 2 turns, 1 notification each, 1 late one, queues of 1, callers may be dropped inside disconnect |
| `Requests` | `OrphanFences`, `HonestFailure`, `NoWaiterLeft` | one non-idempotent and one idempotent request, no operation deadline, a kill that may fail |
| `RequestLiveness` | `LostOutcomeCuts`, `EveryRequestEnds` | one request, operation deadline in use |
| `Services` | logins: `LoginInvariant` (types, one outcome, early results), `NoLoginLeft`; sessions: `SessionInvariant` (types, loaded threads are owned, a turn keeps its thread), `ShutdownLeavesNothing`, `ShutdownEnds`, `AbandonedOneShotEnds` | 2 logins, 1 wait, a cache of 1; 2 threads, one of them one-shot, an operation deadline that may pass at any moment |
| `Operations` | process: `CleanShutdown`, `ProcessInvariant`, `EveryCleanupEnds`; approvals: `OneAnswer`, `EveryRequestAnswered`; images: `BilledOnce`, `AbandonedIsFatal`, `PngInvariant` | channels of 1, 1 frame, 1 message; 2 reverse requests; 2 images; 6 chunks |
| `Programs` | guardian: `CleanExit`, `NoStraySignal`, `CustodyEnds`; installation: `NoTornInstall`, `OneInstallation`, `EveryResolveEnds`; verification: `VerificationLeavesNothing`, `TimedVerificationEnds`; providers: `SuccessIsClean`, `OriginalFailureKept`, `ProviderAnswers`, `AcceptedFits`; readers: `LinesAreExact` | a leader and 2 members, `SCAN_ATTEMPTS` = 2; 2 processes, 1 kill, 1 corruption; 3 nodes on a viewport of 2; lines of 2, 7 bytes in reads of at most 3 |
| `LostTerminal`, `TornDisconnect`, `StaleTerminal`, `DeadlineAfterDispatch`, `LostStop` | one property each, which the code violates (section 6) | |

### Why the bounds are enough

* Two queue slots and three notifications are the least with which a deferred
  batch is replayed while a further event is deferred *and* a queue overflows;
  an image with two sizes is replaced in the queue, and with limit 3 the output
  limit is met both by one payload and by the sum of text and images.
* Two turns are the least with which a task of the first meets the second. The
  ownership argument is about one thread, and a third turn starts from the same
  state as the second; the theorems of section 5 hold for any number.
* A second request meets the first only through the connection and the router
  (which is busy with one completion), so one of each kind shows every
  interaction; again the theorems cover any set.
* Two members are the least with which a survivor forks another one between the
  scan and the kill, after the leader is gone; two attempts are the least with
  which a round is repeated (the code has `SCAN_ATTEMPTS`, far more). The
  theorems cover any set of members and any number of attempts.
* Two logins and a cache of one are the least with which an early result is
  pushed out by another; the waits of a login do not interact, they are only
  taken together, so one is enough. Two threads are the least with which one
  session's task holds the lifecycle lock while another's, the shutdown's or
  the clean-up's waits for it. The two services share nothing but the
  connection: each behaviour of `Services` exercises one of them (`focus`).

* Channels of one are full with the first frame or message, so every sender that
  can block does; a second frame only queues behind the first. The two kinds of
  kill, the shutdown, the drop of the client and each task of the process are
  all there at once.
* Six chunks are the least with which an indexed image has IHDR, PLTE, tRNS, two
  IDAT with a chunk between them, or IEND with a chunk behind it. With IHDR at the
  beginning and IEND at the end, every pair of types occurs in both orders.
* Two processes are the least with which one installs while the other waits,
  probes, or removes what it has found invalid; the safety theorems hold for any
  number. One kill leaves the files a successor must sweep.
* Three nodes make a tree of depth three, a cycle beside a root and a node that
  fits the viewport but not its parent. Seven bytes make a line of the longest
  kind with its CR and LF and a second one that is too long, or several short
  ones; the reads of at most three cut them everywhere.

## 4. Fairness

`RunRoute!Fairness` and `RequestRegistry!Fairness` assume weak fairness of what
the runtime schedules: the caller's own task when its request is answered or its
timer fires, each spawned task, the turn deadline, and a disconnect that was
begun. Tokio polls a ready task and a timer eventually fires, so this is what
the code gets. Nothing is assumed of the app-server (no answer, no terminal, no
end of stdout), of the user (no read, no drop, no interrupt) or of the writer.
`RunStream` has `CallersAbort = FALSE`: no caller is dropped inside disconnect;
the run `TornDisconnect` shows what happens to a run otherwise. `RequestLiveness`
keeps such drops, because a request also ends by its own timeout. The kill of a
disconnect ends, because it has a deadline; it need not succeed, and nothing is
assumed of `AppEnds`.

`Guardian!Fairness` assumes that the operating system runs the monitor and the
worker, that a forked child reaches its exec or fails, and that a killed process
dies. Nothing is assumed of the host, the app-server or its descendants: they
may ignore TERM and never exit.

`MCServices` assumes the same of the services' tasks: a disconnect goes on, a
result that was taken is sent and received, a task that may go on does, and a
request that is not answered times out. Nothing is assumed of `login_timeout`
(it may be hours), of the operation deadline (there may be none), of the
app-server, or of the user: a turn need not end.

`MCOperations` assumes weak fairness of the process's tasks, of a kill and of the
shutdown, whose deadlines pass, and of the failure of a write to a child that is
dead; of the responder task, whose timeout passes. Nothing is assumed of the
child, which need not read, write or leave, or of the owner of an approval.

`MCPrograms` assumes that a resolver's process goes on unless it is killed and
gets the lock if it stays free; that the time of a verification and of a provider
passes and that what waits with a deadline notices it; nothing of a helper, an
entrypoint, a client's call without a deadline, or `ifsc_text_provider`, which has
none (`ProviderAnswers` is not stated for it).

## 5. Proofs

All theorems are checked by TLAPS for every value of the constants, from the
named assumptions only: `BoundsAssumption` and `ItemsAssumption` (bounds are
numbers, capacities and image sizes are positive, items are of the modelled
kinds), `RequestsAssumption` (non-idempotent requests are requests),
`ScanAttemptsAssumption` (the worker tries at least once),
`EarlyCapacityAssumption` (the login cache has a place), `OneShotAssumption` (the
one-shot threads are threads), `ProcessBounds` (the capacities of the channels and
the bounds on frames and messages are numbers), `InstallAssumption` (the two bounds of
`RuntimeInstall` are numbers), `ViewportAssumption` (it has a size),
`NoParentAssumption` (no node is called like the absence of a parent) and
`LineAssumption` (a line may hold a byte). Every safety property that a passing run
checks is stated by a theorem. Some theorems have a hypothesis beside these, and say
so: `OrphanFences` and the three about the stream of a turn.

* **Type correctness** (`RunRouteTypes!TypeCorrect`,
  `RequestRegistryProofs!TypeCorrect`). For the route, the lemmas follow the
  operators: what a failure, a deferral, a delivery and a terminal do to an
  entry.
* **Ownership of a thread** (`RunRouteProofs`). `ActiveTracksRoute` alone is not
  inductive: a route that has ended may stay registered until its clean-up, and
  a cancelled start may be cleaned up late. `RouteInv` adds that an ended route
  has published its result (`EndedIsSettled`), that a failed or dropped start
  keeps the route until its own clean-up while the connection is up
  (`StartHoldsRoute`) and that a written interrupt belongs to a finished
  interrupt task (`WrittenByTask`). `StepKind` classifies every step of the
  detailed system as one of five: it keeps the ownership, claims it, settles
  it, gives it up, or removes an entry nobody owns. Both `OwnedStep` and
  `RouteImplementsOwnership` then need five cases in place of twenty-five:
  `Claims` maps to `Claim`, `Settles` to `Settle`, `GivesUp` to `Forfeit`, the
  other two to stuttering.
* **Ownership of an outcome** (`RequestRegistryProofs`). `RegistryInv` is the
  conjunction of `CallerFirst` (a request is the caller's alone until it is
  dispatched), `AnsweredOnce` (the router completes only what was answered),
  `StoppedBeforeDrain` (the senders are stopped and the app-server is gone, or
  has survived, before the map is drained, and only the drain fails a waiter) and
  `WaiterKnown` (whoever waits is in the map, in the drain or at the router).
  `HonestFailure` and `NoWaiterLeft` follow. That a stop precedes the drain is not
  enough for `HonestFailure`: a request may be marked and queued after the drain
  has seen it undispatched. `Failable` says why it is still not carried out (the
  app-server was gone before it had read the request) and names the exception (it
  survived). The
  fence `OrphanFences` needs the further part `OutcomeTracked`; it is proved
  under the hypothesis `~OperationDeadline`, and the run `DeadlineAfterDispatch`
  shows that it is false without that hypothesis.
* **Custody** (`ProgramsProofs`). `CleanExit` is a statement about the last state
  of the guardian; what makes it true is that the exited leader is kept as a
  zombie while its group is emptied. `GuardianInv` says so: the leader is reaped
  only by the worker's last call (`Anchored`), the group is scanned under a
  zombie (`ScannedWhileZombie`), a group found empty under a zombie stays empty,
  for nobody is left to fork (`EmptyBeforeReap`), and a status is reported only
  after both (`Reported`). `NoStraySignal` follows from `Anchored`.
* **Logins** (`ServicesProofs`). `LoginIInv` says of each login what the router has
  read of it so far is in the cache or in its entry (`Kept`), and of each wait
  that a listed sender belongs to an outcome that is still open, and a taken one
  carries the outcome (`Told`). The capacity of the cache plays no part there: what
  it evicts is recorded. That the queue of early ids and the map of early results
  are always the same set, each id once and within the capacity, is `LoginQueues`,
  and completes `LoginInvariant` (`LoginRegistryInStep`).
* **Sessions** (`ServicesProofs`). `SessionInvariant` and `ShutdownLeavesNothing`
  rest on the two locks. `LifecycleOrdered` and `SessionOrdered` say which places of
  a task are inside a lock and that a task there is the head of the lock's queue, in
  which every task stands once: two tasks inside are one. With that, `ThreadKept`
  is inductive although five kinds of task change the registry: a loaded thread is
  in the registry, an open `Session` that was not given up and a turn have a loaded
  thread, and a task that unsubscribes meets no turn. `ShutdownVisits` adds that
  from the moment the shutdown is inside, every thread still loaded is one it has
  visited or has yet to visit. All this is said up to the operation's absolute
  deadline: once `expired` is set, `BeginShutdown` empties the registry and
  `CreateOverdue` loads a thread nobody owns, and `DeadlineKeeps` shows that the
  deadline itself disturbs nothing.
* **The stream of a turn** (`RunStreamProofs`). The run compares sequences; the
  proof speaks of positions in what the app-server wrote. As long as the turn
  fails in nothing and somebody is there to receive it (`Taking`), there is a `k`
  with `Frontier(k)`: everything up to `k`, and nothing beyond, was passed on, and
  everything beyond waits in order in the batch taken out for the replay and then
  in the deferred queue. `Delivered` and `Complete` say the same of what a handle has
  seen and of an `Ok`. `Replays` says where a batch, a deferral and a turn id may be
  at all.
  Replaced images are the hard part: a later one takes the place of an earlier one
  in the queue, so the order has gaps exactly where an image is supplanted.
  `StreamInv` is inductive for `OrderlySpec` only, the behaviours in which the
  app-server speaks of no turn but the current one. Without that restriction the
  three properties are false (section 6: a stale terminal, a notification of an
  earlier turn taken for one of the current turn before its id is known, a repeated
  image moved behind the terminal; and a stale terminal that empties a full queue
  leaves its byte counters behind). In the run `RunStream`, with one turn and no
  late notification, the two specifications have the same behaviours.
* **The limits** (`RunStreamProofs`). `LimitsAlwaysHold` needs no such restriction:
  whatever is written, late or stale, no queue exceeds its capacity and the retained
  output and the deferred images stay within `MaxOutput`. `BytesAreExact` adds, for
  `OrderlySpec`, that the counter of each deferred image is the size of the one
  notification that is deferred for it (`DeferralCounted`).
* **Process** (`OperationsProofs`). `CleanShutdown` speaks of the last state of a
  shutdown; `ShutdownDone` says what each of its places has behind it (the Close
  acknowledged, the child reaped, the tasks joined one by one), `MutexHeld` who may
  be waiting for the child, `ChildSignalled` that whoever gave up has signalled it,
  and `SpawnOwns` what a spawn that failed half-way has put back. `ChildHasOneReaper`
  is the mutual exclusion by itself.
* **The chunk scan** (`OperationsProofs`). `FlagsMean` translates each of the six
  flags into a fact about the positions of the chunks read so far; for images of any
  length the scan then accepts exactly the well-formed prefixes.
* **Reverse requests** (`OperationsProofs`). `OneAnswer` depends on who may still
  cause an answer: `Settled` says that the holder of the event has sent no
  command, that who waits for a reply has sent the only one, and that an owner
  who was told of a failure left nothing explicit in the channel or the task.
* **Images** (`OperationsProofs`). `Accounted` relates the phase, the place of the
  worker and of the caller to the numbers of posts and refusals: a post that is
  not refused exists only in phase `Dispatched` or `Finished`, and a caller that
  leaves then owes a disconnect.
* **Installation** (`ProgramsProofs`). `OneInstallation` is not inductive:
  that the holder of the lock leaves no file when it releases it depends on who
  may own a file at all (`TempsOwned`), on the lock being held exactly inside
  `install_managed` (`LockExact`) and on the sweep (`Swept`).
* **Verification** (`ProgramsProofs`). `VerificationLeavesNothing` looks at the end
  only; `Tidy` says what is there on the way: a stage begins with an empty disk
  and no guardian, and one without a fault has a guardian that passed and was
  waited for.
* **Providers** (`ProgramsProofs`). `Placed` relates the place of the program to
  the client, the session and the staging directory, `Watched` says that every
  effect of the current turn is still going to be seen, and `Earned` that an
  outcome of `ok` and the operation's own failure survive what comes after.
* **Screens** (`ProgramsProofs`). `ScreenInv` says what the code checks of an accepted
  screen: the root covers the viewport, each node lies inside its parent, and no
  walk to the root is longer than there are nodes. `AcceptedFits` says what this is
  for: each node hangs from the root and lies, added up, inside the viewport. Between
  the two stand inductions along the walk: it follows the parents (`WalkGoesUp`), from
  outside of a set that has the root and the children of its members it never gets
  in (`AcceptedHangs`), and it adds the offsets up (`PlacesAdd`, `AcceptedIsInside`).
* **Lines** (`ProgramsProofs`). The key is `LinesJoin`: the lines of `s \o t` are
  those of `s` and then those of what is left of `s`, followed by `t`; so what a
  reader keeps depends on all it has read and not on where the reads ended.
  `FramesInv` splits the input into what the frames returned came from and what is
  still in the buffer; `StderrInv` relates the flag for an oversized line to the
  length of what follows the last line feed (`LineGrowsInFront`: bytes before a line
  only make its first line longer); `RingInv` says that what is left after `k` times
  `pop_front` is the joined length of the lines left (`LeftIsTheRest`).

Induction over data is done in first-order form: `NumbersInduct` (a set of numbers
that has 0 and with every number the next one has them all) follows from the
well-foundedness of `<`, `SequencesInduct` from it, and both are cited with sets in
place of the operators of the library's induction theorems. A recursive function is
used through a lemma that says what each of its values makes of the last one
(`IteratesExist`, `CutCuts`, `SumsAre`).

Model-checked only: the liveness properties (`HeldRunEnds`, `LostOutcomeCuts`,
`EveryCleanupEnds` and the others of the table in section 3 that say what
eventually happens), which need fairness and ENABLED, out of the prover's reach. The
five properties of section 6 are false and are refuted by TLC.

## 6. Where the code and its documentation disagree

1. `LostTerminal`: `record_failure` clears the whole deferred queue
   (`run_state.rs:445`). If a replayed event fails after the router deferred
   the turn's own terminal, that terminal is thrown away: the client interrupts
   a turn that has ended and then disconnects. `docs/PROTOCOL_CONTRACT.md:112`
   makes `turn/completed` the authoritative evidence.
2. `StaleTerminal`: `route_terminal` clears a full queue before it compares turn
   ids (`run_state.rs:772`). A late terminal of an earlier turn empties the queue
   of the replaying one, which can still end `Ok` with text missing.
3. `TornDisconnect`: `disconnect` is awaited inline and its first caller is its
   only owner. If that caller's future is dropped while the process is being
   killed, nobody fails the pending requests, runs and logins, and
   `Run::next_event` waits for ever.
4. `DeadlineAfterDispatch`: `send_tracked` computes the remaining time again
   after it queued the frame. If the absolute deadline passed in between, the
   caller gets a plain `Timeout` and the connection stays up, although
   `PROTOCOL_CONTRACT.md:104` says a dispatched request ends it with
   `OutcomeUnknown`.
5. `LostStop`: the monitor's TERM handler forwards the stop to a worker it has
   recorded, and nothing reads the monitor's own flag. A TERM that arrives after
   the fork (`vergerail_guardian.c:503`) and before `:516-517` is lost: the
   app-server's group stays until the host drops its handle or dies, although
   `docs/VERIFICATION.md:120` says that timeouts and cancellations end the group.

Not a run, but known from the model: if `fail_all` takes the pending map just as
a caller's timeout elapses, the timeout finds its entry gone and reports a plain
`Timeout` for a non-idempotent request that may have been carried out. That is
why `HonestFailure` speaks about disconnects and shutdowns only.

Also known from the models, without a run of their own, because each follows from
one line once it is seen:

* A request that has passed the second test of `shutdown_started`
  (`process.rs:392`) may be marked (`:401`) and queued after `fail_all` has seen it
  undispatched and told its caller of a plain `Disconnected`. It does no harm
  if the app-server is gone by then; if the disconnect's kill failed or timed out
  (`client.rs:1766-1782`), a surviving app-server may carry the request out, against
  `docs/PROTOCOL_CONTRACT.md:104`. The message of that `Disconnected` says that the
  runtime termination failed, its kind does not. `HonestFailure` excepts exactly
  this case.
* A shutdown that begins after the operation's absolute deadline empties the
  registry, unsubscribes nothing and may return `Ok` (`client.rs:1660-1664`; the
  comment there says so), with the threads left to the end of the process; and a
  `thread/start` whose deadline passes right after its dispatch (item 4) leaves a
  thread nobody owns. These are the exceptions in `ShutdownLeavesNothing` and in
  the part `LoadedIsOwned` of `SessionInvariant`.
* `spawn` reads the deadline again after it has unpacked the guardian
  (`process.rs:252`) and returns without removing the helper and its directory
  (`DeadlineBeforeSpawn`); `docs/ARCHITECTURE.md:61` promises the same clean-up
  for a partial spawn. `CleanShutdown` speaks of processes that were spawned.
* The version probe returns by `?` between the unpacking and the spawn
  (`runtime.rs:1199-1212`) and leaves the guardian's files (`CannotSpawn`, which
  sets `stuck`).
* The future of a verification that is dropped leaves the guardian's directory
  behind (`DropVerify`); `docs/VERIFICATION.md:119-123` speaks of cancellation
  too. This is why `VerificationLeavesNothing` has no such clause for it.
* A resolver that finds the installed root invalid after it released the lock
  removes it without the lock (`manager.rs:252`): it may remove what another
  process has just installed or resolved (`Discard`, `EraseDiscarded`).
  `NoTornInstall` therefore names the removal as a cause.
* An image that was delivered but whose shutdown exceeds the deadline is answered
  as `timeout` (`ShutdownTimesOut`), and so is the failure of a model turn whose
  `session.close` hangs past the deadline (`cut` in `OriginalFailureKept`).
* `ifsc_text_provider` looks for effects in the audited history but not for
  generated images there (`ifsc_text_provider.rs:816-847`), although
  `docs/PROTOCOL_CONTRACT.md:91` asks for the absence of other effect items; the
  exception in `SuccessIsClean` says exactly this. It also accepts a required
  element below a hidden ancestor: `node_hidden_in_state` looks at the node only.
* An image notification that arrives after the deferred terminal takes the place
  of the deferred one and moves it behind the terminal (`run_state.rs:216`); an
  event of an earlier turn that is deferred before the turn has an id may make the
  run's one interrupt name the wrong turn (`run_state.rs:156`); a host that dies
  before the guardian's `getppid` is taken for init (`vergerail_guardian.c:491`).
  The models have these steps; no property excludes them.

## 7. Not modelled, and what is left

Not modelled, because there is no protocol in it: JSON parsing and writing
(`private/wire.rs`, `private/protocol.rs`, `approval/protocol.rs` beyond whether
it succeeds), schema rewriting, redaction, hashing, CRC, inflate and the filters
of PNG rows, prompts and styles of the provider programs, configuration and error
values, the build script and the stub guardian, and the live example. The
diagnostics buffer (`event.rs`) takes its two locks one after the other; its one
reader can only miss a drop counted in between.

Not modelled, and possible: models pagination, the exhaustion of waiter and
request ids, duplicate thread and login ids (each ends the connection), and
`replace_failure` of the connection.

What would add most next:

1. An abstract specification of the request outcome (one observer or a fence) and
   a refinement from `RequestRegistry`.
2. The same for the session registry: threads that are claimed by one owner and
   released once, with the two locks as the means.
3. Lemmas towards liveness: what a fair step makes of a measure, as action
   properties, since the temporal part stays with TLC.

Models that share nothing but the connection are checked together in one composed
run, each behaviour exercising one of them (`focus`).
