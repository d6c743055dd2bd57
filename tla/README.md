# A TLA+ model of tura's process and storage core

tura runs a coding agent as a handful of cooperating processes per home
directory: fronts (GUI, TUI, CLI) talk to a **gateway**, the gateway to a
**router** daemon, the router starts one-shot **runtime** processes that run a
turn, and all of them write sessions through one **session_db** process that
owns the SQLite stores. This directory models the parts of that core where
interleavings, crashes and races decide whether the system is right: how a
prompt becomes a turn, who runs it, what the turn's loop does and saves, how its
commands run side by side, who owns the database, how a write gets there and
what is in it after a crash, and when the router goes away.

Source paths below are relative to the repository. `PROJECT.json` maps every
definition to the lines it models.

## The system

| Part | State it keeps | Operations | What is hard |
| --- | --- | --- | --- |
| gateway sessions (`crates/gateway/src/api/session*.rs`, `session/*.rs`) | a session's state in memory, its refresh mark | prompts, follow-ups, scheduled tasks, abort, list with a probe of busy sessions, refresh from session_db | state read before a call and used after it; a probe, a reader and the answer of a turn write the same field |
| router daemon and lifecycle (`crates/router/src/daemon.rs`, `ipc_handlers.rs`, `front_lifecycle.rs`, `shutdown.rs`) | connections and their request tasks, front leases, time of last activity, shutdown flag | serve requests, heartbeat, idle monitor, shutdown | the monitor acts on counters it read one after the other; a connection's end aborts its tasks |
| router execution (`services/execution.rs`, `runtime_dispatch.rs`, `services/manager.rs`, `services/worker_process.rs`) | turn table, runtime slots (FIFO semaphore), worker registry, one-shot runtime children with cancel flag and process scope | enqueue a turn, cancel a turn, kill all, probe, a connection's end | locks are dropped between every two steps and tasks are aborted at awaits; a cancel, a kill-all and the session's next turn meet a turn anywhere |
| router session_db service (`services/session_db.rs`) | handle of the managed child behind a mutex | start, stop, restart, from concurrent requests | check-then-act on a process other requests start and kill |
| runtime turn loop (`crates/runtime/src/manas`, `turn_loop`, `tool_flow`, `checkpoint`, `context`) | session state, task plan, log, the messages of the next call | call the provider, retry, run tools, compact, end, write checkpoints | log, messages and checkpoint are three copies that each step updates in its own order; many ways to start the loop again |
| runtime streamed commands (`provider_flow/*.rs`, `router_command_run.rs`) | stream, command queue, results | start commands while the answer still streams, replay, give up | two threads and a request for each command; cancellation and time-outs |
| file locks (`crates/tools/src/runtime/file_locks`, `dispatch.rs`) | readers and writers of paths and of the workspace | acquire, release | lock order, readers against the workspace writer |
| session file queue (`crates/session_log/src/file_queue.rs`) | one file per write in `pending/`, `processing/`, `failed/` | enqueue, drain, recover orphans | crash between any two file operations, overlapping owners, ignored errors, replay order |
| session_db owner (`crates/session_log/src/service.rs`, `ipc.rs`) | owner lock file, published address, accept loop | acquire, publish, serve, shut down, crash | lock and name of the lock file are two things; anyone may remove the address |
| session store (`crates/session_log/src/store/*.rs`) | workspace database (rows, records), index database | upsert, mark interrupted, stale sweep, start-up recovery, reads that repair, deletes | a command is several transactions in two databases without a common one |
| provider (`crates/provider`) | configuration, OAuth tokens | model calls, retries, token refresh | external services |
| path, agents, personas, commands, apps, scripts | none, or data and user interfaces | | |

Interactions: the gateway sends `execution.enqueue_turn` and `cancel_turn` over
a socket to the router; the router's dispatch calls `SessionDbService::start`
before it starts the runtime; the runtime's loop takes follow-up commands from
the router, sends each command of a model's answer back to the router, and
writes snapshots of the session; a runtime enqueues its writes as files and
calls session_db for what it reads, while the gateway probes the published
address and calls session_db, or enqueues a file when that fails; session_db
drains the queue into the store on a thread of its own, next to the connection
threads; the gateway probes busy sessions and reports the dead ones as
interrupted; the idle monitor of the router stops workers and session_db.

What makes each modelled part right:

- gateway: a prompt is worked on once or answered with an error, a probe spares
  live turns, a session does not stay busy;
- lifecycle: the router shuts itself down only when nothing is active, and does
  so when nobody uses it; a connection's end cancels its own turns only;
- execution: the slots bound the runtime processes, permits are conserved on
  every path, the table says which turns are live, nothing is left behind when
  all is quiet, every accepted turn ends;
- turn loop: once a provider has answered, every call is given what the log
  holds; what was decided is saved before anything else happens; the loop ends;
- commands: none runs twice, mutating ones run alone, a new highest step waits
  for all results, and a call that returns leaves nothing running;
- owner: one owner at a time, a service that comes back after crashes and lost
  addresses, no lock kept for ever;
- queue: an accepted write is never lost, is applied in order and not undone by
  a replay, and settles;
- store: the index never names a session that has no row and never hides one
  that has, no session survives a restart as running, and none stays running
  when its runtime is gone.

## Modules

| Module | Models | Checked by |
| --- | --- | --- |
| `RouterExecution` | execution supervision in the router daemon | `execution_*` (through `MCRouterExecution`, which gives the turns their sessions) |
| `TurnSlots` | what the execution service promises the turns: the abstract specification | `execution_safety`, as a property |
| `RouterLifecycle` | connections and requests of the daemon, leases, idle monitor, shutdown | `lifecycle_idle` |
| `GatewaySessions` | one session between prompts, router, runtime, probe and session_db | `gateway_session` |
| `PromptDelivery` | what gateway and router promise a session's prompts: the abstract specification | `gateway_session`, as a property |
| `TurnLoop` | the loop of a runtime over the prompts of a session | `turn_loop` (through `MCTurnLoop`, which names the modes) |
| `StreamedCommands`, which extends `FileLocks` | the commands of one model answer and the locks they take | `commands_streamed` (through `MCStreamedCommands`, which gives the locks of a media command) |
| `SessionDbOwner` | session_db processes, lock file, address, the router's start and stop | `owner_*` |
| `DurableWrites` | what the write queue promises its producers: the abstract specification | `queue_*`, as a property |
| `SessionFileQueue` | the file queue and its drain threads | `queue_*` |
| `SessionCatalog` | what the store promises its readers: the abstract specification | `store_safety`, as a property |
| `SessionStore` | the two databases and the commands of the owner's threads | `store_safety` |
| `*_proofs` | theorems about the module of that name | TLAPS |

Definitions named in a comment as `MUTANT of X` are variants of `X` with a
plausible bug. No specification uses them; substituted for `X` they make a
property fail and so show what the property is sensitive to.

### RouterExecution and TurnSlots

A turn is one `execution.enqueue_turn` request; it starts at most one worker, so
the turn also stands for the worker's id. `pc[t]` is where its task is: each
value is a place where the code awaits or has just dropped a lock. `sessions`,
`permits`/`waitq`, `service_to_worker`, `workers`, `cancel_flag`, `scope` and
`child` are the table, the semaphore, the two maps of the `ServiceManager`, the
flag and process scope of a `WorkerProcess` and the runtime processes alive.
`CancelTurn`, `KillAll` and `Disconnect` are requests of their own that go
through the registry one lock at a time; `AbortWaiting`, `AbortSlotted` and
`AbortTooLate` are what dropping a task's future does at each await, with the
guards' destructors. `ProbeRead`/`ProbeCheck` is `worker_alive_by_key`, which
reads two maps. Left out: contents of requests and answers, persistent workers.

`TurnSlots` has no table, no registry and no requests: turns get one of the
slots in the order in which they began to wait, each has one chance to start a
process and only while it has a slot, and a slot that is given back has no
process on it. So there are never more processes than slots
(`RuntimeSlotsBounded`) and no turn is overtaken. The refinement maps `line` to
the semaphore's `waitq`, `running` to `child`, and the stage of a turn to the
place of its task (`SlotStage`).

### RouterLifecycle

Time is counted in ticks of a lease's length (15 s); the poll of the monitor
(250 ms), a ready task and a dispatch take less than a tick, so `Tick` waits for
those that are due. `conn`, `active_sessions` and `at` are the connections, the
sessions each would cancel, and where the task of each request is. The monitor
is a program of its own: `CountWorkers`, `CountSessions`, `CountCommands`,
`CountFronts`, `CountConnections` and `ReadClock` are the reads of
`shutdown.rs` 15-22 and `front_lifecycle.rs` 103-115, each followed by anything
the rest of the daemon does, and only then it decides and takes down the
address, the workers and the flag. A connection ends with end of file (it then
cancels the sessions it knows and aborts all tasks but command runs) or with a
read error (the tasks run on). A turn is abstract: waiting for a slot, running
under a worker, over; `RouterExecution` has it in detail. Left out: the daemon's
lock file (the pattern of `SessionDbOwner`), methods that only read, mailboxes.

### GatewaySessions and PromptDelivery

One session: `mem` is its state in the gateway, `db` its row in session_db. A
run is one accepted call of `enqueue_turn`, a prompt's first or its second;
`phase` is how far each run is, `turn` the run for which the router's table has
an entry, `queue` the follow-up commands the router keeps. A prompt's `pc` is
where its handler or thread is; `prompt_async`, `send_message` and the task
scheduler differ in when they look at the state and whether they look at all.

`EnqueueTurn` has the three answers of the call. `Accept`: the table has no
entry of the session. Refused: it has one, and the prompt becomes a follow-up
command, which a runtime takes before a provider call. `Reject`: an error
instead, because the router's queue is full (`execution.rs` 84-88) or no router
can be reached or started (`router_process.rs` 305, 311); the handler then sets
the status to error and tells the user (`session_prompt.rs` 592-598, 622-624),
and the prompt is never worked on (`rejected`). A payload the router cannot read
(`execution.rs` 93) is found after the table has its entry: here an accepted run
that ends failed at once (`Kill`). So `served` counts that a prompt became a
turn or was taken by a runtime, not that the turn went well.

An abort is two steps, as in `RouterExecution`: `Abort` removes the entry
(`execution.rs` 144, 177), the run goes on until `Kill` stops its worker, and
meanwhile the session's next turn may be accepted and run beside it. Whichever
run ends then removes the entry, the other's included (`EndTurn`). `Fault` loses
one call: a connection that breaks in the middle, an answer of `take` that
misses its 100 ms, a probe without an answer, a router that is restarted. Left
out: messages and their projection, forks, children, todos, and the branch of a
handler for a session marked as cancelled (`session_prompt.rs` 558-562), which
the program never enters: only tests call `mark_cancelled`
(`gateway/src/session/store.rs` 1088).

`PromptDelivery` has no states, statuses, runtimes, probes or database: a prompt
is due until it begins a turn, is kept for a runtime to take, or is answered
with an error; no turn is accepted while one is open; a lost call may drop a due
or kept prompt, or have a prompt that was worked on offered again, once for each
prompt. It does not say that runtimes exclude each other, since an aborted one
may go on. Unlike `PromptsAreKept` it also binds behaviours with lost calls and
restarts. The refinement maps `due` to the prompts whose handler has still to
reach the router (`Due`), `kept` to the router's commands, `open` to the table
having an entry and `repeated` to the prompts sent a second time.

### TurnLoop

`pc` is where the loop of `manas/process.rs` is: `top` of a turn, `calling` the
provider, `executing` tools, `deciding` on their results, `replied` without
tools, the `final` call, `settling` after the loop, `ended`. `log` is the
session's log, `messages` the context the loop holds, `sent` what the call under
way was given (messages and the follow-ups it took), `db` the last checkpoint. A
log entry is a kind with the prompt and turn it belongs to; text is left out.
`answered` says that a provider call of the session has come back, which raises
its `session_current_turn` (`manas/process.rs` 181, 854). Until then the first
call of a prompt is given that prompt alone (`initial_messages.rs` 14-52): what
a first prompt that was killed, or that failed before any answer, has left in
the log is shown to the provider only after a second call. `NextCallKnowsTheLog`
therefore begins with the first answer. A prompt whose text the log has already
is not logged again, and its call is given the log (`LogPrompt`).
`plan` has the status of each task, and `Outcomes` computes what the
`task_status` items and planning results of one command_run, in either order,
make of a plan, and what the loop concludes: `FirstStatus`, `Verdict`. It is a
function so that TLC computes it once. `Retained` and `Kept` are the two sides of
a compaction: what it drops from the log, and what the context is rebuilt from.
The mode (goal mode, planning, status reports, planning child) is chosen once
for all prompts.

Simplifications, each on the side of more behaviours or of less detail: every
error that leaves `process_with_agents` by `?`, and the death of the process,
is one action, `Abort`, possible anywhere; that a restarted session_db or a
probe has marked the session interrupted is part of `NextPrompt`; the usage report
of a failed call may or may not be in the log, that of an answered one always
is; a later prompt puts the follow-ups of earlier prompts before its context,
as the code does with developer messages. Left out: the budgets by which a
compaction trims its own text, focus and usage entries, start conditions of
tasks other than the user's action, publishing to the gateway.

### StreamedCommands and FileLocks

The caller (`provider_streaming.rs`) sends commands into `stream` as the
provider names them, replays all of them with the final answer, and then joins
the thread; the thread (`command_run_streaming.rs`) drains completions, starts
what is ready of the lowest step, and polls the stream; each command is a
request that takes its locks one by one (`held` counts them), executes, and
drops them. A patch takes the workspace lock, a media command shared locks of
what it reads, a read-only shell line none; `Keys`, `CanAcquire`, `Acquire` and
`Release` are those of `file_locks/mod.rs`. `Fault` is a provider time-out, a
refused request, a command given up, or a checkpoint that cannot be written.
`Provide` takes a command of the replay to have the identity it had in the
stream. In the code that is the id of its tool call and its index, which the two
sides fill in by themselves: for an id that is blank, or arguments that are a
text and not an object, they differ (`command_run_stream_events.rs` 46-56 of the
provider, `streamed_command_run.rs` 22-28), and such a command would count as
another one.
Requests with several commands in one, which the runtime does not send, are
left out.

### SessionDbOwner

A process opens the lock file (`OpenLock`), locks what it opened (`TryLock`),
publishes its address, and going down removes the address, unlocks, and removes
the lock's name, in that order. `path` is the file the name stands for and
`fd`/`holds` are files, so a lock on a file without a name is a state of the
model. The router's `start` and `stop` are calls whose `at` is the next step;
`service_is_running` occurs at seven places (`Yes`/`No` say where each goes on)
and is two steps, since the address is read before the probe and removed after
it. `mutex` is the lock of the child slot with the critical sections of the
code: `is_ready` keeps it while it probes, `wait_until_running` while it makes
its message. Dead processes are reused, which makes the state space finite
without a bound on the number of starts. Left out: versions of the address
file, the command protocol, several routers (the daemon has a lock of its own).

### SessionFileQueue and DurableWrites

The n-th write of a producer is `<<producer, n>>` and `place` the directory its
file is in; rename is atomic, so an item is in one directory. A drain thread's
`phase` is its place in `drain_queue`: recover what lies in `processing/`, list
`pending/`, then claim, read, apply and remove or quarantine one by one.
`Fault` is an error of one file operation or of the store. Names of one
producer sort by time; the clock of a producer is taken as monotonic, and
different producers' items may merge in any order. Overlapping drain threads
are modelled because two owners are possible (see the disagreements).
`ListPending` takes the directory in one step; the code reads it entry by entry
(`read_dir`), so that a file which is put there meanwhile may or may not be in
the list. It is then as if it had come after or before the listing.

`DurableWrites` has no files and no threads: a write is accepted and held, it is
applied (perhaps again), discarded once it was applied, or set aside, and none
is held for ever. The refinement maps `held` to the files in `pending/` and
`processing/` and `aside` to those in `failed/`. `DurableSpec` (safety) is
checked with two drain threads and proved for any number; `DurableAndDrained`,
which adds that nothing is held for ever, is checked with one under fairness.

### SessionStore and SessionCatalog

One workspace and its database (`row`, `file`) beside the index (`index`,
`stale`). A thread's `pc` is the transaction it does next; `args` and `at` are
the locals it goes on with. `upsert_session` is two transactions, marking a
session interrupted is three statements, reads repair the index in a separate
one. Each is an action, and a crash, which also stands for a shutdown that
kills connection threads, may come between any two. The drain thread is one of
`Writers`. Left out: record contents and order (ids only), timestamps but for
`stale`, checkpoints, schema migration, a file removed while a handle is open.

`SessionCatalog` has one set of sessions instead of two databases, and no
threads or commands: a session is listed only when it is stored, it leaves the
list or the store only when a delete has named it, a crash changes nothing but
`open`, and the store opens only when nothing listed is running. The refinement
maps `stored` and `running` to the rows, `listed` to the index and `open` to
`serving`. That a written session also gets into the list (`WrittenIsListed`) is
not promised, since a crash between the two writes leaves it out.

## Runs

Bounds are the values of the `.cfg` files.

| Run | Instance | States | Shows |
| --- | --- | --- | --- |
| `execution_safety` | 3 turns (two of one session), 2 slots, queue of 1, one canceller | 1.3 million | permits, table, nothing left behind; every step is one of `TurnSlots` |
| `execution_liveness` | as above with 1 slot | 306 thousand | every accepted turn ends |
| `execution_cancelled_runtime` | as `execution_safety` | | refuted: a cancelled turn's runtime does not run on |
| `lifecycle_idle` | 2 connections, 2 requests of any method, a session, a front, leases of 1 tick, idle after 2 | 684 thousand | the idle decision is sound and is taken in the end; connections cancel what is theirs; command runs survive |
| `gateway_session` | 2 prompts of any origin, a list request, a reader, 1 fault, an abort when no other run is left | 1.07 million | prompts are worked on once or answered with an error, live turns spared, busy is not for ever; every step is one of `PromptDelivery` |
| `turn_loop` | 2 prompts, 3 turns, 4 modes, 1 retry, 1 silent answer, 1 task, 1 follow-up, 1 fault | 1.22 million | after an answer calls know the log, checkpoints save it, the loop ends |
| `commands_streamed` | 3 commands of any kind and of 2 steps, 2 paths, 1 fault | 6.2 million | no command twice, exclusion, new steps wait, no deadlock, quiet at the end |
| `owner_locks` | 2 processes, a request that starts, one that starts and stops, 1 fault | 1.4 million | one owner until a name is removed; the child's lock comes back |
| `owner_recovers` | 2 processes, one starter, one probing client, 3 faults | 4 thousand | the service comes back for good |
| `queue_owners` | 2 producers with a write each, 2 drain threads, 2 errors, 1 crash | 233 thousand | no accepted write is lost; every step is one of `DurableWrites` |
| `queue_one_owner` | 2 producers with 3 writes, 1 drain thread, 1 error, 1 crash, limit 2 | 96 thousand | order and no stale replay until the error; `DurableWrites` with its liveness |
| `store_safety` | 2 sessions, 2 threads that do everything, 2 upserts, 1 crash | 433 thousand | every step is one of `SessionCatalog`; what was written is listed; recovery is complete; no session stays running |

Why these sizes are enough. Conflicts of turns are about one session, so two
turns of it and a stranger that competes for slots give every conflict; one
canceller stands for any one request, and the theorems cover any number. Two
connections are one that ends while another runs a turn on the same session,
and two requests let any method begin behind any counter the monitor has read.
Two prompts race for the session's one turn, and a third would do what the
second does; one run goes on beside the next turn after an abort, and a second
one only after more aborts than the bound `MaxBeside` allows. After a call was
sent again a restart of the router costs no fault, so that the second call can
break too; that is how the run meets a prompt that might be worked on a third
time. Three turns of the loop are a first, one that follows a retry, a
compaction or a silent answer, and one at the limit; a second prompt starts
from whatever the first one saved. Three commands are two that overlap and one
that waits for either, in the same step or the next. Two processes make two
owners, and since dead ones are reused three generations meet. Two drain
threads give every overlap that two owners can have, and a limit below the
number of items makes a pass stop in the middle. Two sessions show that a
repair or a mark of one leaves the other alone, and two threads give every
interleaving of two commands. Numbers that are larger in the code (256 turns,
20 silent answers, 3 retries, 4 ticks until idle) are constants of the
theorems, which hold for every value.

Fairness. In `RouterExecution` the executor polls ready tasks (`TurnStep`,
`CancelStep`) and a runtime process ends (`ChildExit`). That is an
assumption: the router waits for the process or a cancel without a deadline of
its own (`worker_process.rs` 495-505). What speaks for it is in the runtime: its
loop ends (`LoopTerminates`) and a command is given up after a time
(`router_command_run.rs` 54); a provider call has to return. In
`RouterLifecycle` tasks and the monitor are polled, time passes, and turns and
command runs end likewise; that anybody sends a heartbeat is not assumed. In
`GatewaySessions` threads go on, a run ends, and a front that shows sessions keeps listing them
(`apps/tui/src/tui/app.ts` 246); nobody has to submit, read or abort. In
`SessionFileQueue` the drain thread loops while its process lives and a dead
session_db is started again, which every dispatch and health check does. In
`SessionStore` the owner's threads run, and the gateway's probe of busy sessions
(`gateway/src/api/session.rs` 77-107, 141-170) reports a dead one again and
again: strong fairness, since a thread must be free to take the report. In
`SessionDbOwner` fronts keep asking for health, which calls `start`; the lock
of the child slot is granted in turn; and polls of a wait do not keep its own
timeout away. No fairness is assumed of clients' writes, cancels, deletes,
crashes or errors. `TurnLoop` needs none: instead of a liveness property it has
a variant, `StepsLeft`, which every step of the loop decreases, and
`StreamedCommands` states that somebody can always go on (`NeverStuck`) for
every number of steps.

### Disagreements with the documents

`execution_cancelled_runtime` states a sentence of
`crates/router/ARCHITECTURE.md` (157-158) and TLC refutes it: a cancel that
meets a turn before its worker is registered is forgotten, and the runtime
starts and runs on after the cancel was answered.

Met while modelling, without a run of their own. Where a name is given, the
module has the formula, TLC refutes it, and the quoted document says it:

- A cancel between the lookup of a worker and its spawn is forgotten too, and
  the session's next turn runs beside the cancelled one
  (`crates/router/ARCHITECTURE.md` 138; `worker_process.rs` 432). The guard of
  a cancelled turn removes the table entry of the session's next turn
  (`execution.rs` 293); `TableMatchesTurns` leaves disturbed sessions out for
  that reason.
- `RouterLifecycle!DroppedConnectionsAreAborted`: a read error leaves
  `handle_socket_connection` by `?` (`daemon.rs` 134), before the cancellations
  and aborts that `ARCHITECTURE.md` 66-67 promises for a connection that drops.
  Lines 67-69 say so of all tasks, while command runs are exempt (`daemon.rs`
  216 and the test at 291).
- A turn accepted after the idle decision is killed (`shutdown.rs` 23); a health
  check during a shutdown starts a session_db that outlives the router
  (`ipc_handlers.rs` 27); `execution.shutdown` is cut in the middle when its own
  connection closes (`daemon.rs` 210). No document rules these out.
- The owner unlocks before it removes the lock's name, so a process may lock
  the nameless file and a third one the new one (`service.rs` 237, against
  `session_log/ARCHITECTURE.md` 77-79). Concurrent starts overwrite the child
  handle, so an owner outside the slot that loses its address keeps the lock and
  is not replaced (`services/session_db.rs` 56); two starts may keep killing each
  other's children (34); a stop removes an address a concurrent start has
  published (91).
- A mark reads the state and writes in two statements (`store/payload.rs` 210)
  and turns a session that has completed in between into an interrupted one,
  against `docs/start/sessions.md` 100. The sweep may interrupt a slow turn
  (`store/write.rs` 110), a delete between the two writes of an upsert leaves
  the row (526), and a partial upsert deletes the records it does not list,
  which the README of `session_log` says it keeps (315).
- `session_log/ARCHITECTURE.md` 81-85 says that the writes of a runtime are
  queued when the service cannot be reached; the code queues them always
  (`runtime/src/session_log_client.rs` 142-165).
- `StreamedCommands!MutatorsAreBarriers`: `src/ARCHITECTURE.md` 309-312 and
  `policy.toml` 5 call mutating commands barriers; a shell line classified as
  read-only takes no lock and runs beside one (`commands/mod.rs` 60). A command
  of the current or a lower step that arrives late starts beside what runs
  (`command_run_streaming.rs` 488-509): of commands of the steps 2, 1, 2 the
  third runs beside the second, which the model sent first
  (`docs/core/command-run.md` 154 and 206 read otherwise; the test at
  `command_run_streaming.rs` 1149 wants it). `NewStepsWait` speaks only of steps
  above all that have started.
- In the gateway: a prompt handed to its thread but not yet at the router is
  marked interrupted by a probe, and its success cannot leave that state
  (`docs/start/sessions.md` 76); a failed session shows an error while its
  follow-up turn runs (43); a follow-up appended after the last take of a turn
  waits for a turn of some later prompt (40). Lost calls lose more:
  `session.rs` 811 only logs a follow-up that could not be appended,
  `prompt_messages.rs` 166 drops an answer that took more than 100 ms, and
  `router_process.rs` 312 sends a turn again that may still run;
  `PromptsAreKept` therefore binds behaviours without a lost call.
- `TurnLoop!PlanIsWorkedOff`: a task that is still under way does not keep
  "done" from ending the loop, which logs "no next executable task exists"
  (`process.rs` 479; the tests at `task_progress.rs` 329 and 344 look at one
  task each). `TurnLoop!GoalIsSettled`: in goal mode a visible reply completes
  the prompt and leaves the task under way as it is (`docs/start/sessions.md`
  138, `GOAL_MODE_CONTINUE_PROMPT_STYLE`). `TurnLoop!RetriesKnowTheLog`: a
  repeated provider call does not show the follow-ups the failed one took
  (`crates/gateway/ARCHITECTURE.md` 495-496).

## Proofs

For every value of the constants, checked by TLAPS:

| Theorem | Statement | Argument |
| --- | --- | --- |
| `RouterExecution_proofs!TypeCorrect` | types | with the targets of cancel requests (`TargetsOK`), which name turns and sessions |
| `RouterExecution_proofs!TableExact` | the table is exact for undisturbed sessions | needs `DisturbedOK`: a cancel's session, and every session at a kill-all or disconnect, is already counted as disturbed when its steps touch the table |
| `RouterExecution_proofs!PermitsExact`, `SlotsConserved` | permits are conserved, slots bound processes | lemma `StepMovesPermits` says how a step changes permits and holders together; processes belong to turns that hold a permit |
| `RouterExecution_proofs!NothingIsLeftBehind` | a quiet router is empty | whatever a turn puts into shared state has somebody who takes it away: `KeysAreLive`, a key of the table is that of a live turn; `WorkersAreOwned`, a registered or mapped worker has its turn or a cleanup task; `WaitersWait`, who is in the semaphore's queue waits there and is in it once |
| `RouterExecution_proofs!NobodyIsOvertaken` | a turn's place in the line only improves | an action property, from lemma `LineMoves`: the three steps that change the queue keep the order of the others, whoever is cut out of the middle (`CutKeepsOrder`) |
| `RouterExecution_proofs!NoSlotIdles` | who waits, waits for the head of the line, which can be granted, or for turns that hold all the slots | with `WaitersInLine`: no abort takes another turn's place out of the line; and permits are conserved |
| `RouterExecution_proofs!ImplementsTurnSlots` | the execution service refines `TurnSlots` | `TurnRefines` for the task of a turn, `StepRefines` for the requests: one abstract action or a stutter for each step. A permit that is free is a slot nobody has because permits are conserved; a turn that returns normally has no process because processes belong to invoking turns |
| `RouterLifecycle_proofs!TypeCorrect` | types | inductive as it stands |
| `RouterLifecycle_proofs!CancelsOnlyUnanswered` | a connection would cancel only what it was not answered | `NewConnections`: a connection that was never opened has noted nothing; a note is made with the request that becomes unanswered |
| `RouterLifecycle_proofs!CommandRunsAreNotCut` | command runs end by themselves or with the router | an action property, by cases on the steps |
| `RouterLifecycle_proofs!IdleDecision` | nothing is active at the decision | `IdleInv`, above all `PollInv`: whatever is active while the monitor polls is seen by the running poll (its counter is still to be read, or was already found busy) or shows in a clock of 0 or 1, and the idle time is two ticks or more |
| `GatewaySessions_proofs!TypeCorrect` | types | inductive as it stands |
| `GatewaySessions_proofs!PromptsServedOnce` | until a call is lost, a prompt becomes one turn or is taken once, or was rejected and never is | each step leaves a prompt's account as it is (`DuesUnchanged`) or moves the prompt from one account to the next; with `Begun`: while no call is lost, a caller that waits has its run at the router, so that no call is sent again |
| `GatewaySessions_proofs!ProbesSpareLiveTurns` | a probe spares what was active since the list | with `SeenServed`: the turn a prober saw has been counted as served, so by `PromptsAreKept` it cannot become the session's turn again later |
| `GatewaySessions_proofs!ImplementsPromptDelivery` | the session refines `PromptDelivery` | `StepRefinesDelivery`: one abstract action or a stutter for each step, with `Begun`: a prompt whose call is under way has become a turn, and a caller waits for a run the router does not have only after a call was lost |
| `GatewaySessions_proofs!WorkedAtMostTwice` | lost calls or not, a prompt is worked on at most twice | from the refinement: `PromiseBounds`, an invariant of `PromptDelivery` alone, that a prompt's account is at most one, or two once it was offered again |
| `TurnLoop_proofs!TypeCorrect`, `CallsKnowTheLog` | types; once a call has come back, a new one is given the whole log | `IInv`, a conjunction of what each place of the loop knows: above all `AllKept`, that a compaction in the log has only tool results before it, with which `Context` is the whole log (`ContextIsLog`). That `Retained` keeps this is `ResultsBegin`, by well-foundedness of the naturals |
| `TurnLoop_proofs!CheckpointsSave` | while no checkpoint fails, log and plan are saved | with `Fresh`: a follow-up the router holds is nowhere in the session, so what a call took can be told from what it was given |
| `TurnLoop_proofs!LoopTerminates` | every step of the loop decreases the variant | `Turns`: the turn is at most the limit; each step then moves on within a turn or begins a later one |
| `StreamedCommands_proofs!MutatorsExcludeOthers` | no other locking command executes beside a mutating one | `LockInv`: the readers counted on each key are the commands that hold it, and a writer is alone; `TakeKeepsLocks` and `DropKeepsLocks` for the two steps that touch locks |
| `StreamedCommands_proofs!TypeCorrect`, `EveryCommandOnce`, `ReturnsWhenQuiet` | types; no command runs twice and a success shows all of them; a call returns to a quiet router | `RunInv`, which counts commands on their way: what is running is what was started and is not recorded (`Counted`); what was told and is not recorded is in the channel, once (`Completions`); the answer's commands are known or still in the stream (`Delivered`); the thread ends with nothing running or pending (`Ended`) |
| `StreamedCommands_proofs!NewStepsAreHeldBack` | a new step waits for all results | an action property from `RunInv`: only `Schedule` with nothing running starts a command above the active step, which is the step of a command that was started (`ActiveIsStarted`). That a lowest pending step exists is lemma `Lowest`, by well-foundedness of finite sets |
| `StreamedCommands_proofs!SomebodyCanGoOn` | while the caller waits, some guard holds | `WorkInv`: the thread sleeps past the end of the stream only for a running command (`PollWaits`); a locking command lacks a lock and a releasing one has one (`Placed`); a locked workspace has a holder (`WriterHolds`), which has all its locks. So a command that cannot take its next lock waits for one that can go on (`WorkGoesOn`) |
| `SessionDbOwner_proofs!TypeCorrect` | types; who may have the child's lock | with `Probing`: which places probe, which hold the lock file |
| `SessionDbOwner_proofs!OneOwnerHolds` | two owners need a removed name | `Ownership`: owners hold the file they opened, exclusively, and until a name is removed all opened files are the one it stands for |
| `SessionFileQueue_proofs!TypeInvariant`, `TypeCorrect` | types | with `ItemParts`: the item a thread is at was accepted |
| `SessionFileQueue_proofs!WritesAreNeverLost` | no accepted write is lost | a file is removed only after its item was applied: the thread that removes has applied it |
| `SessionFileQueue_proofs!PrefixesAreApplied`, `ReplaysAreFresh` | with one drain thread and no error so far, a prefix of each producer's writes is applied, and no replay undoes a later write | `OrderInv`, until the first error: nothing is in `failed/`, an item is claimed or applied only once every earlier one of its producer is removed (`ClaimedInTurn`), and `processing/` holds only the item in hand or what the pass has still to recover, so a listing takes no item without the earlier ones (`PassInv`) |
| `SessionFileQueue_proofs!ImplementsDurableWrites` | the queue refines `DurableWrites` | `StepRefines`: one abstract action or a stutter for each step, from the invariants that a removed item was applied and only accepted ones have files |
| `SessionStore_proofs!TypeCorrect` | types | inductive as it stands |
| `SessionStore_proofs!IndexIsBacked` | listed sessions have rows | `RowWritten`: between an upsert's two writes the row is there unless deleted; `DeletesNamed`: deletes take only named rows |
| `SessionStore_proofs!WrittenStaysListed` | until a crash, what was written and not deleted is listed when no command is in flight | `ListedInv`: while nothing has crashed a row is listed or in the hands of the command that will list it, and reads that repair the index or a delete take out only deleted sessions |
| `SessionStore_proofs!ImplementsSessionCatalog` | the store refines `SessionCatalog` | `StepRefinesCatalog`: one abstract action or a stutter for each step, from `Backed`, the parts of `ListedInv` that also hold across crashes (what a read or sweep takes out of the index was deleted, `HealsDeleted`), and `Recovering` |
| `SessionStore_proofs!ListedAcrossCrashes` | a listed session keeps its place and its row until a delete names it | an action property that follows from the refinement and `IndexBackedByRow` |
| `SessionStore_proofs!RecoveryIsComplete` | nothing listed is running when serving starts | `Recovering`: until then only the main thread runs, and each listed session is still before it, in its hands, or not running |

Assumptions are the `ASSUME`s of the modules: constants are natural numbers or
sets of the expected shape, processes are not calls, the start-up thread is not
a worker, the idle time is at least two ticks, as the default of 60 s is four.
No finiteness is assumed except where a cardinality counts. Only
`PrefixesAreApplied` and `ReplaysAreFresh` assume more: a single drain thread
(`OneDrainer`), as the run that checks their properties has it. Two owners
break the order, and that two are possible is among the disagreements above.

Model-checked only: liveness under fairness (`AcceptedTurnEnds`, `Recovers`,
`DurableAndDrained`, `RunningIsInterrupted`, `IdleRouterExits`,
`SettlesFromBusy`), which the provers cannot do, and `NeverStuck`, which speaks
of enabledness. `SomebodyCanGoOn` is its counterpart for every value of the
constants: it names the guards of the actions, all of whose other conjuncts only
say what the next state is. `NoSlotIdles` is the part of `AcceptedTurnEnds` that
needs no fairness: no turn waits for a slot that nobody uses. Every other
property of a passing run is proved.

## Plan

The modules of the first plan are written. What is left, in order:

1. Queue and store composed: a writer that has both the socket and the queue,
   with the replay at start-up before the recovery pass. The order of direct and
   queued writes is the open question there (`gateway/src/session_log_writer.rs`
   22).
2. `RouterStart`: the gateway's `ensure_started`, which has no lock
   (`router_process.rs` 107), and the daemon's lock file, after the pattern of
   `SessionDbOwner`.
3. `RouterLifecycle` over `TurnSlots`: its abstract turn as a user of the slots,
   so that the idle decision is about the processes `RouterExecution` supervises.

Each part has one run that answers all its questions; a question a larger
instance also answers moves into that instance's run.

## Not modelled, and why

Provider calls, prompts, character budgets of contexts, protocol encodings,
configuration and paths are data conversion or external services without shared
state. User interfaces are clients of the modelled protocol. Shell execution,
the classification of commands and patch application are operating system calls
and text algorithms. The wall clock of a producer that is set back would reorder
queue items; the model takes clocks as monotonic. The SQL write queue has no
producer of pending rows in this version. `ensure_started` and the order of the
two write paths are in the plan above.

Most of the repository's lines are of these kinds (user interfaces, provider
clients, message projections, text assembly, tests inside modules), so the map,
which names only lines a definition translates, covers a small share of them;
what it covers is the control of the processes, their loops and their storage.
