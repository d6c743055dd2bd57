-------------------------- MODULE StreamedCommands --------------------------
(***************************************************************************)
(* One model call of a turn whose answer carries commands, from the stream *)
(* of the provider to the command processes of the router:                 *)
(*                                                                         *)
(*   - the caller (runtime/provider_flow/provider_streaming.rs) forwards   *)
(*     commands as the provider streams them, replays those of the final   *)
(*     answer, and gives up on a timeout, a failure or a cancelled run;    *)
(*   - the task thread (command_run_streaming.rs) starts them step by step *)
(*     and collects their results;                                         *)
(*   - each command is a request of its own to the router                  *)
(*     (router_command_run.rs, router/services/command_run.rs), where it   *)
(*     takes its file locks (tools/runtime/dispatch.rs) and executes.      *)
(*                                                                         *)
(* A "patch" takes the workspace lock and its failure halts the run; any   *)
(* other mutating command is like one that succeeds and is never           *)
(* discarded.  A "media" command takes shared locks on the paths it reads, *)
(* a "look" (a read-only shell line) takes none.                           *)
(***************************************************************************)
EXTENDS FileLocks, Sequences, FiniteSets

CONSTANTS NCommands,   \* commands of the provider's answer
          MaxStep,     \* bound: highest step number
          MaxFaults,   \* bound: timeouts, refused requests, failed checkpoints
          MediaLocks   \* the paths a media command reads, sorted

ASSUME BoundsAssumption ==
  /\ NCommands \in Nat \ {0} /\ MaxStep \in Nat \ {0} /\ MaxFaults \in Nat
  /\ MediaLocks \in Seq(Paths) /\ MediaLocks # <<>>

Commands == 1..NCommands
Steps    == 1..MaxStep
Kinds    == {"patch", "media", "look"}

VARIABLES
  kind, step,      \* what each command of the answer is: chosen by the model
  requireStartup,  \* the task type is not yet in effect: patches are discarded
  \* The caller
  turn,            \* streaming, joining the thread, or returned
  outcome,         \* what the runtime was marked
  output,          \* commands whose results the runtime's output shows
  sent,            \* how many commands the provider has streamed
  stream,          \* events the thread has not read
  streamOpen,      \* a sender is left
  \* The task thread
  stage,           \* drain completions, poll the stream, or finished
  receiverOpen, active, running, pending,
  known,           \* streamed_commands: started or queued, for the dedupe
  channel,         \* completions not yet drained
  results,         \* commands whose result is recorded
  cancelled, discarded, discardComplete,
  \* The router
  exec,            \* where the command's request is
  held,            \* how many of its locks it holds
  answer,          \* what the runtime was told of the command
  faults,
  runs             \* history: how often each command was started

constants   == <<kind, step, requireStartup>>
callerVars  == <<turn, outcome, output, sent, stream, streamOpen>>
threadVars  == <<stage, receiverOpen, active, running, pending, known, results,
                 cancelled, discarded, discardComplete>>
routerVars  == <<exec, held, locks>>
sharedVars  == <<channel, answer, faults, runs>>
vars == <<constants, callerVars, threadVars, routerVars, sharedVars>>

Init ==
  /\ kind \in [Commands -> Kinds] /\ step \in [Commands -> Steps]
  /\ requireStartup \in BOOLEAN
  /\ turn = "streaming" /\ outcome = "none" /\ output = {}
  /\ sent = 0 /\ stream = <<>> /\ streamOpen = TRUE
  /\ stage = "drain" /\ receiverOpen = TRUE /\ active = 0 /\ running = 0
  /\ pending = {} /\ known = {} /\ channel = <<>> /\ results = {}
  /\ cancelled = FALSE /\ discarded = FALSE /\ discardComplete = FALSE
  /\ exec = [c \in Commands |-> "none"]
  /\ held = [c \in Commands |-> 0]
  /\ answer = [c \in Commands |-> "none"]
  /\ faults = 0 /\ runs = [c \in Commands |-> 0]
  /\ LocksInit

Fault == faults < MaxFaults /\ faults' = faults + 1

-----------------------------------------------------------------------------
(* The caller: call_runtime_streaming.                                     *)

\* The provider streams the next command of its answer.
StreamCommand ==
  /\ turn = "streaming" /\ sent < NCommands
  /\ sent' = sent + 1
  /\ stream' = Append(stream, sent + 1)
  /\ UNCHANGED <<constants, turn, outcome, output, streamOpen, threadVars, routerVars, sharedVars>>

\* The caller is done with the provider: it drops its senders and joins.
Leave(result, shown) ==
  /\ turn = "streaming" /\ turn' = "joining"
  /\ outcome' = result /\ output' = shown
  /\ streamOpen' = FALSE
  /\ UNCHANGED <<constants, sent, threadVars, routerVars, sharedVars>>

\* The answer is complete: every command in it is sent again.
ProviderAnswers ==
  /\ Leave("success", {})
  /\ stream' = stream \o [c \in Commands |-> c]

\* A timeout or a provider error: the turn is marked failed, then joined.
ProviderFails == Leave("failed", {}) /\ UNCHANGED stream

\* The 250 ms tick sees a cancelled run, or patches discarded at startup.
CancelTick  == cancelled /\ results # {} /\ Leave("cancelled", results) /\ UNCHANGED stream
DiscardTick == discardComplete /\ Leave("discarded", results) /\ UNCHANGED stream

Join ==
  /\ turn = "joining" /\ stage = "finished" /\ turn' = "returned"
  /\ output' = IF outcome = "success" THEN results ELSE output
  /\ UNCHANGED <<constants, outcome, sent, stream, streamOpen, threadVars, routerVars, sharedVars>>

Caller == StreamCommand \/ ProviderAnswers \/ ProviderFails \/ CancelTick \/ DiscardTick \/ Join

-----------------------------------------------------------------------------
(* The task thread: spawn_streamed_command_run_task.                       *)

\* start_stream_command for each of S: a thread of its own asks the router.
Start(S) ==
  /\ running' = running + Cardinality(S)
  /\ exec' = [c \in Commands |-> IF c \in S THEN "locking" ELSE exec[c]]
  /\ runs' = [c \in Commands |-> IF c \in S THEN runs[c] + 1 ELSE runs[c]]
  /\ UNCHANGED <<held, locks>>

\* A poll that times out is one with nothing to read: it only matters when a
\* completion has come in.
MayTake == stage = "drain" \/ ~receiverOpen \/ (stream = <<>> /\ streamOpen)

\* A failed patch or checkpoint cancels the run.
Cancels(c) == answer[c] = "halted"

\* MUTANT of TakeCompletion: a completion is counted twice.
TakeTwice ==
  /\ channel # <<>> /\ MayTake
  /\ stage' = "drain"
  /\ channel' = Tail(channel)
  /\ running' = running - 2
  /\ results' = results \cup {Head(channel)}
  /\ cancelled' = (cancelled \/ Cancels(Head(channel)))
  /\ UNCHANGED <<constants, callerVars, receiverOpen, active, pending, known,
                 discarded, discardComplete, routerVars, answer, faults, runs>>

\* One completion is recorded.
TakeCompletion ==
  /\ channel # <<>> /\ MayTake
  /\ stage' = "drain"
  /\ channel' = Tail(channel)
  /\ running' = running - 1
  /\ results' = results \cup {Head(channel)}
  /\ \/ cancelled' = (cancelled \/ Cancels(Head(channel))) /\ UNCHANGED faults
     \/ Fault /\ cancelled' = TRUE
  /\ UNCHANGED <<constants, callerVars, receiverOpen, active, pending, known,
                 discarded, discardComplete, routerVars, answer, runs>>

StopAccepting == cancelled \/ discarded

StillPending == IF StopAccepting THEN {} ELSE pending

\* start_ready_stream_commands: with nothing running, the lowest pending step
\* becomes the active one.
NextStep ==
  IF running = 0 /\ StillPending # {}
    THEN LET low == CHOOSE n \in Steps : /\ \E c \in StillPending : step[c] = n
                                         /\ \A c \in StillPending : n <= step[c]
         IN  IF active >= low THEN active ELSE low
    ELSE active

\* MUTANT of Ready: the running commands are not waited for.
ReadyAtOnce == {c \in StillPending : step[c] <= active + 1}

Ready == IF running = 0 THEN {c \in StillPending : step[c] <= NextStep} ELSE {}

\* MUTANT of Finished: commands that still run are not waited for.
FinishedEarly == ~receiverOpen /\ StillPending = {}

Finished == ~(receiverOpen /\ ~StopAccepting) /\ running = 0 /\ StillPending = {}

\* No completion is waiting: schedule, and leave the loop or poll the stream.
Schedule ==
  /\ stage = "drain" /\ channel = <<>>
  /\ receiverOpen' = (receiverOpen /\ ~StopAccepting)
  /\ pending' = StillPending \ Ready
  /\ active' = NextStep
  /\ Start(Ready)
  /\ stage' = IF Finished THEN "finished" ELSE "poll"
  /\ discardComplete' = (Finished /\ discarded /\ ~cancelled)
  /\ UNCHANGED <<constants, callerVars, known, results, cancelled, discarded, channel, answer, faults>>

\* prepare_stream_command: a command seen before is dropped, a patch before the
\* startup task type is discarded, any other is known from now on.
Discards(c) == requireStartup /\ kind[c] = "patch"

\* MUTANT of Fresh: the replay of the final answer is not recognised.
FreshAlways(c) == ~Discards(c)

Fresh(c) == c \notin known /\ ~Discards(c)

\* enqueue_or_start_stream_command.
StartsNow(c) == active = 0 \/ step[c] <= active

ReadEvent ==
  /\ stage = "poll" /\ receiverOpen /\ stream # <<>>
  /\ stream' = Tail(stream) /\ stage' = "drain"
  /\ LET c == Head(stream)
         now == Fresh(c) /\ StartsNow(c)
     IN  /\ discarded' = (discarded \/ (c \notin known /\ Discards(c)))
         /\ known' = IF Fresh(c) THEN known \cup {c} ELSE known
         /\ pending' = IF Fresh(c) /\ ~now THEN pending \cup {c} ELSE pending
         /\ active' = IF now /\ active = 0 THEN step[c] ELSE active
         /\ Start(IF now THEN {c} ELSE {})
  /\ UNCHANGED <<constants, turn, outcome, output, sent, streamOpen, receiverOpen, results,
                 cancelled, discardComplete, channel, answer, faults>>

StreamCloses ==
  /\ stage = "poll" /\ receiverOpen /\ stream = <<>> /\ ~streamOpen
  /\ stage' = "drain" /\ receiverOpen' = FALSE
  /\ UNCHANGED <<constants, callerVars, active, running, pending, known, results, cancelled,
                 discarded, discardComplete, routerVars, sharedVars>>

Thread == TakeCompletion \/ Schedule \/ ReadEvent \/ StreamCloses

-----------------------------------------------------------------------------
(* The router: dispatch_handler for the command of one request.            *)

Mutating(c) == kind[c] = "patch"

\* The accesses of the command's handler as lock requests.
LocksOf(c) ==
  CASE Mutating(c)       -> << <<Workspace, "write">> >>
    [] kind[c] = "media" -> [i \in DOMAIN MediaLocks |-> <<MediaLocks[i], "read">>]
    [] OTHER             -> <<>>

\* The next lock in order; with the last one the command executes.
TakeLock(c) ==
  /\ exec[c] = "locking" /\ held[c] < Len(LocksOf(c))
  /\ LET lock == LocksOf(c)[held[c] + 1] IN Acquire(lock[1], lock[2])
  /\ held' = [held EXCEPT ![c] = @ + 1]
  /\ exec' = [exec EXCEPT ![c] = IF held'[c] = Len(LocksOf(c)) THEN "executing" ELSE @]
  /\ UNCHANGED <<constants, callerVars, threadVars, sharedVars>>

ExecuteUnlocked(c) ==
  /\ exec[c] = "locking" /\ LocksOf(c) = <<>>
  /\ exec' = [exec EXCEPT ![c] = "executing"]
  /\ UNCHANGED <<constants, callerVars, threadVars, held, locks, sharedVars>>

\* The command's thread hears of the result and passes it to the task thread;
\* only a failed patch halts.
Tell(c, told) ==
  /\ answer' = [answer EXCEPT ![c] = told]
  /\ channel' = Append(channel, c)

Respond(c) ==
  /\ exec' = [exec EXCEPT ![c] = "ended"]
  /\ IF answer[c] = "none"
       THEN Tell(c, "told") \/ (Mutating(c) /\ Tell(c, "halted"))
       ELSE UNCHANGED <<answer, channel>>

\* The guard is dropped, its locks in reverse order, and the router answers.
DropLock(c) ==
  /\ exec[c] \in {"executing", "releasing"} /\ held[c] > 0
  /\ LET lock == LocksOf(c)[held[c]] IN Release(lock[1], lock[2])
  /\ held' = [held EXCEPT ![c] = @ - 1]
  /\ IF held[c] > 1 THEN exec' = [exec EXCEPT ![c] = "releasing"] /\ UNCHANGED <<answer, channel>>
                    ELSE Respond(c)
  /\ UNCHANGED <<constants, callerVars, threadVars, faults, runs>>

CompleteUnlocked(c) ==
  /\ exec[c] = "executing" /\ held[c] = 0
  /\ Respond(c)
  /\ UNCHANGED <<constants, callerVars, threadVars, held, locks, faults, runs>>

\* What is recorded of a command the router did not answer.
Failure(c) == Tell(c, IF Mutating(c) THEN "halted" ELSE "told")

\* The router cannot be reached.
Refuse(c) ==
  /\ exec[c] = "locking" /\ held[c] = 0 /\ answer[c] = "none"
  /\ Fault
  /\ exec' = [exec EXCEPT ![c] = "ended"]
  /\ Failure(c)
  /\ UNCHANGED <<constants, callerVars, threadVars, held, locks, runs>>

\* The runtime's deadline passes or the connection breaks: a failure is
\* recorded, while the router goes on with the command.
GiveUp(c) ==
  /\ exec[c] \in {"locking", "executing", "releasing"} /\ answer[c] = "none"
  /\ Fault
  /\ Failure(c)
  /\ UNCHANGED <<constants, callerVars, threadVars, routerVars, runs>>

Router(c) == TakeLock(c) \/ ExecuteUnlocked(c) \/ DropLock(c) \/ CompleteUnlocked(c)

Next == Caller \/ Thread \/ \E c \in Commands : Router(c) \/ Refuse(c) \/ GiveUp(c)

Spec == Init /\ [][Next]_vars

-----------------------------------------------------------------------------
(* Properties.                                                             *)

TypeOK ==
  /\ kind \in [Commands -> Kinds] /\ step \in [Commands -> Steps]
  /\ requireStartup \in BOOLEAN
  /\ turn \in {"streaming", "joining", "returned"}
  /\ outcome \in {"none", "success", "failed", "cancelled", "discarded"}
  /\ output \subseteq Commands /\ sent \in 0..NCommands
  /\ stream \in Seq(Commands) /\ streamOpen \in BOOLEAN
  /\ stage \in {"drain", "poll", "finished"} /\ receiverOpen \in BOOLEAN
  /\ active \in 0..MaxStep /\ running \in 0..NCommands
  /\ pending \subseteq Commands /\ known \subseteq Commands
  /\ channel \in Seq(Commands) /\ results \subseteq Commands
  /\ cancelled \in BOOLEAN /\ discarded \in BOOLEAN /\ discardComplete \in BOOLEAN
  /\ exec \in [Commands -> {"none", "locking", "executing", "releasing", "ended"}]
  /\ held \in [Commands -> Nat] /\ answer \in [Commands -> {"none", "told", "halted"}]
  /\ readers \in [Keys -> Nat] /\ writers \subseteq Keys
  /\ faults \in 0..MaxFaults /\ runs \in [Commands -> Nat]

Executing(c) == exec[c] = "executing"

\* What a workspace lock promises: while a mutating command of the session
\* executes, no other mutating command and no reader of locked paths does,
\* also when the runtime has long given up on it.
MutatorsExclude ==
  \A c, d \in Commands :
    c # d /\ Mutating(c) /\ Executing(c) /\ Executing(d) => kind[d] = "look"

\* The replay of the final answer never runs a command twice, and a call that
\* succeeds has run and recorded every command of the answer, unless the run
\* was cancelled or patches were discarded.
RunsExactlyOnce ==
  /\ \A c \in Commands : runs[c] <= 1
  /\ turn = "returned" /\ outcome = "success" /\ ~cancelled /\ ~discarded
       => output = Commands

\* A command of a step above every step started so far waits for all results.
\* One of the current step or of a lower one need not: of commands of the steps
\* 2, 1, 2 the third starts beside the second.
NewStepsWait ==
  [][\A c \in Commands :
       runs'[c] > runs[c] /\ (\A d \in Commands : runs[d] > 0 => step[d] < step[c])
         => \A d \in Commands : runs[d] > 0 => d \in results]_vars

\* When the call returns, whatever became of the provider, none of its commands
\* is left executing, unless the runtime gave up on a command.
QuietAfterReturn ==
  turn = "returned" /\ faults = 0 => \A c \in Commands : exec[c] \in {"none", "ended"}

\* Nobody waits for everybody: until the call has returned, the thread, a
\* command at the router or the caller itself can go on.
NeverStuck ==
  turn = "joining" => ENABLED (Thread \/ Join \/ \E c \in Commands : Router(c))

\* Divergence: "mutating commands act as barriers".  A read-only shell line of
\* the same step takes no lock and runs beside a mutating command.
MutatorsAreBarriers ==
  \A c, d \in Commands : c # d /\ Mutating(c) /\ Executing(c) => ~Executing(d)
=============================================================================
