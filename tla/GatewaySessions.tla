--------------------------- MODULE GatewaySessions ---------------------------
(***************************************************************************)
(* One session in the gateway: the state it keeps in memory, the prompts   *)
(* that become turns or follow-up commands, the probe of busy sessions and *)
(* the refresh from session_db.                                            *)
(*                                                                         *)
(*   - a prompt's handler and thread (gateway/src/api/session_prompt.rs)   *)
(*     mark the session busy, send execution.enqueue_turn and wait for its *)
(*     answer, or append the prompt to the router's user commands;         *)
(*   - the router accepts a turn when its table has none of the session,   *)
(*     refuses it or answers with an error otherwise, and keeps the user   *)
(*     commands (router/services/execution.rs, user_commands.rs);          *)
(*   - a turn's runtime takes user commands before a provider call and     *)
(*     writes the session's state to session_db; an abort removes the      *)
(*     turn from the table first and stops its runtime later;              *)
(*   - a list request probes a busy session (gateway/src/api/session.rs);  *)
(*   - readers overwrite memory with what session_db has                   *)
(*     (gateway/src/session/store.rs).                                     *)
(*                                                                         *)
(* RouterExecution has the turns in detail. A run is one accepted call of  *)
(* enqueue_turn: a prompt, and whether the call was its second.            *)
(***************************************************************************)
EXTENDS Naturals, FiniteSets

CONSTANTS Prompts,    \* messages a user or the scheduler submits
          Readers,    \* threads that refresh the session from session_db
          Probers,    \* list requests in progress
          None,       \* no turn
          MaxFaults,  \* bound: lost calls, failed probes, router restarts
          MaxBeside   \* bound: runs beside a turn when it is aborted

Runs == Prompts \X BOOLEAN

ASSUME ConstantsAssumption == None \notin Runs /\ MaxFaults \in Nat /\ MaxBeside \in Nat

States   == {"created", "running", "paused", "completed", "failed", "cancelled", "interrupted"}
Terminal == {"failed", "cancelled", "interrupted"}
Statuses == {"idle", "busy", "error"}

VARIABLES
  mem,            \* SessionInfo.management.state
  refreshNeeded,  \* session_db_refresh_needed
  pc,             \* where a prompt's handler or thread is
  resent,         \* prompts whose enqueue_turn was sent a second time
  turn,           \* the run the router's table has an entry for
  phase,          \* how far each run is
  queue,          \* the router's user commands of the session
  db,             \* the session's state in session_db
  snapshot,       \* what a reader has read
  probe,          \* how far a list request is
  served,         \* history: how often a prompt became a turn or was taken by a runtime
  rejected,       \* history: prompts whose enqueue_turn was answered with an error
  seen,           \* history: the turn there was when a list request began, unless a call was lost
  faults

handlers == <<mem, refreshNeeded, pc, resent>>
router   == <<turn, phase, queue, db>>
others   == <<snapshot, probe, seen>>
history  == <<served, rejected>>
vars     == <<handlers, router, others, history, faults>>

Init ==
  /\ mem = "created" /\ refreshNeeded = FALSE
  /\ pc = [p \in Prompts |-> "new"] /\ resent = {}
  /\ turn = None /\ phase = [r \in Runs |-> "none"]
  /\ queue = {} /\ db = "absent"
  /\ snapshot = [r \in Readers |-> "none"]
  /\ probe = [l \in Probers |-> "idle"]
  /\ seen = [l \in Probers |-> None]
  /\ served = [p \in Prompts |-> 0] /\ rejected = {} /\ faults = 0

Fault == faults < MaxFaults /\ faults' = faults + 1

-----------------------------------------------------------------------------
(* The session's state in memory.                                          *)

CanTransition(from, to) ==
  \/ <<from, to>> \in {"created"} \X {"running", "cancelled"}
  \/ <<from, to>> \in {"running"} \X {"paused", "completed", "failed", "cancelled", "interrupted"}
  \/ <<from, to>> \in {"paused"} \X {"running", "cancelled", "failed", "interrupted"}
  \/ <<from, to>> \in {"completed"} \X {"created", "running"}
  \/ from = to /\ from \notin Terminal

\* from_state: what the API shows.
Shown(state) ==
  CASE state \in {"created", "completed"} -> "idle"
    [] state \in {"running", "paused"}    -> "busy"
    [] OTHER                              -> "error"

\* The state a status stands for.
Target(status) ==
  CASE status = "busy"  -> "running"
    [] status = "error" -> "failed"
    [] mem \in {"created", "completed"} -> "created"
    [] mem \in {"running", "paused"}    -> "completed"
    [] OTHER                            -> mem

\* update_session_status: a transition the table forbids is only logged.
UpdateStatus(status) ==
  /\ mem' = IF CanTransition(mem, Target(status)) THEN Target(status) ELSE mem
  /\ refreshNeeded' = (refreshNeeded \/ status # "busy")

-----------------------------------------------------------------------------
(* A prompt: prompt_async, send_message, the task scheduler, and           *)
(* run_mano_for_prompt.                                                    *)

Goto(p, place) == pc' = [pc EXCEPT ![p] = place]

\* prompt_async reads the session: a busy one gets a follow-up command.
PromptAsync(p) ==
  /\ pc[p] = "new"
  /\ Goto(p, IF Shown(mem) = "busy" THEN "follow" ELSE "checked")
  /\ UNCHANGED <<mem, refreshNeeded, resent, router, others, history, faults>>

\* Later it marks the session busy and hands the prompt to a thread.
HandOff(p) ==
  /\ pc[p] = "checked"
  /\ UpdateStatus("busy") /\ Goto(p, "handed")
  /\ UNCHANGED <<resent, router, others, history, faults>>

\* send_message does so without asking.
SendMessage(p) ==
  /\ pc[p] = "new"
  /\ UpdateStatus("busy") /\ Goto(p, "handed")
  /\ UNCHANGED <<resent, router, others, history, faults>>

\* claim_due_task_runs: check and claim under one lock.
ClaimTask(p) ==
  /\ pc[p] = "new" /\ Shown(mem) = "idle"
  /\ mem' = "running" /\ Goto(p, "handed")
  /\ UNCHANGED <<refreshNeeded, resent, router, others, history, faults>>

\* The call of a prompt, the first or the second.
Call(p) == <<p, p \in resent>>

Accept(p) ==
  /\ turn = None
  /\ turn' = Call(p) /\ phase' = [phase EXCEPT ![Call(p)] = "queued"]
  /\ served' = [served EXCEPT ![p] = @ + 1]
  /\ Goto(p, "waiting") /\ UNCHANGED rejected

\* The router's queue is full, or the router cannot be reached or started.
Reject(p) ==
  /\ rejected' = rejected \cup {p}
  /\ Goto(p, "failed") /\ UNCHANGED <<turn, phase, served>>

\* MUTANT of EnqueueTurn: a refused turn counts as dispatched.
EnqueueOrDrop(p) ==
  /\ pc[p] = "handed"
  /\ \/ Accept(p) \/ Reject(p)
     \/ turn # None /\ Goto(p, "ended") /\ UNCHANGED <<turn, phase, history>>
  /\ UNCHANGED <<mem, refreshNeeded, resent, queue, db, others, faults>>

\* enqueue_turn: the router accepts the turn, has one of the session already,
\* or there is an error instead.
EnqueueTurn(p) ==
  /\ pc[p] = "handed"
  /\ \/ Accept(p) \/ Reject(p)
     \/ turn # None /\ Goto(p, "refused") /\ UNCHANGED <<turn, phase, history>>
  /\ UNCHANGED <<mem, refreshNeeded, resent, queue, db, others, faults>>

\* MUTANT of SendAgain: a call is sent again as often as it breaks.
SendAlways(p) ==
  /\ Goto(p, "handed") /\ resent' = resent \cup {p}
  /\ UNCHANGED <<mem, refreshNeeded, router, others, history>>

\* A call that broke is sent once more, then it is an error.
SendAgain(p) ==
  /\ Goto(p, IF p \in resent THEN "failed" ELSE "handed")
  /\ resent' = resent \cup {p}
  /\ UNCHANGED <<mem, refreshNeeded, router, others, history>>

\* The connection breaks. What the router does with the turn is its own affair.
LoseCall(p) == pc[p] = "waiting" /\ Fault /\ SendAgain(p)

\* The router died with the call.
FindRouterGone(p) ==
  /\ pc[p] = "waiting" /\ phase[Call(p)] = "none"
  /\ SendAgain(p) /\ UNCHANGED faults

\* append_user_command_for_runtime: a call that fails is only logged.
AppendCommand(p) ==
  /\ pc[p] \in {"follow", "refused"}
  /\ Goto(p, IF pc[p] = "refused" THEN "appended" ELSE "done")
  /\ \/ queue' = queue \cup {p} /\ UNCHANGED faults
     \/ Fault /\ UNCHANGED queue
  /\ UNCHANGED <<mem, refreshNeeded, resent, turn, phase, db, others, history>>

\* The status the outcome of the call stands for.
StatusAfter(end) ==
  CASE end = "ended"    -> "idle"
    [] end = "appended" -> "busy"
    [] OTHER            -> "error"

Finish(p) ==
  /\ pc[p] \in {"ended", "failed", "appended"}
  /\ UpdateStatus(StatusAfter(pc[p])) /\ Goto(p, "done")
  /\ UNCHANGED <<resent, router, others, history, faults>>

Handler(p) == HandOff(p) \/ EnqueueTurn(p) \/ FindRouterGone(p) \/ AppendCommand(p) \/ Finish(p)
Submit(p)  == PromptAsync(p) \/ SendMessage(p) \/ ClaimTask(p)

-----------------------------------------------------------------------------
(* The turns at the router and their runtimes.                             *)

\* A run is over, however it came to that: whatever entry the table has of the
\* session is removed, and the caller that still waits hears the result.
EndTurn(r, result) ==
  /\ turn' = None /\ phase' = [phase EXCEPT ![r] = "none"]
  /\ IF pc[r[1]] = "waiting" /\ Call(r[1]) = r THEN Goto(r[1], result) ELSE UNCHANGED pc
  /\ UNCHANGED <<mem, refreshNeeded, resent, queue, db, others, history, faults>>

\* A run that gets its slot starts if the table has an entry of the session.
\* Its runtime prepares the session and writes it as running.
StartRuntime(r) ==
  /\ phase[r] = "queued" /\ turn # None
  /\ phase' = [phase EXCEPT ![r] = "working"] /\ db' = "running"
  /\ UNCHANGED <<handlers, turn, queue, others, history, faults>>

FindNoEntry(r) == phase[r] = "queued" /\ turn = None /\ EndTurn(r, "failed")

\* Before a provider call the runtime takes what is queued.  If the answer
\* misses its 100 ms, the commands are gone.
TakeCommands(r) ==
  /\ phase[r] = "working" /\ queue # {}
  /\ queue' = {}
  /\ \/ /\ served' = [p \in Prompts |-> IF p \in queue THEN served[p] + 1 ELSE served[p]]
        /\ UNCHANGED faults
     \/ Fault /\ UNCHANGED served
  /\ UNCHANGED <<handlers, turn, phase, db, others, rejected>>

\* The last checkpoint of the turn.
FinishRuntime(r) ==
  /\ phase[r] = "working"
  /\ \E end \in {"completed", "failed"} :
        phase' = [phase EXCEPT ![r] = end] /\ db' = end
  /\ UNCHANGED <<handlers, turn, queue, others, history, faults>>

Answer(r) ==
  \/ phase[r] = "completed" /\ EndTurn(r, "ended")
  \/ phase[r] = "failed" /\ EndTurn(r, "failed")

\* abort_session and cancel_turn: first the entry is removed. The run goes on
\* until its worker is stopped, maybe beside the next one.
Abort ==
  /\ turn # None /\ turn' = None
  /\ Cardinality({r \in Runs \ {turn} : phase[r] # "none"}) <= MaxBeside
  /\ UNCHANGED <<handlers, phase, queue, db, others, history, faults>>

\* The runtime crashes, the payload was invalid, or the worker of an aborted
\* turn is stopped, which is no failure: nobody writes its end to session_db.
Kill(r) ==
  /\ phase[r] # "none"
  /\ EndTurn(r, "failed") \/ (r # turn /\ EndTurn(r, "ended"))

\* The router dies, or exits when idle, and with it its turns and its queue.
\* After a call was sent again that is no longer counted against the bound.
RestartRouter ==
  /\ queue # {} \/ \E r \in Runs : phase[r] # "none"
  /\ Fault \/ (resent # {} /\ UNCHANGED faults)
  /\ turn' = None /\ phase' = [r \in Runs |-> "none"] /\ queue' = {}
  /\ UNCHANGED <<handlers, db, others, history>>

Runtime(r) == StartRuntime(r) \/ FindNoEntry(r) \/ FinishRuntime(r) \/ Answer(r)

-----------------------------------------------------------------------------
(* list_sessions: refresh_busy_session_liveness.                           *)

SetProbe(l, place, found) ==
  probe' = [probe EXCEPT ![l] = place] /\ seen' = [seen EXCEPT ![l] = found]

List(l) ==
  /\ probe[l] = "idle" /\ Shown(mem) = "busy"
  /\ SetProbe(l, "listed", IF faults = 0 THEN turn ELSE None)
  /\ UNCHANGED <<handlers, router, snapshot, history, faults>>

\* A run that has a runtime.
Works(r) == phase[r] \in {"working", "completed", "failed"}

\* MUTANT of Reported: a turn that waits for its slot is not reported.
RunningOnly == \E r \in Runs : Works(r)

\* MUTANT of Reported: commands that wait for a turn count as one that is queued.
ReportedOrQueued == turn # None \/ queue # {}

\* probe_sessions: what the router reports as active, queued or running.
Reported == turn # None

\* A runtime without an entry is reported while its worker is registered.  A
\* probe that fails counts like one that finds nothing.
AskRouter(l) ==
  /\ probe[l] = "listed"
  /\ \/ Reported /\ SetProbe(l, "idle", None) /\ UNCHANGED faults
     \/ (\E r \in Runs : Works(r)) /\ SetProbe(l, "idle", None) /\ UNCHANGED faults
     \/ ~Reported /\ SetProbe(l, "absent", seen[l]) /\ UNCHANGED faults
     \/ Fault /\ SetProbe(l, "absent", seen[l])
  /\ UNCHANGED <<handlers, router, snapshot, history>>

\* mark_interrupted; the router's queue is left as it is.
MarkMemory(l) ==
  /\ probe[l] = "absent" /\ SetProbe(l, "marked", None)
  /\ mem' = IF mem \in Terminal THEN mem ELSE "interrupted"
  /\ UNCHANGED <<refreshNeeded, pc, resent, router, snapshot, history, faults>>

\* The command MarkSessionInterrupted changes a running or paused row only.
MarkDb(l) ==
  /\ probe[l] = "marked" /\ SetProbe(l, "idle", None)
  /\ db' = IF Shown(db) = "busy" THEN "interrupted" ELSE db
  /\ UNCHANGED <<handlers, turn, phase, queue, snapshot, history, faults>>

Probe(l) == List(l) \/ AskRouter(l) \/ MarkMemory(l) \/ MarkDb(l)

-----------------------------------------------------------------------------
(* refresh_session_db_cache, for a front that reads messages after a turn  *)
(* and for a runtime's message that a provider call has ended.             *)

ReadDb(r) ==
  /\ snapshot[r] = "none"
  /\ refreshNeeded \/ \E t \in Runs : Works(t)
  /\ snapshot' = [snapshot EXCEPT ![r] = db]
  /\ UNCHANGED <<handlers, router, probe, seen, history, faults>>

\* MUTANT of ApplySnapshot: a session that session_db does not have is no case.
ApplyAnything(r) ==
  /\ snapshot[r] # "none" /\ snapshot' = [snapshot EXCEPT ![r] = "none"]
  /\ mem' = snapshot[r]
  /\ refreshNeeded' = FALSE
  /\ UNCHANGED <<pc, resent, router, probe, seen, history, faults>>

\* The snapshot replaces the session in memory, however old it is by now.
ApplySnapshot(r) ==
  /\ snapshot[r] # "none" /\ snapshot' = [snapshot EXCEPT ![r] = "none"]
  /\ mem' = IF snapshot[r] = "absent" THEN mem ELSE snapshot[r]
  /\ refreshNeeded' = FALSE
  /\ UNCHANGED <<pc, resent, router, probe, seen, history, faults>>

Next ==
  \/ \E p \in Prompts : Submit(p) \/ Handler(p) \/ LoseCall(p)
  \/ \E r \in Runs : Runtime(r) \/ TakeCommands(r) \/ Kill(r)
  \/ Abort \/ RestartRouter
  \/ \E l \in Probers : Probe(l)
  \/ \E r \in Readers : ReadDb(r) \/ ApplySnapshot(r)

\* Threads go on, a turn ends, and a front that shows sessions keeps listing
\* them.  Nobody has to submit, read or abort.
Fairness ==
  /\ \A p \in Prompts : WF_vars(Handler(p))
  /\ \A r \in Runs : WF_vars(Runtime(r))
  /\ \A l \in Probers : WF_vars(Probe(l))
  /\ \A r \in Readers : WF_vars(ApplySnapshot(r))

Spec     == Init /\ [][Next]_vars
FairSpec == Spec /\ Fairness

-----------------------------------------------------------------------------
(* Properties.                                                             *)

Places == {"new", "checked", "follow", "handed", "waiting", "refused", "appended",
           "ended", "failed", "done"}

TypeOK ==
  /\ mem \in States /\ refreshNeeded \in BOOLEAN
  /\ pc \in [Prompts -> Places] /\ resent \subseteq Prompts
  /\ turn \in Runs \cup {None} /\ queue \subseteq Prompts
  /\ phase \in [Runs -> {"none", "queued", "working", "completed", "failed"}]
  /\ db \in States \cup {"absent"}
  /\ snapshot \in [Readers -> States \cup {"absent", "none"}]
  /\ probe \in [Probers -> {"idle", "listed", "absent", "marked"}]
  /\ served \in [Prompts -> Nat] /\ rejected \subseteq Prompts
  /\ seen \in [Probers -> Runs \cup {None}]
  /\ faults \in 0..MaxFaults

\* Prompts whose handler has still to bring them to the router.
Due == {p \in Prompts : pc[p] \in {"new", "checked", "follow", "handed", "refused"}}

\* How often a prompt became or will become a turn, or was or will be taken by a
\* runtime, as far as is settled.
Dues(p) == served[p] + (IF p \in queue THEN 1 ELSE 0) + (IF p \in Due THEN 1 ELSE 0)

\* Unless a call is lost, a prompt either becomes exactly one turn or is kept
\* exactly once as a follow-up for the runtimes, or its call was answered with
\* an error and then it is neither: two prompts that both found the session
\* idle, a turn that ends or is aborted meanwhile and a probe in between do not
\* change that.
PromptsAreKept ==
  faults = 0 => \A p \in Prompts : Dues(p) = IF p \in rejected THEN 0 ELSE 1

\* A probe that the router answers never interrupts a session whose turn has
\* been active since the session was listed, whatever the turn did meanwhile.
LiveTurnsAreNotInterrupted ==
  faults = 0 =>
    \A l \in Probers : probe[l] = "absent" /\ turn # None => turn # seen[l]

\* What is promised for the prompts of the session is kept: each becomes a turn,
\* is kept for the runtimes or is answered with an error, again only if its call
\* was lost and then once more at most; without a lost call nothing is dropped
\* in silence; no turn is accepted while the table has one.
Promise == INSTANCE PromptDelivery
             WITH due <- Due, kept <- queue, open <- turn # None, worked <- served,
                  repeated <- resent, lost <- faults > 0

PromptDeliverySpec == Promise!Spec

\* When no more prompts come, a session does not stay busy: turns that were
\* killed, prompts that came too late for a turn and readers that bring back an
\* old state are settled by the probe.
SettlesFromBusy == <>[](Shown(mem) # "busy")
=============================================================================
