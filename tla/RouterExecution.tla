--------------------------- MODULE RouterExecution ---------------------------
(***************************************************************************)
(* Execution supervision in the router daemon: the per-session turn table, *)
(* the runtime slots (a FIFO semaphore), the registry of one-shot runtime  *)
(* workers and the runtime child processes, with turns, cancellations,     *)
(* kill-all requests, disconnects and probes interleaved at every point    *)
(* where the code drops a lock or awaits.                                  *)
(*   services/execution.rs   turn table, slots, guard, cancel, kill, probe *)
(*   runtime_dispatch.rs     dispatch of one turn, worker cleanup guard    *)
(*   services/manager.rs     workers and service_to_worker                 *)
(*   services/worker_process.rs  one-shot child, cancel flag, scope        *)
(* A turn is one execution.enqueue_turn request.  It starts at most one    *)
(* worker, so the worker's uuid is the turn itself.                        *)
(***************************************************************************)
EXTENDS Naturals, Sequences, FiniteSets

CONSTANTS Sessions,      \* session ids
          Turns,         \* enqueue_turn requests
          Cancellers,    \* cancel_turn / kill_session_workers / disconnects
          NoTurn,        \* "no worker id"
          SessionOf,     \* the session a request names
          MaxActive,     \* MAX_ACTIVE_RUNTIME_WORKERS
          MaxQueued      \* MAX_QUEUED_RUNTIME_TURNS

ASSUME SessionOfAssumption == SessionOf \in [Turns -> Sessions]
ASSUME NoTurnAssumption    == NoTurn \notin Turns
ASSUME TurnsFinite         == IsFiniteSet(Turns)
ASSUME LimitsAssumption    == MaxActive \in Nat \ {0} /\ MaxQueued \in Nat \ {0}

VARIABLES
  sessions,           \* ExecutionService.sessions; "absent" = no key
  permits,            \* free permits of runtime_slots
  waitq,              \* tasks parked in runtime_slots.acquire_owned, FIFO
  pc,                 \* where the task of a turn is
  seen,               \* the worker id a task read in worker_alive_by_key
  service_to_worker,  \* ServiceManager.service_to_worker, by session
  workers,            \* ids in ServiceManager.workers
  cancel_flag,        \* workers whose one_shot_cancelled is set
  scope,              \* workers whose one_shot_process_scope is stored
  child,              \* turns whose runtime process is alive
  cleanup,            \* stop_worker tasks spawned by dropped cleanup guards
  cpc, ctarget,       \* the cancel requests: stage, what they target,
  cids, cstop,        \* worker ids still to stop, the one being stopped
  probe,              \* worker_alive_by_key of probe_sessions between its reads
  cancelled,          \* history: turns live when their session was cancelled
  disturbed           \* history: sessions ever cancelled or killed

turnVars   == <<sessions, permits, waitq, pc, seen>>
workerVars == <<service_to_worker, workers, cancel_flag, scope, child>>
cancelVars == <<cpc, ctarget, cids, cstop>>
history    == <<cancelled, disturbed>>
vars == <<turnVars, workerVars, cleanup, cancelVars, probe, history>>

Waiting  == {"waiting"}
Slotted  == {"granted", "dispatch", "alive", "ensure", "call", "invoke",
             "spawned", "scoped", "wait", "stopping", "returning"}
Invoking == {"spawned", "scoped", "wait"}
Terminal == {"rejected", "ended"}
Pcs == {"idle", "accepted", "unwinding"} \cup Waiting \cup Slotted \cup Terminal

\* A turn holds the session table's guard from acceptance to its drop.
Live(t)    == pc[t] \notin {"idle"} \cup Terminal
Holders    == {t \in Turns : pc[t] \in Slotted}
LiveOn(s)  == {t \in Turns : SessionOf[t] = s /\ Live(t)}
QueuedKeys == {s \in Sessions : sessions[s] = "Queued"}
At(t, from, to) == pc[t] = from /\ pc' = [pc EXCEPT ![t] = to]
Remove(s)  == sessions' = [sessions EXCEPT ![s] = "absent"]
\* service_to_worker.retain(|_, id| id != ...)
Unmapped(ids) == [s \in Sessions |-> IF service_to_worker[s] \in ids
                                     THEN NoTurn ELSE service_to_worker[s]]

Init ==
  /\ sessions = [s \in Sessions |-> "absent"]
  /\ permits = MaxActive
  /\ waitq = <<>>
  /\ pc = [t \in Turns |-> "idle"]
  /\ seen = [t \in Turns |-> NoTurn]
  /\ service_to_worker = [s \in Sessions |-> NoTurn]
  /\ workers = {} /\ cancel_flag = {} /\ scope = {} /\ child = {}
  /\ cleanup = {}
  /\ cpc = [c \in Cancellers |-> "idle"]
  /\ ctarget = [c \in Cancellers |-> [kind |-> "none", on |-> NoTurn]]
  /\ cids = [c \in Cancellers |-> {}]
  /\ cstop = [c \in Cancellers |-> NoTurn]
  /\ probe = <<>>
  /\ cancelled = {} /\ disturbed = {}

-----------------------------------------------------------------------------
(* A turn: enqueue_turn_with_notifications.                                *)

\* MUTANT of Enqueue: the active-session check is forgotten.
EnqueueTwice(t) ==
  /\ IF Cardinality(QueuedKeys) < MaxQueued
     THEN /\ At(t, "idle", "accepted")
          /\ sessions' = [sessions EXCEPT ![SessionOf[t]] = "Queued"]
     ELSE At(t, "idle", "rejected") /\ UNCHANGED sessions
  /\ UNCHANGED <<permits, waitq, seen, workerVars, cleanup, cancelVars, probe, history>>

\* The table is checked and filled under one lock: an active session and a
\* full queue are both refused without a trace in the table.
Enqueue(t) ==
  LET s == SessionOf[t] IN
  /\ IF sessions[s] = "absent" /\ Cardinality(QueuedKeys) < MaxQueued
     THEN /\ At(t, "idle", "accepted")
          /\ sessions' = [sessions EXCEPT ![s] = "Queued"]
     ELSE At(t, "idle", "rejected") /\ UNCHANGED sessions
  /\ UNCHANGED <<permits, waitq, seen, workerVars, cleanup, cancelVars, probe, history>>

\* The payload does not parse: `?` returns and the guard is dropped.
BadPayload(t) ==
  /\ At(t, "accepted", "unwinding")
  /\ UNCHANGED <<sessions, permits, waitq, seen, workerVars, cleanup, cancelVars, probe, history>>

WaitForSlot(t) ==
  /\ At(t, "accepted", "waiting")
  /\ waitq' = Append(waitq, t)
  /\ UNCHANGED <<sessions, permits, seen, workerVars, cleanup, cancelVars, probe, history>>

\* tokio's semaphore hands a permit to the longest waiter.
GrantSlot(t) ==
  /\ waitq # <<>> /\ t = Head(waitq)
  /\ permits > 0
  /\ At(t, "waiting", "granted")
  /\ waitq' = Tail(waitq)
  /\ permits' = permits - 1
  /\ UNCHANGED <<sessions, seen, workerVars, cleanup, cancelVars, probe, history>>

\* MUTANT of MarkRunning: the refused turn forgets its permit.
MarkRunningLeaks(t) ==
  /\ IF sessions[SessionOf[t]] # "absent"
     THEN /\ At(t, "granted", "dispatch")
          /\ sessions' = [sessions EXCEPT ![SessionOf[t]] = "Running"]
     ELSE At(t, "granted", "unwinding") /\ UNCHANGED sessions
  /\ UNCHANGED <<permits, waitq, seen, workerVars, cleanup, cancelVars, probe, history>>

\* mark_running looks the session up by its id only: whoever put the key there.
\* When the key is gone the turn fails; locals drop in reverse order, the
\* permit first and the guard last.
MarkRunning(t) ==
  LET s == SessionOf[t] IN
  /\ IF sessions[s] # "absent"
     THEN /\ At(t, "granted", "dispatch")
          /\ sessions' = [sessions EXCEPT ![s] = "Running"]
          /\ UNCHANGED permits
     ELSE /\ At(t, "granted", "unwinding")
          /\ permits' = permits + 1
          /\ UNCHANGED sessions
  /\ UNCHANGED <<waitq, seen, workerVars, cleanup, cancelVars, probe, history>>

\* ActiveSessionGuard::drop removes the session's key, whose ever it is by now.
Unwind(t) ==
  /\ At(t, "unwinding", "ended")
  /\ Remove(SessionOf[t])
  /\ UNCHANGED <<permits, waitq, seen, workerVars, cleanup, cancelVars, probe, history>>

\* active_guard.finish() followed by the drop of the permit.
Return(t) ==
  /\ At(t, "returning", "ended")
  /\ Remove(SessionOf[t])
  /\ permits' = permits + 1
  /\ UNCHANGED <<waitq, seen, workerVars, cleanup, cancelVars, probe, history>>

-----------------------------------------------------------------------------
(* dispatch_run_agent_inner, from the checks to the worker's answer.       *)

\* No prompt, or the planning depth exceeded: answered without a worker.
RefuseDispatch(t) ==
  /\ At(t, "dispatch", "returning")
  /\ UNCHANGED <<sessions, permits, waitq, seen, workerVars, cleanup, cancelVars, probe, history>>

\* worker_alive_by_key, first read: the id under the session's key.
ReadWorkerKey(t) ==
  LET id == service_to_worker[SessionOf[t]] IN
  /\ At(t, "dispatch", IF id = NoTurn THEN "ensure" ELSE "alive")
  /\ seen' = [seen EXCEPT ![t] = id]
  /\ UNCHANGED <<sessions, permits, waitq, workerVars, cleanup, cancelVars, probe, history>>

\* Second read: a registered one-shot worker counts as alive (409); an id that
\* is no longer registered has its key removed, whatever the key maps to now.
ReadWorker(t) ==
  /\ IF seen[t] \in workers
     THEN At(t, "alive", "returning") /\ UNCHANGED service_to_worker
     ELSE /\ At(t, "alive", "ensure")
          /\ service_to_worker' = [service_to_worker EXCEPT ![SessionOf[t]] = NoTurn]
  /\ seen' = [seen EXCEPT ![t] = NoTurn]
  /\ UNCHANGED <<sessions, permits, waitq, workers, cancel_flag, scope, child,
                 cleanup, cancelVars, probe, history>>

\* session_db cannot be started, or the runtime binary is missing.
DispatchFails(t) ==
  /\ At(t, "ensure", "returning")
  /\ UNCHANGED <<sessions, permits, waitq, seen, workerVars, cleanup, cancelVars, probe, history>>

\* ensure_exclusive_worker.  The per-key ensure lock serialises two of these
\* and nobody else knows the new id before it is mapped: one step.
EnsureWorker(t) ==
  LET s == SessionOf[t] IN
  /\ IF service_to_worker[s] \in workers
     THEN At(t, "ensure", "returning") /\ UNCHANGED <<workers, service_to_worker>>
     ELSE /\ At(t, "ensure", "call")
          /\ workers' = workers \cup {t}
          /\ service_to_worker' = [service_to_worker EXCEPT ![s] = t]
  /\ UNCHANGED <<sessions, permits, waitq, seen, cancel_flag, scope, child,
                 cleanup, cancelVars, probe, history>>

\* call_worker: the Arc is cloned out of the map, or "worker not found".
FetchWorker(t) ==
  /\ At(t, "call", IF t \in workers THEN "invoke" ELSE "stopping")
  /\ UNCHANGED <<sessions, permits, waitq, seen, workerVars, cleanup, cancelVars, probe, history>>

\* invoke_one_shot clears the cancel flag, then spawns the runtime.
SpawnChild(t) ==
  /\ At(t, "invoke", "spawned")
  /\ cancel_flag' = cancel_flag \ {t}
  /\ child' = child \cup {t}
  /\ UNCHANGED <<sessions, permits, waitq, seen, service_to_worker, workers, scope,
                 cleanup, cancelVars, probe, history>>

SpawnFails(t) ==
  /\ At(t, "invoke", "stopping")
  /\ cancel_flag' = cancel_flag \ {t}
  /\ UNCHANGED <<sessions, permits, waitq, seen, service_to_worker, workers, scope, child,
                 cleanup, cancelVars, probe, history>>

\* Writing the request to the child's stdin fails: the Child is dropped, and
\* kill_on_drop takes the process with it.
StdinFails(t) ==
  /\ At(t, "spawned", "stopping")
  /\ child' = child \ {t}
  /\ UNCHANGED <<sessions, permits, waitq, seen, service_to_worker, workers, cancel_flag,
                 scope, cleanup, cancelVars, probe, history>>

StoreScope(t) ==
  /\ At(t, "spawned", "scoped")
  /\ scope' = scope \cup {t}
  /\ UNCHANGED <<sessions, permits, waitq, seen, service_to_worker, workers, cancel_flag,
                 child, cleanup, cancelVars, probe, history>>

\* A cancel that came before the scope was stored is honoured here.
CheckCancelled(t) ==
  /\ IF t \in cancel_flag
     THEN /\ At(t, "scoped", "stopping")
          /\ child' = child \ {t} /\ scope' = scope \ {t}
          /\ cancel_flag' = cancel_flag \ {t}
     ELSE At(t, "scoped", "wait") /\ UNCHANGED <<child, scope, cancel_flag>>
  /\ UNCHANGED <<sessions, permits, waitq, seen, service_to_worker, workers,
                 cleanup, cancelVars, probe, history>>

\* The runtime process ends by itself.
ChildExit(t) ==
  /\ pc[t] \in Invoking /\ t \in child
  /\ child' = child \ {t}
  /\ UNCHANGED <<turnVars, service_to_worker, workers, cancel_flag, scope,
                 cleanup, cancelVars, probe, history>>

ChildReaped(t) ==
  /\ t \notin child
  /\ At(t, "wait", "stopping")
  /\ scope' = scope \ {t} /\ cancel_flag' = cancel_flag \ {t}
  /\ UNCHANGED <<sessions, permits, waitq, seen, service_to_worker, workers, child,
                 cleanup, cancelVars, probe, history>>

\* RuntimeWorkerCleanupGuard::stop_now; by now the child is gone.
StopNow(t) ==
  /\ At(t, "stopping", "returning")
  /\ workers' = workers \ {t}
  /\ service_to_worker' = Unmapped({t})
  /\ cancel_flag' = IF t \in workers THEN cancel_flag \cup {t} ELSE cancel_flag
  /\ UNCHANGED <<sessions, permits, waitq, seen, scope, child,
                 cleanup, cancelVars, probe, history>>

\* The stop_worker task spawned when a cleanup guard is dropped unfinished.
CleanupWorker(t) ==
  /\ t \in cleanup
  /\ cleanup' = cleanup \ {t}
  /\ workers' = workers \ {t}
  /\ service_to_worker' = Unmapped({t})
  /\ cancel_flag' = IF t \in workers THEN cancel_flag \cup {t} ELSE cancel_flag
  /\ UNCHANGED <<turnVars, scope, child, cancelVars, probe, history>>

TurnStep(t) ==
  \/ BadPayload(t) \/ WaitForSlot(t) \/ GrantSlot(t) \/ MarkRunning(t)
  \/ Unwind(t) \/ Return(t) \/ RefuseDispatch(t) \/ ReadWorkerKey(t)
  \/ ReadWorker(t) \/ DispatchFails(t) \/ EnsureWorker(t) \/ FetchWorker(t)
  \/ SpawnChild(t) \/ SpawnFails(t) \/ StdinFails(t) \/ StoreScope(t)
  \/ CheckCancelled(t) \/ ChildReaped(t) \/ StopNow(t) \/ CleanupWorker(t)

-----------------------------------------------------------------------------
(* cancel_turn, kill_session_workers, and a connection that closes.        *)

\* cancel_turn(s), the per-session kill_session_workers(s) and the first half
\* of a disconnect: the key is removed and the worker, if any, is looked up.
CancelTurn(c, s) ==
  /\ cpc[c] = "idle"
  /\ cpc' = [cpc EXCEPT ![c] = "unmap"]
  /\ ctarget' = [ctarget EXCEPT ![c] = [kind |-> "cancel", on |-> s]]
  /\ Remove(s)
  /\ cancelled' = cancelled \cup LiveOn(s)
  /\ disturbed' = disturbed \cup {s}
  /\ UNCHANGED <<permits, waitq, pc, seen, workerVars, cleanup, cids, cstop, probe>>

\* handle_socket_connection after end of file: for each enqueue_turn of the
\* connection still being answered, cancel_turn, and later abort the task.
Disconnect(c, t) ==
  /\ cpc[c] = "idle" /\ Live(t)
  /\ cpc' = [cpc EXCEPT ![c] = "unmap"]
  /\ ctarget' = [ctarget EXCEPT ![c] = [kind |-> "disconnect", on |-> t]]
  /\ Remove(SessionOf[t])
  /\ cancelled' = cancelled \cup LiveOn(SessionOf[t])
  /\ disturbed' = disturbed \cup {SessionOf[t]}
  /\ UNCHANGED <<permits, waitq, pc, seen, workerVars, cleanup, cids, cstop, probe>>

\* MUTANT of KillAll: a session without a worker is not filtered out.
KillAllUnfiltered(c) ==
  /\ cpc[c] = "idle"
  /\ cpc' = [cpc EXCEPT ![c] = "stop"]
  /\ ctarget' = [ctarget EXCEPT ![c] = [kind |-> "killall", on |-> NoTurn]]
  /\ cids' = [cids EXCEPT ![c] = {service_to_worker[s] : s \in Sessions}]
  /\ service_to_worker' = [s \in Sessions |-> NoTurn]
  /\ disturbed' = Sessions
  /\ UNCHANGED <<turnVars, workers, cancel_flag, scope, child, cleanup, cstop, probe, cancelled>>

\* kill_session_workers without a session: every mapped worker is unmapped
\* at once, stopped one by one, and only then is the turn table drained.
KillAll(c) ==
  /\ cpc[c] = "idle"
  /\ cpc' = [cpc EXCEPT ![c] = "stop"]
  /\ ctarget' = [ctarget EXCEPT ![c] = [kind |-> "killall", on |-> NoTurn]]
  /\ cids' = [cids EXCEPT ![c] = {service_to_worker[s] : s \in Sessions} \ {NoTurn}]
  /\ service_to_worker' = [s \in Sessions |-> NoTurn]
  /\ disturbed' = Sessions
  /\ UNCHANGED <<turnVars, workers, cancel_flag, scope, child, cleanup, cstop, probe, cancelled>>

TargetSession(c) == IF ctarget[c].kind = "disconnect"
                    THEN SessionOf[ctarget[c].on] ELSE ctarget[c].on

\* stop_worker_by_key takes the id out of service_to_worker.
UnmapKey(c) ==
  LET s == TargetSession(c) IN
  /\ cpc[c] = "unmap"
  /\ cpc' = [cpc EXCEPT ![c] = "stop"]
  /\ cids' = [cids EXCEPT ![c] = {service_to_worker[s]} \ {NoTurn}]
  /\ service_to_worker' = [service_to_worker EXCEPT ![s] = NoTurn]
  /\ UNCHANGED <<turnVars, workers, cancel_flag, scope, child, cleanup, ctarget, cstop, probe, history>>

\* stop_worker(id): out of the registry, cancel flag set, waiters notified.
StopWorker(c, id) ==
  /\ cpc[c] = "stop" /\ id \in cids[c]
  /\ cids' = [cids EXCEPT ![c] = @ \ {id}]
  /\ IF id \in workers
     THEN /\ cpc' = [cpc EXCEPT ![c] = "terminate"]
          /\ cstop' = [cstop EXCEPT ![c] = id]
          /\ cancel_flag' = cancel_flag \cup {id}
     ELSE UNCHANGED <<cpc, cstop, cancel_flag>>
  /\ workers' = workers \ {id}
  /\ service_to_worker' = Unmapped({id})
  /\ UNCHANGED <<turnVars, scope, child, cleanup, ctarget, probe, history>>

\* WorkerProcess::stop kills the process group of a scope that is stored.
Terminate(c) ==
  /\ cpc[c] = "terminate"
  /\ cpc' = [cpc EXCEPT ![c] = "stop"]
  /\ cstop' = [cstop EXCEPT ![c] = NoTurn]
  /\ child' = IF cstop[c] \in scope THEN child \ {cstop[c]} ELSE child
  /\ UNCHANGED <<turnVars, service_to_worker, workers, cancel_flag, scope,
                 cleanup, ctarget, cids, probe, history>>

\* The request is answered; a disconnect goes on to abort its task.
CancelDone(c) ==
  /\ cpc[c] = "stop" /\ cids[c] = {}
  /\ ctarget[c].kind \in {"cancel", "disconnect"}
  /\ cpc' = [cpc EXCEPT ![c] = IF ctarget[c].kind = "cancel" THEN "done" ELSE "abort"]
  /\ UNCHANGED <<turnVars, workerVars, cleanup, ctarget, cids, cstop, probe, history>>

Drain(c) ==
  /\ cpc[c] = "stop" /\ cids[c] = {} /\ ctarget[c].kind = "killall"
  /\ cpc' = [cpc EXCEPT ![c] = "done"]
  /\ sessions' = [s \in Sessions |-> "absent"]
  /\ cancelled' = cancelled \cup {t \in Turns : Live(t)}
  /\ UNCHANGED <<permits, waitq, pc, seen, workerVars, cleanup, ctarget, cids, cstop,
                 probe, disturbed>>

\* MUTANT of AbortWaiting: the dropped waiter stays in the semaphore's list.
AbortLeavesWaiter(c) ==
  /\ cpc[c] = "abort" /\ At(ctarget[c].on, "waiting", "unwinding")
  /\ cpc' = [cpc EXCEPT ![c] = "done"]
  /\ UNCHANGED <<sessions, permits, waitq, seen, workerVars, cleanup, ctarget, cids, cstop,
                 probe, history>>

\* Aborting a parked task drops its future.  Queued for a slot: the waiter
\* leaves the semaphore's list and the guard is dropped.
AbortWaiting(c) ==
  LET t == ctarget[c].on IN
  /\ cpc[c] = "abort" /\ At(t, "waiting", "unwinding")
  /\ cpc' = [cpc EXCEPT ![c] = "done"]
  /\ \E i \in 1..Len(waitq) :
        /\ waitq[i] = t
        /\ waitq' = SubSeq(waitq, 1, i - 1) \o SubSeq(waitq, i + 1, Len(waitq))
  /\ UNCHANGED <<sessions, permits, seen, workerVars, cleanup, ctarget, cids, cstop,
                 probe, history>>

\* MUTANTS of AbortSlotted: without kill_on_drop the process survives its task;
\* without the cleanup guard the worker stays registered.
AbortSparesChild(c) ==
  LET t == ctarget[c].on IN
  /\ cpc[c] = "abort" /\ pc[t] \in {"granted"} \cup Invoking
  /\ pc' = [pc EXCEPT ![t] = "unwinding"]
  /\ cpc' = [cpc EXCEPT ![c] = "done"]
  /\ permits' = permits + 1
  /\ cleanup' = IF pc[t] \in Invoking THEN cleanup \cup {t} ELSE cleanup
  /\ UNCHANGED <<sessions, waitq, seen, workerVars, ctarget, cids, cstop, probe, history>>

AbortWithoutGuard(c) ==
  LET t == ctarget[c].on IN
  /\ cpc[c] = "abort" /\ pc[t] \in {"granted"} \cup Invoking
  /\ pc' = [pc EXCEPT ![t] = "unwinding"]
  /\ cpc' = [cpc EXCEPT ![c] = "done"]
  /\ permits' = permits + 1
  /\ child' = child \ {t}
  /\ UNCHANGED <<sessions, waitq, seen, service_to_worker, workers, cancel_flag, scope,
                 cleanup, ctarget, cids, cstop, probe, history>>

\* With a permit: the child is killed (kill_on_drop), the cleanup guard spawns
\* a stop_worker, the permit is returned, and the guard is dropped last.
AbortSlotted(c) ==
  LET t == ctarget[c].on IN
  /\ cpc[c] = "abort" /\ pc[t] \in {"granted"} \cup Invoking
  /\ pc' = [pc EXCEPT ![t] = "unwinding"]
  /\ cpc' = [cpc EXCEPT ![c] = "done"]
  /\ permits' = permits + 1
  /\ child' = child \ {t}
  /\ cleanup' = IF pc[t] \in Invoking THEN cleanup \cup {t} ELSE cleanup
  /\ UNCHANGED <<sessions, waitq, seen, service_to_worker, workers, cancel_flag, scope,
                 ctarget, cids, cstop, probe, history>>

\* The task had already ended, or ends before it is next parked.
AbortTooLate(c) ==
  /\ cpc[c] = "abort" /\ ~Live(ctarget[c].on)
  /\ cpc' = [cpc EXCEPT ![c] = "done"]
  /\ UNCHANGED <<turnVars, workerVars, cleanup, ctarget, cids, cstop, probe, history>>

CancelStep(c) ==
  \/ UnmapKey(c) \/ Terminate(c) \/ CancelDone(c) \/ Drain(c)
  \/ AbortWaiting(c) \/ AbortSlotted(c) \/ AbortTooLate(c)
  \/ \E id \in Turns : StopWorker(c, id)

-----------------------------------------------------------------------------
(* probe_sessions: worker_alive_by_key is two reads of two maps.           *)

ProbeRead(s) ==
  /\ probe = <<>> /\ service_to_worker[s] # NoTurn
  /\ probe' = <<s, service_to_worker[s]>>
  /\ UNCHANGED <<turnVars, workerVars, cleanup, cancelVars, history>>

\* A worker gone in between: the key is removed even if it was remapped.
ProbeCheck ==
  /\ probe # <<>>
  /\ probe' = <<>>
  /\ service_to_worker' = IF probe[2] \in workers THEN service_to_worker
                          ELSE [service_to_worker EXCEPT ![probe[1]] = NoTurn]
  /\ UNCHANGED <<turnVars, workers, cancel_flag, scope, child, cleanup, cancelVars, history>>

-----------------------------------------------------------------------------
Next ==
  \/ \E t \in Turns : Enqueue(t) \/ TurnStep(t) \/ ChildExit(t)
  \/ \E c \in Cancellers :
        \/ \E s \in Sessions : CancelTurn(c, s)
        \/ \E t \in Turns : Disconnect(c, t)
        \/ KillAll(c)
        \/ CancelStep(c)
  \/ \E s \in Sessions : ProbeRead(s)
  \/ ProbeCheck

\* Tokio polls every ready task, so a task's next step is taken; a runtime
\* process is assumed to end.  Nobody has to enqueue, cancel or probe.
Fairness ==
  /\ \A t \in Turns : WF_vars(TurnStep(t)) /\ WF_vars(ChildExit(t))
  /\ \A c \in Cancellers : WF_vars(CancelStep(c))

Spec     == Init /\ [][Next]_vars
FairSpec == Spec /\ Fairness

-----------------------------------------------------------------------------
(* Properties.                                                             *)

Targets == [kind : {"none", "killall"}, on : {NoTurn}]
           \cup [kind : {"cancel"}, on : Sessions]
           \cup [kind : {"disconnect"}, on : Turns]

TypeOK ==
  /\ sessions \in [Sessions -> {"absent", "Queued", "Running"}]
  /\ permits \in Nat
  /\ waitq \in Seq(Turns)
  /\ pc \in [Turns -> Pcs]
  /\ seen \in [Turns -> Turns \cup {NoTurn}]
  /\ service_to_worker \in [Sessions -> Turns \cup {NoTurn}]
  /\ workers \subseteq Turns /\ cancel_flag \subseteq Turns
  /\ scope \subseteq Turns /\ child \subseteq Turns /\ cleanup \subseteq Turns
  /\ cpc \in [Cancellers -> {"idle", "unmap", "stop", "terminate", "abort", "done"}]
  /\ ctarget \in [Cancellers -> Targets]
  /\ cids \in [Cancellers -> SUBSET Turns]
  /\ cstop \in [Cancellers -> Turns \cup {NoTurn}]
  /\ probe \in {<<>>} \cup (Sessions \X Turns)
  /\ cancelled \subseteq Turns /\ disturbed \subseteq Sessions

\* However turns are cancelled, killed or dropped by their connection, never
\* more runtime processes are alive than there are runtime slots
\* (MAX_ACTIVE_RUNTIME_WORKERS): a process never outlives its turn's permit.
RuntimeSlotsBounded == Cardinality(child) <= MaxActive

\* A permit is neither lost nor minted by an error path, a refused
\* mark_running or an aborted task: the free permits and the turns that hold
\* one always add up to the semaphore's size.
PermitsConserved == permits + Cardinality(Holders) = MaxActive

\* For a session nobody cancelled or killed, the turn table is exact: at most
\* one accepted turn, "Queued" until its mark_running, "Running" from then to
\* the drop of its guard, and no key without a turn.
StageOf(t) == IF pc[t] \in {"accepted", "waiting", "granted", "unwinding"}
              THEN "Queued" ELSE "Running"

TableMatchesTurns ==
  \A s \in Sessions \ disturbed :
     /\ sessions[s] # "absent" => LiveOn(s) # {}
     /\ \A t \in LiveOn(s) : sessions[s] = StageOf(t) /\ LiveOn(s) = {t}

\* Once every turn, cancel request and spawned cleanup is over, nothing is
\* left behind in the turn table, the registry or the semaphore, and no
\* runtime process is alive.
Quiet == /\ \A t \in Turns : pc[t] \in Terminal
         /\ \A c \in Cancellers : cpc[c] \in {"idle", "done"}
         /\ cleanup = {} /\ probe = <<>>

NothingLeftBehind ==
  Quiet => /\ \A s \in Sessions : sessions[s] = "absent" /\ service_to_worker[s] = NoTurn
           /\ permits = MaxActive /\ waitq = <<>>
           /\ workers = {} /\ child = {}

\* A turn that was accepted is eventually answered: no cancel, kill or
\* disconnect leaves it, or a turn behind it in the queue, waiting for ever.
AcceptedTurnEnds == \A t \in Turns : (pc[t] = "accepted") ~> (pc[t] \in Terminal)

\* What the place of a turn's task says of its slot and its process.
SlotStage(place) ==
  CASE place \in {"idle", "accepted"} -> "new"
    [] place \in Waiting -> "waiting"
    [] place \in {"granted", "dispatch", "alive", "ensure", "call", "invoke"} -> "slotted"
    [] place \in Invoking \cup {"stopping", "returning"} -> "spent"
    [] OTHER -> "over"

Promise == INSTANCE TurnSlots
             WITH Slots   <- MaxActive,
                  stage   <- [t \in Turns |-> SlotStage(pc[t])],
                  line    <- waitq,
                  running <- child

\* What a client may rely on, whatever is cancelled, killed or dropped: turns
\* get the slots in the order of their waiting, each has one runtime process at
\* most, and that one is gone when the slot is given back.
TurnSlotsSpec == Promise!Spec

\* crates/router/ARCHITECTURE.md: an abort "does not merely remove router
\* registry state while the runtime child continues running".  Read as: once
\* cancel_turn has answered, no turn it found live is in a runtime process.
CancelledRuntimeIsDown ==
  \A c \in Cancellers, t \in cancelled :
     cpc[c] = "done" /\ ctarget[c] = [kind |-> "cancel", on |-> SessionOf[t]] => t \notin child

\* crates/router/ARCHITECTURE.md: the router "Enforces one running runtime per
\* session_id".  Read as: a session never has two runtime processes that nobody
\* is killing: no cancel request at work, neither cancel flag set.
OneRuntimePerSession ==
  (\A c \in Cancellers : cpc[c] \in {"idle", "done"}) =>
     \A t, u \in child \ cancel_flag : SessionOf[t] = SessionOf[u] => t = u
=============================================================================
