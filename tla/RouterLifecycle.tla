-------------------------- MODULE RouterLifecycle --------------------------
(***************************************************************************)
(* The life of one router daemon: its connections and their requests, the  *)
(* leases of fronts, the monitor that shuts an idle router down, and       *)
(* execution.shutdown.                                                     *)
(*   daemon.rs           serve_socket, one task per connection and request *)
(*   ipc_handlers.rs     what the requests do                              *)
(*   front_lifecycle.rs  leases, connection count, time of last activity   *)
(*   shutdown.rs         the monitor: counters read one after the other    *)
(* Turns are abstract: RouterExecution models how one is supervised.  Time *)
(* is counted in ticks of a lease's length (15 s); polls of the monitor    *)
(* (250 ms), ready tasks and dispatches take less than a tick.             *)
(***************************************************************************)
EXTENDS Naturals, FiniteSets

CONSTANTS Conns,      \* connections of fronts and runtimes
          Requests,   \* requests, each sent at most once
          Sessions,   \* session ids
          Fronts,     \* front ids that send heartbeats
          LeaseTtl,   \* ticks a lease is valid
          IdleAfter   \* idle_shutdown_after, in ticks

\* By default a lease is one tick (15 s) and the router idles for four.
ASSUME TimesAssumption  == LeaseTtl \in Nat \ {0} /\ IdleAfter \in Nat \ {0, 1}
ASSUME FiniteAssumption == IsFiniteSet(Conns) /\ IsFiniteSet(Requests)

Nothing == "none"
Methods == [m : {"turn"}, on : Sessions] \cup [m : {"heartbeat"}, on : Fronts]
           \cup [m : {"command", "health", "shutdown"}, on : {Nothing}]
NoCall  == [m |-> Nothing, on |-> Nothing]

Spots    == {"unsent", "spawned", "accepted", "dispatch", "running",
             "stopping", "answer", "done", "aborted"}
Finished == {"unsent", "done", "aborted"}
MonitorSpots == {"sleep", "workers", "sessions", "commands", "fronts", "conns",
                 "clock", "unpublish", "stop", "mark", "done"}

VARIABLES
  daemon,           \* serve_socket: "starting", "serving", "exited"
  addr,             \* router.addr is published
  shutdown,         \* AppState.shutdown
  session_db,       \* the session_db owner is up
  conn,             \* connections: "new", "open", "ended", "closed", "broken"
  active_sessions,  \* of each connection
  tocancel,         \* the copy of it that an ended connection cancels
  on, call, at,     \* requests: their connection, method, and where they are
  turns,            \* sessions with a key in ExecutionService.sessions
  workers,          \* requests whose runtime worker is registered
  lease,            \* ticks each front's lease is still valid
  idle,             \* ticks since last_activity
  monitor,          \* where the idle monitor is
  busy,             \* it has seen something active in this poll
  polled            \* it has completed a poll in this tick

connVars == <<conn, active_sessions, tocancel>>
reqVars  == <<on, call, at>>
execVars == <<turns, workers>>
timeVars == <<lease, idle>>
monVars  == <<monitor, busy, polled>>
vars == <<daemon, addr, shutdown, session_db, connVars, reqVars, execVars, timeVars, monVars>>

Is(r, m)      == call[r].m = m
Goto(r, a, b) == at[r] = a /\ at' = [at EXCEPT ![r] = b]
Unanswered(c) == {r \in Requests : on[r] = c /\ at[r] \notin Finished}
Commands      == {r \in Requests : Is(r, "command") /\ at[r] = "running"}
Opened        == {c \in Conns : conn[c] \in {"open", "ended"}}
Leased        == {f \in Fronts : lease[f] > 0}
Alive         == daemon = "serving"
\* Requests that are over are forgotten, answered or aborted.
Leave(gone, how) ==
  /\ at' = [r \in Requests |-> IF r \in gone THEN how ELSE at[r]]
  /\ on' = [r \in Requests |-> IF r \in gone THEN Nothing ELSE on[r]]
  /\ call' = [r \in Requests |-> IF r \in gone THEN NoCall ELSE call[r]]

Init ==
  /\ daemon = "starting" /\ addr = FALSE /\ shutdown = FALSE /\ session_db = FALSE
  /\ conn = [c \in Conns |-> "new"]
  /\ active_sessions = [c \in Conns |-> {}]
  /\ tocancel = [c \in Conns |-> {}]
  /\ on = [r \in Requests |-> Nothing]
  /\ call = [r \in Requests |-> NoCall]
  /\ at = [r \in Requests |-> "unsent"]
  /\ turns = {} /\ workers = {}
  /\ lease = [f \in Fronts |-> 0]
  /\ idle = 0
  /\ monitor = "sleep" /\ busy = FALSE /\ polled = FALSE

-----------------------------------------------------------------------------
(* The daemon and its connections.                                         *)

\* serve_socket: start session_db, bind, publish the address, start the monitor.
Serve ==
  /\ daemon = "starting"
  /\ daemon' = "serving" /\ addr' = TRUE /\ session_db' = TRUE
  /\ UNCHANGED <<shutdown, connVars, reqVars, execVars, timeVars, monVars>>

\* The accept loop sees the flag; the process ends and its tasks with it.
Exit ==
  /\ Alive /\ shutdown
  /\ daemon' = "exited" /\ addr' = FALSE
  /\ Leave({r \in Requests : at[r] \notin Finished}, "aborted")
  /\ conn' = [c \in Conns |-> "closed"]
  /\ active_sessions' = [c \in Conns |-> {}] /\ tocancel' = [c \in Conns |-> {}]
  /\ turns' = {} /\ workers' = {} /\ monitor' = "done"
  /\ UNCHANGED <<shutdown, session_db, timeVars, busy, polled>>

\* A connection counts from here on, but is no activity before its first request.
Accept(c) ==
  /\ Alive /\ conn[c] = "new"
  /\ conn' = [conn EXCEPT ![c] = "open"]
  /\ UNCHANGED <<daemon, addr, shutdown, session_db, active_sessions, tocancel,
                 reqVars, execVars, timeVars, monVars>>

\* MUTANT of Receive: a request does not count as activity.
ReceiveQuietly(c, r, q) ==
  /\ Alive /\ conn[c] = "open"
  /\ Goto(r, "unsent", "spawned")
  /\ on' = [on EXCEPT ![r] = c]
  /\ call' = [call EXCEPT ![r] = q]
  /\ active_sessions' =
       [active_sessions EXCEPT ![c] = IF q.m = "turn" THEN @ \cup {q.on} ELSE @]
  /\ UNCHANGED <<daemon, addr, shutdown, session_db, conn, tocancel, execVars, timeVars, monVars>>

\* The connection reads a request, marks activity, notes the session of a turn
\* before anyone has accepted it, and spawns a task for the request.
Receive(c, r, q) ==
  /\ Alive /\ conn[c] = "open"
  /\ Goto(r, "unsent", "spawned")
  /\ on' = [on EXCEPT ![r] = c]
  /\ call' = [call EXCEPT ![r] = q]
  /\ active_sessions' =
       [active_sessions EXCEPT ![c] = IF q.m = "turn" THEN @ \cup {q.on} ELSE @]
  /\ idle' = 0
  /\ UNCHANGED <<daemon, addr, shutdown, session_db, conn, tocancel, execVars, lease, monVars>>

\* End of file: the sessions are copied, to be cancelled one by one.
EndOfFile(c) ==
  /\ Alive /\ conn[c] = "open"
  /\ conn' = [conn EXCEPT ![c] = "ended"]
  /\ tocancel' = [tocancel EXCEPT ![c] = active_sessions[c]]
  /\ active_sessions' = [active_sessions EXCEPT ![c] = {}]
  /\ UNCHANGED <<daemon, addr, shutdown, session_db,
                 reqVars, execVars, timeVars, monVars>>

\* A read error leaves the function by `?`: only the connection guard is
\* dropped, and the tasks of the requests go on, detached.
ReadError(c) ==
  /\ Alive /\ conn[c] = "open"
  /\ conn' = [conn EXCEPT ![c] = "broken"]
  /\ active_sessions' = [active_sessions EXCEPT ![c] = {}]
  /\ UNCHANGED <<daemon, addr, shutdown, session_db, tocancel,
                 reqVars, execVars, timeVars, monVars>>

\* cancel_turn of a session of the copy: whoever's turn it is by now.
CancelOne(c, s) ==
  /\ Alive /\ conn[c] = "ended" /\ s \in tocancel[c]
  /\ tocancel' = [tocancel EXCEPT ![c] = @ \ {s}]
  /\ turns' = turns \ {s}
  /\ workers' = {r \in workers : call[r].on # s}
  /\ UNCHANGED <<daemon, addr, shutdown, session_db, conn, active_sessions,
                 reqVars, timeVars, monVars>>

\* MUTANT of Close: the detached command runs are aborted too.
CloseAll(c) ==
  LET gone == Unanswered(c) IN
  /\ Alive /\ conn[c] = "ended" /\ tocancel[c] = {}
  /\ conn' = [conn EXCEPT ![c] = "closed"]
  /\ Leave(gone, "aborted")
  /\ turns' = turns \ {call[r].on : r \in {q \in gone : at[q] \in {"accepted", "dispatch", "running"}}}
  /\ workers' = workers \ gone
  /\ UNCHANGED <<daemon, addr, shutdown, session_db, active_sessions, tocancel,
                 timeVars, monVars>>

\* Then every unanswered task but a command run is aborted.  The guards of an
\* aborted turn remove its key and stop its worker.
Close(c) ==
  LET gone == {r \in Unanswered(c) : ~Is(r, "command")} IN
  /\ Alive /\ conn[c] = "ended" /\ tocancel[c] = {}
  /\ conn' = [conn EXCEPT ![c] = "closed"]
  /\ Leave(gone, "aborted")
  /\ turns' = turns \ {call[r].on : r \in {q \in gone : at[q] \in {"accepted", "dispatch", "running"}}}
  /\ workers' = workers \ gone
  /\ UNCHANGED <<daemon, addr, shutdown, session_db, active_sessions, tocancel,
                 timeVars, monVars>>

-----------------------------------------------------------------------------
(* The task of a request.                                                  *)

\* A turn of a session that has one is refused.
EnqueueTurn(r) ==
  /\ Alive /\ Is(r, "turn")
  /\ IF call[r].on \in turns
     THEN Goto(r, "spawned", "answer") /\ UNCHANGED turns
     ELSE Goto(r, "spawned", "accepted") /\ turns' = turns \cup {call[r].on}
  /\ UNCHANGED <<daemon, addr, shutdown, session_db, connVars, on, call, workers, timeVars, monVars>>

\* With a slot: the turn fails when its key has been removed meanwhile, and
\* its guard removes the key of whoever has put one there since.
GetSlot(r) ==
  /\ Alive /\ Is(r, "turn")
  /\ IF call[r].on \in turns
     THEN Goto(r, "accepted", "dispatch") /\ UNCHANGED turns
     ELSE Goto(r, "accepted", "answer") /\ turns' = turns \ {call[r].on}
  /\ UNCHANGED <<daemon, addr, shutdown, session_db, connVars, on, call, workers, timeVars, monVars>>

\* The dispatch starts session_db, whatever shutdown is in progress, and the
\* worker.
StartWorker(r) ==
  /\ Alive /\ Is(r, "turn")
  /\ Goto(r, "dispatch", "running")
  /\ session_db' = TRUE
  /\ workers' = workers \cup {r}
  /\ UNCHANGED <<daemon, addr, shutdown, connVars, on, call, turns, timeVars, monVars>>

EndTurn(r) ==
  /\ Alive /\ Is(r, "turn")
  /\ Goto(r, "running", "answer")
  /\ workers' = workers \ {r}
  /\ turns' = turns \ {call[r].on}
  /\ UNCHANGED <<daemon, addr, shutdown, session_db, connVars, on, call, timeVars, monVars>>

\* execution.command_run counts as active from here to its end.
StartCommand(r) ==
  /\ Alive /\ Is(r, "command")
  /\ Goto(r, "spawned", "running")
  /\ UNCHANGED <<daemon, addr, shutdown, session_db, connVars, on, call, execVars, timeVars, monVars>>

EndCommand(r) ==
  /\ Alive /\ Is(r, "command")
  /\ Goto(r, "running", "answer")
  /\ UNCHANGED <<daemon, addr, shutdown, session_db, connVars, on, call, execVars, timeVars, monVars>>

\* A health check starts session_db.
Health(r) ==
  /\ Alive /\ Is(r, "health")
  /\ Goto(r, "spawned", "answer")
  /\ session_db' = TRUE
  /\ UNCHANGED <<daemon, addr, shutdown, connVars, on, call, execVars, timeVars, monVars>>

Heartbeat(r) ==
  /\ Alive /\ Is(r, "heartbeat")
  /\ Goto(r, "spawned", "answer")
  /\ lease' = [lease EXCEPT ![call[r].on] = LeaseTtl]
  /\ idle' = 0
  /\ UNCHANGED <<daemon, addr, shutdown, session_db, connVars, on, call, execVars, monVars>>

\* execution.shutdown: stop the workers, which awaits each of them ...
ShutdownStops(r) ==
  /\ Alive /\ Is(r, "shutdown")
  /\ Goto(r, "spawned", "stopping")
  /\ workers' = {}
  /\ UNCHANGED <<daemon, addr, shutdown, session_db, connVars, on, call, turns, timeVars, monVars>>

\* ... then session_db, the flag and the address, without another await.
ShutdownMarks(r) ==
  /\ Alive
  /\ Goto(r, "stopping", "answer")
  /\ session_db' = FALSE /\ shutdown' = TRUE /\ addr' = FALSE
  /\ UNCHANGED <<daemon, connVars, on, call, execVars, timeVars, monVars>>

\* MUTANT of Answer: the session of an answered turn stays noted.
AnswerKeepsSession(r) ==
  /\ Alive /\ at[r] = "answer"
  /\ Leave({r}, "done")
  /\ UNCHANGED <<daemon, addr, shutdown, session_db, connVars, execVars, timeVars, monVars>>

\* The session of a turn, refused ones included, is taken out of the set of
\* its connection and the response written.
Answer(r) ==
  /\ Alive /\ at[r] = "answer"
  /\ Leave({r}, "done")
  /\ active_sessions' =
       [active_sessions EXCEPT ![on[r]] = IF Is(r, "turn") THEN @ \ {call[r].on} ELSE @]
  /\ UNCHANGED <<daemon, addr, shutdown, session_db, conn, tocancel,
                 execVars, timeVars, monVars>>

RequestStep(r) ==
  \/ EnqueueTurn(r) \/ GetSlot(r) \/ StartWorker(r) \/ EndTurn(r)
  \/ StartCommand(r) \/ EndCommand(r) \/ Health(r) \/ Heartbeat(r)
  \/ ShutdownStops(r) \/ ShutdownMarks(r) \/ Answer(r)

-----------------------------------------------------------------------------
(* The idle monitor: one poll reads five counters and a clock.             *)

Poll(from, to, active) ==
  /\ Alive /\ monitor = from
  /\ monitor' = to
  /\ busy' = (to # "sleep" /\ (busy \/ active))
  /\ polled' = (polled \/ to = "sleep")

WakeUp ==
  /\ Poll("sleep", IF shutdown THEN "done" ELSE "workers", FALSE)
  /\ UNCHANGED <<daemon, addr, shutdown, session_db, connVars, reqVars, execVars, timeVars>>

CountWorkers ==
  /\ Poll("workers", "sessions", workers # {})
  /\ UNCHANGED <<daemon, addr, shutdown, session_db, connVars, reqVars, execVars, timeVars>>

CountSessions ==
  /\ Poll("sessions", "commands", turns # {})
  /\ UNCHANGED <<daemon, addr, shutdown, session_db, connVars, reqVars, execVars, timeVars>>

CountCommands ==
  /\ Poll("commands", "fronts", Commands # {})
  /\ UNCHANGED <<daemon, addr, shutdown, session_db, connVars, reqVars, execVars, timeVars>>

\* MUTANT of CountFronts: an expired lease is not pruned.
CountEveryFront ==
  /\ Poll("fronts", "conns", \E r \in Requests : at[r] = "done")
  /\ UNCHANGED <<daemon, addr, shutdown, session_db, connVars, reqVars, execVars, timeVars>>

CountFronts ==
  /\ Poll("fronts", "conns", Leased # {})
  /\ UNCHANGED <<daemon, addr, shutdown, session_db, connVars, reqVars, execVars, timeVars>>

\* Anything active renews the time of last activity and ends the poll.
CountConnections ==
  LET active == busy \/ Opened # {} IN
  /\ Poll("conns", IF active THEN "sleep" ELSE "clock", active)
  /\ idle' = IF active THEN 0 ELSE idle
  /\ UNCHANGED <<daemon, addr, shutdown, session_db, connVars, reqVars, execVars, lease>>

\* The clock is read last.
ReadClock ==
  /\ Poll("clock", IF idle >= IdleAfter THEN "unpublish" ELSE "sleep", FALSE)
  /\ UNCHANGED <<daemon, addr, shutdown, session_db, connVars, reqVars, execVars, timeVars>>

IdleUnpublish ==
  /\ Poll("unpublish", "stop", FALSE)
  /\ addr' = FALSE
  /\ UNCHANGED <<daemon, shutdown, session_db, connVars, reqVars, execVars, timeVars>>

IdleStopsWorkers ==
  /\ Poll("stop", "mark", FALSE)
  /\ workers' = {}
  /\ UNCHANGED <<daemon, addr, shutdown, session_db, connVars, reqVars, turns, timeVars>>

IdleMarks ==
  /\ Poll("mark", "done", FALSE)
  /\ session_db' = FALSE /\ shutdown' = TRUE /\ addr' = FALSE
  /\ UNCHANGED <<daemon, connVars, reqVars, execVars, timeVars>>

MonitorStep ==
  \/ WakeUp \/ CountWorkers \/ CountSessions \/ CountCommands \/ CountFronts
  \/ CountConnections \/ ReadClock \/ IdleUnpublish \/ IdleStopsWorkers \/ IdleMarks

\* MUTANT of Tick: an expired lease is counted down further.
TickPastExpiry ==
  /\ Alive /\ monitor = "sleep" /\ polled
  /\ polled' = FALSE
  /\ \A r \in Requests : at[r] \notin {"spawned", "dispatch"}
  /\ idle < IdleAfter \/ Leased # {}
  /\ idle' = IF idle < IdleAfter THEN idle + 1 ELSE idle
  /\ lease' = [f \in Fronts |-> lease[f] - 1]
  /\ UNCHANGED <<daemon, addr, shutdown, session_db, connVars, reqVars, execVars, monitor, busy>>

\* Every tick has many polls; a poll, a ready task and a dispatch take less.
Tick ==
  /\ Alive /\ monitor = "sleep" /\ polled
  /\ polled' = FALSE
  /\ \A r \in Requests : at[r] \notin {"spawned", "dispatch"}
  /\ idle < IdleAfter \/ Leased # {}
  /\ idle' = IF idle < IdleAfter THEN idle + 1 ELSE idle
  /\ lease' = [f \in Fronts |-> IF lease[f] > 0 THEN lease[f] - 1 ELSE 0]
  /\ UNCHANGED <<daemon, addr, shutdown, session_db, connVars, reqVars, execVars, monitor, busy>>

Hangup(c) == Close(c) \/ \E s \in Sessions : CancelOne(c, s)

Next ==
  \/ Serve \/ Exit \/ MonitorStep \/ Tick
  \/ \E c \in Conns : Accept(c) \/ EndOfFile(c) \/ ReadError(c) \/ Hangup(c)
  \/ \E c \in Conns, r \in Requests, q \in Methods : Receive(c, r, q)
  \/ \E r \in Requests : RequestStep(r)

\* The executor runs ready tasks; turns and command runs end; the clock does not
\* wait for the monitor.
Fairness ==
  /\ WF_vars(Serve \/ Exit) /\ WF_vars(MonitorStep) /\ SF_vars(Tick)
  /\ WF_vars(\E c \in Conns : Hangup(c))
  /\ WF_vars(\E r \in Requests : RequestStep(r))

Spec     == Init /\ [][Next]_vars
FairSpec == Spec /\ Fairness

-----------------------------------------------------------------------------
(* Properties.                                                             *)

TypeOK ==
  /\ daemon \in {"starting", "serving", "exited"}
  /\ addr \in BOOLEAN /\ shutdown \in BOOLEAN /\ session_db \in BOOLEAN
  /\ conn \in [Conns -> {"new", "open", "ended", "closed", "broken"}]
  /\ active_sessions \in [Conns -> SUBSET Sessions]
  /\ tocancel \in [Conns -> SUBSET Sessions]
  /\ on \in [Requests -> Conns \cup {Nothing}]
  /\ call \in [Requests -> Methods \cup {NoCall}]
  /\ at \in [Requests -> Spots]
  /\ turns \in SUBSET Sessions /\ workers \in SUBSET Requests
  /\ lease \in [Fronts -> 0..LeaseTtl] /\ idle \in 0..IdleAfter
  /\ monitor \in MonitorSpots /\ busy \in BOOLEAN

\* The monitor's counters are stale by the time it decides, yet when it
\* decides to shut down no front has a valid lease and no turn, worker or
\* command run is active: whatever began since was a request, and that shows
\* in the clock it reads last.
NothingActive ==
  Leased = {} /\ turns = {} /\ workers = {} /\ Commands = {}
IdleDecisionIsSound ==
  [][monitor = "clock" /\ monitor' = "unpublish" => NothingActive]_vars

\* What a connection that ends will cancel are sessions with a turn it has
\* not been answered yet: an answered turn of the past never makes it cancel
\* the turn another connection runs on that session.
ActiveSessionsAreUnanswered ==
  \A c \in Conns : conn[c] = "open" => \A s \in active_sessions[c] :
    \E r \in Unanswered(c) : call[r] = [m |-> "turn", on |-> s]

\* A command run is never cut by a connection: it ends by itself or with the
\* router.
CommandRunsSurvive ==
  [][\A r \in Commands : at'[r] \in {"running", "answer"} \/ daemon' = "exited"]_vars

\* Once no connection stays, the router shuts itself down, whatever leases,
\* turns and command runs are left.
IdleRouterExits == <>[](Opened = {}) => <>(daemon = "exited")

\* ARCHITECTURE.md of the router: when a connection drops mid-request, the
\* router aborts its unfinished request tasks. The code does so at the end of
\* file, not after a read error; no run is spent on it.
DroppedConnectionsAreAborted ==
  \A c \in Conns : conn[c] \in {"closed", "broken"} =>
    \A r \in Unanswered(c) : Is(r, "command")
=============================================================================
