----------------------- MODULE RouterLifecycle_proofs -----------------------
(***************************************************************************)
(* Proofs about the life of the router, for any number of connections,     *)
(* requests, sessions and fronts, any lease and any idle time of two ticks *)
(* or more.                                                                *)
(***************************************************************************)
EXTENDS RouterLifecycle, TLAPS

-----------------------------------------------------------------------------
(* Type correctness.                                                       *)

LEMMA GotoType ==
  ASSUME TypeOK, NEW r \in Requests, NEW a, NEW b \in Spots, Goto(r, a, b)
  PROVE  at' \in [Requests -> Spots]
BY DEF Goto, TypeOK

LEMMA LeaveType ==
  ASSUME TypeOK, NEW gone \in SUBSET Requests, NEW how \in Spots, Leave(gone, how)
  PROVE  /\ at' \in [Requests -> Spots]
         /\ on' \in [Requests -> Conns \cup {Nothing}]
         /\ call' \in [Requests -> Methods \cup {NoCall}]
BY DEF Leave, TypeOK

LEMMA PollType ==
  ASSUME TypeOK, NEW from, NEW to \in MonitorSpots, NEW active \in BOOLEAN, Poll(from, to, active)
  PROVE  monitor' \in MonitorSpots /\ busy' \in BOOLEAN
<1>1. monitor' \in MonitorSpots
  BY DEF Poll
<1>2. busy' \in BOOLEAN
  BY Zenon DEF Poll
<1>3. QED
  BY <1>1, <1>2

\* The daemon, its connections, requests and counters keep their types.
THEOREM TypeCorrect == Spec => []TypeOK
<1> USE TimesAssumption
<1>1. Init => TypeOK
  <2> SUFFICES ASSUME Init PROVE TypeOK
    OBVIOUS
  <2>1. /\ addr \in BOOLEAN /\ shutdown \in BOOLEAN /\ session_db \in BOOLEAN /\ busy \in BOOLEAN
    BY Zenon DEF Init
  <2>2. QED
    BY <2>1 DEF Init, TypeOK, Spots, MonitorSpots
<1>2. TypeOK /\ [Next]_vars => TypeOK'
  <2> SUFFICES ASSUME TypeOK, [Next]_vars PROVE TypeOK'
    OBVIOUS
  <2> USE DEF connVars, reqVars, execVars, timeVars, monVars
  <2>1. CASE Serve
    BY <2>1 DEF Serve, TypeOK
  <2>2. CASE Exit
    <3>1. {r \in Requests : at[r] \notin Finished} \in SUBSET Requests /\ "aborted" \in Spots
      BY DEF Spots
    <3>2. /\ at' \in [Requests -> Spots]
          /\ on' \in [Requests -> Conns \cup {Nothing}]
          /\ call' \in [Requests -> Methods \cup {NoCall}]
      BY <2>2, <3>1, LeaveType DEF Exit
    <3>3. monitor' \in MonitorSpots
      BY <2>2 DEF Exit, MonitorSpots
    <3>4. QED
      BY <2>2, <3>2, <3>3 DEF Exit, TypeOK
  <2>3. CASE MonitorStep
    <3>1. CASE WakeUp
      BY <2>3, <3>1, PollType DEF WakeUp, TypeOK, MonitorSpots
    <3>2. CASE CountWorkers
      BY <3>2, PollType DEF CountWorkers, TypeOK, MonitorSpots
    <3>3. CASE CountSessions
      BY <3>3, PollType DEF CountSessions, TypeOK, MonitorSpots
    <3>4. CASE CountCommands
      BY <3>4, PollType DEF CountCommands, TypeOK, MonitorSpots
    <3>5. CASE CountFronts
      BY <3>5, PollType DEF CountFronts, TypeOK, MonitorSpots
    <3>6. CASE CountConnections
      <4>1. (busy \/ Opened # {}) \in BOOLEAN
        BY Zenon
      <4>2. (IF busy \/ Opened # {} THEN "sleep" ELSE "clock") \in MonitorSpots
        BY DEF MonitorSpots
      <4>3. monitor' \in MonitorSpots /\ busy' \in BOOLEAN
        BY <3>6, <4>1, <4>2, PollType DEF CountConnections
      <4>4. idle' \in 0..IdleAfter
        BY <3>6 DEF CountConnections, TypeOK
      <4>5. QED
        BY <3>6, <4>3, <4>4 DEF CountConnections, TypeOK
    <3>7. CASE ReadClock
      BY <3>7, PollType DEF ReadClock, TypeOK, MonitorSpots
    <3>8. CASE IdleUnpublish
      BY <3>8, PollType DEF IdleUnpublish, TypeOK, MonitorSpots
    <3>9. CASE IdleStopsWorkers
      BY <3>9, PollType DEF IdleStopsWorkers, TypeOK, MonitorSpots
    <3>10. CASE IdleMarks
      BY <3>10, PollType DEF IdleMarks, TypeOK, MonitorSpots
    <3>11. QED
      BY <2>3, <3>1, <3>2, <3>3, <3>4, <3>5, <3>6, <3>7, <3>8, <3>9, <3>10 DEF MonitorStep
  <2>4. CASE Tick
    <3>1. idle' \in 0..IdleAfter
      BY <2>4 DEF Tick, TypeOK
    <3>2. lease' \in [Fronts -> 0..LeaseTtl]
      BY <2>4 DEF Tick, TypeOK
    <3>3. QED
      BY <2>4, <3>1, <3>2 DEF Tick, TypeOK
  <2>5. ASSUME NEW c \in Conns, Accept(c) \/ EndOfFile(c) \/ ReadError(c) PROVE TypeOK'
    BY <2>5 DEF Accept, EndOfFile, ReadError, TypeOK
  <2>6. ASSUME NEW c \in Conns, NEW s \in Sessions, CancelOne(c, s) PROVE TypeOK'
    BY <2>6 DEF CancelOne, TypeOK
  <2>7. ASSUME NEW c \in Conns, Close(c) PROVE TypeOK'
    <3> DEFINE gone == {r \in Unanswered(c) : ~Is(r, "command")}
    <3>1. gone \in SUBSET Requests /\ "aborted" \in Spots /\ Leave(gone, "aborted")
      BY <2>7 DEF Close, Unanswered, Spots
    <3> HIDE DEF gone
    <3>2. /\ at' \in [Requests -> Spots]
          /\ on' \in [Requests -> Conns \cup {Nothing}]
          /\ call' \in [Requests -> Methods \cup {NoCall}]
      BY <3>1, LeaveType
    <3>3. turns' \subseteq turns /\ workers' \subseteq workers
      BY <2>7 DEF Close
    <3>4. QED
      BY <2>7, <3>2, <3>3 DEF Close, TypeOK
  <2>8. ASSUME NEW c \in Conns, NEW r \in Requests, NEW q \in Methods, Receive(c, r, q) PROVE TypeOK'
    <3>1. active_sessions' \in [Conns -> SUBSET Sessions]
      BY <2>8 DEF Receive, TypeOK, Methods
    <3>2. at' \in [Requests -> Spots]
      BY <2>8, GotoType DEF Receive, Spots
    <3>3. idle' \in 0..IdleAfter
      BY <2>8 DEF Receive
    <3>4. /\ on' \in [Requests -> Conns \cup {Nothing}]
          /\ call' \in [Requests -> Methods \cup {NoCall}]
      BY <2>8 DEF Receive, TypeOK
    <3>5. QED
      BY <2>8, <3>1, <3>2, <3>3, <3>4 DEF Receive, TypeOK
  <2>9. ASSUME NEW r \in Requests, RequestStep(r) PROVE TypeOK'
    <3>0. {"spawned", "accepted", "dispatch", "running", "stopping", "answer", "done"} \subseteq Spots
      BY DEF Spots
    <3>1. CASE EnqueueTurn(r)
      <4>1. call[r].on \in Sessions
        BY <3>1 DEF EnqueueTurn, Is, TypeOK, Methods, NoCall, Nothing
      <4>2. QED
        BY <3>0, <3>1, <4>1, GotoType DEF EnqueueTurn, TypeOK
    <3>2. CASE GetSlot(r)
      BY <3>0, <3>2, GotoType DEF GetSlot, TypeOK
    <3>3. CASE StartWorker(r)
      BY <3>0, <3>3, GotoType DEF StartWorker, TypeOK
    <3>4. CASE EndTurn(r)
      BY <3>0, <3>4, GotoType DEF EndTurn, TypeOK
    <3>5. CASE StartCommand(r) \/ EndCommand(r) \/ Health(r) \/ ShutdownStops(r) \/ ShutdownMarks(r)
      BY <3>0, <3>5, GotoType
         DEF StartCommand, EndCommand, Health, ShutdownStops, ShutdownMarks, TypeOK
    <3>6. CASE Heartbeat(r)
      <4>1. idle' \in 0..IdleAfter
        BY <3>6 DEF Heartbeat
      <4>2. lease' \in [Fronts -> 0..LeaseTtl]
        <5>1. LeaseTtl \in 0..LeaseTtl
          OBVIOUS
        <5>2. QED
          BY <3>6, <5>1 DEF Heartbeat, TypeOK
      <4>3. at' \in [Requests -> Spots]
        BY <3>0, <3>6, GotoType DEF Heartbeat
      <4>4. QED
        BY <3>6, <4>1, <4>2, <4>3 DEF Heartbeat, TypeOK
    <3>7. CASE Answer(r)
      <4>1. {r} \in SUBSET Requests /\ "done" \in Spots /\ Leave({r}, "done")
        BY <3>0, <3>7 DEF Answer
      <4>2. /\ at' \in [Requests -> Spots]
            /\ on' \in [Requests -> Conns \cup {Nothing}]
            /\ call' \in [Requests -> Methods \cup {NoCall}]
        BY <4>1, LeaveType
      <4>3. active_sessions' \in [Conns -> SUBSET Sessions]
        BY <3>7 DEF Answer, TypeOK
      <4>4. QED
        BY <3>7, <4>2, <4>3 DEF Answer, TypeOK
    <3>8. QED
      BY <2>9, <3>1, <3>2, <3>3, <3>4, <3>5, <3>6, <3>7 DEF RequestStep
  <2>10. CASE UNCHANGED vars
    BY <2>10 DEF vars, TypeOK
  <2>11. QED
    BY <2>1, <2>2, <2>3, <2>4, <2>5, <2>6, <2>7, <2>8, <2>9, <2>10 DEF Next, Hangup
<1>3. QED
  BY <1>1, <1>2, PTL DEF Spec

-----------------------------------------------------------------------------
(* What a connection will cancel.                                          *)

\* A step that leaves the sessions of open connections and their unanswered
\* turns alone keeps the invariant.
LEMMA SessionsUntouched ==
  ASSUME ActiveSessionsAreUnanswered,
         \A c \in Conns : conn'[c] = "open" =>
           conn[c] = "open" /\ active_sessions'[c] \subseteq active_sessions[c],
         \A r \in Requests : at[r] \notin Finished =>
           on'[r] = on[r] /\ call'[r] = call[r] /\ at'[r] \notin Finished
  PROVE  ActiveSessionsAreUnanswered'
BY DEF ActiveSessionsAreUnanswered, Unanswered

\* A connection that has not been accepted notes no session.
NewNoteNothing == \A c \in Conns : conn[c] = "new" => active_sessions[c] = {}

LEMMA NewConnections == Spec => []NewNoteNothing
<1>1. Init => NewNoteNothing
  BY DEF Init, NewNoteNothing
<1>2. TypeOK /\ NewNoteNothing /\ [Next]_vars => NewNoteNothing'
  <2> SUFFICES ASSUME TypeOK, NewNoteNothing, [Next]_vars PROVE NewNoteNothing'
    OBVIOUS
  <2> USE DEF connVars, reqVars, execVars, timeVars, monVars
  <2>1. CASE Serve \/ Exit \/ Tick \/ UNCHANGED vars
    BY <2>1 DEF Serve, Exit, Tick, vars, NewNoteNothing
  <2>2. CASE MonitorStep
    BY <2>2 DEF MonitorStep, WakeUp, CountWorkers, CountSessions, CountCommands, CountFronts,
                CountConnections, ReadClock, IdleUnpublish, IdleStopsWorkers, IdleMarks, NewNoteNothing
  <2>3. ASSUME NEW c \in Conns, Accept(c) \/ EndOfFile(c) \/ ReadError(c) \/ Close(c)
        PROVE  NewNoteNothing'
    BY <2>3 DEF Accept, EndOfFile, ReadError, Close, NewNoteNothing, TypeOK
  <2>4. ASSUME NEW c \in Conns, NEW s \in Sessions, CancelOne(c, s) PROVE NewNoteNothing'
    BY <2>4 DEF CancelOne, NewNoteNothing
  <2>5. ASSUME NEW c \in Conns, NEW r \in Requests, NEW q \in Methods, Receive(c, r, q)
        PROVE  NewNoteNothing'
    BY <2>5 DEF Receive, NewNoteNothing, TypeOK
  <2>6. ASSUME NEW r \in Requests, RequestStep(r) PROVE NewNoteNothing'
    <3>1. CASE Answer(r)
      BY <3>1 DEF Answer, NewNoteNothing, TypeOK
    <3>2. CASE ~Answer(r)
      BY <2>6, <3>2 DEF RequestStep, EnqueueTurn, GetSlot, StartWorker, EndTurn, StartCommand,
                       EndCommand, Health, Heartbeat, ShutdownStops, ShutdownMarks, NewNoteNothing
    <3>3. QED
      BY <3>1, <3>2
  <2>7. QED
    BY <2>1, <2>2, <2>3, <2>4, <2>5, <2>6 DEF Next, Hangup
<1>3. QED
  BY <1>1, <1>2, TypeCorrect, PTL DEF Spec

\* A session an open connection would cancel has a turn that connection has
\* not been answered yet.
THEOREM CancelsOnlyUnanswered == Spec => []ActiveSessionsAreUnanswered
<1>1. Init => ActiveSessionsAreUnanswered
  BY DEF Init, ActiveSessionsAreUnanswered
<1>2. TypeOK /\ NewNoteNothing /\ ActiveSessionsAreUnanswered /\ [Next]_vars
      => ActiveSessionsAreUnanswered'
  <2> SUFFICES ASSUME TypeOK, NewNoteNothing, ActiveSessionsAreUnanswered, [Next]_vars
               PROVE  ActiveSessionsAreUnanswered'
    OBVIOUS
  <2> USE DEF connVars, reqVars, execVars, timeVars, monVars
  <2>1. CASE Serve \/ Tick \/ UNCHANGED vars
    BY <2>1, SessionsUntouched DEF Serve, Tick, vars
  <2>2. CASE Exit
    BY <2>2 DEF Exit, ActiveSessionsAreUnanswered
  <2>3. CASE MonitorStep
    <3>1. UNCHANGED <<connVars, reqVars>>
      BY <2>3 DEF MonitorStep, WakeUp, CountWorkers, CountSessions, CountCommands, CountFronts,
                  CountConnections, ReadClock, IdleUnpublish, IdleStopsWorkers, IdleMarks
    <3>2. QED
      BY <3>1, SessionsUntouched
  <2>4. ASSUME NEW c \in Conns, Accept(c) PROVE ActiveSessionsAreUnanswered'
    BY <2>4 DEF Accept, NewNoteNothing, ActiveSessionsAreUnanswered, Unanswered, TypeOK
  <2>5. ASSUME NEW c \in Conns, EndOfFile(c) \/ ReadError(c) PROVE ActiveSessionsAreUnanswered'
    BY <2>5, SessionsUntouched DEF EndOfFile, ReadError, TypeOK
  <2>6. ASSUME NEW c \in Conns, NEW s \in Sessions, CancelOne(c, s)
        PROVE  ActiveSessionsAreUnanswered'
    BY <2>6, SessionsUntouched DEF CancelOne
  <2>7. ASSUME NEW c \in Conns, Close(c) PROVE ActiveSessionsAreUnanswered'
    <3>1. conn[c] = "ended" /\ conn' = [conn EXCEPT ![c] = "closed"]
          /\ active_sessions' = active_sessions
      BY <2>7 DEF Close
    <3>2. \A r \in Requests : at[r] \notin Finished /\ on[r] # c =>
            on'[r] = on[r] /\ call'[r] = call[r] /\ at'[r] = at[r]
      BY <2>7 DEF Close, Leave, Unanswered
    <3>3. \A d \in Conns : conn'[d] = "open" => d # c /\ conn[d] = "open"
      BY <3>1 DEF TypeOK
    <3>4. QED
      BY <3>1, <3>2, <3>3 DEF ActiveSessionsAreUnanswered, Unanswered
  <2>8. ASSUME NEW c \in Conns, NEW r \in Requests, NEW q \in Methods, Receive(c, r, q)
        PROVE  ActiveSessionsAreUnanswered'
    <3> SUFFICES ASSUME NEW d \in Conns, conn'[d] = "open", NEW s \in active_sessions'[d]
                 PROVE  (\E p \in Unanswered(d) : call[p] = [m |-> "turn", on |-> s])'
      BY DEF ActiveSessionsAreUnanswered
    <3>1. at[r] \in Finished /\ at'[r] \notin Finished /\ on'[r] = c /\ call'[r] = q
      BY <2>8 DEF Receive, Goto, Finished, TypeOK
    <3>2. \A p \in Requests \ {r} : on'[p] = on[p] /\ call'[p] = call[p] /\ at'[p] = at[p]
      BY <2>8 DEF Receive, Goto, TypeOK
    <3>3. CASE s \in active_sessions[d]
      <4>1. PICK p \in Unanswered(d) : call[p] = [m |-> "turn", on |-> s]
        BY <2>8, <3>3 DEF Receive, ActiveSessionsAreUnanswered
      <4>2. p # r
        BY <3>1 DEF Unanswered
      <4>3. QED
        BY <3>2, <4>1, <4>2 DEF Unanswered
    <3>4. CASE s \notin active_sessions[d]
      <4>1. d = c /\ q.m = "turn" /\ s = q.on
        BY <2>8, <3>4 DEF Receive, TypeOK
      <4>2. q = [m |-> "turn", on |-> s]
        BY <4>1 DEF Methods
      <4>3. QED
        BY <3>1, <4>1, <4>2 DEF Unanswered
    <3>5. QED
      BY <3>3, <3>4
  <2>9. ASSUME NEW r \in Requests, RequestStep(r) PROVE ActiveSessionsAreUnanswered'
    <3>1. CASE Answer(r)
      <4> SUFFICES ASSUME NEW d \in Conns, conn'[d] = "open", NEW s \in active_sessions'[d]
                   PROVE  (\E p \in Unanswered(d) : call[p] = [m |-> "turn", on |-> s])'
        BY DEF ActiveSessionsAreUnanswered
      <4>1. s \in active_sessions[d] /\ (d = on[r] /\ Is(r, "turn") => s # call[r].on)
        BY <3>1 DEF Answer, TypeOK
      <4>2. PICK p \in Unanswered(d) : call[p] = [m |-> "turn", on |-> s]
        BY <3>1, <4>1 DEF Answer, ActiveSessionsAreUnanswered
      <4>3. p # r
        BY <4>1, <4>2 DEF Unanswered, Is
      <4>4. QED
        BY <3>1, <4>2, <4>3 DEF Answer, Leave, Unanswered
    <3>2. CASE ~Answer(r)
      <4>1. UNCHANGED <<conn, active_sessions, on, call>>
            /\ \E a, b \in Spots \ Finished : Goto(r, a, b)
        BY <2>9, <3>2 DEF RequestStep, EnqueueTurn, GetSlot, StartWorker, EndTurn, StartCommand,
                         EndCommand, Health, Heartbeat, ShutdownStops, ShutdownMarks, Spots, Finished
      <4>2. QED
        BY <4>1, SessionsUntouched DEF Goto, TypeOK
    <3>3. QED
      BY <3>1, <3>2
  <2>10. QED
    BY <2>1, <2>2, <2>3, <2>4, <2>5, <2>6, <2>7, <2>8, <2>9 DEF Next, Hangup
<1>3. QED
  BY <1>1, <1>2, TypeCorrect, NewConnections, PTL DEF Spec

-----------------------------------------------------------------------------
(* Command runs.                                                           *)

\* No connection that ends, and no other request, cuts a command run.
THEOREM CommandRunsAreNotCut == Spec => CommandRunsSurvive
<1> DEFINE Survive == \A r \in Commands : at'[r] \in {"running", "answer"} \/ daemon' = "exited"
<1>1. TypeOK /\ [Next]_vars => Survive
  <2> SUFFICES ASSUME TypeOK, [Next]_vars, NEW r \in Requests, Is(r, "command"), at[r] = "running"
               PROVE  at'[r] \in {"running", "answer"} \/ daemon' = "exited"
    BY DEF Commands
  <2> USE DEF connVars, reqVars, execVars, timeVars, monVars
  <2>1. CASE Serve \/ Exit \/ Tick \/ UNCHANGED vars
    BY <2>1 DEF Serve, Exit, Tick, vars
  <2>2. CASE MonitorStep
    BY <2>2 DEF MonitorStep, WakeUp, CountWorkers, CountSessions, CountCommands, CountFronts,
                CountConnections, ReadClock, IdleUnpublish, IdleStopsWorkers, IdleMarks
  <2>3. ASSUME NEW c \in Conns, Accept(c) \/ EndOfFile(c) \/ ReadError(c)
        PROVE  at'[r] = "running"
    BY <2>3 DEF Accept, EndOfFile, ReadError
  <2>4. ASSUME NEW c \in Conns, NEW s \in Sessions, CancelOne(c, s) PROVE at'[r] = "running"
    BY <2>4 DEF CancelOne
  <2>5. ASSUME NEW c \in Conns, Close(c) PROVE at'[r] = "running"
    BY <2>5 DEF Close, Leave
  <2>6. ASSUME NEW c \in Conns, NEW p \in Requests, NEW q \in Methods, Receive(c, p, q)
        PROVE  at'[r] = "running"
    BY <2>6 DEF Receive, Goto, TypeOK
  <2>7. ASSUME NEW p \in Requests, RequestStep(p) PROVE at'[r] \in {"running", "answer"}
    <3>1. CASE Answer(p)
      BY <3>1 DEF Answer, Leave
    <3>2. CASE ~Answer(p)
      <4>1. \E a, b \in Spots : Goto(p, a, b) /\ (a = "running" => b = "answer")
        BY <2>7, <3>2 DEF RequestStep, EnqueueTurn, GetSlot, StartWorker, EndTurn, StartCommand,
                         EndCommand, Health, Heartbeat, ShutdownStops, ShutdownMarks, Spots
      <4>2. QED
        BY <4>1 DEF Goto, TypeOK
    <3>3. QED
      BY <3>1, <3>2
  <2>8. QED
    BY <2>1, <2>2, <2>3, <2>4, <2>5, <2>6, <2>7 DEF Next, Hangup
<1>2. QED
  BY <1>1, TypeCorrect, PTL DEF Spec, CommandRunsSurvive

-----------------------------------------------------------------------------
(* The idle decision.                                                      *)

BeforeWorkers  == {"sleep", "workers"}
BeforeSessions == BeforeWorkers \cup {"sessions"}
BeforeCommands == BeforeSessions \cup {"commands"}
BeforeFronts   == BeforeCommands \cup {"fronts"}
Polling        == BeforeFronts \cup {"conns", "clock"}

\* Something active is seen by the running poll, or shows in the clock.
Shows(before) == idle = 0 \/ (idle = 1 /\ ~polled /\ (busy \/ monitor \in before))

\* Until the router serves, its clock and monitor rest.
StartsQuiet == daemon = "starting" => idle = 0 /\ ~busy

\* While the monitor polls, whatever is active cannot escape it.  A request not
\* yet handled has just reset the clock; a tick passes only after a poll that
\* saw what the request began and reset the clock again.  A worker may start
\* behind the count of workers, but only with the clock at one tick.
PollInv ==
  Alive /\ monitor \in Polling =>
    /\ \A r \in Requests : at[r] = "spawned" => idle = 0
    /\ \A r \in Requests : at[r] = "dispatch" => idle \in {0, 1}
    /\ turns # {} => Shows(BeforeSessions)
    /\ Commands # {} => Shows(BeforeCommands)
    /\ Leased # {} => Shows(BeforeFronts)
    /\ workers # {} => idle \in {0, 1} \/ busy \/ monitor \in BeforeWorkers
    /\ monitor \in {"sleep", "clock"} => ~busy
IdleInv == StartsQuiet /\ PollInv

LEMMA StartStep == TypeOK /\ StartsQuiet /\ [Next]_vars => StartsQuiet'
<1> SUFFICES ASSUME StartsQuiet, [Next]_vars, daemon' = "starting"
             PROVE  daemon = "starting" /\ UNCHANGED <<idle, busy>>
  BY Zenon DEF StartsQuiet
<1> USE DEF Alive
<1>1. ~MonitorStep
  BY DEF MonitorStep, WakeUp, CountWorkers, CountSessions, CountCommands, CountFronts,
         CountConnections, ReadClock, IdleUnpublish, IdleStopsWorkers, IdleMarks, Poll
<1>2. \A r \in Requests : ~RequestStep(r)
  BY DEF RequestStep, EnqueueTurn, GetSlot, StartWorker, EndTurn, StartCommand, EndCommand,
         Health, Heartbeat, ShutdownStops, ShutdownMarks, Answer
<1>3. \A c \in Conns : ~(Accept(c) \/ EndOfFile(c) \/ ReadError(c) \/ Hangup(c))
  BY DEF Accept, EndOfFile, ReadError, Hangup, CancelOne, Close
<1>4. \A c \in Conns, r \in Requests, q \in Methods : ~Receive(c, r, q)
  BY DEF Receive
<1>5. ~(Serve \/ Exit \/ Tick)
  BY DEF Serve, Exit, Tick
<1>6. UNCHANGED vars
  BY <1>1, <1>2, <1>3, <1>4, <1>5 DEF Next
<1>7. QED
  BY <1>6 DEF vars, monVars, timeVars

LEMMA IdleInvariant == Spec => []IdleInv
<1> USE TimesAssumption
<1>1. Init => IdleInv
  BY DEF Init, IdleInv, StartsQuiet, PollInv, Alive
<1>2. TypeOK /\ IdleInv /\ [Next]_vars => IdleInv'
  <2> SUFFICES ASSUME TypeOK, IdleInv, [Next]_vars, Alive', (monitor \in Polling)'
               PROVE  PollInv'
    BY StartStep DEF IdleInv, PollInv
  <2> USE DEF connVars, reqVars, execVars, timeVars, monVars, Polling, BeforeWorkers,
              BeforeSessions, BeforeCommands, BeforeFronts, Shows
  <2>1. CASE Serve
    BY <2>1 DEF Serve, IdleInv, StartsQuiet, PollInv, Alive
  <2>2. CASE Exit
    BY <2>2 DEF Exit, Alive
  <2>3. CASE MonitorStep
    <3>1. CASE WakeUp
      BY <3>1 DEF WakeUp, Poll, IdleInv, PollInv, Alive, Commands, Leased, Is
    <3>2. CASE CountWorkers
      BY <3>2 DEF CountWorkers, Poll, IdleInv, PollInv, Alive, Commands, Leased, Is
    <3>3. CASE CountSessions
      BY <3>3 DEF CountSessions, Poll, IdleInv, PollInv, Alive, Commands, Leased, Is
    <3>4. CASE CountCommands
      BY <3>4 DEF CountCommands, Poll, IdleInv, PollInv, Alive, Commands, Leased, Is
    <3>5. CASE CountFronts
      BY <3>5 DEF CountFronts, Poll, IdleInv, PollInv, Alive, Commands, Leased, Is
    <3>6. CASE CountConnections
      BY <3>6 DEF CountConnections, Poll, IdleInv, PollInv, Alive, Commands, Leased, Is
    <3>7. CASE ReadClock
      BY <3>7 DEF ReadClock, Poll, IdleInv, PollInv, Alive, Commands, Leased, Is
    <3>8. CASE IdleUnpublish \/ IdleStopsWorkers \/ IdleMarks
      BY <3>8 DEF IdleUnpublish, IdleStopsWorkers, IdleMarks, Poll
    <3>9. QED
      BY <2>3, <3>1, <3>2, <3>3, <3>4, <3>5, <3>6, <3>7, <3>8 DEF MonitorStep
  <2>4. CASE Tick
    BY <2>4 DEF Tick, IdleInv, PollInv, Alive, Commands, Leased, Is, TypeOK
  <2>5. ASSUME NEW c \in Conns, Accept(c) \/ EndOfFile(c) \/ ReadError(c) PROVE PollInv'
    BY <2>5 DEF Accept, EndOfFile, ReadError, IdleInv, PollInv, Alive, Commands, Leased, Is
  <2>6. ASSUME NEW c \in Conns, NEW s \in Sessions, CancelOne(c, s) PROVE PollInv'
    BY <2>6 DEF CancelOne, IdleInv, PollInv, Alive, Commands, Leased, Is
  <2>7. ASSUME NEW c \in Conns, Close(c) PROVE PollInv'
    BY <2>7 DEF Close, Leave, Unanswered, IdleInv, PollInv, Alive, Commands, Leased, Is
  <2>8. ASSUME NEW c \in Conns, NEW r \in Requests, NEW q \in Methods, Receive(c, r, q)
        PROVE  PollInv'
    BY <2>8 DEF Receive, IdleInv, PollInv, Alive
  <2>9. ASSUME NEW r \in Requests, RequestStep(r) PROVE PollInv'
    <3>1. CASE EnqueueTurn(r)
      <4>1. at[r] = "spawned" /\ at' \in {[at EXCEPT ![r] = "answer"], [at EXCEPT ![r] = "accepted"]}
        BY <3>1 DEF EnqueueTurn, Goto
      <4>2. idle' = 0
        BY <3>1, <4>1 DEF EnqueueTurn, IdleInv, PollInv, Alive
      <4>3. monitor \in {"sleep", "clock"} => ~busy
        BY <3>1 DEF EnqueueTurn, IdleInv, PollInv, Alive
      <4>4. QED
        BY <3>1, <4>2, <4>3 DEF EnqueueTurn, PollInv
    <3>2. CASE GetSlot(r)
      <4>1. /\ at[r] = "accepted" /\ turns' \subseteq turns
            /\ \/ at' = [at EXCEPT ![r] = "dispatch"] /\ turns # {}
               \/ at' = [at EXCEPT ![r] = "answer"]
        BY <3>2 DEF GetSlot, Goto
      <4>2. Commands' \subseteq Commands
        BY <3>2, <4>1 DEF GetSlot, Commands, Is, TypeOK
      <4>3. \A p \in Requests : at'[p] = "dispatch" => idle \in {0, 1}
        BY <3>2, <4>1 DEF GetSlot, IdleInv, PollInv, Alive, TypeOK
      <4>4. \A p \in Requests : at'[p] = "spawned" => idle = 0
        BY <3>2, <4>1 DEF GetSlot, IdleInv, PollInv, Alive, TypeOK
      <4>5. QED
        BY <3>2, <4>1, <4>2, <4>3, <4>4 DEF GetSlot, IdleInv, PollInv, Alive, Leased
    <3>3. CASE StartWorker(r)
      <4>1. at[r] = "dispatch" /\ at' = [at EXCEPT ![r] = "running"]
        BY <3>3 DEF StartWorker, Goto
      <4>2. idle \in {0, 1}
        BY <3>3, <4>1 DEF StartWorker, IdleInv, PollInv, Alive
      <4>3. /\ \A p \in Requests : at'[p] = "spawned" => idle = 0
            /\ \A p \in Requests : at'[p] = "dispatch" => idle \in {0, 1}
        BY <3>3, <4>1 DEF StartWorker, IdleInv, PollInv, Alive, TypeOK
      <4>4. Commands' \subseteq Commands
        BY <3>3, <4>1 DEF StartWorker, Commands, Is, TypeOK
      <4>5. QED
        BY <3>3, <4>2, <4>3, <4>4 DEF StartWorker, IdleInv, PollInv, Alive, Leased
    <3>4. CASE EndTurn(r) \/ EndCommand(r)
      BY <3>4 DEF EndTurn, EndCommand, Goto, IdleInv, PollInv, Alive, Commands, Leased, Is, TypeOK
    <3>5. CASE StartCommand(r)
      BY <3>5 DEF StartCommand, Goto, IdleInv, PollInv, Alive, Commands, Leased, Is, TypeOK
    <3>6. CASE Health(r) \/ ShutdownStops(r) \/ ShutdownMarks(r)
      BY <3>6 DEF Health, ShutdownStops, ShutdownMarks, Goto, IdleInv, PollInv, Alive, Commands, Leased, Is, TypeOK
    <3>7. CASE Heartbeat(r)
      BY <3>7 DEF Heartbeat, Goto, IdleInv, PollInv, Alive, Commands, Leased, Is, TypeOK
    <3>8. CASE Answer(r)
      BY <3>8 DEF Answer, Leave, IdleInv, PollInv, Alive, Commands, Leased, Is, TypeOK
    <3>9. QED
      BY <2>9, <3>1, <3>2, <3>3, <3>4, <3>5, <3>6, <3>7, <3>8 DEF RequestStep
  <2>10. CASE UNCHANGED vars
    BY <2>10 DEF vars, IdleInv, PollInv, Alive, Commands, Leased, Is
  <2>11. QED
    BY <2>1, <2>2, <2>3, <2>4, <2>5, <2>6, <2>7, <2>8, <2>9, <2>10 DEF Next, Hangup
<1>3. QED
  BY <1>1, <1>2, TypeCorrect, PTL DEF Spec

\* The monitor decides to shut the router down only when nothing is active,
\* although every counter it read may have changed since.
THEOREM IdleDecision == Spec => IdleDecisionIsSound
<1>1. TypeOK /\ IdleInv /\ [Next]_vars
      => (monitor = "clock" /\ monitor' = "unpublish" => NothingActive)
  <2> SUFFICES ASSUME TypeOK, IdleInv, [Next]_vars, monitor = "clock", monitor' = "unpublish"
               PROVE  NothingActive
    OBVIOUS
  <2>1. Alive /\ idle >= IdleAfter
    <3>1. CASE MonitorStep
      BY <3>1 DEF MonitorStep, WakeUp, CountWorkers, CountSessions, CountCommands, CountFronts,
                  CountConnections, ReadClock, IdleUnpublish, IdleStopsWorkers, IdleMarks, Poll
    <3>2. CASE ~MonitorStep
      BY <3>2 DEF Next, Serve, Exit, Tick, Accept, EndOfFile, ReadError, Hangup, CancelOne, Close,
                  Receive, RequestStep, EnqueueTurn, GetSlot, StartWorker, EndTurn, StartCommand,
                  EndCommand, Health, Heartbeat, ShutdownStops, ShutdownMarks, Answer, vars, monVars
    <3>3. QED
      BY <3>1, <3>2
  <2>2. idle \in Nat /\ idle > 1 /\ idle # 0 /\ idle # 1
    BY <2>1, TimesAssumption DEF TypeOK
  <2>3. QED
    BY <2>1, <2>2 DEF IdleInv, PollInv, Shows, NothingActive, Polling, BeforeWorkers
<1>2. QED
  BY <1>1, TypeCorrect, IdleInvariant, PTL DEF Spec, IdleDecisionIsSound

=============================================================================
