------------------------ MODULE GatewaySessions_proofs ------------------------
(***************************************************************************)
(* Proofs about a session in the gateway, for any number of prompts,       *)
(* readers, probes and faults.                                             *)
(***************************************************************************)
EXTENDS GatewaySessions, TLAPS

-----------------------------------------------------------------------------
(* Type correctness.                                                       *)

LEMMA TargetType == mem \in States => \A status \in Statuses : Target(status) \in States
BY DEF Target, States, Statuses

LEMMA UpdateType ==
  ASSUME mem \in States, refreshNeeded \in BOOLEAN, NEW status \in Statuses, UpdateStatus(status)
  PROVE  mem' \in States /\ refreshNeeded' \in BOOLEAN
<1>1. mem' \in States
  BY TargetType DEF UpdateStatus
<1>2. refreshNeeded' \in BOOLEAN
  BY Zenon DEF UpdateStatus
<1>3. QED
  BY <1>1, <1>2

LEMMA FaultType == faults \in 0..MaxFaults /\ Fault => faults' \in 0..MaxFaults /\ faults' > 0
BY ConstantsAssumption DEF Fault

LEMMA CallType == \A p \in Prompts : Call(p) \in Runs /\ Call(p)[1] = p
<1>1. \A p \in Prompts : (p \in resent) \in BOOLEAN
  OBVIOUS
<1>2. QED
  BY <1>1 DEF Call, Runs

LEMMA RunType == \A r \in Runs : r[1] \in Prompts /\ r # None
BY ConstantsAssumption DEF Runs

LEMMA EndTurnType ==
  ASSUME TypeOK, NEW r \in Runs, NEW result \in Places, EndTurn(r, result)
  PROVE  TypeOK'
<1>1. pc' \in [Prompts -> Places]
  BY RunType DEF EndTurn, Goto, TypeOK
<1>2. phase' \in [Runs -> {"none", "queued", "working", "completed", "failed"}]
  BY DEF EndTurn, TypeOK
<1>3. QED
  BY <1>1, <1>2 DEF EndTurn, TypeOK, others, history

\* The session's memory, its prompts, the router and the probes keep their types.
THEOREM TypeCorrect == Spec => []TypeOK
<1> USE ConstantsAssumption
<1>1. Init => TypeOK
  <2> SUFFICES ASSUME Init PROVE TypeOK
    OBVIOUS
  <2>1. /\ mem \in States /\ refreshNeeded \in BOOLEAN /\ db \in States \cup {"absent"}
        /\ resent \subseteq Prompts /\ queue \subseteq Prompts /\ rejected \subseteq Prompts
    BY DEF Init, States
  <2>2. pc \in [Prompts -> Places]
    BY DEF Init, Places
  <2>3. /\ turn \in Runs \cup {None}
        /\ phase \in [Runs -> {"none", "queued", "working", "completed", "failed"}]
    BY DEF Init
  <2>4. /\ snapshot \in [Readers -> States \cup {"absent", "none"}]
        /\ probe \in [Probers -> {"idle", "listed", "absent", "marked"}]
        /\ served \in [Prompts -> Nat] /\ seen \in [Probers -> Runs \cup {None}]
        /\ faults \in 0..MaxFaults
    BY DEF Init
  <2>5. QED
    BY <2>1, <2>2, <2>3, <2>4 DEF TypeOK
<1>2. TypeOK /\ [Next]_vars => TypeOK'
  <2> SUFFICES ASSUME TypeOK, [Next]_vars PROVE TypeOK'
    OBVIOUS
  <2> USE DEF handlers, router, others, history
  <2>1. ASSUME NEW p \in Prompts, PromptAsync(p) PROVE TypeOK'
    BY <2>1 DEF PromptAsync, Goto, TypeOK, Places
  <2>2. ASSUME NEW p \in Prompts, HandOff(p) PROVE TypeOK'
    <3>1. mem' \in States /\ refreshNeeded' \in BOOLEAN
      BY <2>2, UpdateType DEF HandOff, TypeOK, Statuses
    <3>2. QED
      BY <2>2, <3>1 DEF HandOff, Goto, TypeOK, Places
  <2>3. ASSUME NEW p \in Prompts, SendMessage(p) PROVE TypeOK'
    <3>1. mem' \in States /\ refreshNeeded' \in BOOLEAN
      BY <2>3, UpdateType DEF SendMessage, TypeOK, Statuses
    <3>2. QED
      BY <2>3, <3>1 DEF SendMessage, Goto, TypeOK, Places
  <2>4. ASSUME NEW p \in Prompts, ClaimTask(p) PROVE TypeOK'
    BY <2>4 DEF ClaimTask, Goto, TypeOK, Places, States
  <2>5. ASSUME NEW p \in Prompts, EnqueueTurn(p) PROVE TypeOK'
    <3>1. CASE Accept(p)
      <4>1. /\ turn' \in Runs /\ phase' \in [Runs -> {"none", "queued", "working", "completed", "failed"}]
            /\ served' \in [Prompts -> Nat] /\ rejected' = rejected
        BY <3>1, CallType DEF Accept, TypeOK
      <4>2. pc' \in [Prompts -> Places]
        BY <3>1 DEF Accept, Goto, TypeOK, Places
      <4>3. QED
        BY <2>5, <4>1, <4>2 DEF EnqueueTurn, TypeOK
    <3>2. CASE ~Accept(p)
      <4>1. /\ turn' = turn /\ phase' = phase /\ served' = served
            /\ rejected' \subseteq Prompts /\ pc' \in [Prompts -> Places]
        BY <2>5, <3>2 DEF EnqueueTurn, Reject, Goto, TypeOK, Places
      <4>2. QED
        BY <2>5, <4>1 DEF EnqueueTurn, TypeOK
    <3>3. QED
      BY <3>1, <3>2
  <2>6. ASSUME NEW p \in Prompts, LoseCall(p) \/ FindRouterGone(p) PROVE TypeOK'
    <3>1. faults' \in 0..MaxFaults
      BY <2>6, FaultType DEF LoseCall, FindRouterGone, TypeOK
    <3>2. SendAgain(p)
      BY <2>6 DEF LoseCall, FindRouterGone
    <3>3. pc' \in [Prompts -> Places]
      BY <3>2 DEF SendAgain, Goto, TypeOK, Places
    <3>4. QED
      BY <3>1, <3>2, <3>3 DEF SendAgain, TypeOK
  <2>7. ASSUME NEW p \in Prompts, AppendCommand(p) PROVE TypeOK'
    BY <2>7, FaultType DEF AppendCommand, Goto, TypeOK, Places
  <2>8. ASSUME NEW p \in Prompts, Finish(p) PROVE TypeOK'
    <3>1. StatusAfter(pc[p]) \in Statuses
      BY DEF StatusAfter, Statuses
    <3>2. mem' \in States /\ refreshNeeded' \in BOOLEAN
      BY <2>8, <3>1, UpdateType DEF Finish, TypeOK
    <3>3. QED
      BY <2>8, <3>2 DEF Finish, Goto, TypeOK, Places
  <2>9. ASSUME NEW r \in Runs, StartRuntime(r) PROVE TypeOK'
    BY <2>9 DEF StartRuntime, TypeOK, States
  <2>10. ASSUME NEW r \in Runs, TakeCommands(r) PROVE TypeOK'
    <3>1. served' \in [Prompts -> Nat]
      BY <2>10 DEF TakeCommands, TypeOK
    <3>2. faults' \in 0..MaxFaults
      BY <2>10, FaultType DEF TakeCommands, TypeOK
    <3>3. QED
      BY <2>10, <3>1, <3>2 DEF TakeCommands, TypeOK
  <2>11. ASSUME NEW r \in Runs, FinishRuntime(r) PROVE TypeOK'
    BY <2>11 DEF FinishRuntime, TypeOK, States
  <2>12. ASSUME NEW r \in Runs, FindNoEntry(r) \/ Answer(r) \/ Kill(r) PROVE TypeOK'
    BY <2>12, EndTurnType DEF FindNoEntry, Answer, Kill, Places
  <2>13. CASE Abort
    BY <2>13 DEF Abort, TypeOK
  <2>14. CASE RestartRouter
    <3>1. faults' \in 0..MaxFaults
      BY <2>14, FaultType DEF RestartRouter, TypeOK
    <3>2. QED
      BY <2>14, <3>1 DEF RestartRouter, TypeOK
  <2>15. ASSUME NEW l \in Probers, Probe(l) PROVE TypeOK'
    <3>1. CASE List(l)
      BY <3>1 DEF List, SetProbe, TypeOK
    <3>2. CASE AskRouter(l)
      BY <3>2, FaultType DEF AskRouter, SetProbe, TypeOK
    <3>3. CASE MarkMemory(l)
      BY <3>3 DEF MarkMemory, SetProbe, TypeOK, States
    <3>4. CASE MarkDb(l)
      BY <3>4 DEF MarkDb, SetProbe, TypeOK, States
    <3>5. QED
      BY <2>15, <3>1, <3>2, <3>3, <3>4 DEF Probe
  <2>16. ASSUME NEW r \in Readers, ReadDb(r) PROVE TypeOK'
    BY <2>16 DEF ReadDb, TypeOK
  <2>17. ASSUME NEW r \in Readers, ApplySnapshot(r) PROVE TypeOK'
    BY <2>17 DEF ApplySnapshot, TypeOK
  <2>18. CASE UNCHANGED vars
    BY <2>18 DEF vars, TypeOK
  <2>19. QED
    BY <2>1, <2>2, <2>3, <2>4, <2>5, <2>6, <2>7, <2>8, <2>9, <2>10, <2>11, <2>12, <2>13,
       <2>14, <2>15, <2>16, <2>17, <2>18 DEF Next, Submit, Handler, Runtime
<1>3. QED
  BY <1>1, <1>2, PTL DEF Spec
-----------------------------------------------------------------------------
(* What waits, and what a step without a lost call is.                     *)

\* A prompt whose call is under way became a turn, and the router has its run
\* unless a call was lost; nothing is sent again before that.
Begun == /\ \A p \in Prompts : pc[p] = "waiting" => served[p] > 0
         /\ \A p \in Prompts : pc[p] = "waiting" /\ phase[Call(p)] = "none" => faults > 0
         /\ resent # {} => faults > 0

\* The end of a run moves no prompt but the one that waits for it, and that one
\* to where it is not due.
LEMMA EndTurnMoves ==
  ASSUME TypeOK, NEW r \in Runs, NEW result \in {"ended", "failed"}, EndTurn(r, result)
  PROVE  /\ \A p \in Prompts : pc'[p] = pc[p] \/ (pc[p] = "waiting" /\ pc'[p] = result)
         /\ Due' = Due
         /\ \A p \in Prompts : pc'[p] = "waiting" => pc[p] = "waiting" /\ Call(p) # r
<1>1. CASE pc[r[1]] = "waiting" /\ Call(r[1]) = r
  <2>1. pc' = [pc EXCEPT ![r[1]] = result] /\ r[1] \in Prompts
    BY <1>1, RunType DEF EndTurn, Goto
  <2>2. \A p \in Prompts : Call(p) = r => p = r[1]
    BY CallType
  <2>3. QED
    BY <1>1, <2>1, <2>2 DEF TypeOK, Due
<1>2. CASE ~(pc[r[1]] = "waiting" /\ Call(r[1]) = r)
  <2>1. pc' = pc
    BY <1>2 DEF EndTurn
  <2>2. \A p \in Prompts : Call(p) = r => p = r[1]
    BY CallType
  <2>3. QED
    BY <1>2, <2>1, <2>2 DEF TypeOK, Due
<1>3. QED
  BY <1>1, <1>2

LEMMA StepKeepsBegun == TypeOK /\ Begun /\ [Next]_vars => Begun'
<1> SUFFICES ASSUME TypeOK, Begun, [Next]_vars PROVE Begun'
  OBVIOUS
<1> USE DEF handlers, router, others, history
<1>f. Fault \/ faults' = faults => (faults > 0 => faults' > 0)
  BY FaultType DEF TypeOK
<1>1. ASSUME UNCHANGED <<phase, resent, served>>, faults > 0 => faults' > 0,
             \A p \in Prompts : pc'[p] = "waiting" => pc[p] = "waiting"
      PROVE  Begun'
  BY <1>1 DEF Begun, Call
<1>2. ASSUME NEW p \in Prompts, Submit(p) \/ HandOff(p) \/ AppendCommand(p) \/ Finish(p)
      PROVE  Begun'
  <2>1. UNCHANGED <<phase, resent, served>> /\ (faults > 0 => faults' > 0)
    BY <1>2, <1>f DEF Submit, PromptAsync, SendMessage, ClaimTask, HandOff, AppendCommand, Finish
  <2>2. \E place \in Places \ {"waiting"} : Goto(p, place)
    BY <1>2 DEF Submit, PromptAsync, SendMessage, ClaimTask, HandOff, AppendCommand, Finish, Places
  <2>3. \A q \in Prompts : pc'[q] = "waiting" => pc[q] = "waiting"
    BY <2>2 DEF Goto, TypeOK
  <2>4. QED
    BY <1>1, <2>1, <2>3
<1>3. ASSUME NEW p \in Prompts, EnqueueTurn(p) PROVE Begun'
  <2>1. CASE Accept(p)
    <3>1. UNCHANGED <<resent, faults>>
      BY <1>3 DEF EnqueueTurn
    <3>2. \A q \in Prompts : pc'[q] = "waiting" => served'[q] > 0
      BY <2>1 DEF Accept, Goto, TypeOK, Begun
    <3>3. \A q \in Prompts : Call(q)' = Call(q)
      BY <3>1 DEF Call
    <3>4. phase'[Call(p)] = "queued" /\ \A q \in Prompts \ {p} : phase'[Call(q)] = phase[Call(q)]
      BY <2>1, CallType DEF Accept, TypeOK
    <3>5. \A q \in Prompts \ {p} : pc'[q] = pc[q]
      BY <2>1 DEF Accept, Goto, TypeOK
    <3>6. QED
      BY <3>1, <3>2, <3>3, <3>4, <3>5 DEF Begun
  <2>2. CASE ~Accept(p)
    <3>1. \E place \in {"failed", "refused"} : Goto(p, place)
      BY <1>3, <2>2 DEF EnqueueTurn, Reject
    <3>2. \A q \in Prompts : pc'[q] = "waiting" => pc[q] = "waiting"
      BY <3>1 DEF Goto, TypeOK
    <3>3. QED
      BY <1>1, <1>3, <2>2, <3>2 DEF EnqueueTurn, Reject
  <2>3. QED
    BY <2>1, <2>2
<1>4. ASSUME NEW p \in Prompts, LoseCall(p) \/ FindRouterGone(p) PROVE Begun'
  <2>1. SendAgain(p) /\ faults' > 0
    BY <1>4, FaultType DEF LoseCall, FindRouterGone, TypeOK, Begun
  <2>2. \A q \in Prompts : pc'[q] = "waiting" => pc[q] = "waiting"
    BY <2>1 DEF SendAgain, Goto, TypeOK
  <2>3. QED
    BY <2>1, <2>2 DEF SendAgain, Begun
<1>5. ASSUME NEW r \in Runs, StartRuntime(r) \/ FinishRuntime(r) PROVE Begun'
  <2>1. UNCHANGED <<pc, resent, served, faults>>
    BY <1>5 DEF StartRuntime, FinishRuntime
  <2>2. \A q \in Runs : phase'[q] = "none" => phase[q] = "none"
    BY <1>5 DEF StartRuntime, FinishRuntime, TypeOK
  <2>3. QED
    BY <2>1, <2>2, CallType DEF Begun, Call
<1>6. ASSUME NEW r \in Runs, TakeCommands(r) PROVE Begun'
  <2>1. UNCHANGED <<pc, phase, resent>> /\ (faults > 0 => faults' > 0)
    BY <1>6, <1>f DEF TakeCommands
  <2>2. \A p \in Prompts : served[p] > 0 => served'[p] > 0
    BY <1>6 DEF TakeCommands, TypeOK
  <2>3. QED
    BY <2>1, <2>2 DEF Begun, Call
<1>7. ASSUME NEW r \in Runs, FindNoEntry(r) \/ Answer(r) \/ Kill(r) PROVE Begun'
  <2>1. PICK result \in {"ended", "failed"} : EndTurn(r, result)
    BY <1>7 DEF FindNoEntry, Answer, Kill
  <2>2. UNCHANGED <<resent, served, faults>> /\ phase' = [phase EXCEPT ![r] = "none"]
    BY <2>1 DEF EndTurn
  <2>3. \A p \in Prompts : pc'[p] = "waiting" => pc[p] = "waiting" /\ Call(p) # r
    BY <2>1, EndTurnMoves
  <2>4. QED
    BY <2>2, <2>3, CallType DEF Begun, Call, TypeOK
<1>8. CASE Abort
  BY <1>1, <1>8 DEF Abort
<1>9. CASE RestartRouter
  <2>1. faults' > 0
    BY <1>9, FaultType DEF RestartRouter, TypeOK, Begun
  <2>2. QED
    BY <1>9, <2>1 DEF RestartRouter, Begun
<1>10. ASSUME NEW l \in Probers, Probe(l) PROVE Begun'
  BY <1>1, <1>10, <1>f DEF Probe, List, AskRouter, MarkMemory, MarkDb
<1>11. ASSUME NEW r \in Readers, ReadDb(r) \/ ApplySnapshot(r) PROVE Begun'
  BY <1>1, <1>11 DEF ReadDb, ApplySnapshot
<1>12. CASE UNCHANGED vars
  BY <1>1, <1>12 DEF vars
<1>13. QED
  BY <1>2, <1>3, <1>4, <1>5, <1>6, <1>7, <1>8, <1>9, <1>10, <1>11, <1>12
     DEF Next, Handler, Runtime

\* Calls and probes that were lost are counted for good.
LEMMA NothingLostBefore ==
  ASSUME TypeOK, Begun, [Next]_vars, faults' = 0
  PROVE  /\ faults = 0 /\ ~Fault /\ ~RestartRouter
         /\ \A p \in Prompts : ~LoseCall(p) /\ ~FindRouterGone(p)
<1>1. ~Fault
  BY FaultType DEF TypeOK
<1>2. faults = 0
  BY <1>1 DEF Next, vars, Submit, Handler, Runtime, Probe, PromptAsync, HandOff, SendMessage,
     ClaimTask, EnqueueTurn, LoseCall, FindRouterGone, AppendCommand, Finish, StartRuntime,
     FindNoEntry, EndTurn, TakeCommands, FinishRuntime, Answer, Abort, Kill, RestartRouter, List,
     AskRouter, MarkMemory, MarkDb, ReadDb, ApplySnapshot
<1>3. QED
  BY <1>1, <1>2 DEF Begun, RestartRouter, LoseCall, FindRouterGone

THEOREM BegunAlways == Spec => []Begun
<1>1. Init => Begun
  BY DEF Init, Begun
<1>2. QED
  BY <1>1, StepKeepsBegun, TypeCorrect, PTL DEF Spec
-----------------------------------------------------------------------------
(* Every prompt is worked on once, or answered with an error.              *)

\* What a prompt is owed while no call is lost.
Owed(p) == IF p \in rejected THEN 0 ELSE 1

\* A step that moves no prompt and serves none keeps what is due.
LEMMA DuesUnchanged ==
  ASSUME NEW p \in Prompts, UNCHANGED <<Due, queue, served, rejected>>
  PROVE  Dues(p)' = Dues(p) /\ Owed(p)' = Owed(p)
BY DEF Dues, Owed

\* Unless a call is lost, a prompt is worked on exactly once, or its call was
\* answered with an error and then it is never worked on.
THEOREM PromptsServedOnce == Spec => []PromptsAreKept
<1>1. Init => PromptsAreKept
  BY DEF Init, PromptsAreKept, Dues, Due
<1>2. TypeOK /\ Begun /\ PromptsAreKept /\ [Next]_vars => PromptsAreKept'
  <2> SUFFICES ASSUME TypeOK, Begun, PromptsAreKept, [Next]_vars, faults' = 0
               PROVE  \A q \in Prompts : Dues(q)' = Owed(q)'
    BY DEF PromptsAreKept, Owed
  <2> DEFINE Goal == \A q \in Prompts : Dues(q)' = Owed(q)'
  <2>f. ~Fault
    BY NothingLostBefore
  <2>d. \A q \in Prompts : Dues(q) = Owed(q)
    BY NothingLostBefore DEF PromptsAreKept, Owed
  <2>s. UNCHANGED <<Due, queue, served, rejected>> => Goal
    BY <2>d, DuesUnchanged
  <2>p. UNCHANGED pc => Due' = Due
    BY DEF Due
  <2> USE DEF handlers, router, others, history
  <2>1. ASSUME NEW p \in Prompts, Submit(p) PROVE Goal
    <3>1. Due' = Due
      BY <2>1 DEF Submit, PromptAsync, SendMessage, ClaimTask, Goto, Due, TypeOK
    <3>2. QED
      BY <2>1, <2>s, <3>1 DEF Submit, PromptAsync, SendMessage, ClaimTask
  <2>2. ASSUME NEW p \in Prompts, HandOff(p) \/ Finish(p) PROVE Goal
    <3>1. Due' = Due
      BY <2>2 DEF HandOff, Finish, Goto, Due, TypeOK
    <3>2. QED
      BY <2>2, <2>s, <3>1 DEF HandOff, Finish
  <2>3. ASSUME NEW p \in Prompts, EnqueueTurn(p) PROVE Goal
    <3>1. p \in Due /\ served[p] \in Nat /\ Dues(p) = Owed(p)
      BY <2>3, <2>d DEF EnqueueTurn, Due, TypeOK
    <3>2. served[p] = 0 /\ p \notin queue /\ p \notin rejected
      BY <3>1 DEF Dues, Owed
    <3>3. CASE Accept(p)
      <4>1. Due' = Due \ {p} /\ UNCHANGED <<queue, rejected>> /\ served' = [served EXCEPT ![p] = @ + 1]
        BY <2>3, <3>3 DEF EnqueueTurn, Accept, Goto, Due, TypeOK
      <4>2. QED
        BY <2>d, <3>1, <3>2, <4>1 DEF Dues, Owed, TypeOK
    <3>4. CASE Reject(p)
      <4>1. Due' = Due \ {p} /\ UNCHANGED <<queue, served>> /\ rejected' = rejected \cup {p}
        BY <2>3, <3>4 DEF EnqueueTurn, Reject, Goto, Due, TypeOK
      <4>2. QED
        BY <2>d, <3>1, <3>2, <4>1 DEF Dues, Owed, TypeOK
    <3>5. CASE Goto(p, "refused") /\ UNCHANGED <<served, rejected>>
      <4>1. Due' = Due
        BY <2>3, <3>5 DEF EnqueueTurn, Goto, Due, TypeOK
      <4>2. QED
        BY <2>3, <2>s, <3>5, <4>1 DEF EnqueueTurn
    <3>6. QED
      BY <2>3, <3>3, <3>4, <3>5 DEF EnqueueTurn
  <2>4. ASSUME NEW p \in Prompts, AppendCommand(p) PROVE Goal
    <3>1. /\ p \in Due /\ Due' = Due \ {p} /\ queue' = queue \cup {p}
          /\ UNCHANGED <<served, rejected>>
      BY <2>4, <2>f DEF AppendCommand, Goto, Due, TypeOK
    <3>2. p \notin queue
      BY <2>d, <3>1 DEF Dues, Owed, TypeOK
    <3>3. QED
      BY <2>d, <3>1, <3>2 DEF Dues, Owed, TypeOK
  <2>5. ASSUME NEW p \in Prompts, LoseCall(p) \/ FindRouterGone(p) PROVE Goal
    BY <2>5, NothingLostBefore
  <2>6. ASSUME NEW r \in Runs, TakeCommands(r) PROVE Goal
    BY <2>6, <2>d, <2>f, <2>p DEF TakeCommands, Dues, Owed, TypeOK
  <2>7. ASSUME NEW r \in Runs, FindNoEntry(r) \/ Answer(r) \/ Kill(r) PROVE Goal
    <3>1. PICK result \in {"ended", "failed"} : EndTurn(r, result)
      BY <2>7 DEF FindNoEntry, Answer, Kill
    <3>2. Due' = Due
      BY <3>1, EndTurnMoves
    <3>3. QED
      BY <2>s, <3>1, <3>2 DEF EndTurn
  <2>8. CASE RestartRouter
    BY <2>8, NothingLostBefore
  <2>9. CASE Abort
    BY <2>9, <2>s, <2>p DEF Abort
  <2>10. ASSUME NEW r \in Runs, StartRuntime(r) \/ FinishRuntime(r) PROVE Goal
    BY <2>10, <2>s, <2>p DEF StartRuntime, FinishRuntime
  <2>11. ASSUME NEW l \in Probers, Probe(l) PROVE Goal
    BY <2>11, <2>s, <2>p DEF Probe, List, AskRouter, MarkMemory, MarkDb
  <2>12. ASSUME NEW r \in Readers, ReadDb(r) \/ ApplySnapshot(r) PROVE Goal
    BY <2>12, <2>s, <2>p DEF ReadDb, ApplySnapshot
  <2>13. CASE UNCHANGED vars
    BY <2>13, <2>s, <2>p DEF vars
  <2>14. QED
    BY <2>1, <2>2, <2>3, <2>4, <2>5, <2>6, <2>7, <2>8, <2>9, <2>10, <2>11, <2>12, <2>13
       DEF Next, Handler, Runtime
<1>3. QED
  BY <1>1, <1>2, TypeCorrect, BegunAlways, PTL DEF Spec
-----------------------------------------------------------------------------
(* What the probe leaves alone.                                            *)

\* The turn a prober has seen, and the active turn, have been served, so a turn
\* that begins later is another one.
SeenServed ==
  faults = 0 =>
    /\ turn # None => served[turn[1]] > 0
    /\ \A l \in Probers : seen[l] # None => served[seen[l][1]] > 0

ProbeInv == LiveTurnsAreNotInterrupted /\ SeenServed

\* While the router answers, a probe does not interrupt a turn that has been
\* active since the session was listed.
THEOREM ProbesSpareLiveTurns == Spec => []LiveTurnsAreNotInterrupted
<1>1. Init => ProbeInv
  BY DEF Init, ProbeInv, LiveTurnsAreNotInterrupted, SeenServed
<1>2. TypeOK /\ Begun /\ PromptsAreKept /\ ProbeInv /\ [Next]_vars => ProbeInv'
  <2> SUFFICES ASSUME TypeOK, Begun, PromptsAreKept, ProbeInv, [Next]_vars, faults' = 0
               PROVE  /\ turn' # None => served'[turn'[1]] > 0
                      /\ \A l \in Probers : seen'[l] # None => served'[seen'[l][1]] > 0
                      /\ \A l \in Probers : probe'[l] = "absent" /\ turn' # None => turn' # seen'[l]
    BY DEF ProbeInv, LiveTurnsAreNotInterrupted, SeenServed
  <2> DEFINE Goal == /\ turn' # None => served'[turn'[1]] > 0
                     /\ \A l \in Probers : seen'[l] # None => served'[seen'[l][1]] > 0
                     /\ \A l \in Probers : probe'[l] = "absent" /\ turn' # None => turn' # seen'[l]
  <2>f. ~Fault /\ faults = 0
    BY NothingLostBefore
  <2>h. /\ turn # None => served[turn[1]] > 0
        /\ \A l \in Probers : seen[l] # None => served[seen[l][1]] > 0
        /\ \A l \in Probers : probe[l] = "absent" /\ turn # None => turn # seen[l]
    BY <2>f DEF ProbeInv, LiveTurnsAreNotInterrupted, SeenServed
  <2>s. UNCHANGED <<turn, served, seen, probe>> => Goal
    BY <2>h
  <2> USE DEF handlers, router, others, history
  <2>1. ASSUME NEW p \in Prompts, EnqueueTurn(p) PROVE Goal
    <3>1. served[p] = 0
      <4>1. p \in Due /\ served[p] \in Nat
        BY <2>1 DEF EnqueueTurn, Due, TypeOK
      <4>2. Dues(p) = IF p \in rejected THEN 0 ELSE 1
        BY <2>f DEF PromptsAreKept
      <4>3. QED
        BY <4>1, <4>2 DEF Dues
    <3>2. CASE Accept(p)
      <4>1. turn' = Call(p) /\ served' = [served EXCEPT ![p] = @ + 1] /\ UNCHANGED <<seen, probe>>
        BY <2>1, <3>2 DEF EnqueueTurn, Accept
      <4>2. \A l \in Probers : seen[l] # Call(p)
        <5>1. SUFFICES ASSUME NEW l \in Probers, seen[l] = Call(p) PROVE FALSE
          OBVIOUS
        <5>2. seen[l] # None /\ seen[l][1] = p
          BY <5>1, CallType, RunType
        <5>3. QED
          BY <2>h, <3>1, <5>2
      <4>3. served'[p] > 0 /\ turn'[1] = p
        BY <3>1, <4>1, CallType DEF TypeOK
      <4>4. \A q \in Prompts : served[q] > 0 => served'[q] > 0
        BY <3>1, <4>1 DEF TypeOK
      <4>5. \A l \in Probers : seen[l] # None => seen[l][1] \in Prompts
        BY RunType DEF TypeOK
      <4>6. QED
        BY <2>h, <4>1, <4>2, <4>3, <4>4, <4>5
    <3>3. CASE ~Accept(p)
      BY <2>1, <2>s, <3>3 DEF EnqueueTurn, Reject
    <3>4. QED
      BY <3>2, <3>3
  <2>2. ASSUME NEW p \in Prompts, Submit(p) \/ HandOff(p) \/ Finish(p) \/ AppendCommand(p) PROVE Goal
    BY <2>2, <2>s DEF Submit, PromptAsync, SendMessage, ClaimTask, HandOff, Finish, AppendCommand
  <2>3. ASSUME NEW p \in Prompts, LoseCall(p) \/ FindRouterGone(p) PROVE Goal
    BY <2>3, NothingLostBefore
  <2>4. ASSUME NEW r \in Runs, TakeCommands(r) PROVE Goal
    <3>1. \A q \in Prompts : served[q] > 0 => served'[q] > 0
      BY <2>4, <2>f DEF TakeCommands, TypeOK
    <3>2. UNCHANGED <<turn, seen, probe>>
      BY <2>4 DEF TakeCommands
    <3>3. /\ turn # None => turn[1] \in Prompts
          /\ \A l \in Probers : seen[l] # None => seen[l][1] \in Prompts
      BY RunType DEF TypeOK
    <3>4. QED
      BY <2>h, <3>1, <3>2, <3>3
  <2>5. ASSUME NEW r \in Runs, StartRuntime(r) \/ FinishRuntime(r) PROVE Goal
    BY <2>5, <2>s DEF StartRuntime, FinishRuntime
  <2>6. ASSUME turn' = None, UNCHANGED <<served, seen, probe>> PROVE Goal
    BY <2>6, <2>h
  <2>7. ASSUME NEW r \in Runs, FindNoEntry(r) \/ Answer(r) \/ Kill(r) PROVE Goal
    BY <2>6, <2>7 DEF FindNoEntry, Answer, Kill, EndTurn
  <2>8. CASE Abort
    BY <2>6, <2>8 DEF Abort
  <2>9. CASE RestartRouter
    BY <2>9, NothingLostBefore
  <2>10. ASSUME NEW k \in Probers, List(k) PROVE Goal
    BY <2>10, <2>h DEF List, SetProbe, TypeOK
  <2>11. ASSUME NEW k \in Probers, AskRouter(k) PROVE Goal
    BY <2>11, <2>h, <2>f DEF AskRouter, SetProbe, Reported, TypeOK
  <2>12. ASSUME NEW k \in Probers, MarkMemory(k) \/ MarkDb(k) PROVE Goal
    BY <2>12, <2>h DEF MarkMemory, MarkDb, SetProbe, TypeOK
  <2>13. ASSUME NEW r \in Readers, ReadDb(r) \/ ApplySnapshot(r) PROVE Goal
    BY <2>13, <2>s DEF ReadDb, ApplySnapshot
  <2>14. CASE UNCHANGED vars
    BY <2>14, <2>s DEF vars
  <2>15. QED
    BY <2>1, <2>2, <2>3, <2>4, <2>5, <2>7, <2>8, <2>9, <2>10, <2>11, <2>12, <2>13, <2>14
       DEF Next, Handler, Runtime, Probe
<1>3. ProbeInv => LiveTurnsAreNotInterrupted
  BY DEF ProbeInv
<1>4. QED
  BY <1>1, <1>2, <1>3, TypeCorrect, BegunAlways, PromptsServedOnce, PTL DEF Spec
-----------------------------------------------------------------------------
(* What is promised for prompts: the refinement of PromptDelivery.         *)

\* A prompt that goes from one place to another is due as the places say.
LEMMA DueMoves ==
  ASSUME TypeOK, NEW p \in Prompts, NEW place \in Places, Goto(p, place)
  PROVE  Due' = IF place \in {"new", "checked", "follow", "handed", "refused"}
                THEN Due \cup {p} ELSE Due \ {p}
BY DEF Goto, Due, TypeOK

\* Whatever a handler, the router, a runtime or a list request does is one step
\* of the promise, or changes nothing the promise is about.
LEMMA StepRefinesDelivery ==
  ASSUME TypeOK, Begun, [Next]_vars
  PROVE  [Promise!Next]_(Promise!vars)
<1> USE DEF handlers, router, others, history
<1> DEFINE Same == UNCHANGED <<Due, queue, turn, served, resent, rejected, faults>>
<1>1. Same => UNCHANGED Promise!vars
  BY DEF Promise!vars
<1>2. UNCHANGED pc => Due' = Due
  BY DEF Due
<1>3. Fault => faults' > 0
  BY FaultType DEF TypeOK
<1>4. ASSUME NEW p \in Prompts, Submit(p) PROVE Same
  <2>1. pc[p] = "new" /\ \E place \in {"follow", "checked", "handed"} : Goto(p, place)
    BY <1>4 DEF Submit, PromptAsync, SendMessage, ClaimTask
  <2>2. Due' = Due
    BY <2>1, DueMoves DEF Places, Due
  <2>3. QED
    BY <1>4, <2>2 DEF Submit, PromptAsync, SendMessage, ClaimTask
<1>5. ASSUME NEW p \in Prompts, HandOff(p) PROVE Same
  <2>1. Due' = Due
    BY <1>5, DueMoves DEF HandOff, Places, Due
  <2>2. QED
    BY <1>5, <2>1 DEF HandOff
<1>6. ASSUME NEW p \in Prompts, EnqueueTurn(p)
      PROVE  Promise!Begin(p) \/ Promise!Reject(p) \/ Same
  <2>1. pc[p] = "handed" /\ p \in Due
    BY <1>6 DEF EnqueueTurn, Due
  <2>2. CASE Accept(p)
    <3>1. Due' = Due \ {p}
      BY <2>2, DueMoves DEF Accept, Places
    <3>2. turn = None /\ turn' # None
      BY <2>2, CallType, RunType DEF Accept
    <3>3. QED
      BY <1>6, <2>1, <2>2, <3>1, <3>2 DEF EnqueueTurn, Accept, Promise!Begin
  <2>3. CASE Reject(p)
    <3>1. Due' = Due \ {p}
      BY <2>3, DueMoves DEF Reject, Places
    <3>2. QED
      BY <1>6, <2>1, <2>3, <3>1 DEF EnqueueTurn, Reject, Promise!Reject
  <2>4. CASE Goto(p, "refused") /\ UNCHANGED <<turn, served, rejected>>
    <3>1. Due' = Due
      BY <2>1, <2>4, DueMoves DEF Places
    <3>2. QED
      BY <1>6, <2>4, <3>1 DEF EnqueueTurn
  <2>5. QED
    BY <1>6, <2>2, <2>3, <2>4 DEF EnqueueTurn
<1>7. ASSUME NEW p \in Prompts, LoseCall(p) \/ FindRouterGone(p)
      PROVE  Promise!Repeat(p) \/ Promise!Miss
  <2>1. /\ SendAgain(p) /\ faults' > 0
        /\ p \notin Due /\ served[p] > 0
    BY <1>3, <1>7 DEF LoseCall, FindRouterGone, Due, Begun
  <2>2. CASE p \in resent
    <3>1. Due' = Due /\ resent' = resent
      BY <2>1, <2>2, DueMoves DEF SendAgain, Places
    <3>2. QED
      BY <2>1, <3>1 DEF SendAgain, Promise!Miss
  <2>3. CASE p \notin resent
    <3>1. Due' = Due \cup {p}
      BY <2>1, <2>3, DueMoves DEF SendAgain, Places
    <3>2. QED
      BY <2>1, <2>3, <3>1 DEF SendAgain, Promise!Repeat
  <2>4. QED
    BY <2>2, <2>3
<1>8. ASSUME NEW p \in Prompts, AppendCommand(p) PROVE Promise!Keep(p) \/ Promise!Drop(p)
  <2>1. p \in Due /\ Due' = Due \ {p}
    BY <1>8, DueMoves DEF AppendCommand, Places, Due
  <2>2. CASE queue' = queue \cup {p} /\ UNCHANGED faults
    BY <1>8, <2>1, <2>2 DEF AppendCommand, Promise!Keep
  <2>3. CASE Fault /\ UNCHANGED queue
    BY <1>3, <1>8, <2>1, <2>3 DEF AppendCommand, Promise!Drop
  <2>4. QED
    BY <1>8, <2>2, <2>3 DEF AppendCommand
<1>9. ASSUME NEW p \in Prompts, Finish(p) PROVE Same
  <2>1. Due' = Due
    BY <1>9, DueMoves DEF Finish, Places, Due
  <2>2. QED
    BY <1>9, <2>1 DEF Finish
<1>10. ASSUME NEW r \in Runs, StartRuntime(r) \/ FinishRuntime(r) PROVE Same
  BY <1>2, <1>10 DEF StartRuntime, FinishRuntime
<1>11. ASSUME NEW r \in Runs, TakeCommands(r) PROVE Promise!Take \/ Promise!Forget
  <2>1. CASE /\ served' = [p \in Prompts |-> IF p \in queue THEN served[p] + 1 ELSE served[p]]
             /\ UNCHANGED faults
    BY <1>2, <1>11, <2>1 DEF TakeCommands, Promise!Take
  <2>2. CASE Fault /\ UNCHANGED served
    BY <1>2, <1>3, <1>11, <2>2 DEF TakeCommands, Promise!Forget
  <2>3. QED
    BY <1>11, <2>1, <2>2 DEF TakeCommands
<1>12. ASSUME NEW r \in Runs, FindNoEntry(r) \/ Answer(r) \/ Kill(r) PROVE Promise!End
  <2>1. PICK result \in {"ended", "failed"} : EndTurn(r, result)
    BY <1>12 DEF FindNoEntry, Answer, Kill
  <2>2. Due' = Due
    BY <2>1, EndTurnMoves
  <2>3. QED
    BY <2>1, <2>2 DEF EndTurn, Promise!End
<1>13. CASE Abort
  <2>1. turn' = None /\ Due' = Due /\ UNCHANGED <<queue, served, resent, rejected, faults>>
    BY <1>2, <1>13 DEF Abort
  <2>2. Promise!End
    BY <2>1 DEF Promise!End
  <2>3. QED
    BY <2>2 DEF Promise!Next
<1>14. CASE RestartRouter
  <2>1. queue' = {} /\ turn' = None /\ faults' > 0
    BY <1>3, <1>14 DEF RestartRouter, Begun
  <2>2. Promise!Forget
    BY <1>2, <1>14, <2>1 DEF RestartRouter, Promise!Forget
  <2>3. QED
    BY <2>2 DEF Promise!Next
<1>15. ASSUME NEW l \in Probers, Probe(l) PROVE Promise!Miss \/ Same
  <2>1. CASE Fault
    BY <1>2, <1>3, <1>15, <2>1 DEF Probe, List, AskRouter, MarkMemory, MarkDb, Promise!Miss
  <2>2. CASE ~Fault
    BY <1>2, <1>15, <2>2 DEF Probe, List, AskRouter, MarkMemory, MarkDb
  <2>3. QED
    BY <2>1, <2>2
<1>16. ASSUME NEW r \in Readers, ReadDb(r) \/ ApplySnapshot(r) PROVE Same
  BY <1>2, <1>16 DEF ReadDb, ApplySnapshot
<1>17. CASE UNCHANGED vars
  BY <1>1, <1>2, <1>17 DEF vars
<1>18. QED
  BY <1>1, <1>4, <1>5, <1>6, <1>7, <1>8, <1>9, <1>10, <1>11, <1>12, <1>13, <1>14, <1>15, <1>16,
     <1>17 DEF Next, Handler, Runtime, Promise!Next

\* A session of the gateway delivers its prompts as PromptDelivery says, for any
\* number of prompts, readers, probes, aborts and lost calls.
THEOREM ImplementsPromptDelivery == Spec => PromptDeliverySpec
<1>1. Init => Promise!Init
  <2> SUFFICES ASSUME Init PROVE Promise!Init
    OBVIOUS
  <2>1. Due = Prompts
    BY DEF Init, Due
  <2>2. QED
    BY <2>1 DEF Init, Promise!Init
<1>2. QED
  BY <1>1, StepRefinesDelivery, TypeCorrect, BegunAlways, PTL
     DEF Spec, PromptDeliverySpec, Promise!Spec

\* What the promise bounds: no prompt is worked on more than twice, whatever
\* calls are lost, and one that was not offered again is worked on at most once.
AtMostTwice == \A p \in Prompts : Dues(p) <= (IF p \in resent THEN 2 ELSE 1)

LEMMA PromiseBounds ==
  ASSUME TypeOK, AtMostTwice, [Promise!Next]_(Promise!vars)
  PROVE  AtMostTwice'
<1> DEFINE Account(p) == served[p] + (IF p \in queue THEN 1 ELSE 0) + (IF p \in Due THEN 1 ELSE 0)
<1> DEFINE Bounded == \A p \in Prompts : Account(p) <= (IF p \in resent THEN 2 ELSE 1)
<1>1. \A p \in Prompts : Dues(p) = Account(p)
  BY DEF Dues, Due
<1>2. \A p \in Prompts : Dues(p)' = Account(p)'
  BY DEF Dues, Due
<1>3. Bounded /\ \A p \in Prompts : served[p] \in Nat
  BY <1>1 DEF AtMostTwice, TypeOK
<1>4. Bounded'
  <2>1. CASE Promise!Take
    BY <1>3, <2>1 DEF Promise!Take
  <2>2. CASE Promise!End \/ Promise!Miss \/ Promise!Forget \/ UNCHANGED Promise!vars
    <3>1. UNCHANGED <<Due, served, resent>> /\ (queue' = queue \/ queue' = {})
      BY <2>2 DEF Promise!End, Promise!Miss, Promise!Forget, Promise!vars
    <3>2. QED
      BY <1>3, <3>1
  <2>3. ASSUME NEW q \in Prompts, Promise!Begin(q) \/ Promise!Reject(q) PROVE Bounded'
    BY <1>3, <2>3 DEF Promise!Begin, Promise!Reject, TypeOK
  <2>4. ASSUME NEW q \in Prompts, Promise!Keep(q) \/ Promise!Repeat(q) \/ Promise!Drop(q) PROVE Bounded'
    BY <1>3, <2>4 DEF Promise!Keep, Promise!Repeat, Promise!Drop
  <2>5. QED
    BY <2>1, <2>2, <2>3, <2>4 DEF Promise!Next
<1>5. QED
  BY <1>2, <1>4 DEF AtMostTwice

\* No prompt is worked on more than twice, however many calls are lost.
THEOREM WorkedAtMostTwice == Spec => []AtMostTwice
<1>1. Init => AtMostTwice
  BY DEF Init, AtMostTwice, Dues, Due
<1>2. QED
  BY <1>1, StepRefinesDelivery, PromiseBounds, TypeCorrect, BegunAlways, PTL DEF Spec
=============================================================================
