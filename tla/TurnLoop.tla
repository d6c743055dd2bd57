------------------------------- MODULE TurnLoop -------------------------------
(***************************************************************************)
(* The loop a runtime runs for one prompt of a session                     *)
(* (runtime/src/manas/process.rs): it calls the provider, runs the tools    *)
(* the provider asks for, applies what they say of the task plan, rebuilds *)
(* the context from the session's log and decides whether to go on, and it *)
(* writes checkpoints of the session on the way. A later prompt starts     *)
(* from what the checkpoints saved.                                        *)
(*                                                                         *)
(*   - log is the session's log, messages the context the loop holds, sent *)
(*     what the provider call under way was given, db the checkpoint;      *)
(*   - queue holds the follow-up commands the router keeps for the session *)
(*     until a provider call takes them;                                   *)
(*   - the runtime can be killed, or return an error, at any time.         *)
(*                                                                         *)
(* A log entry is a kind with the prompt and turn it belongs to. A task    *)
(* whose start condition is not the user's action is left out of the plan. *)
(***************************************************************************)
EXTENDS Naturals, Sequences

CONSTANTS Modes,        \* kinds of sessions and agents
          FollowUps,    \* commands sent to the session while a turn runs
          MaxPrompts,   \* bound: prompts of the session
          MaxLoaded,    \* bound: log entries a later prompt starts from
          MaxTurns,     \* turns of one prompt: TURA_MANAS_MAX_TURNS, by default 256
          RetryLimit,   \* retries after provider failures: 3
          NoToolLimit,  \* answers without tools in a row: TURA_NO_TOOL_RETRY_LIMIT, by default 20
          MaxTasks,     \* bound: tasks of the plan
          MaxFaults     \* bound: checkpoints or takes that fail

ASSUME ModesAssumption ==
  Modes \subseteq [goal : BOOLEAN, planning : BOOLEAN, status : BOOLEAN, child : BOOLEAN]
ASSUME LimitsAssumption ==
  /\ MaxPrompts \in Nat \ {0} /\ MaxLoaded \in Nat /\ MaxTurns \in Nat \ {0} /\ RetryLimit \in Nat
  /\ NoToolLimit \in Nat /\ MaxTasks \in Nat \ {0} /\ MaxFaults \in Nat

VARIABLES
  mode,      \* goal mode; whether the agent plans, reports status, is a planning child
  pc,        \* where the loop is
  outcome,   \* how the prompt ended
  prompt, turn, retries, noTool,
  state,     \* the session's state in memory
  plan,      \* the statuses of its tasks
  log,       \* its log
  answered,  \* session_current_turn > 0: a provider call of the session has come back
  messages,  \* the context the next call is built from
  prefix,    \* follow-ups of earlier prompts, put before every context
  sent,      \* the context the call under way was given
  answer,    \* what the turn brought so far: the reply, then the verdict on its tools
  queue,     \* user commands the router holds, in the order they came
  db,        \* what the checkpoints saved
  faults

loop     == <<mode, prompt>>
counters == <<turn, retries, noTool>>
session  == <<state, plan, log, answered>>
call     == <<messages, prefix, sent, answer>>
vars     == <<loop, counters, session, call, pc, outcome, queue, db, faults>>

Statuses == {"todo", "doing", "question", "done"}
Replies  == {"none", "short", "long"}
States   == {"created", "running", "completed", "failed"}
Verdicts == {"none", "doing", "at_once", "done", "ask", "asked"}

Entry(kind, t) == <<kind, prompt, t>>
FollowUp(f)    == <<"followup", f, 0>>
Items(s)       == {s[i] : i \in DOMAIN s}

-----------------------------------------------------------------------------
(* The task plan. *)

\* The first task whose status is in S gets status s.
IsFirst(p, S, i) == p[i] \in S /\ \A j \in 1..(i - 1) : p[j] \notin S
Mark(p, S, s)    == [i \in DOMAIN p |-> IF IsFirst(p, S, i) THEN s ELSE p[i]]
Has(p, S)        == \E i \in DOMAIN p : p[i] \in S

EnsureTask(p) == IF p = <<>> THEN <<"doing">> ELSE p

\* One task_status item: it names a group, reports progress, the end, or asks.
Apply(p, item) ==
  CASE item = "doing"    -> Mark(EnsureTask(p), {"doing", "todo", "question"}, "doing")
    [] item = "done"     -> Mark(EnsureTask(p), {"doing", "todo", "question"}, "done")
    [] item = "question" -> Mark(EnsureTask(p), {"doing", "todo"}, "question")
    [] OTHER             -> EnsureTask(p)

\* The steps of a planning result take the place of the active task.
Replaced(p, steps, S) ==
  LET i == CHOOSE j \in DOMAIN p : IsFirst(p, S, j)
  IN  SubSeq(p, 1, i - 1) \o steps \o SubSeq(p, i + 1, Len(p))
ReplaceActive(p, steps) ==
  IF steps = <<>> THEN p
  ELSE IF Has(p, {"doing", "question"}) THEN Replaced(p, steps, {"doing", "question"})
  ELSE IF Has(p, {"todo"}) THEN Replaced(p, steps, {"todo"})
  ELSE p \o steps

ActivateFirst(p) == IF Has(p, {"doing", "question"}) THEN p ELSE Mark(p, {"todo"}, "doing")

\* Statuses of at most two task_status items, and the steps of a planning
\* result: each is still to do, or was reported done.
ItemLists == UNION {[1..n -> {"group", "doing", "question", "done"}] : n \in 0..2}
StepLists == UNION {[1..n -> {"todo", "done"}] : n \in 0..MaxTasks}

AfterItems(p, items) ==
  CASE Len(items) = 0 -> p
    [] Len(items) = 1 -> Apply(p, items[1])
    [] OTHER          -> Apply(Apply(p, items[1]), items[2])

\* The first status that is not a group decides about the turn.
FirstStatus(items) ==
  IF Has(items, {"doing", "done", "question"})
  THEN items[CHOOSE i \in DOMAIN items : IsFirst(items, {"doing", "done", "question"}, i)]
  ELSE "none"

\* What follows: alone, after a long reply, a terminal status ends the prompt
\* at once. After "done", and after a question the user has not seen or that
\* commands came with, one more call writes the final answer.
Verdict(status, reply, alone, commands) ==
  CASE status \in {"done", "question"} /\ reply = "long" /\ alone -> "at_once"
    [] status = "question" -> IF reply = "none" \/ commands THEN "ask" ELSE "asked"
    [] OTHER               -> status

\* What a turn's tools can make of a plan, and the verdict on them: task_status
\* items and planning steps in either order, with other commands or without.
Plans == UNION {[1..n -> Statuses] : n \in 0..MaxTasks}
Outcome(p, reply, items, steps, planning, other) ==
  LET Planned(q) == IF planning THEN ActivateFirst(ReplaceActive(q, steps)) ELSE q
      alone      == Len(items) = 1 /\ ~planning /\ ~other
  IN  [plan : {AfterItems(Planned(p), items), Planned(AfterItems(p, items))} \cap Plans,
       verdict : {Verdict(FirstStatus(items), reply, alone, other)}]
Outcomes == [x \in Plans \X Replies |->
  UNION {Outcome(x[1], x[2], items, steps, planning, other) :
         items \in ItemLists, steps \in StepLists, planning, other \in BOOLEAN}]

-----------------------------------------------------------------------------
(* The log and the context built from it. *)

IsCompaction(e) == e[1] = "compaction"

\* From the last compaction on, with the tool results right before it; the
\* compaction's own text stands for everything earlier.
Kept(l, i) ==
  \A c \in DOMAIN l : IsCompaction(l[c]) /\ i < c =>
    \A j \in i..(c - 1) : l[j][1] = "result"
Context(l) == {l[i] : i \in {j \in DOMAIN l : Kept(l, j)}}

IsResult(e) == e[1] = "result"

\* MUTANT of Retained: the entry before the tool results stays as well.
RetainedAndOne(l) ==
  IF l = <<>> THEN l
  ELSE LET first == CHOOSE i \in DOMAIN l : (i = 1 \/ ~IsResult(l[i])) /\
                                            \A j \in (i + 1)..Len(l) : IsResult(l[j])
       IN  SubSeq(l, first, Len(l))

\* A compaction drops the log but for the tool results at its end.
Retained(l) ==
  LET first == CHOOSE i \in 1..(Len(l) + 1) : (i = 1 \/ ~IsResult(l[i - 1])) /\
                                              \A j \in i..Len(l) : IsResult(l[j])
  IN  SubSeq(l, first, Len(l))

-----------------------------------------------------------------------------
(* Checkpoints. *)

Fault == faults < MaxFaults /\ faults' = faults + 1

Snapshot(s, l, p, a) == [state |-> s, log |-> l, plan |-> p, answered |-> a]

\* A checkpoint that cannot be written is logged and forgotten.
Checkpoint ==
  \/ db' = Snapshot(state', log', plan', answered') /\ UNCHANGED faults
  \/ Fault /\ UNCHANGED db

-----------------------------------------------------------------------------
Init ==
  /\ mode \in Modes
  /\ pc = "created" /\ outcome = "none" /\ prompt = 1
  /\ turn = 0 /\ retries = 0 /\ noTool = 0
  /\ state = "created" /\ plan = <<>> /\ log = <<>> /\ answered = FALSE
  /\ messages = {} /\ prefix = {} /\ sent = {} /\ answer = "none"
  /\ queue = <<>> /\ db = Snapshot("created", <<>>, <<>>, FALSE) /\ faults = 0

\* A follow-up command reaches the router; the gateway sends it while the
\* session is busy. Its name is free again once nothing holds it any more.
Arrive(f) ==
  /\ pc # "ended" /\ f \notin Items(queue)
  /\ FollowUp(f) \notin Items(log) \cup Items(db.log) \cup messages \cup sent
  /\ queue' = Append(queue, f)
  /\ UNCHANGED <<loop, counters, session, call, pc, outcome, db, faults>>

GoTo(place) == pc' = place /\ UNCHANGED outcome

\* The loop is left, and its locals are gone.
Leaves(place, how) ==
  /\ pc' = place /\ outcome' = how
  /\ turn' = 0 /\ retries' = 0 /\ noTool' = 0
  /\ messages' = {} /\ prefix' = {} /\ sent' = {} /\ answer' = "none"
Settles(how) == Leaves("settling", how)

\* The prompt is logged, unless the log has its text as a prompt already. A new
\* one is all the first call is given as long as no call of the session has come
\* back; else the call is given what the log has.
LogPrompt ==
  \/ /\ log' = Append(log, Entry("prompt", 0))
     /\ messages' = IF answered THEN Context(log') ELSE {Entry("prompt", 0)}
  \/ /\ \E e \in Items(log) : e[1] = "prompt"
     /\ messages' = Context(log) /\ UNCHANGED log

\* The session is saved and the loop entered. If that first snapshot fails the
\* prompt aborts; the checkpoint of "running" may fail.
Begin ==
  /\ pc = "created"
  /\ LogPrompt /\ prefix' = {e \in messages' : e[1] = "followup"}
  /\ state' = "running" /\ GoTo("top")
  /\ \/ db' = Snapshot("running", log', plan, answered) /\ UNCHANGED faults
     \/ db' = Snapshot(state, log', plan, answered) /\ Fault
  /\ UNCHANGED <<loop, counters, plan, answered, sent, answer, queue>>

TurnLimit ==
  /\ pc = "top" /\ turn + 1 > MaxTurns
  /\ Settles("failed")
  /\ UNCHANGED <<loop, session, queue, db, faults>>

\* A call takes the follow-ups: they are logged and sent, but not added to the
\* messages the loop holds. If the router's answer does not come in time they
\* are gone.
TakeCommands(context) ==
  LET taken == [i \in DOMAIN queue |-> FollowUp(queue[i])]
  IN  /\ queue' = <<>>
      /\ \/ log' = log \o taken /\ sent' = context \cup Items(taken) /\ UNCHANGED faults
         \/ queue # <<>> /\ Fault /\ sent' = context /\ UNCHANGED log

StartCall ==
  /\ pc = "top" /\ turn + 1 <= MaxTurns
  /\ turn' = turn + 1
  /\ TakeCommands(messages) /\ GoTo("calling")
  /\ UNCHANGED <<loop, retries, noTool, state, plan, answered, messages, prefix, answer, db>>

\* The call cannot be made, before or after it took the follow-ups.
CallBreaks ==
  /\ pc = "calling" \/ (pc = "top" /\ turn + 1 <= MaxTurns)
  /\ Settles("failed")
  /\ UNCHANGED <<loop, session, queue, db, faults>>

\* MUTANT of Retry: one retry too many.
RetryOnceMore ==
  /\ retries <= RetryLimit /\ retries' = retries + 1
  /\ sent' = {} /\ answer' = "failed"
  /\ GoTo("top")
  /\ UNCHANGED <<turn, noTool, messages, prefix>>

\* MUTANT of Retry: a retry does not count as a turn.
RetryWithinTurn ==
  /\ retries < RetryLimit /\ retries' = retries + 1
  /\ sent' = {} /\ answer' = "failed" /\ turn' = turn - 1
  /\ GoTo("top")
  /\ UNCHANGED <<noTool, messages, prefix>>

\* The provider failed: what it reported is logged and saved. A failure that
\* allows it is retried with the same messages, any other ends the prompt.
Retry ==
  /\ retries < RetryLimit /\ retries' = retries + 1
  /\ sent' = {} /\ answer' = "failed"
  /\ GoTo("top")
  /\ UNCHANGED <<turn, noTool, messages, prefix>>

ProviderFails ==
  /\ pc = "calling"
  /\ log' \in {log, Append(log, Entry("reply", turn))}
  /\ answered' = TRUE /\ UNCHANGED <<state, plan>> /\ Checkpoint
  /\ Retry \/ Settles("failed")
  /\ UNCHANGED <<loop, queue>>

\* It answered: its usage and text are logged and saved.
Answered(reply) ==
  /\ pc = "calling"
  /\ log' = Append(log, Entry("reply", turn))
  /\ answered' = TRUE /\ UNCHANGED <<state, plan>> /\ Checkpoint
  /\ answer' = reply /\ sent' = {}
  /\ UNCHANGED <<loop, turn, messages, prefix, queue>>

CallsTools(reply) ==
  /\ Answered(reply) /\ GoTo("executing")
  /\ retries' = 0 /\ noTool' = 0

CallsNoTools(reply) ==
  /\ Answered(reply) /\ GoTo("replied")
  /\ UNCHANGED <<retries, noTool>>

\* The tools run and their results are logged.
ExecuteTools ==
  /\ pc = "executing"
  /\ \E o \in Outcomes[<<plan, answer>>] : plan' = o.plan /\ answer' = o.verdict
  /\ log' = Append(log, Entry("result", turn))
  /\ UNCHANGED <<state, answered>> /\ Checkpoint
  /\ GoTo("deciding")
  /\ UNCHANGED <<loop, counters, messages, prefix, sent, queue>>

Ends ==
  /\ pc = "deciding" /\ answer \in {"at_once", "asked"}
  /\ Settles("completed")
  /\ UNCHANGED <<loop, session, queue, db, faults>>

\* The next turn starts from the context rebuilt from the log.
GoesOn ==
  /\ messages' = prefix \cup Context(log') /\ answer' = "none"
  /\ GoTo("top")
  /\ UNCHANGED <<loop, turn, retries, prefix, sent, queue>>

\* The context is compacted, because task_status asked for it or because it
\* grew past the limit, and the loop goes on whatever the status was.
Compact ==
  /\ pc \in {"deciding", "replied"}
  /\ log' = Append(Retained(log), Entry("compaction", turn))
  /\ UNCHANGED <<state, plan, answered>> /\ Checkpoint
  /\ GoesOn /\ UNCHANGED noTool

FinalCall ==
  /\ pc = "deciding" /\ answer \in {"done", "ask"}
  /\ messages' = prefix \cup Context(log)
  /\ TakeCommands(messages') /\ GoTo("final")
  /\ UNCHANGED <<loop, counters, state, plan, answered, prefix, answer, db>>

\* Whatever the provider answers, the prompt is completed.
FinalAnswer ==
  /\ pc = "final"
  /\ log' = Append(log, Entry("final", turn))
  /\ answered' = TRUE /\ UNCHANGED <<state, plan>> /\ Checkpoint
  /\ Settles("completed")
  /\ UNCHANGED <<loop, queue>>

\* The loop goes on. A task that now has the focus is logged and saved.
Continue ==
  /\ pc = "deciding" /\ answer \in {"none", "doing"}
  /\ UNCHANGED session
  /\ \/ Has(plan, IF answer = "doing" THEN {"doing"} ELSE {"doing", "todo"}) /\ Checkpoint
     \/ UNCHANGED <<db, faults>>
  /\ GoesOn /\ UNCHANGED noTool

\* A planning child ends with its first answer without tools.
EndChild ==
  /\ pc = "replied" /\ mode.child
  /\ Settles("completed")
  /\ UNCHANGED <<loop, session, queue, db, faults>>

\* A visible reply ends the prompt; outside goal mode and without planning it
\* also settles the task under way.
EndWithReply ==
  /\ pc = "replied" /\ ~mode.child /\ answer # "none"
  /\ UNCHANGED <<state, log, answered>>
  /\ IF ~mode.goal /\ ~mode.planning /\ Has(plan, {"doing"})
     THEN plan' = Mark(plan, {"doing"}, "done") /\ Checkpoint
     ELSE UNCHANGED <<plan, db, faults>>
  /\ Settles("completed")
  /\ UNCHANGED <<loop, queue>>

\* An answer with neither text nor tools: an agent that reports status is
\* asked again, in goal mode always, while it works on a plan NoToolLimit times.
AsksAgain ==
  /\ mode.status
  /\ mode.goal \/ (mode.planning /\ Has(plan, {"doing"}) /\ noTool < NoToolLimit)

Silent == pc = "replied" /\ ~mode.child /\ answer = "none"

RetryNoTool ==
  /\ Silent /\ AsksAgain
  /\ noTool' = noTool + 1
  /\ UNCHANGED session
  /\ IF Has(plan, {"doing"}) THEN Checkpoint ELSE UNCHANGED <<db, faults>>
  /\ GoesOn

EndQuietly ==
  /\ Silent /\ ~AsksAgain
  /\ Settles("completed")
  /\ UNCHANGED <<loop, session, queue, db, faults>>

\* MUTANT of Settle: the session is saved before its state is set.
SettleAfterSaving ==
  /\ pc = "settling"
  /\ state' = outcome
  /\ UNCHANGED <<log, plan, answered>>
  /\ \/ db' = Snapshot(state, log, plan, answered) /\ UNCHANGED faults
     \/ Fault /\ UNCHANGED db
  /\ Leaves("ended", outcome)
  /\ UNCHANGED <<loop, queue>>

Settle ==
  /\ pc = "settling"
  /\ state' = outcome
  /\ UNCHANGED <<log, plan, answered>> /\ Checkpoint
  /\ Leaves("ended", outcome)
  /\ UNCHANGED <<loop, queue>>

-----------------------------------------------------------------------------
(* What happens to a runtime, and the prompt after it. *)

\* The runtime is killed, or a step returns an error: a failure to build the
\* context or to save the session at first, any failure of the final call, and
\* where TURA_RUNTIME_ERRORS_FATAL is set every failure. Memory is gone.
Abort ==
  /\ pc # "ended" /\ Leaves("ended", "aborted")
  /\ state' = "created" /\ log' = <<>> /\ plan' = <<>> /\ answered' = FALSE
  /\ UNCHANGED <<loop, queue, db, faults>>

\* A later prompt loads the session. A state that says running is kept, unless
\* a probe or the sweep of a new session_db has marked it interrupted.
NextPrompt ==
  /\ pc = "ended" /\ prompt < MaxPrompts /\ Len(db.log) <= MaxLoaded
  /\ prompt' = prompt + 1
  /\ state' \in {"created"} \cup ({"running"} \cap {db.state})
  /\ log' = db.log /\ plan' = db.plan /\ answered' = db.answered
  /\ pc' = "created" /\ outcome' = "none"
  /\ UNCHANGED <<mode, counters, call, queue, db, faults>>

Ask      == StartCall \/ CallBreaks \/ TurnLimit
Reply    == ProviderFails \/ FinalAnswer
            \/ \E r \in Replies : CallsTools(r) \/ (r # "long" /\ CallsNoTools(r))
Decide   == Ends \/ Compact \/ FinalCall \/ Continue
Conclude == EndChild \/ EndWithReply \/ RetryNoTool \/ EndQuietly

LoopStep == Begin \/ Ask \/ Reply \/ ExecuteTools \/ Decide \/ Conclude \/ Settle
Next     == LoopStep \/ Abort \/ NextPrompt \/ \E f \in FollowUps : Arrive(f)

Spec == Init /\ [][Next]_vars

-----------------------------------------------------------------------------
(* Properties. *)

Kinds   == {"prompt", "followup", "reply", "result", "compaction", "final"}
Entries == Kinds \X (FollowUps \cup 1..MaxPrompts) \X (0..MaxTurns)

\* Types. The loop never makes more calls than it has turns nor more retries
\* in a row than it allows, and it holds only what was logged.
TypeOK ==
  /\ mode \in Modes
  /\ pc \in {"created", "top", "calling", "executing", "deciding", "replied", "final", "settling", "ended"}
  /\ outcome \in {"none", "completed", "failed", "aborted"}
  /\ prompt \in 1..MaxPrompts /\ turn \in 0..MaxTurns
  /\ retries \in 0..RetryLimit /\ noTool \in 0..MaxTurns
  /\ state \in States /\ plan \in Plans /\ log \in Seq(Entries) /\ answered \in BOOLEAN
  /\ messages \subseteq Entries /\ prefix \subseteq Entries /\ sent \subseteq Entries
  /\ answer \in Replies \cup Verdicts \cup {"failed"} /\ queue \in Seq(FollowUps)
  /\ db.state \in States /\ db.plan \in Plans /\ db.log \in Seq(Entries) /\ db.answered \in BOOLEAN
  /\ faults \in 0..MaxFaults

\* Once a call of the session has come back, a provider call is given all the
\* log holds, of this prompt and of earlier ones, by whichever step the loop came
\* to it, unless it repeats a call that failed: what a compaction leaves in the
\* log is what the context is rebuilt from.
NextCallKnowsTheLog ==
  pc \in {"calling", "final"} /\ answered /\ answer # "failed" => Items(log) \subseteq sent

\* While every checkpoint is written, a runtime that is killed loses at most
\* the follow-ups of the call it waits for; what it decided on is saved, and a
\* prompt that ended by itself left the session as it was.
SavedAsItStands ==
  faults = 0 =>
    /\ pc \in {"top", "executing", "deciding", "replied"} =>
         db.log = log /\ db.plan = plan /\ db.answered = answered
    /\ pc \in {"calling", "final"} =>
         /\ db.plan = plan /\ db.answered = answered
         /\ Items(log) \ Items(db.log) \subseteq sent \ messages
    /\ outcome \in {"completed", "failed"} /\ pc = "ended" =>
         db = Snapshot(state, log, plan, answered) /\ state = outcome

\* Steps that are left to a prompt: five for each turn that is left.
StepsLeft ==
  CASE pc = "ended"    -> 0
    [] pc = "settling" -> 1
    [] pc = "final"    -> 2
    [] pc = "top"      -> 3 + 5 * (MaxTurns - turn)
    [] pc = "deciding" -> 4 + 5 * (MaxTurns - turn)
    [] pc \in {"executing", "replied"} -> 5 + 5 * (MaxTurns - turn)
    [] pc = "calling"  -> 6 + 5 * (MaxTurns - turn)
    [] OTHER           -> 4 + 5 * MaxTurns

\* Whatever the provider and the tools answer, and however retries, compactions
\* and goal mode follow each other, every step of the loop brings the prompt
\* nearer to its end.
EveryStepNearsTheEnd == [][prompt' = prompt => StepsLeft' < StepsLeft]_<<pc, turn, log, prompt>>

-----------------------------------------------------------------------------
(* What documents and tests say and the code does not do; no run is spent  *)
(* on them, the README describes them.                                     *)

\* When "done" ends the loop, no task is left that could be begun.
PlanIsWorkedOff ==
  pc = "final" /\ answer = "done" => ~Has(plan, {"doing", "todo"})

\* In goal mode a completed prompt has no task under way.
GoalIsSettled ==
  pc = "ended" /\ outcome = "completed" /\ mode.goal /\ ~mode.child => ~Has(plan, {"doing"})

\* A repeated call, too, is given everything the log holds.
RetriesKnowTheLog == pc = "calling" => Items(log) \subseteq sent
=============================================================================
