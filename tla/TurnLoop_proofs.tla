---------------------------- MODULE TurnLoop_proofs ----------------------------
(***************************************************************************)
(* Proofs about the loop of a runtime, for any modes, follow-ups, plans    *)
(* and limits.                                                             *)
(***************************************************************************)
EXTENDS TurnLoop, WellFoundedInduction, SequenceTheorems, TLAPS

-----------------------------------------------------------------------------
(* Every step brings the prompt nearer to its end.                         *)

Places == {"created", "top", "calling", "executing", "deciding", "replied", "final", "settling", "ended"}

\* Where the loop is, and how many turns it has used.
Turns == pc \in Places /\ turn \in 0..MaxTurns /\ prompt \in Nat

LEMMA LeavesTurns ==
  ASSUME NEW place \in {"settling", "ended"}, NEW how, Leaves(place, how)
  PROVE  pc' = place /\ turn' = 0
BY DEF Leaves

LEMMA TurnsInvariant == Spec => []Turns
<1> USE LimitsAssumption
<1>1. Init => Turns
  BY DEF Init, Turns, Places
<1>2. Turns /\ [Next]_vars => Turns'
  <2> SUFFICES ASSUME Turns, [Next]_vars PROVE Turns'
    OBVIOUS
  <2> USE DEF Turns, Places
  <2>1. ASSUME Begin PROVE Turns'
    BY <2>1 DEF Begin, GoTo, loop, counters
  <2>2. ASSUME TurnLimit \/ CallBreaks \/ Ends \/ EndChild \/ EndQuietly PROVE Turns'
    BY <2>2, LeavesTurns DEF TurnLimit, CallBreaks, Ends, EndChild, EndQuietly, Settles, loop
  <2>3. ASSUME StartCall PROVE Turns'
    BY <2>3 DEF StartCall, GoTo, loop
  <2>4. ASSUME ProviderFails PROVE Turns'
    <3>1. CASE Retry
      BY <2>4, <3>1 DEF ProviderFails, Retry, GoTo, loop
    <3>2. CASE Settles("failed")
      BY <2>4, <3>2, LeavesTurns DEF ProviderFails, Settles, loop
    <3>3. QED
      BY <2>4, <3>1, <3>2 DEF ProviderFails
  <2>5. ASSUME NEW r \in Replies, CallsTools(r) \/ CallsNoTools(r) PROVE Turns'
    BY <2>5 DEF CallsTools, CallsNoTools, Answered, GoTo, loop
  <2>6. ASSUME ExecuteTools PROVE Turns'
    BY <2>6 DEF ExecuteTools, GoTo, loop, counters
  <2>7. ASSUME Compact \/ Continue \/ RetryNoTool PROVE Turns'
    BY <2>7 DEF Compact, Continue, RetryNoTool, GoesOn, GoTo, loop
  <2>8. ASSUME FinalCall PROVE Turns'
    BY <2>8 DEF FinalCall, GoTo, loop, counters
  <2>9. ASSUME FinalAnswer \/ EndWithReply PROVE Turns'
    BY <2>9, LeavesTurns DEF FinalAnswer, EndWithReply, Settles, loop
  <2>10. ASSUME Settle \/ Abort PROVE Turns'
    BY <2>10, LeavesTurns DEF Settle, Abort, loop
  <2>11. ASSUME NextPrompt PROVE Turns'
    BY <2>11 DEF NextPrompt, counters
  <2>12. ASSUME NEW f \in FollowUps, Arrive(f) PROVE Turns'
    BY <2>12 DEF Arrive, loop, counters
  <2>13. CASE UNCHANGED vars
    BY <2>13 DEF vars, loop, counters
  <2>14. QED
    BY <2>1, <2>2, <2>3, <2>4, <2>5, <2>6, <2>7, <2>8, <2>9, <2>10, <2>11, <2>12, <2>13
       DEF Next, LoopStep, Ask, Reply, Decide, Conclude
<1>3. QED
  BY <1>1, <1>2, PTL DEF Spec

\* For any limits, whatever the provider and the tools answer, every step of
\* the loop (LoopStep or Abort) brings the prompt nearer to its end: a prompt
\* takes at most five steps for each turn it may use, and four more.
THEOREM LoopTerminates == Spec => EveryStepNearsTheEnd
<1> USE LimitsAssumption
<1> DEFINE Nearer == [prompt' = prompt => StepsLeft' < StepsLeft]_<<pc, turn, log, prompt>>
<1>1. Turns /\ [Next]_vars => Nearer
  <2> SUFFICES ASSUME Turns, [Next]_vars PROVE Nearer
    OBVIOUS
  <2> USE DEF Turns, Places
  <2>0. StepsLeft \in Nat
    BY DEF StepsLeft
  <2>1. ASSUME Begin PROVE Nearer
    <3>1. pc = "created" /\ pc' = "top" /\ turn' = turn
      BY <2>1 DEF Begin, GoTo, counters
    <3>2. QED
      BY <3>1 DEF StepsLeft
  <2>2. ASSUME TurnLimit \/ CallBreaks \/ Ends \/ EndChild \/ EndQuietly PROVE Nearer
    <3>1. pc' = "settling" /\ pc \in {"top", "calling", "deciding", "replied"}
      BY <2>2, LeavesTurns DEF TurnLimit, CallBreaks, Ends, EndChild, EndQuietly, Silent, Settles
    <3>2. QED
      BY <3>1 DEF StepsLeft
  <2>3. ASSUME StartCall PROVE Nearer
    BY <2>3 DEF StartCall, GoTo, StepsLeft
  <2>4. ASSUME ProviderFails PROVE Nearer
    <3>1. CASE Retry
      BY <2>4, <3>1 DEF ProviderFails, Retry, GoTo, StepsLeft
    <3>2. CASE Settles("failed")
      <4>1. pc = "calling" /\ pc' = "settling"
        BY <2>4, <3>2, LeavesTurns DEF ProviderFails, Settles
      <4>2. QED
        BY <4>1 DEF StepsLeft
    <3>3. QED
      BY <2>4, <3>1, <3>2 DEF ProviderFails
  <2>5. ASSUME NEW r \in Replies, CallsTools(r) \/ CallsNoTools(r) PROVE Nearer
    BY <2>5 DEF CallsTools, CallsNoTools, Answered, GoTo, StepsLeft
  <2>6. ASSUME ExecuteTools PROVE Nearer
    <3>1. pc = "executing" /\ pc' = "deciding" /\ turn' = turn
      BY <2>6 DEF ExecuteTools, GoTo, counters
    <3>2. QED
      BY <3>1 DEF StepsLeft
  <2>7. ASSUME Compact \/ Continue \/ RetryNoTool PROVE Nearer
    <3>1. pc' = "top" /\ turn' = turn /\ pc \in {"deciding", "replied"}
      BY <2>7 DEF Compact, Continue, RetryNoTool, Silent, GoesOn, GoTo
    <3>2. QED
      BY <3>1 DEF StepsLeft
  <2>8. ASSUME FinalCall PROVE Nearer
    BY <2>8 DEF FinalCall, GoTo, counters, StepsLeft
  <2>9. ASSUME FinalAnswer \/ EndWithReply PROVE Nearer
    <3>1. pc' = "settling" /\ pc \in {"final", "replied"}
      BY <2>9, LeavesTurns DEF FinalAnswer, EndWithReply, Settles
    <3>2. QED
      BY <3>1 DEF StepsLeft
  <2>10. ASSUME Settle \/ Abort PROVE Nearer
    <3>1. pc' = "ended" /\ pc # "ended"
      BY <2>10, LeavesTurns DEF Settle, Abort
    <3>2. QED
      BY <3>1 DEF StepsLeft
  <2>11. ASSUME NextPrompt PROVE Nearer
    BY <2>11 DEF NextPrompt
  <2>12. ASSUME NEW f \in FollowUps, Arrive(f) PROVE Nearer
    BY <2>12 DEF Arrive, loop, counters, session
  <2>13. CASE UNCHANGED vars
    BY <2>13 DEF vars, loop, counters, session
  <2>14. QED
    BY <2>1, <2>2, <2>3, <2>4, <2>5, <2>6, <2>7, <2>8, <2>9, <2>10, <2>11, <2>12, <2>13
       DEF Next, LoopStep, Ask, Reply, Decide, Conclude
<1>2. QED
  BY <1>1, TurnsInvariant, PTL DEF Spec, EveryStepNearsTheEnd

-----------------------------------------------------------------------------
(* What a compaction leaves in the log is what the context is built from.  *)

\* The tool results at the end of a log begin somewhere.
LEMMA ResultsBegin ==
  ASSUME NEW S, NEW l \in Seq(S)
  PROVE  \E i \in 1..(Len(l) + 1) : (i = 1 \/ ~IsResult(l[i - 1])) /\ \A j \in i..Len(l) : IsResult(l[j])
<1> DEFINE T == {i \in 1..(Len(l) + 1) : \A j \in i..Len(l) : IsResult(l[j])}
           R == {ss \in Nat \X Nat : ss[1] < ss[2]}
<1>1. IsWellFoundedOn(R, Nat)
  BY NatLessThanWellFounded DEF OpToRel
<1>2. T \subseteq Nat /\ Len(l) + 1 \in T
  BY LenProperties
<1>3. PICK i \in T : \A y \in T : ~(<<y, i>> \in R)
  <2> HIDE DEF T, R
  <2>1. QED
    BY <1>1, <1>2, WFMin
<1>4. i = 1 \/ ~IsResult(l[i - 1])
  <2> SUFFICES ASSUME i # 1, IsResult(l[i - 1]) PROVE FALSE
    OBVIOUS
  <2>1. i - 1 \in T
    BY LenProperties, <1>3
  <2>2. <<i - 1, i>> \in R
    BY LenProperties, <1>3
  <2>3. QED
    BY <2>1, <2>2, <1>3
<1>5. QED
  BY <1>3, <1>4

LEMMA RetainedResults ==
  ASSUME NEW l \in Seq(Entries)
  PROVE  /\ Retained(l) \in Seq(Entries) /\ Items(Retained(l)) \subseteq Items(l)
         /\ \A i \in 1..Len(Retained(l)) : IsResult(Retained(l)[i])
<1> DEFINE Begins(i) == (i = 1 \/ ~IsResult(l[i - 1])) /\ \A j \in i..Len(l) : IsResult(l[j])
           first     == CHOOSE i \in 1..(Len(l) + 1) : Begins(i)
<1>1. first \in 1..(Len(l) + 1) /\ Begins(first)
  <2>1. \E i \in 1..(Len(l) + 1) : Begins(i)
    BY ResultsBegin
  <2> HIDE DEF Begins
  <2>2. QED
    BY <2>1
<1>2. Retained(l) = SubSeq(l, first, Len(l))
  BY DEF Retained
<1> HIDE DEF first
<1>3. Len(l) \in Nat /\ \A j \in first..Len(l) : l[j] \in Entries
  BY <1>1, LenProperties, ElementOfSeq
<1>4. /\ SubSeq(l, first, Len(l)) \in Seq(Entries)
      /\ Len(SubSeq(l, first, Len(l))) = IF first <= Len(l) THEN Len(l) - first + 1 ELSE 0
      /\ \A i \in 1..(Len(l) - first + 1) : SubSeq(l, first, Len(l))[i] = l[first + i - 1]
  BY <1>1, <1>3, SubSeqProperties
<1>5. ASSUME NEW i \in 1..Len(Retained(l))
      PROVE  IsResult(Retained(l)[i]) /\ Retained(l)[i] \in Items(l)
  <2>1. i \in 1..(Len(l) - first + 1) /\ first + i - 1 \in first..Len(l)
    BY <1>1, <1>2, <1>3, <1>4
  <2>2. Retained(l)[i] = l[first + i - 1] /\ DOMAIN l = 1..Len(l)
    BY <2>1, <1>2, <1>4, LenProperties
  <2>3. QED
    BY <2>1, <2>2, <1>1, <1>3 DEF Items
<1>6. Items(Retained(l)) \subseteq Items(l)
  <2>1. DOMAIN Retained(l) = 1..Len(Retained(l))
    BY <1>2, <1>4, LenProperties
  <2>2. QED
    BY <2>1, <1>5 DEF Items
<1>7. QED
  BY <1>2, <1>4, <1>5, <1>6

\* Everything in a log is in the context that is built from it.
AllKept(l) == \A i \in 1..Len(l) : Kept(l, i)

LEMMA ContextIsLog ==
  ASSUME NEW l \in Seq(Entries)
  PROVE  /\ Context(l) \subseteq Items(l) /\ Items(l) \subseteq Entries
         /\ AllKept(l) => Context(l) = Items(l)
<1>1. DOMAIN l = 1..Len(l) /\ \A i \in 1..Len(l) : l[i] \in Entries
  BY LenProperties, ElementOfSeq
<1>2. QED
  BY <1>1 DEF Context, Items, AllKept

LEMMA AppendKept ==
  ASSUME NEW l \in Seq(Entries), NEW e \in Entries, ~IsCompaction(e), AllKept(l)
  PROVE  AllKept(Append(l, e))
<1>1. /\ DOMAIN l = 1..Len(l) /\ DOMAIN Append(l, e) = 1..(Len(l) + 1)
      /\ Len(Append(l, e)) = Len(l) + 1 /\ Len(l) \in Nat
      /\ \A i \in 1..Len(l) : Append(l, e)[i] = l[i]
      /\ Append(l, e)[Len(l) + 1] = e
  BY AppendProperties, LenProperties
<1>2. SUFFICES ASSUME NEW i \in 1..(Len(l) + 1), NEW c \in 1..(Len(l) + 1),
                      IsCompaction(Append(l, e)[c]), i < c, NEW j \in i..(c - 1)
               PROVE  Append(l, e)[j][1] = "result"
  BY <1>1 DEF AllKept, Kept
<1>3. c # Len(l) + 1
  BY <1>1, <1>2
<1>4. c \in 1..Len(l) /\ i \in 1..Len(l) /\ j \in 1..Len(l) /\ IsCompaction(l[c])
  BY <1>1, <1>2, <1>3
<1>5. l[j][1] = "result"
  BY <1>1, <1>2, <1>4 DEF AllKept, Kept
<1>6. QED
  BY <1>1, <1>4, <1>5

LEMMA ConcatKept ==
  ASSUME NEW l \in Seq(Entries), NEW t \in Seq(Entries), AllKept(l),
         \A i \in 1..Len(t) : ~IsCompaction(t[i])
  PROVE  AllKept(l \o t) /\ Items(l \o t) \subseteq Items(l) \cup Items(t)
<1>1. /\ DOMAIN l = 1..Len(l) /\ DOMAIN t = 1..Len(t) /\ Len(l) \in Nat /\ Len(t) \in Nat
      /\ DOMAIN (l \o t) = 1..(Len(l) + Len(t)) /\ Len(l \o t) = Len(l) + Len(t)
      /\ \A i \in 1..(Len(l) + Len(t)) :
           (l \o t)[i] = IF i <= Len(l) THEN l[i] ELSE t[i - Len(l)]
  BY ConcatProperties, LenProperties
<1>2. AllKept(l \o t)
  <2>1. SUFFICES ASSUME NEW i \in 1..(Len(l) + Len(t)), NEW c \in 1..(Len(l) + Len(t)),
                        IsCompaction((l \o t)[c]), i < c, NEW j \in i..(c - 1)
                 PROVE  (l \o t)[j][1] = "result"
    BY <1>1 DEF AllKept, Kept
  <2>2. c <= Len(l)
    <3>1. CASE c > Len(l)
      <4>1. c - Len(l) \in 1..Len(t) /\ (l \o t)[c] = t[c - Len(l)]
        BY <1>1, <3>1
      <4>2. QED
        BY <2>1, <4>1
    <3>2. QED
      BY <1>1, <3>1
  <2>3. c \in 1..Len(l) /\ i \in 1..Len(l) /\ j \in 1..Len(l) /\ IsCompaction(l[c])
        /\ (l \o t)[j] = l[j]
    BY <1>1, <2>1, <2>2
  <2>4. l[j][1] = "result"
    BY <1>1, <2>1, <2>3 DEF AllKept, Kept
  <2>5. QED
    BY <2>3, <2>4
<1>3. \A i \in 1..(Len(l) + Len(t)) : (l \o t)[i] \in Items(l) \cup Items(t)
  <2> SUFFICES ASSUME NEW i \in 1..(Len(l) + Len(t)) PROVE (l \o t)[i] \in Items(l) \cup Items(t)
    OBVIOUS
  <2>1. CASE i <= Len(l)
    BY <1>1, <2>1 DEF Items
  <2>2. CASE i > Len(l)
    <3>1. i - Len(l) \in 1..Len(t) /\ (l \o t)[i] = t[i - Len(l)]
      BY <1>1, <2>2
    <3>2. QED
      BY <1>1, <3>1 DEF Items
  <2>3. QED
    BY <1>1, <2>1, <2>2
<1>4. QED
  BY <1>1, <1>2, <1>3 DEF Items

LEMMA CompactedKept ==
  ASSUME NEW l \in Seq(Entries), NEW e \in Entries, IsCompaction(e)
  PROVE  Append(Retained(l), e) \in Seq(Entries) /\ AllKept(Append(Retained(l), e))
<1> DEFINE r == Retained(l)
<1>1. r \in Seq(Entries) /\ \A i \in 1..Len(r) : IsResult(r[i])
  BY RetainedResults
<1> HIDE DEF r
<1>2. /\ Append(r, e) \in Seq(Entries)
      /\ DOMAIN Append(r, e) = 1..(Len(r) + 1)
      /\ Len(Append(r, e)) = Len(r) + 1 /\ Len(r) \in Nat
      /\ \A i \in 1..Len(r) : Append(r, e)[i] = r[i]
  BY <1>1, AppendProperties, LenProperties
<1>3. AllKept(Append(r, e))
  <2>1. SUFFICES ASSUME NEW i \in 1..(Len(r) + 1), NEW c \in 1..(Len(r) + 1), i < c,
                        NEW j \in i..(c - 1)
                 PROVE  Append(r, e)[j][1] = "result"
    BY <1>2 DEF AllKept, Kept
  <2>2. j \in 1..Len(r)
    BY <1>2, <2>1
  <2>3. QED
    BY <1>1, <1>2, <2>2 DEF IsResult
<1>4. QED
  BY <1>2, <1>3 DEF r

-----------------------------------------------------------------------------
(* Type correctness.                                                       *)

Plain == Kinds \ {"compaction"}

LEMMA EntryType ==
  ASSUME TypeOK, NEW t \in 0..MaxTurns, NEW kind \in Kinds
  PROVE  Entry(kind, t) \in Entries /\ (kind # "compaction" => ~IsCompaction(Entry(kind, t)))
BY DEF TypeOK, Entry, Entries, IsCompaction

LEMMA LoggedType ==
  ASSUME TypeOK, NEW t \in 0..MaxTurns, NEW kind \in Plain, AllKept(log)
  PROVE  /\ Append(log, Entry(kind, t)) \in Seq(Entries)
         /\ AllKept(Append(log, Entry(kind, t)))
<1>1. log \in Seq(Entries) /\ Entry(kind, t) \in Entries /\ ~IsCompaction(Entry(kind, t))
  BY EntryType DEF TypeOK, Plain
<1>2. QED
  BY <1>1, AppendProperties, AppendKept

LEMMA FaultType == faults \in 0..MaxFaults /\ Fault => faults' \in 0..MaxFaults
BY LimitsAssumption DEF Fault

LEMMA NoPlan == <<>> \in Plans
<1>1. <<>> \in [1..0 -> Statuses] /\ 0 \in 0..MaxTasks
  BY LimitsAssumption
<1>2. QED
  BY <1>1 DEF Plans

LEMMA MarkType == \A p \in Plans : \A S : Mark(p, S, "done") \in Plans
<1> SUFFICES ASSUME NEW p \in Plans, NEW S PROVE Mark(p, S, "done") \in Plans
  OBVIOUS
<1>1. PICK n \in 0..MaxTasks : p \in [1..n -> Statuses]
  BY DEF Plans
<1>2. Mark(p, S, "done") \in [1..n -> Statuses]
  BY <1>1 DEF Mark, Statuses
<1>3. QED
  BY <1>1, <1>2 DEF Plans

LEMMA OutcomeType ==
  ASSUME NEW p \in Plans, NEW reply \in Replies, NEW o \in Outcomes[<<p, reply>>]
  PROVE  o.plan \in Plans /\ o.verdict \in Verdicts
<1>1. PICK items \in ItemLists, steps \in StepLists, planning \in BOOLEAN, other \in BOOLEAN :
        o \in Outcome(p, reply, items, steps, planning, other)
  BY DEF Outcomes
<1>2. FirstStatus(items) \in {"none", "doing", "done", "question"}
  <2> DEFINE S == {"doing", "done", "question"}
  <2>1. PICK n \in 0..2 : items \in [1..n -> {"group", "doing", "question", "done"}]
    BY DEF ItemLists
  <2>2. ASSUME Has(items, S) PROVE \E i \in DOMAIN items : IsFirst(items, S, i)
    <3>1. DOMAIN items \subseteq {1, 2}
      BY <2>1
    <3>2. CASE 1 \in DOMAIN items /\ items[1] \in S
      BY <3>2 DEF IsFirst
    <3>3. CASE ~(1 \in DOMAIN items /\ items[1] \in S)
      <4>1. 2 \in DOMAIN items /\ items[2] \in S
        BY <2>2, <3>1, <3>3 DEF Has
      <4>2. \A j \in 1..(2 - 1) : items[j] \notin S
        BY <2>1, <3>3, <4>1
      <4>3. QED
        BY <4>1, <4>2 DEF IsFirst
    <3>4. QED
      BY <3>2, <3>3
  <2>3. CASE Has(items, S)
    <3> DEFINE i == CHOOSE j \in DOMAIN items : IsFirst(items, S, j)
    <3>1. i \in DOMAIN items /\ IsFirst(items, S, i)
      BY <2>2, <2>3
    <3>2. QED
      BY <2>3, <3>1 DEF FirstStatus, IsFirst
  <2>4. QED
    BY <2>3 DEF FirstStatus
<1>3. QED
  BY <1>1, <1>2 DEF Outcome, Verdict, Verdicts

SavedType == /\ db.state \in States /\ db.plan \in Plans /\ db.answered \in BOOLEAN
             /\ db.log \in Seq(Entries) /\ AllKept(db.log)

LEMMA SnapshotType ==
  ASSUME NEW s \in States, NEW l \in Seq(Entries), NEW p \in Plans, NEW a \in BOOLEAN,
         AllKept(l), db' = Snapshot(s, l, p, a)
  PROVE  SavedType'
BY DEF Snapshot, SavedType

LEMMA CheckpointType ==
  ASSUME SavedType, faults \in 0..MaxFaults, Checkpoint,
         state' \in States, plan' \in Plans, log' \in Seq(Entries), AllKept(log'), answered' \in BOOLEAN
  PROVE  SavedType' /\ faults' \in 0..MaxFaults
<1>1. CASE db' = Snapshot(state', log', plan', answered') /\ UNCHANGED faults
  BY <1>1 DEF Snapshot, SavedType
<1>2. CASE Fault /\ UNCHANGED db
  BY <1>2, FaultType DEF SavedType
<1>3. QED
  BY <1>1, <1>2 DEF Checkpoint

LEMMA TakeType ==
  ASSUME TypeOK, AllKept(log), NEW context \in SUBSET Entries, TakeCommands(context)
  PROVE  /\ queue' \in Seq(FollowUps) /\ log' \in Seq(Entries) /\ sent' \subseteq Entries
         /\ faults' \in 0..MaxFaults /\ AllKept(log')
         /\ Items(log) \subseteq context => Items(log') \subseteq sent'
<1> DEFINE taken == [i \in DOMAIN queue |-> FollowUp(queue[i])]
<1>1. /\ taken \in Seq(Entries) /\ Items(taken) \subseteq Entries
      /\ \A i \in 1..Len(taken) : ~IsCompaction(taken[i])
  <2>1. Len(queue) \in Nat /\ DOMAIN queue = 1..Len(queue)
        /\ \A i \in 1..Len(queue) : queue[i] \in FollowUps
    BY LenProperties, ElementOfSeq DEF TypeOK
  <2>2. \A f \in FollowUps : FollowUp(f) \in Entries /\ ~IsCompaction(FollowUp(f))
    BY LimitsAssumption DEF FollowUp, Entries, Kinds, IsCompaction
  <2>3. taken \in [1..Len(queue) -> Entries]
    BY <2>1, <2>2
  <2>4. taken \in Seq(Entries) /\ Len(taken) = Len(queue)
    BY <2>1, <2>3, SeqDef, LenProperties
  <2>5. QED
    BY <2>1, <2>2, <2>3, <2>4 DEF Items
<1> HIDE DEF taken
<1>2. queue' = <<>> /\ queue' \in Seq(FollowUps)
  BY EmptySeq DEF TakeCommands
<1>3. CASE log' = log \o taken /\ sent' = context \cup Items(taken) /\ UNCHANGED faults
  <2>1. log' \in Seq(Entries) /\ AllKept(log') /\ Items(log') \subseteq Items(log) \cup Items(taken)
    BY <1>1, <1>3, ConcatKept, ConcatProperties DEF TypeOK
  <2>2. QED
    BY <1>1, <1>2, <1>3, <2>1 DEF TypeOK
<1>4. CASE Fault /\ sent' = context /\ UNCHANGED log
  BY <1>2, <1>4, FaultType DEF TypeOK
<1>5. QED
  BY <1>3, <1>4 DEF TakeCommands, taken


\* The parts of the inductive invariant. Once a call has come back, a call that
\* repeats none is given all of the log, and so are the messages it is made from;
\* the log, in memory or saved, holds nothing the context would leave out.
Where   == /\ mode \in Modes /\ pc \in Places /\ prompt \in 1..MaxPrompts
           /\ outcome \in {"none", "completed", "failed", "aborted"}
           /\ pc = "settling" => outcome \in {"completed", "failed"}
Counted == /\ turn \in 0..MaxTurns /\ retries \in 0..RetryLimit /\ noTool \in 0..MaxTurns
           /\ noTool <= turn /\ (pc \in {"calling", "replied"} => noTool < turn)
Mind    == /\ state \in States /\ plan \in Plans /\ answered \in BOOLEAN
           /\ log \in Seq(Entries) /\ AllKept(log)
Local   == messages \subseteq Entries /\ prefix \subseteq Entries /\ sent \subseteq Entries
Answers == /\ answer \in Replies \cup Verdicts \cup {"failed"}
           /\ pc \in {"executing", "replied"} => answer \in Replies
Held    == queue \in Seq(FollowUps)
Saved   == SavedType /\ faults \in 0..MaxFaults
Knows   == answered /\ answer # "failed" =>
             /\ pc = "top" => Items(log) \subseteq messages
             /\ pc \in {"calling", "final"} => Items(log) \subseteq sent
IInv    == Where /\ Counted /\ Mind /\ Local /\ Answers /\ Held /\ Saved /\ Knows

LEMMA InvariantTypes == IInv => TypeOK /\ NextCallKnowsTheLog
BY DEF IInv, Where, Counted, Mind, Local, Answers, Held, Saved, SavedType, Knows, Places,
       TypeOK, NextCallKnowsTheLog

LEMMA LeavesType ==
  ASSUME NEW place \in {"settling", "ended"}, NEW how \in {"completed", "failed", "aborted"},
         place = "settling" => how # "aborted", Leaves(place, how), IInv, UNCHANGED loop
  PROVE  Where' /\ Counted' /\ Local' /\ Answers' /\ Knows'
<1>1. /\ pc' = place /\ outcome' = how /\ turn' = 0 /\ retries' = 0 /\ noTool' = 0
      /\ messages' = {} /\ prefix' = {} /\ sent' = {} /\ answer' = "none"
  BY DEF Leaves
<1>2. Where' /\ Counted'
  BY <1>1, LimitsAssumption DEF IInv, Where, Counted, Places, loop
<1>3. Local' /\ Answers' /\ Knows'
  BY <1>1 DEF Local, Answers, Knows, Replies
<1>4. QED
  BY <1>2, <1>3

LEMMA CheckpointKeeps ==
  ASSUME IInv, Checkpoint, Mind'
  PROVE  Saved'
BY CheckpointType DEF IInv, Saved, Mind

\* With the context rebuilt the next call will know the log.
LEMMA GoesOnType ==
  ASSUME IInv, GoesOn, Mind', UNCHANGED loop, noTool' \in 0..MaxTurns, noTool' <= turn
  PROVE  Where' /\ Counted' /\ Local' /\ Answers' /\ Held' /\ Knows'
<1>1. /\ messages' = prefix \cup Context(log') /\ answer' = "none" /\ pc' = "top"
      /\ UNCHANGED <<outcome, turn, retries, prefix, sent, queue>>
  BY DEF GoesOn, GoTo, loop
<1>2. Context(log') = Items(log') /\ Items(log') \subseteq Entries
  BY ContextIsLog DEF Mind
<1>3. Where' /\ Counted' /\ Held'
  BY <1>1 DEF IInv, Where, Counted, Held, Places, loop
<1>4. Local' /\ Answers' /\ Knows'
  BY <1>1, <1>2 DEF IInv, Local, Answers, Knows, Replies
<1>5. QED
  BY <1>3, <1>4

LEMMA Initially == Init => IInv
<1> SUFFICES ASSUME Init PROVE IInv
  OBVIOUS
<1>1. <<>> \in Seq(Entries) /\ <<>> \in Seq(FollowUps) /\ AllKept(<<>>) /\ Items(<<>>) = {}
  BY EmptySeq DEF AllKept, Items
<1>2. Where /\ Counted /\ Local /\ Answers /\ Knows
  BY LimitsAssumption DEF Init, Where, Places, Counted, Local, Answers, Replies, Knows
<1>3. Mind /\ Held
  BY <1>1, NoPlan DEF Init, Mind, States, Held
<1>4. Saved
  BY <1>1, NoPlan, LimitsAssumption DEF Init, Saved, SavedType, Snapshot, States
<1>5. QED
  BY <1>2, <1>3, <1>4 DEF IInv

\* With the prompt logged the messages are the log, or at first a part of it.
LEMMA LogPromptType ==
  ASSUME IInv, LogPrompt
  PROVE  /\ log' \in {log, Append(log, Entry("prompt", 0))}
         /\ log' \in Seq(Entries) /\ AllKept(log') /\ Items(log') \subseteq Entries
         /\ messages' \subseteq Items(log') /\ (answered => messages' = Items(log'))
<1>1. CASE log' = Append(log, Entry("prompt", 0)) /\
           messages' = IF answered THEN Context(log') ELSE {Entry("prompt", 0)}
  <2>1. log' \in Seq(Entries) /\ AllKept(log')
    BY <1>1, InvariantTypes, LoggedType, LimitsAssumption DEF IInv, Mind, Plain, Kinds
  <2>2. Context(log') = Items(log') /\ Items(log') \subseteq Entries
    BY <2>1, ContextIsLog
  <2>3. Entry("prompt", 0) \in Items(log')
    <3>1. Entry("prompt", 0) \in Entries /\ log \in Seq(Entries)
      BY InvariantTypes, EntryType, LimitsAssumption DEF IInv, Mind, Kinds
    <3>2. DOMAIN log' = 1..(Len(log) + 1) /\ Len(log) \in Nat /\ log'[Len(log) + 1] = Entry("prompt", 0)
      BY <1>1, <3>1, AppendProperties, LenProperties
    <3>3. QED
      BY <3>2 DEF Items
  <2>4. QED
    BY <1>1, <2>1, <2>2, <2>3
<1>2. CASE messages' = Context(log') /\ log' = log
  BY <1>2, ContextIsLog DEF IInv, Mind
<1>3. QED
  BY <1>1, <1>2 DEF LogPrompt

LEMMA BeginKeeps == IInv /\ Begin => IInv'
<1> SUFFICES ASSUME IInv, Begin PROVE IInv'
  OBVIOUS
<1>1. /\ LogPrompt /\ prefix' = {e \in messages' : e[1] = "followup"}
      /\ state' = "running" /\ pc' = "top"
      /\ UNCHANGED <<mode, prompt, turn, retries, noTool, outcome, plan, answered, sent, answer, queue>>
  BY DEF Begin, GoTo, loop, counters
<1>2. log' \in Seq(Entries) /\ AllKept(log')
  BY <1>1, LogPromptType
<1>3. messages' \subseteq Entries /\ (answered => Items(log') \subseteq messages')
  BY <1>1, LogPromptType
<1>4. Mind' /\ Where' /\ Counted' /\ Held'
  BY <1>1, <1>2 DEF IInv, Mind, Where, Counted, Held, Places, States
<1>5. Local' /\ Knows' /\ Answers'
  BY <1>1, <1>3 DEF IInv, Local, Knows, Answers
<1>6. Saved'
  <2>1. CASE db' = Snapshot("running", log', plan, answered) /\ UNCHANGED faults
    BY <2>1, <1>2, SnapshotType DEF IInv, Mind, Saved, States
  <2>2. CASE db' = Snapshot(state, log', plan, answered) /\ Fault
    BY <2>2, <1>2, SnapshotType, FaultType DEF IInv, Mind, Saved
  <2>3. QED
    BY <2>1, <2>2 DEF Begin
<1>7. QED
  BY <1>4, <1>5, <1>6 DEF IInv

LEMMA LeavingKeeps == IInv /\ (TurnLimit \/ CallBreaks \/ Ends \/ EndChild \/ EndQuietly) => IInv'
<1> SUFFICES ASSUME IInv, TurnLimit \/ CallBreaks \/ Ends \/ EndChild \/ EndQuietly PROVE IInv'
  OBVIOUS
<1>1. PICK how \in {"completed", "failed"} : Leaves("settling", how)
  BY DEF TurnLimit, CallBreaks, Ends, EndChild, EndQuietly, Settles
<1>2. UNCHANGED <<mode, prompt, state, plan, log, answered, queue, db, faults>>
  BY DEF TurnLimit, CallBreaks, Ends, EndChild, EndQuietly, loop, session
<1>3. Where' /\ Counted' /\ Local' /\ Answers' /\ Knows'
  BY <1>1, <1>2, LeavesType DEF loop
<1>4. Mind' /\ Held' /\ Saved'
  BY <1>2 DEF IInv, Mind, Held, Saved, SavedType
<1>5. QED
  BY <1>3, <1>4 DEF IInv

LEMMA StartCallKeeps == IInv /\ StartCall => IInv'
<1> SUFFICES ASSUME IInv, StartCall PROVE IInv'
  OBVIOUS
<1>1. /\ pc = "top" /\ pc' = "calling" /\ turn' = turn + 1 /\ turn + 1 <= MaxTurns
      /\ UNCHANGED <<mode, prompt, outcome, retries, noTool, state, plan, answered, messages, prefix, answer, db>>
      /\ TakeCommands(messages)
  BY DEF StartCall, GoTo, loop
<1>2. /\ queue' \in Seq(FollowUps) /\ log' \in Seq(Entries) /\ sent' \subseteq Entries
      /\ faults' \in 0..MaxFaults /\ AllKept(log')
      /\ Items(log) \subseteq messages => Items(log') \subseteq sent'
  BY <1>1, InvariantTypes, TakeType DEF IInv, Mind, Local
<1>3. Where' /\ Counted' /\ Answers'
  BY <1>1, LimitsAssumption DEF IInv, Where, Counted, Answers, Places
<1>4. Mind' /\ Held' /\ Local' /\ Knows'
  BY <1>1, <1>2 DEF IInv, Mind, Held, Local, Knows
<1>5. Saved'
  BY <1>1, <1>2 DEF IInv, Saved, SavedType
<1>6. QED
  BY <1>3, <1>4, <1>5 DEF IInv

\* What is logged by a step that is no compaction.
LEMMA LoggedMind ==
  ASSUME IInv, NEW t \in 0..MaxTurns, NEW kind \in Plain, log' = Append(log, Entry(kind, t)),
         state' \in States, plan' \in Plans, answered' \in BOOLEAN
  PROVE  Mind'
BY InvariantTypes, LoggedType DEF IInv, Mind

LEMMA ProviderFailsKeeps == IInv /\ ProviderFails => IInv'
<1> SUFFICES ASSUME IInv, ProviderFails PROVE IInv'
  OBVIOUS
<1>1. /\ pc = "calling" /\ log' \in {log, Append(log, Entry("reply", turn))}
      /\ UNCHANGED <<mode, prompt, state, plan, queue>> /\ answered' = TRUE /\ Checkpoint
  BY DEF ProviderFails, loop
<1>2. Mind'
  <2>1. CASE log' = log
    BY <1>1, <2>1 DEF IInv, Mind
  <2>2. CASE log' = Append(log, Entry("reply", turn))
    BY <1>1, <2>2, LoggedMind DEF IInv, Mind, Counted, Plain, Kinds
  <2>3. QED
    BY <1>1, <2>1, <2>2
<1>3. Saved' /\ Held'
  BY <1>1, <1>2, CheckpointKeeps DEF IInv, Held
<1>4. Where' /\ Counted' /\ Local' /\ Answers' /\ Knows'
  <2>1. CASE Retry
    <3>1. /\ retries < RetryLimit /\ retries' = retries + 1 /\ sent' = {} /\ answer' = "failed"
          /\ pc' = "top" /\ UNCHANGED <<outcome, turn, noTool, messages, prefix>>
      BY <2>1 DEF Retry, GoTo
    <3>2. Where' /\ Counted'
      BY <1>1, <3>1, LimitsAssumption DEF IInv, Where, Counted, Places
    <3>3. Local' /\ Answers' /\ Knows'
      BY <3>1 DEF IInv, Local, Answers, Knows
    <3>4. QED
      BY <3>2, <3>3
  <2>2. CASE Settles("failed")
    BY <1>1, <2>2, LeavesType DEF Settles, loop
  <2>3. QED
    BY <2>1, <2>2 DEF ProviderFails
<1>5. QED
  BY <1>2, <1>3, <1>4 DEF IInv

LEMMA AnsweredKeeps == \A r \in Replies : IInv /\ (CallsTools(r) \/ CallsNoTools(r)) => IInv'
<1> SUFFICES ASSUME NEW r \in Replies, IInv, CallsTools(r) \/ CallsNoTools(r) PROVE IInv'
  OBVIOUS
<1>1. /\ pc = "calling" /\ log' = Append(log, Entry("reply", turn)) /\ answer' = r /\ sent' = {}
      /\ UNCHANGED <<mode, prompt, outcome, turn, messages, prefix, state, plan, queue>> /\ Checkpoint
      /\ answered' = TRUE
      /\ pc' \in {"executing", "replied"}
      /\ retries' \in {retries, 0} /\ noTool' \in {noTool, 0}
  BY DEF CallsTools, CallsNoTools, Answered, GoTo, loop
<1>2. Mind'
  BY <1>1, LoggedMind DEF IInv, Mind, Counted, Plain, Kinds
<1>3. Saved' /\ Held'
  BY <1>1, <1>2, CheckpointKeeps DEF IInv, Held
<1>4. Where' /\ Counted'
  BY <1>1, LimitsAssumption DEF IInv, Where, Counted, Places
<1>5. Local' /\ Answers' /\ Knows'
  BY <1>1 DEF IInv, Local, Answers, Knows
<1>6. QED
  BY <1>2, <1>3, <1>4, <1>5 DEF IInv

LEMMA ExecuteKeeps == IInv /\ ExecuteTools => IInv'
<1> SUFFICES ASSUME IInv, ExecuteTools PROVE IInv'
  OBVIOUS
<1>1. /\ pc = "executing" /\ log' = Append(log, Entry("result", turn)) /\ pc' = "deciding"
      /\ UNCHANGED <<mode, prompt, outcome, turn, retries, noTool, messages, prefix, sent, state, answered, queue>>
      /\ Checkpoint
  BY DEF ExecuteTools, GoTo, loop, counters
<1>2. PICK o \in Outcomes[<<plan, answer>>] : plan' = o.plan /\ answer' = o.verdict
  BY DEF ExecuteTools
<1>3. plan' \in Plans /\ answer' \in Verdicts
  BY <1>1, <1>2, OutcomeType DEF IInv, Mind, Answers
<1>4. Mind'
  BY <1>1, <1>3, LoggedMind DEF IInv, Mind, Counted, Plain, Kinds
<1>5. Saved' /\ Held'
  BY <1>1, <1>4, CheckpointKeeps DEF IInv, Held
<1>6. Where' /\ Counted'
  BY <1>1 DEF IInv, Where, Counted, Places
<1>7. Local' /\ Answers' /\ Knows'
  BY <1>1, <1>3 DEF IInv, Local, Answers, Knows
<1>8. QED
  BY <1>4, <1>5, <1>6, <1>7 DEF IInv

LEMMA GoingOnKeeps == IInv /\ (Compact \/ Continue \/ RetryNoTool) => IInv'
<1> SUFFICES ASSUME IInv, Compact \/ Continue \/ RetryNoTool PROVE IInv'
  OBVIOUS
<1>1. GoesOn /\ UNCHANGED <<loop, state, plan, answered>> /\ (Checkpoint \/ UNCHANGED <<db, faults>>)
  BY DEF Compact, Continue, RetryNoTool, GoesOn, session
<1>2. noTool' \in 0..MaxTurns /\ noTool' <= turn
  <2>1. CASE UNCHANGED noTool
    BY <2>1 DEF IInv, Counted
  <2>2. CASE pc = "replied" /\ noTool' = noTool + 1
    BY <2>2, LimitsAssumption DEF IInv, Counted
  <2>3. QED
    BY <2>1, <2>2 DEF Compact, Continue, RetryNoTool, Silent
<1>3. Mind'
  <2>1. CASE Compact
    <3>1. log' = Append(Retained(log), Entry("compaction", turn))
      BY <2>1 DEF Compact
    <3>2. Entry("compaction", turn) \in Entries /\ IsCompaction(Entry("compaction", turn))
      <4>1. turn \in 0..MaxTurns
        BY DEF IInv, Counted
      <4>2. Entry("compaction", turn) \in Entries
        BY <4>1, InvariantTypes, EntryType DEF Kinds
      <4>3. QED
        BY <4>2 DEF Entry, IsCompaction
    <3>3. QED
      BY <1>1, <3>1, <3>2, CompactedKept DEF IInv, Mind
  <2>2. CASE UNCHANGED session
    BY <2>2 DEF IInv, Mind, session
  <2>3. QED
    BY <2>1, <2>2 DEF Continue, RetryNoTool
<1>4. Where' /\ Counted' /\ Local' /\ Answers' /\ Held' /\ Knows'
  BY <1>1, <1>2, <1>3, GoesOnType
<1>5. Saved'
  <2>1. CASE Checkpoint
    BY <1>3, <2>1, CheckpointKeeps
  <2>2. CASE UNCHANGED <<db, faults>>
    BY <2>2 DEF IInv, Saved, SavedType
  <2>3. QED
    BY <1>1, <2>1, <2>2
<1>6. QED
  BY <1>3, <1>4, <1>5 DEF IInv

LEMMA FinalCallKeeps == IInv /\ FinalCall => IInv'
<1> SUFFICES ASSUME IInv, FinalCall PROVE IInv'
  OBVIOUS
<1>1. /\ messages' = prefix \cup Context(log) /\ TakeCommands(messages') /\ pc' = "final"
      /\ answer \in {"done", "ask"}
      /\ UNCHANGED <<mode, prompt, outcome, turn, retries, noTool, state, plan, answered, prefix, answer, db>>
  BY DEF FinalCall, GoTo, loop, counters
<1>2. Context(log) = Items(log) /\ Items(log) \subseteq Entries
  BY ContextIsLog DEF IInv, Mind
<1>3. messages' \in SUBSET Entries /\ Items(log) \subseteq messages'
  BY <1>1, <1>2 DEF IInv, Local
<1>4. /\ queue' \in Seq(FollowUps) /\ log' \in Seq(Entries) /\ sent' \subseteq Entries
      /\ faults' \in 0..MaxFaults /\ AllKept(log') /\ Items(log') \subseteq sent'
  BY <1>1, <1>3, InvariantTypes, TakeType DEF IInv, Mind
<1>5. Where' /\ Counted' /\ Answers'
  BY <1>1 DEF IInv, Where, Counted, Answers, Places
<1>6. Mind' /\ Held' /\ Local' /\ Knows'
  BY <1>1, <1>3, <1>4 DEF IInv, Mind, Held, Local, Knows
<1>7. Saved'
  BY <1>1, <1>4 DEF IInv, Saved, SavedType
<1>8. QED
  BY <1>5, <1>6, <1>7 DEF IInv

LEMMA FinalAnswerKeeps == IInv /\ FinalAnswer => IInv'
<1> SUFFICES ASSUME IInv, FinalAnswer PROVE IInv'
  OBVIOUS
<1>1. /\ log' = Append(log, Entry("final", turn)) /\ Leaves("settling", "completed") /\ Checkpoint
      /\ UNCHANGED <<mode, prompt, state, plan, queue>> /\ answered' = TRUE
  BY DEF FinalAnswer, Settles, loop
<1>2. Mind'
  BY <1>1, LoggedMind DEF IInv, Mind, Counted, Plain, Kinds
<1>3. Saved' /\ Held'
  BY <1>1, <1>2, CheckpointKeeps DEF IInv, Held
<1>4. Where' /\ Counted' /\ Local' /\ Answers' /\ Knows'
  BY <1>1, LeavesType DEF loop
<1>5. QED
  BY <1>2, <1>3, <1>4 DEF IInv

LEMMA EndWithReplyKeeps == IInv /\ EndWithReply => IInv'
<1> SUFFICES ASSUME IInv, EndWithReply PROVE IInv'
  OBVIOUS
<1>1. /\ Leaves("settling", "completed") /\ UNCHANGED <<mode, prompt, state, log, answered, queue>>
      /\ \/ plan' = Mark(plan, {"doing"}, "done") /\ Checkpoint
         \/ UNCHANGED <<plan, db, faults>>
  BY DEF EndWithReply, Settles, loop
<1>2. Mind'
  BY <1>1, MarkType DEF IInv, Mind
<1>3. Saved' /\ Held'
  <2>1. CASE Checkpoint
    BY <1>1, <1>2, <2>1, CheckpointKeeps DEF IInv, Held
  <2>2. CASE UNCHANGED <<plan, db, faults>>
    BY <1>1, <2>2 DEF IInv, Held, Saved, SavedType
  <2>3. QED
    BY <1>1, <2>1, <2>2
<1>4. Where' /\ Counted' /\ Local' /\ Answers' /\ Knows'
  BY <1>1, LeavesType DEF loop
<1>5. QED
  BY <1>2, <1>3, <1>4 DEF IInv

LEMMA EndingKeeps == IInv /\ (Settle \/ Abort) => IInv'
<1> SUFFICES ASSUME IInv, Settle \/ Abort PROVE IInv'
  OBVIOUS
<1>1. Held'
  BY DEF IInv, Held, Settle, Abort
<1>2. CASE Settle
  <2>1. /\ pc = "settling" /\ state' = outcome /\ Leaves("ended", outcome) /\ Checkpoint
        /\ UNCHANGED <<loop, log, plan, answered>>
    BY <1>2 DEF Settle
  <2>2. Mind' /\ outcome \in {"completed", "failed"}
    BY <2>1 DEF IInv, Where, Mind, States
  <2>3. Saved'
    BY <2>1, <2>2, CheckpointKeeps
  <2>4. Where' /\ Counted' /\ Local' /\ Answers' /\ Knows'
    BY <2>1, <2>2, LeavesType
  <2>5. QED
    BY <1>1, <2>2, <2>3, <2>4 DEF IInv
<1>3. CASE Abort
  <2>1. /\ Leaves("ended", "aborted") /\ state' = "created" /\ log' = <<>> /\ plan' = <<>> /\ answered' = FALSE
        /\ UNCHANGED <<loop, db, faults>>
    BY <1>3 DEF Abort
  <2>2. Mind'
    <3>1. answered' \in BOOLEAN /\ state' \in States
      BY <2>1 DEF States
    <3>2. plan' \in Plans /\ log' \in Seq(Entries)
      BY <2>1, NoPlan, EmptySeq
    <3>3. AllKept(log')
      BY <2>1 DEF AllKept
    <3>4. QED
      BY <3>1, <3>2, <3>3 DEF Mind
  <2>3. Where' /\ Counted' /\ Local' /\ Answers' /\ Knows'
    BY <2>1, LeavesType
  <2>4. Saved'
    BY <2>1 DEF IInv, Saved, SavedType
  <2>5. QED
    BY <1>1, <2>2, <2>3, <2>4 DEF IInv
<1>4. QED
  BY <1>2, <1>3

LEMMA NextPromptKeeps == IInv /\ NextPrompt => IInv'
<1> SUFFICES ASSUME IInv, NextPrompt PROVE IInv'
  OBVIOUS
<1>1. /\ prompt' = prompt + 1 /\ prompt < MaxPrompts /\ pc' = "created" /\ outcome' = "none"
      /\ state' \in {"created", "running"} /\ log' = db.log /\ plan' = db.plan
      /\ answered' = db.answered
      /\ UNCHANGED <<mode, turn, retries, noTool, messages, prefix, sent, answer, queue, db, faults>>
  BY DEF NextPrompt, counters, call
<1>2. Where' /\ Counted' /\ Held'
  BY <1>1, LimitsAssumption DEF IInv, Where, Counted, Held, Places
<1>3. Mind' /\ Saved'
  BY <1>1 DEF IInv, Mind, Saved, SavedType, States
<1>4. Local' /\ Answers' /\ Knows'
  BY <1>1 DEF IInv, Local, Answers, Knows
<1>5. QED
  BY <1>2, <1>3, <1>4 DEF IInv

LEMMA ArriveKeeps == \A f \in FollowUps : IInv /\ Arrive(f) => IInv'
<1> SUFFICES ASSUME NEW f \in FollowUps, IInv, Arrive(f) PROVE IInv'
  OBVIOUS
<1>1. queue' = Append(queue, f)
      /\ UNCHANGED <<mode, prompt, turn, retries, noTool, state, plan, log, answered, messages, prefix, sent,
                     answer, pc, outcome, db, faults>>
  BY DEF Arrive, loop, counters, session, call
<1>2. Held'
  BY <1>1, AppendProperties DEF IInv, Held
<1>3. Where' /\ Counted' /\ Mind' /\ Local' /\ Answers' /\ Saved' /\ Knows'
  BY <1>1 DEF IInv, Where, Counted, Mind, Local, Answers, Saved, SavedType, Knows
<1>4. QED
  BY <1>2, <1>3 DEF IInv

LEMMA LoopInvariant == Spec => []IInv
<1>1. IInv /\ [Next]_vars => IInv'
  <2> SUFFICES ASSUME IInv, [Next]_vars PROVE IInv'
    OBVIOUS
  <2>1. CASE UNCHANGED vars
    <3>1. UNCHANGED <<mode, prompt, turn, retries, noTool, state, plan, log, answered, messages, prefix, sent,
                      answer, pc, outcome, queue, db, faults>>
      BY <2>1 DEF vars, loop, counters, session, call
    <3>2. QED
      BY <3>1 DEF IInv, Where, Counted, Mind, Local, Answers, Held, Saved, SavedType, Knows
  <2>2. QED
    BY <2>1, BeginKeeps, LeavingKeeps, StartCallKeeps, ProviderFailsKeeps, AnsweredKeeps, ExecuteKeeps,
       GoingOnKeeps, FinalCallKeeps, FinalAnswerKeeps, EndWithReplyKeeps, EndingKeeps, NextPromptKeeps,
       ArriveKeeps
       DEF Next, LoopStep, Ask, Reply, Decide, Conclude
<1>2. QED
  BY <1>1, Initially, PTL DEF Spec

\* For any modes, follow-ups, plans and limits every state is well typed: the
\* loop keeps within its turns and retries.
THEOREM TypeCorrect == Spec => []TypeOK
<1>1. IInv => TypeOK
  BY InvariantTypes
<1>2. QED
  BY <1>1, LoopInvariant, PTL

\* For any modes, follow-ups, plans and limits, once a call of the session has
\* come back, a provider call that repeats none is given everything the session's
\* log holds, by whichever step the loop came to it and whatever compactions
\* dropped.
THEOREM CallsKnowTheLog == Spec => []NextCallKnowsTheLog
<1>1. IInv => NextCallKnowsTheLog
  BY InvariantTypes
<1>2. QED
  BY <1>1, LoopInvariant, PTL

-----------------------------------------------------------------------------
(* What the checkpoints save.                                              *)

\* The follow-ups the router holds are new to the session: the log, the
\* checkpoint and the messages the loop holds know none of them.
Fresh ==
  /\ prefix \subseteq messages
  /\ \A f \in Items(queue) : FollowUp(f) \notin Items(log) \cup Items(db.log) \cup messages

LEMMA NoFault ==
  ASSUME IInv, Checkpoint, faults' = 0
  PROVE  faults = 0 /\ db' = Snapshot(state', log', plan', answered')
BY LimitsAssumption DEF Checkpoint, Fault, IInv, Saved

LEMMA AppendItems ==
  ASSUME NEW l \in Seq(Entries), NEW e \in Entries
  PROVE  Items(Append(l, e)) = Items(l) \cup {e}
<1>1. /\ DOMAIN l = 1..Len(l) /\ Len(l) \in Nat /\ DOMAIN Append(l, e) = 1..(Len(l) + 1)
      /\ \A i \in 1..Len(l) : Append(l, e)[i] = l[i]
      /\ Append(l, e)[Len(l) + 1] = e
  BY AppendProperties, LenProperties
<1>2. QED
  BY <1>1 DEF Items

\* A step that logs something of the loop's own adds no follow-up.
LEMMA LoggedItems ==
  ASSUME IInv, NEW t \in 0..MaxTurns, NEW kind \in Kinds \ {"followup"}, NEW l \in {log, Retained(log)},
         log' = Append(l, Entry(kind, t))
  PROVE  \A f \in FollowUps : FollowUp(f) \in Items(log') => FollowUp(f) \in Items(log)
<1>1. l \in Seq(Entries) /\ Items(l) \subseteq Items(log)
  BY RetainedResults DEF IInv, Mind
<1>2. Entry(kind, t) \in Entries
  BY InvariantTypes, EntryType
<1>3. Items(log') = Items(l) \cup {Entry(kind, t)}
  BY <1>1, <1>2, AppendItems
<1>4. \A f \in FollowUps : FollowUp(f) # Entry(kind, t)
  BY DEF FollowUp, Entry
<1>5. QED
  BY <1>1, <1>3, <1>4

\* One case for all steps of the loop that take no follow-ups: the log gains
\* none, and the checkpoint is left alone or written.
LEMMA FreshKeeps ==
  ASSUME IInv, IInv', Fresh, UNCHANGED queue,
         \A f \in FollowUps : FollowUp(f) \in Items(log') => FollowUp(f) \in Items(log) \cup Items(db.log),
         db'.log \in {db.log, log'},
         messages' \subseteq messages \cup Items(log'), prefix' \subseteq messages'
  PROVE  Fresh'
<1>1. Items(queue) \subseteq FollowUps
  <2>1. DOMAIN queue = 1..Len(queue) /\ \A i \in 1..Len(queue) : queue[i] \in FollowUps
    BY LenProperties, ElementOfSeq DEF IInv, Held
  <2>2. QED
    BY <2>1 DEF Items
<1>2. Items(db'.log) \in {Items(db.log), Items(log')}
  OBVIOUS
<1>3. QED
  BY <1>1, <1>2 DEF Fresh

LEMMA CheckpointLog == Checkpoint => db'.log \in {db.log, log'}
BY DEF Checkpoint, Snapshot

\* After a checkpoint that was written the session is saved as it stands.
LEMMA CheckpointSaves ==
  ASSUME IInv, SavedAsItStands, Checkpoint, pc' \in Places \ {"ended"}, outcome' = outcome \/ pc' = "settling"
  PROVE  SavedAsItStands'
<1>1. ASSUME faults' = 0 PROVE db'.log = log' /\ db'.plan = plan' /\ db'.answered = answered'
  BY <1>1, NoFault DEF Snapshot
<1>2. QED
  BY <1>1 DEF SavedAsItStands, Places

\* The follow-ups a call takes are new to what it is built from.
LEMMA TakenAreNew ==
  ASSUME IInv, Fresh, NEW context \in SUBSET Entries, TakeCommands(context), faults' = 0,
         context \subseteq messages \cup Items(log)
  PROVE  Items(log') \subseteq Items(log) \cup (sent' \ context)
<1> DEFINE taken == [i \in DOMAIN queue |-> FollowUp(queue[i])]
<1>1. log' = log \o taken /\ sent' = context \cup Items(taken)
  <2>1. ~Fault
    BY LimitsAssumption DEF Fault, IInv, Saved
  <2> HIDE DEF taken
  <2>2. QED
    BY <2>1 DEF TakeCommands, taken
<1>2. /\ Len(queue) \in Nat /\ DOMAIN queue = 1..Len(queue)
      /\ \A i \in 1..Len(queue) : queue[i] \in FollowUps /\ queue[i] \in Items(queue)
  BY LenProperties, ElementOfSeq DEF IInv, Held, Items
<1>3. taken \in Seq(Entries) /\ \A i \in 1..Len(taken) : ~IsCompaction(taken[i])
  <2>1. \A f \in FollowUps : FollowUp(f) \in Entries /\ ~IsCompaction(FollowUp(f))
    BY LimitsAssumption DEF FollowUp, Entries, Kinds, IsCompaction
  <2>2. taken \in [1..Len(queue) -> Entries]
    BY <1>2, <2>1
  <2>3. taken \in Seq(Entries) /\ Len(taken) = Len(queue)
    BY <1>2, <2>2, SeqDef, LenProperties
  <2>4. QED
    BY <1>2, <2>1, <2>3
<1>4. Items(taken) \cap context = {}
  BY <1>2 DEF Items, Fresh
<1> HIDE DEF taken
<1>5. Items(log') \subseteq Items(log) \cup Items(taken)
  BY <1>1, <1>3, ConcatKept DEF IInv, Mind
<1>6. QED
  BY <1>1, <1>4, <1>5

LEMMA LoopSaves == IInv /\ IInv' /\ Fresh /\ SavedAsItStands /\ LoopStep => Fresh' /\ SavedAsItStands'
<1> SUFFICES ASSUME IInv, IInv', Fresh, SavedAsItStands, LoopStep PROVE Fresh' /\ SavedAsItStands'
  OBVIOUS
<1>t. turn \in 0..MaxTurns /\ 0 \in 0..MaxTurns /\ faults \in Nat /\ faults' \in Nat
  BY LimitsAssumption DEF IInv, Counted, Saved
<1>k. {"prompt", "reply", "result", "compaction", "final"} \subseteq Kinds \ {"followup"}
  BY DEF Kinds
<1>c. Context(log') \subseteq Items(log') /\ Context(log) \subseteq Items(log)
  BY ContextIsLog DEF IInv, Mind
<1>1. CASE Begin
  <2>1. /\ LogPrompt /\ prefix' = {e \in messages' : e[1] = "followup"}
        /\ pc' = "top" /\ UNCHANGED <<plan, answered, queue>>
        /\ \/ db' = Snapshot("running", log', plan, answered) /\ UNCHANGED faults
           \/ db' = Snapshot(state, log', plan, answered) /\ Fault
    BY <1>1 DEF Begin, GoTo
  <2>2. db'.log = log' /\ db'.plan = plan' /\ db'.answered = answered'
    BY <2>1 DEF Snapshot
  <2>l. log' \in {log, Append(log, Entry("prompt", 0))} /\ messages' \subseteq Items(log')
    BY <2>1, LogPromptType
  <2>3. \A f \in FollowUps : FollowUp(f) \in Items(log') => FollowUp(f) \in Items(log)
    BY <1>t, <1>k, <2>l, LoggedItems
  <2>4. Fresh'
    BY <2>1, <2>2, <2>l, <2>3, FreshKeeps
  <2>5. QED
    BY <2>1, <2>2, <2>4 DEF SavedAsItStands
<1>2. CASE TurnLimit \/ CallBreaks \/ Ends \/ EndChild \/ EndQuietly
  <2>1. /\ pc' = "settling" /\ messages' = {} /\ prefix' = {}
        /\ UNCHANGED <<log, plan, answered, queue, db, faults>>
    BY <1>2 DEF TurnLimit, CallBreaks, Ends, EndChild, EndQuietly, Settles, Leaves, session
  <2>2. Fresh'
    BY <2>1 DEF Fresh
  <2>3. QED
    BY <2>1, <2>2 DEF SavedAsItStands
<1>3. CASE StartCall
  <2>1. /\ pc = "top" /\ pc' = "calling" /\ TakeCommands(messages)
        /\ UNCHANGED <<plan, answered, messages, prefix, db>>
    BY <1>3 DEF StartCall, GoTo
  <2>2. Items(queue') = {}
    BY <2>1 DEF TakeCommands, Items
  <2>3. Fresh'
    BY <2>1, <2>2 DEF Fresh
  <2>4. ASSUME faults' = 0 PROVE faults = 0
    BY <1>t, <2>1, <2>4 DEF TakeCommands, Fault
  <2>5. ASSUME faults' = 0 PROVE Items(log') \ Items(db.log) \subseteq sent' \ messages
    <3>1. messages \in SUBSET Entries /\ messages \subseteq messages \cup Items(log)
      BY <2>1 DEF IInv, Local, Fresh
    <3>2. Items(log') \subseteq Items(log) \cup (sent' \ messages)
      BY <2>1, <2>5, <3>1, TakenAreNew
    <3>3. db.log = log
      BY <2>1, <2>4, <2>5 DEF SavedAsItStands
    <3>4. QED
      BY <3>2, <3>3
  <2>6. QED
    BY <2>1, <2>3, <2>4, <2>5 DEF SavedAsItStands
<1>4. CASE FinalCall
  <2>1. /\ pc = "deciding" /\ pc' = "final" /\ messages' = prefix \cup Context(log)
        /\ TakeCommands(messages') /\ UNCHANGED <<plan, answered, prefix, db>>
    BY <1>4 DEF FinalCall, GoTo
  <2>2. Items(queue') = {}
    BY <2>1 DEF TakeCommands, Items
  <2>3. Fresh'
    BY <2>1, <2>2 DEF Fresh
  <2>4. ASSUME faults' = 0 PROVE faults = 0
    BY <1>t, <2>1, <2>4 DEF TakeCommands, Fault
  <2>5. ASSUME faults' = 0 PROVE Items(log') \ Items(db.log) \subseteq sent' \ messages'
    <3>1. messages' \in SUBSET Entries /\ messages' \subseteq messages \cup Items(log)
      BY <1>c, <2>1 DEF IInv, Local, Fresh
    <3>2. Items(log') \subseteq Items(log) \cup (sent' \ messages')
      BY <2>1, <2>5, <3>1, TakenAreNew
    <3>3. db.log = log
      BY <2>1, <2>4, <2>5 DEF SavedAsItStands
    <3>4. QED
      BY <3>2, <3>3
  <2>6. QED
    BY <2>1, <2>3, <2>4, <2>5 DEF SavedAsItStands
<1>5. CASE ProviderFails
  <2>1. /\ log' \in {log, Append(log, Entry("reply", turn))} /\ Checkpoint /\ UNCHANGED queue
        /\ pc' \in {"top", "settling"} /\ (outcome' = outcome \/ pc' = "settling")
        /\ messages' \subseteq messages /\ (UNCHANGED <<messages, prefix>> \/ prefix' = {})
    BY <1>5 DEF ProviderFails, Retry, GoTo, Settles, Leaves
  <2>2. \A f \in FollowUps : FollowUp(f) \in Items(log') => FollowUp(f) \in Items(log)
    BY <1>t, <1>k, <2>1, LoggedItems
  <2>3. Fresh'
    BY <2>1, <2>2, CheckpointLog, FreshKeeps DEF Fresh
  <2>4. QED
    BY <2>1, <2>3, CheckpointSaves DEF Places
<1>6. ASSUME NEW r \in Replies, CallsTools(r) \/ CallsNoTools(r)
      PROVE  Fresh' /\ SavedAsItStands'
  <2>1. /\ log' = Append(log, Entry("reply", turn)) /\ Checkpoint /\ UNCHANGED <<queue, messages, prefix, outcome>>
        /\ pc' \in {"executing", "replied"}
    BY <1>6 DEF CallsTools, CallsNoTools, Answered, GoTo
  <2>2. \A f \in FollowUps : FollowUp(f) \in Items(log') => FollowUp(f) \in Items(log)
    BY <1>t, <1>k, <2>1, LoggedItems
  <2>3. Fresh'
    BY <2>1, <2>2, CheckpointLog, FreshKeeps DEF Fresh
  <2>4. QED
    BY <2>1, <2>3, CheckpointSaves DEF Places
<1>7. CASE ExecuteTools
  <2>1. /\ log' = Append(log, Entry("result", turn)) /\ Checkpoint /\ UNCHANGED <<queue, messages, prefix, outcome>>
        /\ pc' = "deciding"
    BY <1>7 DEF ExecuteTools, GoTo
  <2>2. \A f \in FollowUps : FollowUp(f) \in Items(log') => FollowUp(f) \in Items(log)
    BY <1>t, <1>k, <2>1, LoggedItems
  <2>3. Fresh'
    BY <2>1, <2>2, CheckpointLog, FreshKeeps DEF Fresh
  <2>4. QED
    BY <2>1, <2>3, CheckpointSaves DEF Places
<1>8. CASE Compact \/ Continue \/ RetryNoTool
  <2>1. /\ messages' = prefix \cup Context(log') /\ pc' = "top"
        /\ UNCHANGED <<plan, answered, queue, prefix, outcome>>
        /\ pc \in {"deciding", "replied"}
        /\ log' \in {log, Append(Retained(log), Entry("compaction", turn))}
        /\ Checkpoint \/ UNCHANGED <<log, db, faults>>
    BY <1>8 DEF Compact, Continue, RetryNoTool, GoesOn, GoTo, Silent, session
  <2>2. \A f \in FollowUps : FollowUp(f) \in Items(log') => FollowUp(f) \in Items(log)
    BY <1>t, <1>k, <2>1, LoggedItems
  <2>3. db'.log \in {db.log, log'}
    BY <2>1, CheckpointLog
  <2>4. messages' \subseteq messages \cup Items(log') /\ prefix' \subseteq messages'
    BY <1>c, <2>1 DEF Fresh
  <2>5. Fresh'
    BY <2>1, <2>2, <2>3, <2>4, FreshKeeps
  <2>6. SavedAsItStands'
    <3>1. CASE Checkpoint
      BY <2>1, <3>1, CheckpointSaves DEF Places
    <3>2. CASE UNCHANGED <<log, db, faults>>
      BY <2>1, <3>2 DEF SavedAsItStands
    <3>3. QED
      BY <2>1, <3>1, <3>2
  <2>7. QED
    BY <2>5, <2>6
<1>9. CASE FinalAnswer
  <2>1. /\ log' = Append(log, Entry("final", turn)) /\ Checkpoint /\ UNCHANGED queue
        /\ pc' = "settling" /\ messages' = {} /\ prefix' = {}
    BY <1>9 DEF FinalAnswer, Settles, Leaves
  <2>2. \A f \in FollowUps : FollowUp(f) \in Items(log') => FollowUp(f) \in Items(log)
    BY <1>t, <1>k, <2>1, LoggedItems
  <2>3. Fresh'
    BY <2>1, <2>2, CheckpointLog, FreshKeeps
  <2>4. QED
    BY <2>1, <2>3, CheckpointSaves DEF Places
<1>10. CASE EndWithReply
  <2>1. /\ UNCHANGED <<log, answered, queue>> /\ pc' = "settling" /\ messages' = {} /\ prefix' = {}
        /\ Checkpoint \/ UNCHANGED <<plan, db, faults>>
    BY <1>10 DEF EndWithReply, Settles, Leaves
  <2>2. db'.log \in {db.log, log'}
    BY <2>1, CheckpointLog
  <2>3. Fresh'
    BY <2>1, <2>2, FreshKeeps
  <2>4. QED
    BY <2>1, <2>3 DEF SavedAsItStands
<1>11. CASE Settle
  <2>1. /\ state' = outcome /\ UNCHANGED <<log, plan, answered, queue>> /\ Checkpoint
        /\ pc' = "ended" /\ outcome' = outcome /\ messages' = {} /\ prefix' = {}
    BY <1>11 DEF Settle, Leaves
  <2>2. Fresh'
    BY <2>1, CheckpointLog, FreshKeeps
  <2>3. ASSUME faults' = 0 PROVE db' = Snapshot(state', log', plan', answered')
    BY <2>1, <2>3, NoFault
  <2>4. QED
    BY <2>1, <2>2, <2>3 DEF SavedAsItStands, Snapshot
<1>12. QED
  BY <1>1, <1>2, <1>3, <1>4, <1>5, <1>6, <1>7, <1>8, <1>9, <1>10, <1>11
     DEF LoopStep, Ask, Reply, Decide, Conclude

LEMMA SavingInvariant == Spec => [](Fresh /\ SavedAsItStands)
<1>1. Init => Fresh /\ SavedAsItStands
  BY DEF Init, Fresh, Items, SavedAsItStands
<1>2. IInv /\ IInv' /\ Fresh /\ SavedAsItStands /\ [Next]_vars => Fresh' /\ SavedAsItStands'
  <2> SUFFICES ASSUME IInv, IInv', Fresh, SavedAsItStands, [Next]_vars PROVE Fresh' /\ SavedAsItStands'
    OBVIOUS
  <2>1. CASE Abort
    <3>1. /\ pc' = "ended" /\ outcome' = "aborted" /\ messages' = {} /\ prefix' = {} /\ Items(log') = {}
          /\ UNCHANGED <<queue, db, faults>>
      BY <2>1 DEF Abort, Leaves, Items
    <3>2. QED
      BY <3>1 DEF Fresh, SavedAsItStands
  <2>2. CASE NextPrompt
    <3>1. pc' = "created" /\ log' = db.log /\ UNCHANGED <<messages, prefix, queue, db, faults>>
      BY <2>2 DEF NextPrompt, call
    <3>2. QED
      BY <3>1 DEF Fresh, SavedAsItStands
  <2>3. ASSUME NEW f \in FollowUps, Arrive(f) PROVE Fresh' /\ SavedAsItStands'
    <3>1. /\ UNCHANGED <<pc, outcome, state, plan, log, answered, messages, prefix, sent, db, faults>>
          /\ queue' = Append(queue, f)
          /\ FollowUp(f) \notin Items(log) \cup Items(db.log) \cup messages
      BY <2>3 DEF Arrive, session, call
    <3>2. Items(queue') = Items(queue) \cup {f}
      <4>1. /\ DOMAIN queue = 1..Len(queue) /\ Len(queue) \in Nat
            /\ DOMAIN queue' = 1..(Len(queue) + 1)
            /\ \A i \in 1..Len(queue) : queue'[i] = queue[i]
            /\ queue'[Len(queue) + 1] = f
        BY <3>1, AppendProperties, LenProperties DEF IInv, Held
      <4>2. QED
        BY <4>1 DEF Items
    <3>3. QED
      BY <3>1, <3>2 DEF Fresh, SavedAsItStands
  <2>4. CASE UNCHANGED vars
    <3>1. UNCHANGED <<pc, outcome, state, plan, log, answered, messages, prefix, sent, queue, db, faults>>
      BY <2>4 DEF vars, session, call
    <3>2. QED
      BY <3>1 DEF Fresh, SavedAsItStands
  <2>5. QED
    BY <2>1, <2>2, <2>3, <2>4, LoopSaves DEF Next
<1>3. QED
  BY <1>1, <1>2, LoopInvariant, PTL DEF Spec

\* For any modes, follow-ups, plans and limits, as long as every checkpoint is
\* written a killed runtime loses at most the follow-ups of the call it waits
\* for, and a prompt that ended by itself left the session as it was.
THEOREM CheckpointsSave == Spec => []SavedAsItStands
BY SavingInvariant, PTL
=============================================================================
