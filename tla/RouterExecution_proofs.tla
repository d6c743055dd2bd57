----------------------- MODULE RouterExecution_proofs -----------------------
(***************************************************************************)
(* Theorems of RouterExecution for every set of sessions, turns and cancel *)
(* requests and every size of the slot semaphore and of the turn queue.    *)
(***************************************************************************)
EXTENDS RouterExecution, FiniteSetTheorems, SequenceTheorems, TLAPS

\* Unfolds the frame conditions; the actions themselves are cited leaf by leaf.
USE DEF vars, turnVars, workerVars, cancelVars, history

\* Only a per-session cancel or a disconnect looks a key up by session, and
\* only a disconnect aborts a task.
TargetsOK ==
  \A c \in Cancellers :
     /\ cpc[c] = "unmap" => ctarget[c].kind \in {"cancel", "disconnect"}
     /\ cpc[c] = "abort" => ctarget[c].kind = "disconnect"

TypeInv == TypeOK /\ TargetsOK

\* Every variable keeps its type: the turn table, the semaphore's waiters, the
\* worker registry and the cancel requests of the router's services.
THEOREM TypeInvariant == Spec => []TypeInv
<1> USE SessionOfAssumption, NoTurnAssumption, LimitsAssumption
<1>1. Init => TypeInv
  BY DEF Init, TypeInv, TypeOK, TargetsOK, Targets, Pcs
<1>2. TypeInv /\ [Next]_vars => TypeInv'
  <2> SUFFICES ASSUME TypeInv, [Next]_vars PROVE TypeInv'
    OBVIOUS
  <2> USE DEF TypeInv, TypeOK, TargetsOK, Targets, Pcs, Waiting, Slotted, Terminal, At, Remove, Unmapped
  <2>1. ASSUME NEW t \in Turns, Enqueue(t) PROVE TypeInv'
    BY <2>1 DEF Enqueue
  <2>2. ASSUME NEW t \in Turns, TurnStep(t) PROVE TypeInv'
    <3>1. CASE BadPayload(t) BY <3>1 DEF BadPayload
    <3>2. CASE WaitForSlot(t) BY <3>2 DEF WaitForSlot
    <3>3. CASE GrantSlot(t) BY <3>3 DEF GrantSlot
    <3>4. CASE MarkRunning(t) BY <3>4 DEF MarkRunning
    <3>5. CASE Unwind(t) BY <3>5 DEF Unwind
    <3>6. CASE Return(t) BY <3>6 DEF Return
    <3>7. CASE RefuseDispatch(t) BY <3>7 DEF RefuseDispatch
    <3>8. CASE ReadWorkerKey(t) BY <3>8 DEF ReadWorkerKey
    <3>9. CASE ReadWorker(t) BY <3>9 DEF ReadWorker
    <3>10. CASE DispatchFails(t) BY <3>10 DEF DispatchFails
    <3>11. CASE EnsureWorker(t) BY <3>11 DEF EnsureWorker
    <3>12. CASE FetchWorker(t) BY <3>12 DEF FetchWorker
    <3>13. CASE SpawnChild(t) BY <3>13 DEF SpawnChild
    <3>14. CASE SpawnFails(t) BY <3>14 DEF SpawnFails
    <3>15. CASE StdinFails(t) BY <3>15 DEF StdinFails
    <3>16. CASE StoreScope(t) BY <3>16 DEF StoreScope
    <3>17. CASE CheckCancelled(t) BY <3>17 DEF CheckCancelled
    <3>18. CASE ChildReaped(t) BY <3>18 DEF ChildReaped
    <3>19. CASE StopNow(t) BY <3>19 DEF StopNow
    <3>20. CASE CleanupWorker(t) BY <3>20 DEF CleanupWorker
    <3> QED BY <2>2, <3>1, <3>2, <3>3, <3>4, <3>5, <3>6, <3>7, <3>8, <3>9, <3>10,
               <3>11, <3>12, <3>13, <3>14, <3>15, <3>16, <3>17, <3>18, <3>19, <3>20
            DEF TurnStep
  <2>3. ASSUME NEW t \in Turns, ChildExit(t) PROVE TypeInv'
    BY <2>3 DEF ChildExit
  <2>4. ASSUME NEW c \in Cancellers, NEW s \in Sessions, CancelTurn(c, s) PROVE TypeInv'
    BY <2>4 DEF CancelTurn, LiveOn
  <2>5. ASSUME NEW c \in Cancellers, NEW t \in Turns, Disconnect(c, t) PROVE TypeInv'
    BY <2>5 DEF Disconnect, LiveOn
  <2>6. ASSUME NEW c \in Cancellers, KillAll(c) PROVE TypeInv'
    BY <2>6 DEF KillAll
  <2>7. ASSUME NEW c \in Cancellers, CancelStep(c) PROVE TypeInv'
    <3>1. CASE UnmapKey(c) BY <3>1 DEF UnmapKey, TargetSession
    <3>2. CASE Terminate(c) BY <3>2 DEF Terminate
    <3>3. CASE CancelDone(c) BY <3>3 DEF CancelDone
    <3>4. CASE Drain(c) BY <3>4 DEF Drain
    <3>5. CASE AbortWaiting(c) BY <3>5 DEF AbortWaiting
    <3>6. CASE AbortSlotted(c) BY <3>6 DEF AbortSlotted
    <3>7. CASE AbortTooLate(c) BY <3>7 DEF AbortTooLate
    <3>8. ASSUME NEW id \in Turns, StopWorker(c, id) PROVE TypeInv'
      BY <3>8 DEF StopWorker
    <3> QED BY <2>7, <3>1, <3>2, <3>3, <3>4, <3>5, <3>6, <3>7, <3>8 DEF CancelStep
  <2>8. ASSUME NEW s \in Sessions, ProbeRead(s) PROVE TypeInv'
    BY <2>8 DEF ProbeRead
  <2>9. CASE ProbeCheck
    BY <2>9 DEF ProbeCheck
  <2>10. CASE UNCHANGED vars
    BY <2>10
  <2> QED
    BY <2>1, <2>2, <2>3, <2>4, <2>5, <2>6, <2>7, <2>8, <2>9, <2>10 DEF Next
<1>3. QED
  BY <1>1, <1>2, PTL DEF Spec

\* TypeOK on its own, as the runs check it.
THEOREM TypeCorrect == Spec => []TypeOK
  BY TypeInvariant, PTL DEF TypeInv

-----------------------------------------------------------------------------
\* What a request that undoes turns knows of the sessions it disturbs: from
\* its first step on, they are recorded as disturbed.
DisturbedOK ==
  \A c \in Cancellers :
     /\ cpc[c] # "idle" /\ ctarget[c].kind = "disconnect"
           => SessionOf[ctarget[c].on] \in disturbed
     /\ cpc[c] # "idle" /\ ctarget[c].kind = "killall" => disturbed = Sessions

TableInv == TypeInv /\ DisturbedOK /\ TableMatchesTurns

\* The turn table of the execution service is exact for every session that was
\* never cancelled or killed: one turn at most, in the stage the table says.
THEOREM TableExact == Spec => []TableMatchesTurns
<1> USE SessionOfAssumption, NoTurnAssumption
<1>1. Init => DisturbedOK /\ TableMatchesTurns
  BY DEF Init, DisturbedOK, TableMatchesTurns, LiveOn, Live
<1>2. TypeInv /\ TypeInv' /\ DisturbedOK /\ TableMatchesTurns /\ [Next]_vars
         => (DisturbedOK /\ TableMatchesTurns)'
  <2> DEFINE Inv == DisturbedOK /\ TableMatchesTurns
  <2> SUFFICES ASSUME TypeInv, TypeInv', DisturbedOK, TableMatchesTurns, [Next]_vars
               PROVE Inv'
    OBVIOUS
  <2> USE DEF TypeInv, TypeOK, TargetsOK, Targets, Pcs, Waiting, Slotted, Terminal, At,
              Remove, Unmapped, DisturbedOK, TableMatchesTurns, LiveOn, Live, StageOf,
              Invoking
  <2>1. ASSUME NEW t \in Turns, Enqueue(t) PROVE Inv'
    <3>1. DisturbedOK'
      BY <2>1 DEF Enqueue
    <3>2. CASE pc'[t] = "rejected"
      <4>1. sessions' = sessions /\ disturbed' = disturbed
        BY <2>1, <3>2 DEF Enqueue
      <4>2. \A s \in Sessions : LiveOn(s)' = LiveOn(s)
        BY <2>1, <3>2 DEF Enqueue
      <4>3. \A s \in Sessions : \A u \in LiveOn(s) : StageOf(u)' = StageOf(u)
        BY <2>1, <3>2 DEF Enqueue
      <4> QED BY <3>1, <4>1, <4>2, <4>3
    <3>3. CASE pc'[t] = "accepted"
      <4>1. SessionOf[t] \notin disturbed => LiveOn(SessionOf[t]) = {}
        BY <2>1, <3>3 DEF Enqueue
      <4>2. LiveOn(SessionOf[t])' = LiveOn(SessionOf[t]) \cup {t}
        BY <2>1, <3>3 DEF Enqueue
      <4>3. \A s \in Sessions \ {SessionOf[t]} :
               LiveOn(s)' = LiveOn(s) /\ \A u \in LiveOn(s) : StageOf(u)' = StageOf(u)
        BY <2>1, <3>3 DEF Enqueue
      <4>4. /\ disturbed' = disturbed /\ StageOf(t)' = "Queued"
            /\ sessions' = [sessions EXCEPT ![SessionOf[t]] = "Queued"]
        BY <2>1, <3>3 DEF Enqueue
      <4> QED BY <3>1, <4>1, <4>2, <4>3, <4>4
    <3> QED BY <2>1, <3>2, <3>3 DEF Enqueue
  <2>2. ASSUME NEW t \in Turns, TurnStep(t) PROVE Inv'
    <3>1. CASE BadPayload(t) BY <3>1 DEF BadPayload
    <3>2. CASE WaitForSlot(t) BY <3>2 DEF WaitForSlot
    <3>3. CASE GrantSlot(t) BY <3>3 DEF GrantSlot
    <3>4. CASE MarkRunning(t)
      <4>1. DisturbedOK'
        BY <3>4 DEF MarkRunning
      <4>2. /\ pc[t] = "granted" /\ disturbed' = disturbed
            /\ \A u \in Turns \ {t} : pc'[u] = pc[u]
        BY <3>4 DEF MarkRunning
      <4>3. CASE sessions[SessionOf[t]] # "absent"
        <5>1. pc'[t] = "dispatch" /\ sessions' = [sessions EXCEPT ![SessionOf[t]] = "Running"]
          BY <3>4, <4>3 DEF MarkRunning
        <5>2. \A s \in Sessions : LiveOn(s)' = LiveOn(s)
          BY <4>2, <5>1
        <5>3. StageOf(t)' = "Running" /\ \A u \in Turns \ {t} : StageOf(u)' = StageOf(u)
          BY <4>2, <5>1
        <5>4. QED
          BY <4>1, <4>2, <5>1, <5>2, <5>3
      <4>4. CASE sessions[SessionOf[t]] = "absent"
        <5>1. pc'[t] = "unwinding" /\ sessions' = sessions
          BY <3>4, <4>4 DEF MarkRunning
        <5>2. \A s \in Sessions : LiveOn(s)' = LiveOn(s)
          BY <4>2, <5>1
        <5>3. \A u \in Turns : StageOf(u)' = StageOf(u)
          BY <4>2, <5>1
        <5>4. QED
          BY <4>1, <4>2, <5>1, <5>2, <5>3
      <4>5. QED
        BY <4>3, <4>4
    <3>5. CASE Unwind(t) BY <3>5 DEF Unwind
    <3>6. CASE Return(t) BY <3>6 DEF Return
    <3>7. CASE RefuseDispatch(t) BY <3>7 DEF RefuseDispatch
    <3>8. CASE ReadWorkerKey(t) BY <3>8 DEF ReadWorkerKey
    <3>9. CASE ReadWorker(t) BY <3>9 DEF ReadWorker
    <3>10. CASE DispatchFails(t) BY <3>10 DEF DispatchFails
    <3>11. CASE EnsureWorker(t) BY <3>11 DEF EnsureWorker
    <3>12. CASE FetchWorker(t) BY <3>12 DEF FetchWorker
    <3>13. CASE SpawnChild(t) BY <3>13 DEF SpawnChild
    <3>14. CASE SpawnFails(t) BY <3>14 DEF SpawnFails
    <3>15. CASE StdinFails(t) BY <3>15 DEF StdinFails
    <3>16. CASE StoreScope(t) BY <3>16 DEF StoreScope
    <3>17. CASE CheckCancelled(t)
      <4>1. CASE t \in cancel_flag BY <3>17, <4>1 DEF CheckCancelled
      <4>2. CASE t \notin cancel_flag BY <3>17, <4>2 DEF CheckCancelled
      <4> QED BY <4>1, <4>2
    <3>18. CASE ChildReaped(t) BY <3>18 DEF ChildReaped
    <3>19. CASE StopNow(t) BY <3>19 DEF StopNow
    <3>20. CASE CleanupWorker(t) BY <3>20 DEF CleanupWorker
    <3> QED BY <2>2, <3>1, <3>2, <3>3, <3>4, <3>5, <3>6, <3>7, <3>8, <3>9, <3>10,
               <3>11, <3>12, <3>13, <3>14, <3>15, <3>16, <3>17, <3>18, <3>19, <3>20
            DEF TurnStep
  <2>3. ASSUME NEW t \in Turns, ChildExit(t) PROVE Inv'
    BY <2>3 DEF ChildExit
  <2>4. ASSUME NEW c \in Cancellers, NEW s \in Sessions, CancelTurn(c, s) PROVE Inv'
    BY <2>4 DEF CancelTurn
  <2>5. ASSUME NEW c \in Cancellers, NEW t \in Turns, Disconnect(c, t) PROVE Inv'
    BY <2>5 DEF Disconnect
  <2>6. ASSUME NEW c \in Cancellers, KillAll(c) PROVE Inv'
    BY <2>6 DEF KillAll
  <2>7. ASSUME NEW c \in Cancellers, CancelStep(c) PROVE Inv'
    <3>1. CASE UnmapKey(c) BY <3>1 DEF UnmapKey
    <3>2. CASE Terminate(c) BY <3>2 DEF Terminate
    <3>3. CASE CancelDone(c) BY <3>3 DEF CancelDone
    <3>4. CASE Drain(c) BY <3>4 DEF Drain
    <3>5. CASE AbortWaiting(c) BY <3>5 DEF AbortWaiting
    <3>6. CASE AbortSlotted(c) BY <3>6 DEF AbortSlotted
    <3>7. CASE AbortTooLate(c) BY <3>7 DEF AbortTooLate
    <3>8. ASSUME NEW id \in Turns, StopWorker(c, id) PROVE Inv'
      BY <3>8 DEF StopWorker
    <3> QED BY <2>7, <3>1, <3>2, <3>3, <3>4, <3>5, <3>6, <3>7, <3>8 DEF CancelStep
  <2>8. ASSUME NEW s \in Sessions, ProbeRead(s) PROVE Inv'
    BY <2>8 DEF ProbeRead
  <2>9. CASE ProbeCheck
    BY <2>9 DEF ProbeCheck
  <2>10. CASE UNCHANGED vars
    BY <2>10
  <2> QED
    BY <2>1, <2>2, <2>3, <2>4, <2>5, <2>6, <2>7, <2>8, <2>9, <2>10 DEF Next
<1>3. QED
  BY <1>1, <1>2, TypeInvariant, PTL DEF Spec

-----------------------------------------------------------------------------
\* A runtime process is alive only while its turn waits for it, and so only
\* while the turn holds a permit.
ChildrenInvoking == \A t \in child : pc[t] \in Invoking

SlotInv == PermitsConserved /\ ChildrenInvoking

\* What a step may do to the permits: nothing, hand one to a turn that has
\* none, or take one back from a turn that has it.
Hand(t)     == t \notin Holders /\ Holders' = Holders \cup {t} /\ permits' = permits - 1
TakeBack(t) == t \in Holders /\ Holders' = Holders \ {t} /\ permits' = permits + 1
PermitMove  == \/ Holders' = Holders /\ permits' = permits
               \/ \E t \in Turns : Hand(t) \/ TakeBack(t)

LEMMA StepMovesPermits ==
  ASSUME TypeInv, ChildrenInvoking, [Next]_vars
  PROVE  PermitMove /\ ChildrenInvoking'
<1> USE SessionOfAssumption, NoTurnAssumption
<1> USE DEF TypeInv, TypeOK, TargetsOK, Targets, Pcs, Waiting, Slotted, Terminal, At,
            Remove, Unmapped, ChildrenInvoking, Invoking, Holders, PermitMove, Hand, TakeBack
<1>1. ASSUME NEW t \in Turns, Enqueue(t) PROVE PermitMove /\ ChildrenInvoking'
  <2>1. \A u \in Turns : pc'[u] \in Slotted <=> pc[u] \in Slotted
    BY <1>1 DEF Enqueue
  <2>2. Holders' = Holders
    BY <2>1
  <2> QED BY <1>1, <2>2 DEF Enqueue
<1>2. ASSUME NEW t \in Turns, TurnStep(t) PROVE PermitMove /\ ChildrenInvoking'
  <2>1. CASE BadPayload(t) BY <2>1 DEF BadPayload
  <2>2. CASE WaitForSlot(t) BY <2>2 DEF WaitForSlot
  <2>3. CASE GrantSlot(t)
    <3>1. Hand(t) BY <2>3 DEF GrantSlot
    <3> QED BY <2>3, <3>1 DEF GrantSlot
  <2>4. CASE MarkRunning(t)
    <3>1. CASE sessions[SessionOf[t]] # "absent"
      <4>1. Holders' = Holders /\ permits' = permits
        BY <2>4, <3>1 DEF MarkRunning
      <4> QED BY <2>4, <3>1, <4>1 DEF MarkRunning
    <3>2. CASE sessions[SessionOf[t]] = "absent"
      <4>1. TakeBack(t)
        BY <2>4, <3>2 DEF MarkRunning
      <4> QED BY <2>4, <3>2, <4>1 DEF MarkRunning
    <3> QED BY <3>1, <3>2
  <2>5. CASE Unwind(t) BY <2>5 DEF Unwind
  <2>6. CASE Return(t) BY <2>6 DEF Return
  <2>7. CASE RefuseDispatch(t) BY <2>7 DEF RefuseDispatch
  <2>8. CASE ReadWorkerKey(t) BY <2>8 DEF ReadWorkerKey
  <2>9. CASE ReadWorker(t) BY <2>9 DEF ReadWorker
  <2>10. CASE DispatchFails(t) BY <2>10 DEF DispatchFails
  <2>11. CASE EnsureWorker(t) BY <2>11 DEF EnsureWorker
  <2>12. CASE FetchWorker(t) BY <2>12 DEF FetchWorker
  <2>13. CASE SpawnChild(t) BY <2>13 DEF SpawnChild
  <2>14. CASE SpawnFails(t) BY <2>14 DEF SpawnFails
  <2>15. CASE StdinFails(t) BY <2>15 DEF StdinFails
  <2>16. CASE StoreScope(t) BY <2>16 DEF StoreScope
  <2>17. CASE CheckCancelled(t)
    <3>1. Holders' = Holders /\ permits' = permits
      BY <2>17 DEF CheckCancelled
    <3> QED BY <2>17, <3>1 DEF CheckCancelled
  <2>18. CASE ChildReaped(t) BY <2>18 DEF ChildReaped
  <2>19. CASE StopNow(t) BY <2>19 DEF StopNow
  <2>20. CASE CleanupWorker(t) BY <2>20 DEF CleanupWorker
  <2> QED BY <1>2, <2>1, <2>2, <2>3, <2>4, <2>5, <2>6, <2>7, <2>8, <2>9, <2>10,
             <2>11, <2>12, <2>13, <2>14, <2>15, <2>16, <2>17, <2>18, <2>19, <2>20
          DEF TurnStep
<1>3. ASSUME NEW t \in Turns, ChildExit(t) PROVE PermitMove /\ ChildrenInvoking'
  BY <1>3 DEF ChildExit
<1>4. ASSUME NEW c \in Cancellers, NEW s \in Sessions, CancelTurn(c, s) PROVE PermitMove /\ ChildrenInvoking'
  BY <1>4 DEF CancelTurn
<1>5. ASSUME NEW c \in Cancellers, NEW t \in Turns, Disconnect(c, t) PROVE PermitMove /\ ChildrenInvoking'
  BY <1>5 DEF Disconnect
<1>6. ASSUME NEW c \in Cancellers, KillAll(c) PROVE PermitMove /\ ChildrenInvoking'
  BY <1>6 DEF KillAll
<1>7. ASSUME NEW c \in Cancellers, CancelStep(c) PROVE PermitMove /\ ChildrenInvoking'
  <2>1. CASE UnmapKey(c) BY <2>1 DEF UnmapKey
  <2>2. CASE Terminate(c) BY <2>2 DEF Terminate
  <2>3. CASE CancelDone(c) BY <2>3 DEF CancelDone
  <2>4. CASE Drain(c) BY <2>4 DEF Drain
  <2>5. CASE AbortWaiting(c) BY <2>5 DEF AbortWaiting
  <2>6. CASE AbortSlotted(c) BY <2>6 DEF AbortSlotted
  <2>7. CASE AbortTooLate(c) BY <2>7 DEF AbortTooLate
  <2>8. ASSUME NEW id \in Turns, StopWorker(c, id) PROVE PermitMove /\ ChildrenInvoking'
    BY <2>8 DEF StopWorker
  <2> QED BY <1>7, <2>1, <2>2, <2>3, <2>4, <2>5, <2>6, <2>7, <2>8 DEF CancelStep
<1>8. ASSUME NEW s \in Sessions, ProbeRead(s) PROVE PermitMove /\ ChildrenInvoking'
  BY <1>8 DEF ProbeRead
<1>9. CASE ProbeCheck
  BY <1>9 DEF ProbeCheck
<1>10. CASE UNCHANGED vars
  BY <1>10
<1> QED
  BY <1>1, <1>2, <1>3, <1>4, <1>5, <1>6, <1>7, <1>8, <1>9, <1>10 DEF Next

\* The slot semaphore never loses or mints a permit, on any error or abort path.
THEOREM SlotsConserved == Spec => [](PermitsConserved /\ RuntimeSlotsBounded)
<1> USE LimitsAssumption, TurnsFinite
<1>1. Init => SlotInv
  <2> SUFFICES ASSUME Init PROVE SlotInv
    OBVIOUS
  <2>1. Holders = {}
    BY DEF Init, Holders, Slotted
  <2>2. PermitsConserved
    BY <2>1, FS_EmptySet DEF Init, PermitsConserved
  <2>3. QED
    BY <2>2 DEF Init, SlotInv, ChildrenInvoking
<1>2. TypeInv /\ SlotInv /\ [Next]_vars => SlotInv'
  <2> SUFFICES ASSUME TypeInv, SlotInv, [Next]_vars PROVE SlotInv'
    OBVIOUS
  <2>1. PermitMove /\ ChildrenInvoking'
    BY StepMovesPermits DEF SlotInv
  <2>2. IsFiniteSet(Holders)
    BY FS_Subset DEF Holders
  <2>3. Cardinality(Holders) \in Nat /\ permits \in Nat
    BY <2>2, FS_CardinalityType DEF TypeInv, TypeOK
  <2>4. ASSUME NEW t \in Turns, Hand(t) PROVE PermitsConserved'
    <3>1. Cardinality(Holders \cup {t}) = Cardinality(Holders) + 1
      BY <2>2, <2>4, FS_AddElement DEF Hand
    <3> QED BY <2>3, <2>4, <3>1 DEF Hand, SlotInv, PermitsConserved
  <2>5. ASSUME NEW t \in Turns, TakeBack(t) PROVE PermitsConserved'
    <3>1. Cardinality(Holders \ {t}) = Cardinality(Holders) - 1
      BY <2>2, <2>5, FS_RemoveElement DEF TakeBack
    <3> QED BY <2>3, <2>5, <3>1 DEF TakeBack, SlotInv, PermitsConserved
  <2> QED BY <2>1, <2>4, <2>5 DEF PermitMove, SlotInv, PermitsConserved
<1>3. TypeInv /\ SlotInv => PermitsConserved /\ RuntimeSlotsBounded
  <2> SUFFICES ASSUME TypeInv, SlotInv PROVE RuntimeSlotsBounded
    BY DEF SlotInv
  <2>1. IsFiniteSet(Holders)
    BY FS_Subset DEF Holders
  <2>2. child \subseteq Holders
    BY DEF TypeInv, TypeOK, SlotInv, ChildrenInvoking, Holders, Invoking, Slotted
  <2>3. Cardinality(child) <= Cardinality(Holders)
    BY <2>1, <2>2, FS_Subset
  <2>4. IsFiniteSet(child)
    BY <2>1, <2>2, FS_Subset
  <2>5. Cardinality(Holders) \in Nat /\ Cardinality(child) \in Nat /\ permits \in Nat
    BY <2>1, <2>4, FS_CardinalityType DEF TypeInv, TypeOK
  <2> QED BY <2>3, <2>5 DEF SlotInv, PermitsConserved, RuntimeSlotsBounded
<1>4. QED
  BY <1>1, <1>2, <1>3, TypeInvariant, PTL DEF Spec

\* Each runtime slot is free or held by exactly one turn, whatever was
\* cancelled, killed or aborted.
THEOREM PermitsExact == Spec => []PermitsConserved
  BY SlotsConserved, PTL

-----------------------------------------------------------------------------
(* What a turn leaves behind.  Each thing a turn puts into shared state has *)
(* somebody who will take it away: a key in the turn table, a live turn of  *)
(* that session; a registered or mapped worker, its turn or a cleanup task; *)
(* an entry of the semaphore's queue, the turn that waits there.            *)

\* Places of a turn whose worker is registered or about to be unregistered.
Registered == {"call", "invoke", "spawned", "scoped", "wait", "stopping"}
Owned(t) == pc[t] \in Registered \/ t \in cleanup

KeysAreLive == \A s \in Sessions : sessions[s] # "absent" => LiveOn(s) # {}

WorkersAreOwned ==
  /\ \A t \in workers : Owned(t)
  /\ \A s \in Sessions : service_to_worker[s] # NoTurn => Owned(service_to_worker[s])

Distinct(q) == \A i, j \in 1..Len(q) : q[i] = q[j] => i = j

WaitersWait ==
  /\ \A i \in 1..Len(waitq) : pc[waitq[i]] = "waiting"
  /\ Distinct(waitq)

LEMMA KeysStep == TypeInv /\ KeysAreLive /\ [Next]_vars => KeysAreLive'
<1> SUFFICES ASSUME TypeInv, KeysAreLive, [Next]_vars PROVE KeysAreLive'
  OBVIOUS
<1> USE SessionOfAssumption, NoTurnAssumption
<1> USE DEF TypeInv, TypeOK, TargetsOK, Targets, Pcs, Waiting, Slotted, Terminal, At,
            Remove, KeysAreLive, LiveOn, Live, Invoking
\* A turn that stops being live takes its session's key away; nobody else's
\* place changes.
<1>1. ASSUME NEW t \in Turns, \A u \in Turns \ {t} : pc'[u] = pc[u],
             Live(t)' \/ ~Live(t) \/ sessions'[SessionOf[t]] = "absent",
             \A s \in Sessions : sessions'[s] # "absent" =>
                sessions[s] # "absent" \/ (s = SessionOf[t] /\ Live(t)')
      PROVE  KeysAreLive'
  BY <1>1
<1>2. ASSUME NEW t \in Turns, Enqueue(t) PROVE KeysAreLive'
  BY <1>1, <1>2 DEF Enqueue
<1>3. ASSUME NEW t \in Turns, TurnStep(t) PROVE KeysAreLive'
  <2>1. CASE BadPayload(t) BY <1>1, <2>1 DEF BadPayload
  <2>2. CASE WaitForSlot(t) BY <1>1, <2>2 DEF WaitForSlot
  <2>3. CASE GrantSlot(t) BY <1>1, <2>3 DEF GrantSlot
  <2>4. CASE MarkRunning(t) BY <1>1, <2>4 DEF MarkRunning
  <2>5. CASE Unwind(t) BY <1>1, <2>5 DEF Unwind
  <2>6. CASE Return(t) BY <1>1, <2>6 DEF Return
  <2>7. CASE \/ RefuseDispatch(t) \/ ReadWorkerKey(t) \/ ReadWorker(t) \/ DispatchFails(t)
             \/ EnsureWorker(t) \/ FetchWorker(t) \/ SpawnChild(t) \/ SpawnFails(t)
    BY <1>1, <2>7 DEF RefuseDispatch, ReadWorkerKey, ReadWorker, DispatchFails, EnsureWorker,
                      FetchWorker, SpawnChild, SpawnFails
  <2>8. CASE \/ StdinFails(t) \/ StoreScope(t) \/ CheckCancelled(t) \/ ChildReaped(t)
             \/ StopNow(t) \/ CleanupWorker(t)
    BY <1>1, <2>8 DEF StdinFails, StoreScope, CheckCancelled, ChildReaped, StopNow, CleanupWorker
  <2> QED BY <1>3, <2>1, <2>2, <2>3, <2>4, <2>5, <2>6, <2>7, <2>8 DEF TurnStep
<1>4. ASSUME NEW t \in Turns, ChildExit(t) PROVE KeysAreLive'
  BY <1>4 DEF ChildExit
<1>5. ASSUME NEW c \in Cancellers,
             \/ \E s \in Sessions : CancelTurn(c, s)
             \/ \E t \in Turns : Disconnect(c, t)
             \/ KillAll(c) \/ UnmapKey(c) \/ Terminate(c) \/ CancelDone(c) \/ Drain(c)
             \/ AbortTooLate(c) \/ \E id \in Turns : StopWorker(c, id)
      PROVE  KeysAreLive'
  <2>1. pc' = pc
    BY <1>5 DEF CancelTurn, Disconnect, KillAll, UnmapKey, Terminate, CancelDone, Drain,
                AbortTooLate, StopWorker
  <2>2. \A s \in Sessions : sessions'[s] \in {sessions[s], "absent"}
    <3>1. CASE \E s \in Sessions : sessions' = [sessions EXCEPT ![s] = "absent"]
      BY <3>1
    <3>2. CASE Drain(c)
      BY <3>2 DEF Drain
    <3>3. CASE sessions' = sessions
      BY <3>3
    <3>4. QED
      BY <1>5, <3>1, <3>2, <3>3 DEF CancelTurn, Disconnect, KillAll, UnmapKey, Terminate,
                                    CancelDone, AbortTooLate, StopWorker
  <2>3. QED
    BY <2>1, <2>2
<1>6. ASSUME NEW c \in Cancellers, AbortWaiting(c) \/ AbortSlotted(c) PROVE KeysAreLive'
  <2>1. PICK t \in Turns : sessions' = sessions /\ pc' = [pc EXCEPT ![t] = "unwinding"]
    BY <1>6 DEF AbortWaiting, AbortSlotted
  <2>2. pc'[t] = "unwinding" /\ \A u \in Turns \ {t} : pc'[u] = pc[u]
    BY <2>1
  <2>3. Live(t)'
    BY <2>2
  <2>4. QED
    BY <1>1, <2>1, <2>2, <2>3
<1>7. CASE (\E s \in Sessions : ProbeRead(s)) \/ ProbeCheck \/ UNCHANGED vars
  BY <1>7 DEF ProbeRead, ProbeCheck
<1> QED
  BY <1>2, <1>3, <1>4, <1>5, <1>6, <1>7 DEF Next, CancelStep

LEMMA WorkersStep == TypeInv /\ WorkersAreOwned /\ [Next]_vars => WorkersAreOwned'
<1> SUFFICES ASSUME TypeInv, WorkersAreOwned, [Next]_vars PROVE WorkersAreOwned'
  OBVIOUS
<1> USE SessionOfAssumption, NoTurnAssumption
<1> USE DEF TypeInv, TypeOK, TargetsOK, Targets, Pcs, Waiting, Slotted, Terminal, At,
            Remove, Unmapped, WorkersAreOwned, Owned, Registered, Invoking
\* No worker is added, and none loses its owner.
<1>0. ASSUME workers' \subseteq workers,
             \A s \in Sessions : service_to_worker'[s] \in {service_to_worker[s], NoTurn},
             \A t \in Turns : Owned(t) => Owned(t)'
      PROVE  WorkersAreOwned'
  BY <1>0
<1>1. ASSUME NEW t \in Turns, Enqueue(t) PROVE WorkersAreOwned'
  BY <1>0, <1>1 DEF Enqueue
<1>2. ASSUME NEW t \in Turns, TurnStep(t) PROVE WorkersAreOwned'
  <2>1. CASE \/ BadPayload(t) \/ WaitForSlot(t) \/ GrantSlot(t) \/ MarkRunning(t)
             \/ Unwind(t) \/ Return(t) \/ RefuseDispatch(t)
    BY <1>0, <2>1 DEF BadPayload, WaitForSlot, GrantSlot, MarkRunning, Unwind, Return, RefuseDispatch
  <2>2. CASE ReadWorkerKey(t) \/ ReadWorker(t) \/ DispatchFails(t)
    BY <2>2 DEF ReadWorkerKey, ReadWorker, DispatchFails
  <2>3. CASE EnsureWorker(t) BY <2>3 DEF EnsureWorker
  <2>4. CASE FetchWorker(t) \/ SpawnChild(t) \/ SpawnFails(t) \/ StdinFails(t) \/ StoreScope(t)
    BY <2>4 DEF FetchWorker, SpawnChild, SpawnFails, StdinFails, StoreScope
  <2>5. CASE CheckCancelled(t) \/ ChildReaped(t)
    BY <2>5 DEF CheckCancelled, ChildReaped
  <2>6. CASE StopNow(t) BY <2>6 DEF StopNow
  <2>7. CASE CleanupWorker(t) BY <2>7 DEF CleanupWorker
  <2> QED BY <1>2, <2>1, <2>2, <2>3, <2>4, <2>5, <2>6, <2>7 DEF TurnStep
<1>3. ASSUME NEW t \in Turns, ChildExit(t) PROVE WorkersAreOwned'
  BY <1>3 DEF ChildExit
<1>4. ASSUME NEW c \in Cancellers,
             \/ \E s \in Sessions : CancelTurn(c, s)
             \/ \E t \in Turns : Disconnect(c, t)
             \/ KillAll(c) \/ UnmapKey(c) \/ Terminate(c) \/ CancelDone(c) \/ Drain(c)
             \/ AbortWaiting(c) \/ AbortTooLate(c)
      PROVE  WorkersAreOwned'
  <2>1. workers' = workers /\ \A t \in Turns : Owned(t) => Owned(t)'
    BY <1>4 DEF CancelTurn, Disconnect, KillAll, UnmapKey, Terminate, CancelDone,
                Drain, AbortWaiting, AbortTooLate
  <2>2. \A s \in Sessions : service_to_worker'[s] \in {service_to_worker[s], NoTurn}
    <3>1. CASE KillAll(c)
      BY <3>1 DEF KillAll
    <3>2. CASE UnmapKey(c)
      BY <3>2 DEF UnmapKey
    <3>3. CASE ~KillAll(c) /\ ~UnmapKey(c)
      <4>1. service_to_worker' = service_to_worker
        BY <1>4, <3>3, Zenon DEF CancelTurn, Disconnect, Terminate, CancelDone, Drain,
                                 AbortWaiting, AbortTooLate, workerVars
      <4>2. QED
        BY <4>1
    <3>4. QED
      BY <3>1, <3>2, <3>3
  <2>3. QED
    BY <1>0, <2>1, <2>2
<1>5. ASSUME NEW c \in Cancellers, NEW id \in Turns, StopWorker(c, id) PROVE WorkersAreOwned'
  BY <1>5 DEF StopWorker
<1>6. ASSUME NEW c \in Cancellers, AbortSlotted(c) PROVE WorkersAreOwned'
  BY <1>6 DEF AbortSlotted
<1>7. CASE (\E s \in Sessions : ProbeRead(s)) \/ ProbeCheck \/ UNCHANGED vars
  BY <1>7 DEF ProbeRead, ProbeCheck
<1> QED
  BY <1>1, <1>2, <1>3, <1>4, <1>5, <1>6, <1>7 DEF Next, CancelStep

\* A queue of distinct entries without its first one.
LEMMA WithoutFirst ==
  ASSUME NEW S, NEW q \in Seq(S), q # <<>>, Distinct(q)
  PROVE  /\ Distinct(Tail(q))
         /\ \A i \in 1..Len(Tail(q)) : \E k \in 1..Len(q) : Tail(q)[i] = q[k] /\ q[k] # Head(q)
<1>1. /\ Len(q) \in Nat /\ Len(q) > 0 /\ Head(q) = q[1] /\ Len(Tail(q)) = Len(q) - 1
      /\ \A i \in 1..(Len(q) - 1) : Tail(q)[i] = q[i + 1]
  OBVIOUS
<1>2. \A i \in 1..(Len(q) - 1) : i + 1 \in 1..Len(q) /\ 1 \in 1..Len(q) /\ i + 1 # 1
  BY <1>1
<1>3. \A i \in 1..(Len(q) - 1) : Tail(q)[i] = q[i + 1] /\ q[i + 1] # Head(q)
  BY <1>1, <1>2 DEF Distinct
<1>4. Distinct(Tail(q))
  BY <1>1, <1>2 DEF Distinct
<1>5. QED
  BY <1>1, <1>2, <1>3, <1>4

\* Cutting entry n out of a queue, and what it leaves, entry by entry.
Cut(q, n) == SubSeq(q, 1, n - 1) \o SubSeq(q, n + 1, Len(q))

LEMMA CutOne ==
  ASSUME NEW S, NEW q \in Seq(S), NEW n \in 1..Len(q)
  PROVE  /\ Len(Cut(q, n)) = Len(q) - 1
         /\ \A j \in 1..(Len(q) - 1) : Cut(q, n)[j] = IF j < n THEN q[j] ELSE q[j + 1]
<1> DEFINE before == SubSeq(q, 1, n - 1)
           after  == SubSeq(q, n + 1, Len(q))
<1>1. /\ before \in Seq(S) /\ Len(before) = n - 1
      /\ \A j \in 1..(n - 1) : before[j] = q[j]
  OBVIOUS
<1>2. /\ after \in Seq(S) /\ Len(after) = Len(q) - n
      /\ \A j \in 1..(Len(q) - n) : after[j] = q[n + j]
  OBVIOUS
<1>3. Len(q) \in Nat /\ n \in Nat /\ 1 <= n /\ n <= Len(q)
  OBVIOUS
<1> HIDE DEF before, after
<1>4. /\ Len(before \o after) = Len(before) + Len(after)
      /\ \A j \in 1..(Len(before) + Len(after)) : (before \o after)[j] =
            IF j <= Len(before) THEN before[j] ELSE after[j - Len(before)]
  BY <1>1, <1>2, ConcatProperties
<1>5. Len(before \o after) = Len(q) - 1
  BY <1>1, <1>2, <1>3, <1>4
<1>6. ASSUME NEW j \in 1..(Len(q) - 1)
      PROVE  (before \o after)[j] = IF j < n THEN q[j] ELSE q[j + 1]
  <2>1. j \in 1..(Len(before) + Len(after))
    BY <1>1, <1>2, <1>3
  <2>2. CASE j < n
    BY <1>1, <1>3, <1>4, <2>1, <2>2
  <2>3. CASE ~(j < n)
    <3>1. j - (n - 1) \in 1..(Len(q) - n) /\ n + (j - (n - 1)) = j + 1
      BY <1>3, <2>3
    <3>2. (before \o after)[j] = after[j - (n - 1)]
      BY <1>1, <1>3, <1>4, <2>1, <2>3
    <3>3. QED
      BY <1>2, <2>3, <3>1, <3>2
  <2>4. QED
    BY <2>2, <2>3
<1>7. QED
  BY <1>5, <1>6 DEF before, after, Cut

\* A queue of distinct entries without one of them.
LEMMA WithoutOne ==
  ASSUME NEW S, NEW q \in Seq(S), NEW n \in 1..Len(q), Distinct(q)
  PROVE  /\ Distinct(Cut(q, n))
         /\ \A i \in 1..Len(Cut(q, n)) : \E k \in 1..Len(q) :
               Cut(q, n)[i] = q[k] /\ q[k] # q[n]
<1> DEFINE r == Cut(q, n)
<1>4. Len(q) \in Nat /\ n \in Nat /\ 1 <= n /\ n <= Len(q)
  OBVIOUS
<1>6. Len(r) = Len(q) - 1
  BY CutOne
<1>7. \A j \in 1..(Len(q) - 1) : j < n => r[j] = q[j]
  BY CutOne
<1>8. \A j \in 1..(Len(q) - 1) : ~(j < n) => r[j] = q[j + 1]
  BY CutOne
<1> HIDE DEF r
<1>9. Distinct(r)
  <2> SUFFICES ASSUME NEW i \in 1..Len(r), NEW j \in 1..Len(r), r[i] = r[j] PROVE i = j
    BY DEF Distinct
  <2>1. /\ i \in 1..(Len(q) - 1) /\ j \in 1..(Len(q) - 1)
        /\ i \in 1..Len(q) /\ j \in 1..Len(q) /\ i + 1 \in 1..Len(q) /\ j + 1 \in 1..Len(q)
    BY <1>4, <1>6
  <2>2. CASE i < n /\ j < n
    BY <1>7, <2>1, <2>2 DEF Distinct
  <2>3. CASE i < n /\ ~(j < n)
    <3>1. q[i] = q[j + 1]
      BY <1>7, <1>8, <2>1, <2>3
    <3>2. QED
      BY <1>4, <2>1, <2>3, <3>1 DEF Distinct
  <2>4. CASE ~(i < n) /\ j < n
    <3>1. q[i + 1] = q[j]
      BY <1>7, <1>8, <2>1, <2>4
    <3>2. QED
      BY <1>4, <2>1, <2>4, <3>1 DEF Distinct
  <2>5. CASE ~(i < n) /\ ~(j < n)
    <3>1. q[i + 1] = q[j + 1]
      BY <1>8, <2>1, <2>5
    <3>2. i + 1 = j + 1
      BY <2>1, <3>1 DEF Distinct
    <3>3. QED
      BY <2>1, <3>2
  <2>6. QED
    BY <2>2, <2>3, <2>4, <2>5
<1>10. \A j \in 1..Len(r) : \E k \in 1..Len(q) : r[j] = q[k] /\ q[k] # q[n]
  <2> SUFFICES ASSUME NEW j \in 1..Len(r)
               PROVE  \E k \in 1..Len(q) : r[j] = q[k] /\ q[k] # q[n]
    OBVIOUS
  <2>1. j \in 1..(Len(q) - 1) /\ j \in 1..Len(q) /\ j + 1 \in 1..Len(q)
    BY <1>4, <1>6
  <2>2. CASE j < n
    <3>1. r[j] = q[j]
      BY <1>7, <2>1, <2>2
    <3>2. q[j] # q[n]
      BY <1>4, <2>1, <2>2 DEF Distinct
    <3>3. QED
      BY <2>1, <3>1, <3>2
  <2>3. CASE ~(j < n)
    <3>1. r[j] = q[j + 1]
      BY <1>8, <2>1, <2>3
    <3>2. q[j + 1] # q[n]
      BY <1>4, <2>1, <2>3 DEF Distinct
    <3>3. QED
      BY <2>1, <3>1, <3>2
  <2>4. QED
    BY <2>2, <2>3
<1>11. QED
  BY <1>9, <1>10 DEF r

\* A queue of distinct entries with another one at its end.
LEMMA WithLast ==
  ASSUME NEW S, NEW q \in Seq(S), NEW t \in S, Distinct(q),
         \A i \in 1..Len(q) : q[i] # t
  PROVE  /\ Distinct(Append(q, t))
         /\ \A i \in 1..Len(Append(q, t)) :
               Append(q, t)[i] = t \/ \E k \in 1..Len(q) : Append(q, t)[i] = q[k]
<1> DEFINE r == Append(q, t)
<1>1. /\ Len(q) \in Nat /\ Len(r) = Len(q) + 1 /\ r[Len(q) + 1] = t
      /\ \A i \in 1..Len(q) : r[i] = q[i]
  OBVIOUS
<1> HIDE DEF r
<1>2. \A i \in 1..Len(r) : i \in 1..Len(q) \/ i = Len(q) + 1
  BY <1>1
<1>3. Distinct(r)
  BY <1>1, <1>2 DEF Distinct
<1>4. \A i \in 1..Len(r) : r[i] = t \/ \E k \in 1..Len(q) : r[i] = q[k]
  BY <1>1, <1>2
<1>5. QED
  BY <1>3, <1>4 DEF r

\* The semaphore's queue: what joins it at the end, leaves it at the front, or
\* is taken out of the middle.
LEMMA WaitersStep == TypeInv /\ WaitersWait /\ [Next]_vars => WaitersWait'
<1> SUFFICES ASSUME TypeInv, WaitersWait, [Next]_vars PROVE WaitersWait'
  OBVIOUS
<1> USE SessionOfAssumption, NoTurnAssumption
<1> USE DEF TypeInv, TypeOK, TargetsOK, Targets, Pcs, Waiting, Slotted, Terminal, At,
            WaitersWait, Invoking
<1>0. ASSUME waitq' = waitq, \A t \in Turns : pc[t] = "waiting" => pc'[t] = "waiting"
      PROVE  WaitersWait'
  BY <1>0
<1>1. ASSUME NEW t \in Turns, Enqueue(t) PROVE WaitersWait'
  BY <1>0, <1>1 DEF Enqueue
<1>2. ASSUME NEW t \in Turns, TurnStep(t) PROVE WaitersWait'
  <2>1. CASE WaitForSlot(t)
    <3>1. waitq' = Append(waitq, t) /\ pc' = [pc EXCEPT ![t] = "waiting"] /\ pc[t] = "accepted"
      BY <2>1 DEF WaitForSlot
    <3>2. waitq \in Seq(Turns) /\ Distinct(waitq) /\ \A i \in 1..Len(waitq) : waitq[i] # t
      BY <3>1
    <3>3. /\ Distinct(waitq')
          /\ \A i \in 1..Len(waitq') :
                waitq'[i] = t \/ \E k \in 1..Len(waitq) : waitq'[i] = waitq[k]
      BY <3>1, <3>2, WithLast
    <3>4. \A i \in 1..Len(waitq') : pc'[waitq'[i]] = "waiting"
      BY <3>1, <3>3
    <3>5. QED
      BY <3>3, <3>4
  <2>2. CASE GrantSlot(t)
    <3>1. /\ waitq # <<>> /\ t = Head(waitq) /\ waitq' = Tail(waitq)
          /\ pc' = [pc EXCEPT ![t] = "granted"]
      BY <2>2 DEF GrantSlot
    <3>2. /\ Distinct(waitq')
          /\ \A i \in 1..Len(waitq') : \E k \in 1..Len(waitq) :
                waitq'[i] = waitq[k] /\ waitq[k] # t
      BY <3>1, WithoutFirst
    <3>3. \A i \in 1..Len(waitq') : pc'[waitq'[i]] = "waiting"
      BY <3>1, <3>2
    <3>4. QED
      BY <3>2, <3>3
  <2>3. CASE \/ BadPayload(t) \/ MarkRunning(t) \/ Unwind(t) \/ Return(t) \/ RefuseDispatch(t)
             \/ ReadWorkerKey(t) \/ ReadWorker(t) \/ DispatchFails(t) \/ EnsureWorker(t)
             \/ FetchWorker(t)
    BY <1>0, <2>3 DEF BadPayload, MarkRunning, Unwind, Return, RefuseDispatch, ReadWorkerKey,
                      ReadWorker, DispatchFails, EnsureWorker, FetchWorker
  <2>4. CASE \/ SpawnChild(t) \/ SpawnFails(t) \/ StdinFails(t) \/ StoreScope(t)
             \/ CheckCancelled(t) \/ ChildReaped(t) \/ StopNow(t) \/ CleanupWorker(t)
    BY <1>0, <2>4 DEF SpawnChild, SpawnFails, StdinFails, StoreScope, CheckCancelled,
                      ChildReaped, StopNow, CleanupWorker
  <2> QED BY <1>2, <2>1, <2>2, <2>3, <2>4 DEF TurnStep
<1>3. ASSUME NEW c \in Cancellers, AbortWaiting(c) PROVE WaitersWait'
  <2>1. PICK i \in 1..Len(waitq) :
           /\ waitq[i] = ctarget[c].on
           /\ waitq' = SubSeq(waitq, 1, i - 1) \o SubSeq(waitq, i + 1, Len(waitq))
    BY <1>3 DEF AbortWaiting
  <2>2. pc' = [pc EXCEPT ![waitq[i]] = "unwinding"]
    BY <1>3, <2>1 DEF AbortWaiting
  <2>3. /\ Distinct(waitq')
        /\ \A j \in 1..Len(waitq') : \E k \in 1..Len(waitq) :
              waitq'[j] = waitq[k] /\ waitq[k] # waitq[i]
    <3>1. waitq \in Seq(Turns) /\ Distinct(waitq)
      OBVIOUS
    <3>2. waitq' = Cut(waitq, i)
      BY <2>1 DEF Cut
    <3>3. QED
      BY <3>1, <3>2, WithoutOne
  <2>4. \A j \in 1..Len(waitq') : pc'[waitq'[j]] = "waiting"
    BY <2>2, <2>3
  <2>5. QED
    BY <2>3, <2>4
<1>4. ASSUME NEW c \in Cancellers,
             \/ \E s \in Sessions : CancelTurn(c, s)
             \/ \E t \in Turns : Disconnect(c, t)
             \/ KillAll(c) \/ UnmapKey(c) \/ Terminate(c) \/ CancelDone(c) \/ Drain(c)
             \/ AbortSlotted(c) \/ AbortTooLate(c) \/ \E id \in Turns : StopWorker(c, id)
      PROVE  WaitersWait'
  BY <1>0, <1>4 DEF CancelTurn, Disconnect, KillAll, UnmapKey, Terminate, CancelDone, Drain,
                    AbortSlotted, AbortTooLate, StopWorker
<1>5. CASE \/ \E t \in Turns : ChildExit(t)
           \/ \E s \in Sessions : ProbeRead(s)
           \/ ProbeCheck \/ UNCHANGED vars
  BY <1>0, <1>5 DEF ChildExit, ProbeRead, ProbeCheck
<1> QED
  BY <1>1, <1>2, <1>3, <1>4, <1>5 DEF Next, CancelStep

\* Once every turn, request and cleanup is over, whatever was cancelled, killed
\* or aborted on the way: no key, no worker, no waiter, no process is left and
\* every permit is back.
THEOREM NothingIsLeftBehind == Spec => []NothingLeftBehind
<1>1. Init => ChildrenInvoking /\ KeysAreLive /\ WorkersAreOwned /\ WaitersWait
  BY DEF Init, ChildrenInvoking, KeysAreLive, WorkersAreOwned, WaitersWait, Distinct
<1>2. TypeInv /\ ChildrenInvoking /\ [Next]_vars => ChildrenInvoking'
  BY StepMovesPermits
<1>3. TypeInv /\ PermitsConserved /\ ChildrenInvoking /\ KeysAreLive /\ WorkersAreOwned
        /\ WaitersWait => NothingLeftBehind
  <2> SUFFICES ASSUME TypeInv, PermitsConserved, ChildrenInvoking, KeysAreLive,
                      WorkersAreOwned, WaitersWait, Quiet
               PROVE  /\ \A s \in Sessions : sessions[s] = "absent" /\ service_to_worker[s] = NoTurn
                      /\ permits = MaxActive /\ waitq = <<>>
                      /\ workers = {} /\ child = {}
    BY DEF NothingLeftBehind
  <2> USE DEF TypeInv, TypeOK, Quiet, Terminal
  <2>1. \A s \in Sessions : sessions[s] = "absent"
    BY DEF KeysAreLive, LiveOn, Live
  <2>2. workers = {} /\ \A s \in Sessions : service_to_worker[s] = NoTurn
    BY DEF WorkersAreOwned, Owned, Registered
  <2>3. child = {}
    BY DEF ChildrenInvoking, Invoking
  <2>4. Holders = {}
    BY DEF Holders, Slotted
  <2>5. permits = MaxActive
    BY <2>4, FS_EmptySet DEF PermitsConserved
  <2>6. waitq = <<>>
    <3> SUFFICES ASSUME waitq # <<>> PROVE FALSE
      OBVIOUS
    <3>1. 1 \in 1..Len(waitq) /\ waitq[1] \in Turns
      BY EmptySeq
    <3>2. QED
      BY <3>1 DEF WaitersWait
  <2>7. QED
    BY <2>1, <2>2, <2>3, <2>5, <2>6
<1>4. QED
  BY <1>1, <1>2, <1>3, KeysStep, WorkersStep, WaitersStep, TypeInvariant, PermitsExact, PTL DEF Spec

-----------------------------------------------------------------------------
(* The line of the semaphore: nobody loses a place in it, nobody is        *)
(* overtaken, and no slot stays free while somebody waits.                 *)

\* Whoever waits and goes on waiting is where it was, or further ahead.
PlacesKept ==
  \A i \in 1..Len(waitq) :
     pc'[waitq[i]] = "waiting" => \E j \in 1..Len(waitq') : j <= i /\ waitq'[j] = waitq[i]

InLine(t) == \E i \in 1..Len(waitq) : waitq[i] = t
WaitersInLine == \A t \in Turns : pc[t] = "waiting" => InLine(t)

\* Who is behind the one that is cut out moves up by one.
LEMMA CutKeepsOrder ==
  ASSUME NEW S, NEW q \in Seq(S), NEW n \in 1..Len(q)
  PROVE  \A i \in 1..Len(q) : i # n =>
            \E j \in 1..Len(Cut(q, n)) : j <= i /\ Cut(q, n)[j] = q[i]
<1> DEFINE r == Cut(q, n)
<1>1. Len(q) \in Nat /\ n \in Nat /\ 1 <= n /\ n <= Len(q)
  OBVIOUS
<1>2. Len(r) = Len(q) - 1
  BY CutOne
<1>3. \A j \in 1..(Len(q) - 1) : j < n => r[j] = q[j]
  BY CutOne
<1>4. \A j \in 1..(Len(q) - 1) : ~(j < n) => r[j] = q[j + 1]
  BY CutOne
<1> HIDE DEF r
<1>5. ASSUME NEW i \in 1..Len(q), i # n PROVE \E j \in 1..Len(r) : j <= i /\ r[j] = q[i]
  <2>1. CASE i < n
    <3>1. i \in 1..(Len(q) - 1) /\ i <= i
      BY <1>1, <2>1
    <3>2. QED
      BY <1>2, <1>3, <2>1, <3>1
  <2>2. CASE i > n
    <3>1. i - 1 \in 1..(Len(q) - 1) /\ i - 1 <= i /\ ~(i - 1 < n) /\ (i - 1) + 1 = i
      BY <1>1, <2>2
    <3>2. r[i - 1] = q[i]
      BY <1>4, <3>1
    <3>3. QED
      BY <1>2, <3>1, <3>2
  <2>3. QED
    BY <1>1, <1>5, <2>1, <2>2
<1>6. QED
  BY <1>5 DEF r

LEMMA LineMoves ==
  ASSUME TypeInv, WaitersWait, [Next]_vars
  PROVE  /\ PlacesKept
         /\ \A t \in Turns : pc'[t] = "waiting" => pc[t] = "waiting" \/ InLine(t)'
<1> DEFINE Newcomers == \A t \in Turns : pc'[t] = "waiting" => pc[t] = "waiting" \/ InLine(t)'
<1> USE SessionOfAssumption, NoTurnAssumption
<1> USE DEF TypeInv, TypeOK, TargetsOK, Targets, Pcs, Waiting, Slotted, Terminal, At,
            WaitersWait, Invoking
<1>0. ASSUME waitq' = waitq, \A t \in Turns : pc'[t] = "waiting" => pc[t] = "waiting"
      PROVE  PlacesKept /\ Newcomers
  <2>1. \A i \in 1..Len(waitq) : i <= i
    OBVIOUS
  <2>2. PlacesKept
    BY <1>0, <2>1 DEF PlacesKept
  <2>3. QED
    BY <1>0, <2>2
<1>1. ASSUME NEW t \in Turns, Enqueue(t) PROVE PlacesKept /\ Newcomers
  BY <1>0, <1>1 DEF Enqueue
<1>2. ASSUME NEW t \in Turns, TurnStep(t) PROVE PlacesKept /\ Newcomers
  <2>1. CASE WaitForSlot(t)
    <3>1. waitq \in Seq(Turns) /\ waitq' = Append(waitq, t) /\ pc' = [pc EXCEPT ![t] = "waiting"]
      BY <2>1 DEF WaitForSlot
    <3>2. /\ Len(waitq) \in Nat /\ Len(waitq') = Len(waitq) + 1 /\ waitq'[Len(waitq) + 1] = t
          /\ \A i \in 1..Len(waitq) : waitq'[i] = waitq[i]
      BY <3>1
    <3>3. PlacesKept
      BY <3>2 DEF PlacesKept
    <3>4. Newcomers
      BY <3>1, <3>2 DEF InLine
    <3>5. QED
      BY <3>3, <3>4
  <2>2. CASE GrantSlot(t)
    <3>1. /\ waitq \in Seq(Turns) /\ waitq # <<>> /\ t = Head(waitq) /\ waitq' = Tail(waitq)
          /\ pc' = [pc EXCEPT ![t] = "granted"]
      BY <2>2 DEF GrantSlot
    <3>2. /\ Len(waitq) \in Nat /\ Len(waitq') = Len(waitq) - 1 /\ waitq[1] = t
          /\ \A i \in 1..(Len(waitq) - 1) : waitq'[i] = waitq[i + 1]
      BY <3>1
    <3>3. ASSUME NEW i \in 1..Len(waitq), i # 1
          PROVE  \E j \in 1..Len(waitq') : j <= i /\ waitq'[j] = waitq[i]
      <4>1. PICK n \in Nat : n = Len(waitq)
        BY <3>2
      <4>2. i \in 1..n
        BY <4>1
      <4>3. i - 1 \in 1..(n - 1) /\ i - 1 <= i /\ (i - 1) + 1 = i
        BY <3>3, <4>2
      <4>4. waitq'[i - 1] = waitq[i] /\ i - 1 \in 1..Len(waitq')
        BY <3>2, <4>1, <4>3
      <4>5. QED
        BY <4>3, <4>4
    <3>4. pc'[waitq[1]] # "waiting"
      <4>1. pc'[t] = "granted"
        BY <3>1
      <4>2. QED
        BY <3>2, <4>1
    <3>5. PlacesKept
      BY <3>3, <3>4 DEF PlacesKept
    <3>6. Newcomers
      BY <3>1
    <3>7. QED
      BY <3>5, <3>6
  <2>3. CASE \/ BadPayload(t) \/ MarkRunning(t) \/ Unwind(t) \/ Return(t) \/ RefuseDispatch(t)
             \/ ReadWorkerKey(t) \/ ReadWorker(t) \/ DispatchFails(t) \/ EnsureWorker(t)
             \/ FetchWorker(t)
    BY <1>0, <2>3 DEF BadPayload, MarkRunning, Unwind, Return, RefuseDispatch, ReadWorkerKey,
                      ReadWorker, DispatchFails, EnsureWorker, FetchWorker
  <2>4. CASE \/ SpawnChild(t) \/ SpawnFails(t) \/ StdinFails(t) \/ StoreScope(t)
             \/ CheckCancelled(t) \/ ChildReaped(t) \/ StopNow(t) \/ CleanupWorker(t)
    BY <1>0, <2>4 DEF SpawnChild, SpawnFails, StdinFails, StoreScope, CheckCancelled,
                      ChildReaped, StopNow, CleanupWorker
  <2> HIDE DEF Newcomers
  <2> QED BY <1>2, <2>1, <2>2, <2>3, <2>4 DEF TurnStep
<1>3. ASSUME NEW c \in Cancellers, AbortWaiting(c) PROVE PlacesKept /\ Newcomers
  <2>1. PICK n \in 1..Len(waitq) :
           /\ waitq[n] = ctarget[c].on
           /\ waitq' = SubSeq(waitq, 1, n - 1) \o SubSeq(waitq, n + 1, Len(waitq))
    BY <1>3 DEF AbortWaiting
  <2>2. waitq \in Seq(Turns) /\ waitq[n] \in Turns /\ pc' = [pc EXCEPT ![waitq[n]] = "unwinding"]
    BY <1>3, <2>1 DEF AbortWaiting
  <2>3. waitq' = Cut(waitq, n)
    BY <2>1 DEF Cut
  <2>4. \A i \in 1..Len(waitq) : i # n =>
           \E j \in 1..Len(waitq') : j <= i /\ waitq'[j] = waitq[i]
    BY <2>2, <2>3, CutKeepsOrder
  <2>5. pc'[waitq[n]] # "waiting"
    BY <2>2
  <2>6. PlacesKept
    BY <2>4, <2>5 DEF PlacesKept
  <2>7. Newcomers
    BY <2>2
  <2>8. QED
    BY <2>6, <2>7
<1>4. ASSUME NEW c \in Cancellers,
             \/ \E s \in Sessions : CancelTurn(c, s)
             \/ \E t \in Turns : Disconnect(c, t)
             \/ KillAll(c) \/ UnmapKey(c) \/ Terminate(c) \/ CancelDone(c) \/ Drain(c)
             \/ AbortSlotted(c) \/ AbortTooLate(c) \/ \E id \in Turns : StopWorker(c, id)
      PROVE  PlacesKept /\ Newcomers
  <2>1. CASE AbortSlotted(c)
    <3>1. waitq' = waitq /\ pc' = [pc EXCEPT ![ctarget[c].on] = "unwinding"]
      BY <2>1 DEF AbortSlotted
    <3>2. QED
      BY <1>0, <3>1
  <2>2. CASE ~AbortSlotted(c)
    <3>1. waitq' = waitq /\ (pc' = pc)
      BY <1>4, <2>2, Zenon DEF CancelTurn, Disconnect, KillAll, UnmapKey, Terminate, CancelDone,
                               Drain, AbortTooLate, StopWorker, turnVars
    <3>2. QED
      BY <1>0, <3>1
  <2>3. QED
    BY <2>1, <2>2
<1>5. CASE \/ \E t \in Turns : ChildExit(t)
           \/ \E s \in Sessions : ProbeRead(s)
           \/ ProbeCheck \/ UNCHANGED vars
  BY <1>0, <1>5 DEF ChildExit, ProbeRead, ProbeCheck, vars, turnVars
<1> HIDE DEF Newcomers
<1> QED
  BY <1>1, <1>2, <1>3, <1>4, <1>5 DEF Next, CancelStep, Newcomers

LEMMA WaitersStayInLine ==
  TypeInv /\ WaitersWait /\ WaitersInLine /\ [Next]_vars => WaitersInLine'
<1> SUFFICES ASSUME TypeInv, WaitersWait, WaitersInLine, [Next]_vars,
                    NEW t \in Turns, pc'[t] = "waiting"
             PROVE  InLine(t)'
  BY DEF WaitersInLine
<1>1. CASE pc[t] = "waiting"
  <2>1. PICK i \in 1..Len(waitq) : waitq[i] = t
    BY <1>1 DEF WaitersInLine, InLine
  <2>2. QED
    BY <2>1, LineMoves DEF PlacesKept, InLine
<1>2. CASE pc[t] # "waiting"
  BY <1>2, LineMoves
<1>3. QED
  BY <1>1, <1>2

LEMMA AlwaysInLine == Spec => [](TypeInv /\ PermitsConserved /\ WaitersWait /\ WaitersInLine)
<1>1. Init => WaitersWait /\ WaitersInLine
  BY DEF Init, WaitersWait, Distinct, WaitersInLine
<1>2. QED
  BY <1>1, WaitersStep, WaitersStayInLine, TypeInvariant, PermitsExact, PTL DEF Spec

\* Turns get their slots in the order in which they began to wait, whoever is
\* cancelled, killed or dropped in between: a place in the line only improves.
THEOREM NobodyIsOvertaken == Spec => [][PlacesKept]_vars
<1>1. TypeInv /\ WaitersWait /\ [Next]_vars => [PlacesKept]_vars
  BY LineMoves
<1>2. QED
  BY <1>1, AlwaysInLine, PTL DEF Spec

\* A turn waits only as long as the head of the line can be granted a slot, or
\* all MaxActive slots are held by turns that do not wait: each of these has a
\* step of its own at every place of its task, or its runtime process has.
SlotsWorkOn ==
  \A t \in Turns : pc[t] = "waiting" =>
     \/ waitq # <<>> /\ pc[Head(waitq)] = "waiting" /\ permits > 0
     \/ Cardinality(Holders) = MaxActive

THEOREM NoSlotIdles == Spec => []SlotsWorkOn
<1>1. TypeInv /\ PermitsConserved /\ WaitersWait /\ WaitersInLine => SlotsWorkOn
  <2> SUFFICES ASSUME TypeInv, PermitsConserved, WaitersWait, WaitersInLine,
                      NEW t \in Turns, pc[t] = "waiting"
               PROVE  \/ waitq # <<>> /\ pc[Head(waitq)] = "waiting" /\ permits > 0
                      \/ Cardinality(Holders) = MaxActive
    BY DEF SlotsWorkOn
  <2>1. PICK i \in 1..Len(waitq) : waitq[i] = t
    BY DEF WaitersInLine, InLine
  <2>2. waitq \in Seq(Turns) /\ Len(waitq) > 0
    BY <2>1 DEF TypeInv, TypeOK
  <2>3. waitq # <<>> /\ 1 \in 1..Len(waitq) /\ Head(waitq) = waitq[1]
    BY <2>2
  <2>4. pc[Head(waitq)] = "waiting"
    BY <2>3 DEF WaitersWait
  <2>5. permits \in Nat /\ (permits > 0 \/ permits = 0)
    BY DEF TypeInv, TypeOK
  <2>6. permits = 0 => Cardinality(Holders) = MaxActive
    <3>1. Holders \subseteq Turns /\ IsFiniteSet(Holders)
      BY TurnsFinite, FS_Subset DEF Holders
    <3>2. Cardinality(Holders) \in Nat
      BY <3>1, FS_CardinalityType
    <3>3. QED
      BY <3>2 DEF PermitsConserved
  <2>7. QED
    BY <2>3, <2>4, <2>5, <2>6
<1>2. QED
  BY <1>1, AlwaysInLine, PTL

-----------------------------------------------------------------------------
(* Refinement of TurnSlots.  The semaphore's queue is the line, the turns  *)
(* with a permit have the slots, and the place of a turn's task says       *)
(* whether its one process is still to come.                               *)

Stages == [t \in Turns |-> SlotStage(pc[t])]

LEMMA StageValues ==
  /\ SlotStage("idle") = "new" /\ SlotStage("accepted") = "new"
  /\ SlotStage("waiting") = "waiting"
  /\ \A p \in {"granted", "dispatch", "alive", "ensure", "call", "invoke"} : SlotStage(p) = "slotted"
  /\ \A p \in Invoking \cup {"stopping", "returning"} : SlotStage(p) = "spent"
  /\ \A p \in Terminal \cup {"unwinding"} : SlotStage(p) = "over"
BY DEF SlotStage, Waiting, Invoking, Terminal

\* A turn that moves from one place to another moves from stage to stage.
LEMMA StageMoves ==
  ASSUME pc \in [Turns -> Pcs], NEW t \in Turns, NEW a, NEW b, At(t, a, b)
  PROVE  /\ SlotStage(a) = SlotStage(b) => Stages' = Stages
         /\ \A S : SlotStage(a) \in S => Promise!Becomes(t, S, SlotStage(b))
<1>1. Stages[t] = SlotStage(a) /\ Stages' = [Stages EXCEPT ![t] = SlotStage(b)]
  BY DEF At, Stages
<1>2. SlotStage(a) = SlotStage(b) => Stages' = Stages
  BY <1>1 DEF Stages
<1>3. QED
  BY <1>1, <1>2 DEF Promise!Becomes, Stages

LEMMA HoldingIsHolders == pc \in [Turns -> Pcs] => Promise!Holding = Holders
BY StageValues DEF Promise!Holding, Holders, Slotted, Pcs, Waiting, Terminal, Invoking, SlotStage

\* The instance counts as this module does.
LEMMA SameCount == \A S : Promise!Cardinality(S) = Cardinality(S)
BY Zenon DEF Promise!Cardinality, Cardinality

\* The permit that a turn is handed is one of the slots that nobody has.
LEMMA FreePermit ==
  ASSUME TypeInv, PermitsConserved, permits > 0
  PROVE  Cardinality(Promise!Holding) < MaxActive
<1>1. pc \in [Turns -> Pcs] /\ permits \in Nat
  BY DEF TypeInv, TypeOK
<1>2. IsFiniteSet(Holders)
  BY TurnsFinite, FS_Subset DEF Holders
<1>3. QED
  BY <1>1, <1>2, HoldingIsHolders, FS_CardinalityType, LimitsAssumption DEF PermitsConserved

\* The task of a turn: at most one step of the promise for each of its own.
LEMMA TurnRefines ==
  ASSUME TypeInv, PermitsConserved, ChildrenInvoking, NEW t \in Turns, Enqueue(t) \/ TurnStep(t)
  PROVE  Promise!Next \/ UNCHANGED Promise!vars
<1> DEFINE Same == UNCHANGED <<waitq, child>> /\ Stages' = Stages
<1>t. pc \in [Turns -> Pcs]
  BY DEF TypeInv, TypeOK
<1>s. Same => UNCHANGED Promise!vars
  BY DEF Promise!vars, Stages
<1>c. t \in child => pc[t] \in Invoking
  BY DEF ChildrenInvoking
<1>1. ASSUME Promise!Refuse(t) \/ Promise!Wait(t) \/ Promise!Grant(t) \/ Promise!Begin(t)
             \/ Promise!Forgo(t) \/ Promise!Stop(t) \/ Promise!GiveBack(t)
      PROVE  Promise!Next
  BY <1>1 DEF Promise!Next
\* Steps that do not change the stage.
<1>2. ASSUME NEW a, NEW b, At(t, a, b), SlotStage(a) = SlotStage(b), UNCHANGED <<waitq, child>>
      PROVE  Same
  BY <1>t, <1>2, StageMoves
<1>3. CASE Enqueue(t)
  <2>1. UNCHANGED <<waitq, child>> /\ (At(t, "idle", "accepted") \/ At(t, "idle", "rejected"))
    BY <1>3 DEF Enqueue, workerVars
  <2>2. CASE At(t, "idle", "accepted")
    BY <1>2, <1>s, <2>1, <2>2, StageValues
  <2>3. CASE At(t, "idle", "rejected")
    <3>1. Promise!Becomes(t, {"new"}, "over")
      BY <1>t, <2>3, StageMoves, StageValues DEF Terminal
    <3>2. QED
      BY <1>1, <2>1, <3>1 DEF Promise!Refuse
  <2>4. QED
    BY <2>1, <2>2, <2>3
<1>4. CASE BadPayload(t)
  <2>1. UNCHANGED <<waitq, child>> /\ At(t, "accepted", "unwinding")
    BY <1>4 DEF BadPayload, workerVars
  <2>2. Promise!Becomes(t, {"new"}, "over")
    BY <1>t, <2>1, StageMoves, StageValues
  <2>3. QED
    BY <1>1, <2>1, <2>2 DEF Promise!Refuse
<1>5. CASE WaitForSlot(t)
  <2>1. child' = child /\ waitq' = Append(waitq, t) /\ At(t, "accepted", "waiting")
    BY <1>5 DEF WaitForSlot, workerVars
  <2>2. Promise!Becomes(t, {"new"}, "waiting")
    BY <1>t, <2>1, StageMoves, StageValues
  <2>3. QED
    BY <1>1, <2>1, <2>2 DEF Promise!Wait
<1>6. CASE GrantSlot(t)
  <2>1. /\ waitq # <<>> /\ t = Head(waitq) /\ permits > 0 /\ waitq' = Tail(waitq)
        /\ child' = child /\ At(t, "waiting", "granted")
    BY <1>6 DEF GrantSlot, workerVars
  <2>2. Promise!Becomes(t, {"waiting"}, "slotted")
    BY <1>t, <2>1, StageMoves, StageValues
  <2>3. Promise!Cardinality(Promise!Holding) < MaxActive
    BY <2>1, FreePermit, SameCount
  <2>4. QED
    BY <1>1, <2>1, <2>2, <2>3 DEF Promise!Grant
\* A turn that is refused by mark_running, or over, gives its slot back.
<1>7. ASSUME NEW a \in {"granted", "returning"}, NEW b \in {"unwinding", "ended"}, At(t, a, b),
             UNCHANGED <<waitq, child>>
      PROVE  Promise!Next
  <2>1. child' = child \ {t}
    BY <1>c, <1>7 DEF At, Invoking
  <2>2. SlotStage(a) \in {"slotted", "spent"} /\ SlotStage(b) = "over"
    BY <1>7, StageValues DEF Terminal
  <2>3. Promise!Becomes(t, {"slotted", "spent"}, "over")
    BY <1>t, <1>7, <2>2, StageMoves
  <2>4. QED
    BY <1>1, <1>7, <2>1, <2>3 DEF Promise!GiveBack
<1>8. CASE MarkRunning(t)
  <2>1. /\ UNCHANGED <<waitq, child>>
        /\ At(t, "granted", "dispatch") \/ At(t, "granted", "unwinding")
    BY <1>8 DEF MarkRunning, workerVars
  <2>2. QED
    BY <1>2, <1>s, <1>7, <2>1, StageValues
<1>9. CASE Return(t)
  BY <1>7, <1>9 DEF Return, workerVars
<1>10. CASE Unwind(t)
  <2>1. UNCHANGED <<waitq, child>> /\ At(t, "unwinding", "ended")
    BY <1>10 DEF Unwind, workerVars
  <2>2. QED
    BY <1>2, <1>s, <2>1, StageValues DEF Terminal
\* The dispatch gives up, or goes on.
<1>11. ASSUME NEW a \in {"dispatch", "alive", "ensure", "call", "invoke"},
              NEW b \in {"returning", "stopping"}, At(t, a, b), UNCHANGED <<waitq, child>>
       PROVE  Promise!Next
  <2>1. SlotStage(a) = "slotted" /\ SlotStage(b) = "spent"
    BY <1>11, StageValues
  <2>2. Promise!Becomes(t, {"slotted"}, "spent")
    BY <1>t, <1>11, <2>1, StageMoves
  <2>3. QED
    BY <1>1, <1>11, <2>2 DEF Promise!Forgo
<1>12. ASSUME NEW a \in {"dispatch", "alive", "ensure", "call"},
              NEW b \in {"alive", "ensure", "call", "invoke"}, At(t, a, b), UNCHANGED <<waitq, child>>
       PROVE  UNCHANGED Promise!vars
  <2>1. SlotStage(a) = SlotStage(b)
    BY <1>12, StageValues
  <2>2. QED
    BY <1>2, <1>s, <1>12, <2>1
<1>13. CASE \/ RefuseDispatch(t) \/ ReadWorkerKey(t) \/ ReadWorker(t) \/ DispatchFails(t)
            \/ EnsureWorker(t) \/ FetchWorker(t) \/ SpawnFails(t)
  BY <1>11, <1>12, <1>13 DEF RefuseDispatch, ReadWorkerKey, ReadWorker, DispatchFails,
                             EnsureWorker, FetchWorker, SpawnFails, workerVars
<1>14. CASE SpawnChild(t)
  <2>1. waitq' = waitq /\ child' = child \cup {t} /\ At(t, "invoke", "spawned")
    BY <1>14 DEF SpawnChild
  <2>2. Promise!Becomes(t, {"slotted"}, "spent")
    BY <1>t, <2>1, StageMoves, StageValues DEF Invoking
  <2>3. QED
    BY <1>1, <2>1, <2>2 DEF Promise!Begin
\* The process ends, or not, while the turn is at it.
<1>15. ASSUME NEW a \in Invoking \cup {"stopping", "returning"},
              NEW b \in Invoking \cup {"stopping", "returning"}, At(t, a, b),
              waitq' = waitq, child' = child \/ child' = child \ {t}
       PROVE  Promise!Next \/ UNCHANGED Promise!vars
  <2>1. SlotStage(a) = SlotStage(b)
    BY <1>15, StageValues
  <2>2. Stages' = Stages
    BY <1>t, <1>15, <2>1, StageMoves
  <2>3. QED
    BY <1>1, <1>s, <1>15, <2>2 DEF Promise!Stop, Stages
<1>16. CASE \/ StdinFails(t) \/ StoreScope(t) \/ CheckCancelled(t) \/ ChildReaped(t) \/ StopNow(t)
  BY <1>15, <1>16 DEF StdinFails, StoreScope, CheckCancelled, ChildReaped, StopNow, Invoking
<1>17. CASE CleanupWorker(t)
  BY <1>17, <1>s DEF CleanupWorker, turnVars, Stages
<1>18. QED
  BY <1>3, <1>4, <1>5, <1>6, <1>8, <1>9, <1>10, <1>13, <1>14, <1>16, <1>17 DEF TurnStep

LEMMA StepRefines ==
  ASSUME TypeInv, PermitsConserved, ChildrenInvoking, [Next]_vars
  PROVE  [Promise!Next]_(Promise!vars)
<1>t. pc \in [Turns -> Pcs] /\ child \subseteq Turns
  BY DEF TypeInv, TypeOK
<1>s. UNCHANGED <<waitq, child, pc>> => UNCHANGED Promise!vars
  BY DEF Promise!vars
<1>1. ASSUME NEW t \in Turns, UNCHANGED <<waitq, pc>>, child' = child \ {t}
      PROVE  Promise!Next
  BY <1>1 DEF Promise!Next, Promise!Stop
<1>2. ASSUME NEW t \in Turns, Enqueue(t) \/ TurnStep(t)
      PROVE  Promise!Next \/ UNCHANGED Promise!vars
  BY <1>2, TurnRefines
<1>3. ASSUME NEW t \in Turns, ChildExit(t) PROVE Promise!Next
  BY <1>1, <1>3 DEF ChildExit, turnVars
<1>4. ASSUME NEW c \in Cancellers, Terminate(c) PROVE Promise!Next \/ UNCHANGED Promise!vars
  <2>1. UNCHANGED <<waitq, pc>> /\ (child' = child \/ child' = child \ {cstop[c]})
    BY <1>4 DEF Terminate, turnVars
  <2>2. CASE cstop[c] \in Turns
    BY <1>1, <1>s, <2>1, <2>2
  <2>3. CASE cstop[c] \notin Turns
    BY <1>s, <1>t, <2>1, <2>3
  <2>4. QED
    BY <2>2, <2>3
<1>5. ASSUME NEW c \in Cancellers, AbortWaiting(c) PROVE Promise!Next
  <2> DEFINE t == ctarget[c].on
  <2>t. t \in Turns
    BY <1>5 DEF AbortWaiting, TypeInv, TypeOK, TargetsOK, Targets
  <2>1. /\ At(t, "waiting", "unwinding") /\ child' = child /\ t \in Turns
        /\ \E i \in 1..Len(waitq) :
              waitq[i] = t /\ waitq' = SubSeq(waitq, 1, i - 1) \o SubSeq(waitq, i + 1, Len(waitq))
    BY <1>5, <2>t DEF AbortWaiting, workerVars
  <2> HIDE DEF t
  <2>2. Promise!Becomes(t, {"waiting"}, "over")
    BY <1>t, <2>1, StageMoves, StageValues
  <2>3. QED
    BY <2>1, <2>2 DEF Promise!Next, Promise!Withdraw
<1>6. ASSUME NEW c \in Cancellers, AbortSlotted(c) PROVE Promise!Next
  <2> DEFINE t == ctarget[c].on
  <2>t. t \in Turns
    BY <1>6 DEF AbortSlotted, TypeInv, TypeOK, TargetsOK, Targets
  <2>1. /\ pc[t] \in {"granted"} \cup Invoking /\ pc' = [pc EXCEPT ![t] = "unwinding"]
        /\ waitq' = waitq /\ child' = child \ {t} /\ t \in Turns
    BY <1>6, <2>t DEF AbortSlotted
  <2> HIDE DEF t
  <2>2. At(t, pc[t], "unwinding")
    BY <2>1 DEF At
  <2>3. SlotStage(pc[t]) \in {"slotted", "spent"} /\ SlotStage("unwinding") = "over"
    BY <2>1, StageValues
  <2>4. Promise!Becomes(t, {"slotted", "spent"}, "over")
    BY <1>t, <2>1, <2>2, <2>3, StageMoves
  <2>5. QED
    BY <2>1, <2>4 DEF Promise!Next, Promise!GiveBack
<1>7. ASSUME NEW c \in Cancellers,
             \/ \E s \in Sessions : CancelTurn(c, s)
             \/ \E t \in Turns : Disconnect(c, t)
             \/ KillAll(c) \/ UnmapKey(c) \/ CancelDone(c) \/ Drain(c)
             \/ AbortTooLate(c) \/ \E id \in Turns : StopWorker(c, id)
      PROVE  UNCHANGED Promise!vars
  BY <1>s, <1>7 DEF CancelTurn, Disconnect, KillAll, UnmapKey, CancelDone, Drain, AbortTooLate,
                    StopWorker, turnVars, workerVars
<1>8. CASE (\E s \in Sessions : ProbeRead(s)) \/ ProbeCheck \/ UNCHANGED vars
  BY <1>s, <1>8 DEF ProbeRead, ProbeCheck, vars, turnVars, workerVars
<1>9. QED
  BY <1>2, <1>3, <1>4, <1>5, <1>6, <1>7, <1>8 DEF Next, CancelStep

\* The execution service keeps its promise, for any turns, slots and requests:
\* slots go to the turns in the order of their waiting, a turn has one runtime
\* process at most, and that one is gone when its slot is given back, also when
\* the turn is cancelled, killed or dropped with its connection.
THEOREM ImplementsTurnSlots == Spec => TurnSlotsSpec
<1>1. Init => Promise!Init
  BY StageValues DEF Init, Promise!Init
<1>2. Init => ChildrenInvoking
  BY DEF Init, ChildrenInvoking
<1>3. TypeInv /\ ChildrenInvoking /\ [Next]_vars => ChildrenInvoking'
  BY StepMovesPermits
<1>4. TypeInv /\ PermitsConserved /\ ChildrenInvoking /\ [Next]_vars
        => [Promise!Next]_(Promise!vars)
  BY StepRefines
<1>5. QED
  BY <1>1, <1>2, <1>3, <1>4, TypeInvariant, PermitsExact, PTL
     DEF Spec, TurnSlotsSpec, Promise!Spec
=============================================================================
