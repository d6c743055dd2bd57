------------------------ MODULE SessionDbOwner_proofs ------------------------
(***************************************************************************)
(* Proofs about the ownership of the session database, for any number of   *)
(* processes, router requests, probing clients and faults.                 *)
(***************************************************************************)
EXTENDS SessionDbOwner, TLAPS

-----------------------------------------------------------------------------
(* Type correctness.                                                       *)

\* Only a call at a place of service_is_running is probing an address, and only
\* one that makes the lock's message has the lock.
Probing == \A c \in Calls : /\ seen[c] # None => at[c] \in DOMAIN Yes
                            /\ holds[c] # None => at[c] \in {"test", "test_excuse"}

TypeInv == TypeOK /\ Probing

LEMMA Places ==
  /\ DOMAIN Yes = {"ready", "check", "explain", "wait", "excuse", "stop", "probe"}
  /\ \A s \in DOMAIN Yes : Yes[s] \in CallStages /\ No[s] \in CallStages
  /\ \A s \in DOMAIN Yes : Yes[s] # "test_excuse"
BY DEF Yes, No, CallStages

LEMMA Apart == /\ None \notin Procs /\ None \notin Calls /\ None \notin Inodes
               /\ \A p \in Procs : p \notin Calls
BY ActorsAssumption

\* A step of a process keeps the types.
LEMMA ProcTypes ==
  ASSUME TypeInv, NEW p \in Procs, ProcStep(p) \/ BootFails(p) \/ Crash(p)
  PROVE  TypeInv'
<1> USE Apart, FaultsAssumption
    DEF TypeInv, TypeOK, Probing, procVars, callVars, ProcStages, Owning, Step, Take, Fault
<1>1. CASE OpenLock(p)
  BY <1>1 DEF OpenLock
<1>2. CASE TryLock(p)
  BY <1>2 DEF TryLock
<1>3. CASE Publish(p) \/ BootFails(p) \/ Unpublish(p) \/ Unlock(p)
  BY <1>3 DEF Publish, BootFails, Unpublish, Unlock
<1>4. CASE Unlink(p)
  BY <1>4 DEF Unlink
<1>5. CASE Crash(p)
  BY <1>5 DEF Crash, Gone
<1>6. QED
  BY <1>1, <1>2, <1>3, <1>4, <1>5 DEF ProcStep

\* A call of `Leave` keeps the types of what it changes.
LEMMA LeaveTypes ==
  ASSUME TypeOK, NEW c \in Calls, NEW to \in CallStages, Leave(c, to)
  PROVE  /\ at' \in [Calls -> CallStages]
         /\ mutex' \in {None} \cup {b \in Calls : at'[b] \in {"ready", "excuse", "test_excuse"}}
         /\ \A b \in Calls : b # c => at'[b] = at[b]
BY Apart DEF TypeOK, Leave, Goto

\* A step of a call, or its start, keeps the types.
LEMMA CallTypes ==
  ASSUME TypeInv, NEW c \in Calls, Start(c) \/ Stop(c) \/ ProbeClient(c) \/ CallStep(c)
  PROVE  TypeInv'
<1> USE Apart, FaultsAssumption DEF TypeInv, TypeOK, Probing, procVars, Take, Fault
<1>1. CASE ReadAddr(c)
  <2>1. CASE addr = None
    BY <1>1, <2>1, Places, LeaveTypes DEF ReadAddr
  <2>2. CASE addr # None
    BY <1>1, <2>2 DEF ReadAddr
  <2>3. QED
    BY <2>1, <2>2
<1>2. CASE Answered(c)
  BY <1>2, Places, LeaveTypes DEF Answered
<1>3. CASE Unanswered(c)
  BY <1>3, Places, LeaveTypes DEF Unanswered
<1>4. CASE TestLock(c)
  <2>1. CASE path = None \/ Held(path)
    <3>1. \E to \in {"discard", "spawn", "idle"} : Leave(c, to)
      BY <1>4, <2>1 DEF TestLock
    <3>2. {"discard", "spawn", "idle"} \subseteq CallStages
      BY DEF CallStages
    <3>3. seen[c] = None
      BY <1>4, Places DEF TestLock
    <3>4. QED
      BY <1>4, <2>1, <3>1, <3>2, <3>3, LeaveTypes DEF TestLock
  <2>2. CASE ~(path = None \/ Held(path))
    BY <1>4, <2>2 DEF TestLock
  <2>3. QED
    BY <2>1, <2>2
<1>5. CASE Untest(c)
  <2>1. \E to \in {"discard", "spawn"} : Leave(c, to)
    BY <1>5 DEF Untest
  <2>2. {"discard", "spawn"} \subseteq CallStages
    BY DEF CallStages
  <2>3. seen[c] = None
    BY <1>5, Places DEF Untest
  <2>4. QED
    BY <1>5, <2>1, <2>2, <2>3, LeaveTypes DEF Untest
<1> USE Places DEF Goto
<1>6. CASE KillChild(c) \/ Reap(c)
  BY <1>6 DEF KillChild, Reap, Gone, CallStages, ProcStages
<1>7. CASE Start(c) \/ Stop(c) \/ ProbeClient(c)
  BY <1>7 DEF Start, Stop, ProbeClient, CallStages
<1>8. CASE TakeChild(c) \/ StoreChild(c) \/ PollChild(c) \/ Timeout(c)
  BY <1>8 DEF TakeChild, StoreChild, PollChild, Timeout, CallStages
<1>9. CASE SendShutdown(c) \/ ClearAddr(c)
  BY <1>9 DEF SendShutdown, ClearAddr, CallStages, ProcStages, Owning
<1>10. ASSUME NEW p \in Procs, Spawn(c, p) PROVE TypeInv'
  BY <1>10 DEF Spawn, CallStages, ProcStages
<1> HIDE DEF TypeInv, TypeOK, Probing, procVars, Take, Fault, Goto
<1>11. QED
  BY <1>1, <1>2, <1>3, <1>4, <1>5, <1>6, <1>7, <1>8, <1>9, <1>10 DEF CallStep

\* Processes, lock, address and the router's calls keep their types, and the
\* lock of `child` is with nobody or with a call that is about to give it back.
THEOREM TypeCorrect == Spec => []TypeOK
<1>1. Init => TypeInv
  <2>1. Init => Probing
    BY DEF Init, Probing
  <2>2. Init => unlinked \in BOOLEAN
    BY Zenon DEF Init
  <2>3. Init => TypeOK
    BY <2>2, FaultsAssumption DEF Init, TypeOK, ProcStages, CallStages
  <2>4. QED
    BY <2>1, <2>3 DEF TypeInv
<1>2. TypeInv /\ [Next]_vars => TypeInv'
  <2>1. TypeInv /\ UNCHANGED vars => TypeInv'
    BY DEF TypeInv, TypeOK, Probing, vars, procVars, callVars
  <2>2. QED
    BY <2>1, ProcTypes, CallTypes DEF Next
<1>3. QED
  BY <1>1, <1>2, PTL DEF Spec, TypeInv

-----------------------------------------------------------------------------
(* One owner.  An owner has locked the file it has open, no two processes  *)
(* have locked one file, and until a name is removed there is one file.    *)

Ownership ==
  /\ \A p \in Procs : /\ fd[p] = None <=> pc[p] \in {"dead", "new"}
                      /\ holds[p] = IF Owner(p) THEN fd[p] ELSE None
  /\ \A p, q \in Procs : holds[p] # None /\ holds[p] = holds[q] => p = q
  /\ unlinked \/ \A p \in Procs : fd[p] \in {None, path}

\* A step of a process keeps the ownership.
LEMMA ProcOwnership ==
  ASSUME TypeOK, Ownership, NEW p \in Procs, ProcStep(p) \/ BootFails(p) \/ Crash(p)
  PROVE  Ownership'
<1> USE Apart DEF TypeOK, Ownership, Owner, Owning, Step, Take, ProcStages
<1>1. CASE OpenLock(p)
  BY <1>1 DEF OpenLock
<1>2. CASE TryLock(p)
  <2>1. CASE Held(fd[p])
    BY <1>2, <2>1 DEF TryLock
  <2>2. CASE ~Held(fd[p])
    BY <1>2, <2>2 DEF TryLock, Held
  <2>3. QED
    BY <2>1, <2>2
<1>3. CASE Publish(p) \/ BootFails(p) \/ Unpublish(p)
  BY <1>3 DEF Publish, BootFails, Unpublish
<1>4. CASE Unlock(p)
  BY <1>4 DEF Unlock
<1>5. CASE Unlink(p)
  BY <1>5 DEF Unlink
<1>6. CASE Crash(p)
  BY <1>6 DEF Crash, Gone
<1>7. QED
  BY <1>1, <1>2, <1>3, <1>4, <1>5, <1>6 DEF ProcStep

\* The calls do not touch it, but to kill a process, to start one, to ask one
\* to shut down, and to test the lock.
LEMMA CallOwnership ==
  ASSUME TypeOK, Ownership, NEW c \in Calls,
         Start(c) \/ Stop(c) \/ ProbeClient(c) \/ CallStep(c)
  PROVE  Ownership'
<1> USE Apart DEF TypeOK, Ownership, Owner, Owning, Take, procVars, ProcStages
<1>1. CASE KillChild(c) \/ Reap(c)
  BY <1>1 DEF KillChild, Reap, Gone
<1>2. ASSUME NEW p \in Procs, Spawn(c, p) PROVE Ownership'
  BY <1>2 DEF Spawn
<1>3. CASE SendShutdown(c)
  BY <1>3 DEF SendShutdown
<1>4. CASE TestLock(c) \/ Untest(c)
  BY <1>4 DEF TestLock, Untest
<1>5. CASE ReadAddr(c) \/ Answered(c) \/ Unanswered(c) \/ TakeChild(c) \/ StoreChild(c)
           \/ PollChild(c) \/ Timeout(c) \/ ClearAddr(c) \/ Start(c) \/ Stop(c) \/ ProbeClient(c)
  BY <1>5 DEF ReadAddr, Answered, Unanswered, TakeChild, StoreChild, PollChild, Timeout,
              ClearAddr, Start, Stop, ProbeClient
<1> HIDE DEF Ownership, Owner, Owning, Take, procVars
<1>6. QED
  BY <1>1, <1>2, <1>3, <1>4, <1>5 DEF CallStep

\* However many processes are started, crash or are killed, and whatever
\* happens to the published address, two own the database only after an owner
\* has gone down gracefully and removed the lock's name.
THEOREM OneOwnerHolds == Spec => []OneOwnerUntilUnlink
<1>1. Init => Ownership
  BY Apart DEF Init, Ownership, Owner, Owning
<1>2. TypeOK /\ Ownership /\ [Next]_vars => Ownership'
  <2>1. Ownership /\ UNCHANGED vars => Ownership'
    BY DEF Ownership, Owner, vars, procVars
  <2>2. QED
    BY <2>1, ProcOwnership, CallOwnership DEF Next
<1>3. TypeOK /\ Ownership => OneOwnerUntilUnlink
  BY DEF TypeOK, Ownership, OneOwnerUntilUnlink, OneOwner, Owner, Owning
<1>4. QED
  BY <1>1, <1>2, <1>3, TypeCorrect, PTL DEF Spec
=============================================================================
