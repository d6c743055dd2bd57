--------------------------- MODULE SessionDbOwner ---------------------------
(***************************************************************************)
(* Who owns the session database of a home: the tura_session_db processes, *)
(* their owner lock file and published address (session_log/src/service.rs *)
(* and ipc.rs), and the router that starts and stops them                  *)
(* (router/src/services/session_db.rs) from concurrent requests, while     *)
(* other programs probe the address too.                                   *)
(*                                                                         *)
(* The lock is on a file, not on its name: an inode that a process has     *)
(* opened can be locked after the name was removed or given to a new file. *)
(***************************************************************************)
EXTENDS Naturals, FiniteSets

CONSTANTS Procs,      \* pool of session_db processes; a dead one is reused
          Inodes,     \* lock files
          Starters,   \* router requests that call start()
          Stoppers,   \* router requests that call stop(); restart() is both
          Clients,    \* gateways and runtimes that probe the service
          None,
          MaxFaults   \* bound: crashes, unanswered probes, late start-ups

Calls == Starters \cup Stoppers \cup Clients

ASSUME ActorsAssumption == Procs \cap Calls = {} /\ None \notin Procs \cup Calls \cup Inodes
ASSUME InodesAssumption == IsFiniteSet(Procs \cup Calls \cup Inodes)
                           /\ Cardinality(Inodes) > Cardinality(Procs) + Cardinality(Calls)
ASSUME FaultsAssumption == MaxFaults \in Nat

VARIABLES
  pc,        \* what a session_db process does next
  fd,        \* the lock file it has open
  holds,     \* the lock file a process, or a call that tests it, has locked
  path,      \* the file the lock's name stands for
  addr,      \* the process whose address is published
  at,        \* what a call does next
  seen,      \* the address a call is probing
  hand,      \* the process whose handle a call has
  child,     \* the router's managed child
  mutex,     \* the call that holds the lock of `child`
  unlinked,  \* history: an owner has removed the lock's name
  faults

procVars == <<pc, fd, path, unlinked>>
callVars == <<at, seen, hand, child, mutex>>
vars == <<procVars, holds, addr, callVars, faults>>

Owning   == {"booting", "serving", "stopping", "unpublished"}
Owner(p) == pc[p] \in Owning
Held(i)  == \E x \in Procs \cup Calls : holds[x] = i
InUse(i) == path = i \/ Held(i) \/ \E p \in Procs : fd[p] = i

Step(p, from, to) == pc[p] = from /\ pc' = [pc EXCEPT ![p] = to]
Goto(c, to) == at' = [at EXCEPT ![c] = to]
Take(x, i)  == holds' = [holds EXCEPT ![x] = i]
Fault == faults < MaxFaults /\ faults' = faults + 1

Init ==
  /\ pc = [p \in Procs |-> "dead"] /\ fd = [p \in Procs |-> None]
  /\ holds = [x \in Procs \cup Calls |-> None]
  /\ path = None /\ addr = None
  /\ at = [c \in Calls |-> "idle"]
  /\ seen = [c \in Calls |-> None] /\ hand = [c \in Calls |-> None]
  /\ child = None /\ mutex = None
  /\ unlinked = FALSE /\ faults = 0

-----------------------------------------------------------------------------
(* A session_db process: run_socket_service.                               *)

\* SessionDbOwnerLock::acquire opens the lock's file, or creates it, ...
OpenLock(p) ==
  /\ Step(p, "new", "opened")
  /\ LET i == IF path # None THEN path ELSE CHOOSE j \in Inodes : ~InUse(j)
     IN  i \in Inodes /\ path' = i /\ fd' = [fd EXCEPT ![p] = i]
  /\ UNCHANGED <<holds, addr, callVars, unlinked, faults>>

\* MUTANT of TryLock: the result of try_lock_exclusive is not looked at.
LockUnchecked(p) ==
  /\ Step(p, "opened", "booting") /\ Take(p, fd[p])
  /\ UNCHANGED <<fd, path, addr, callVars, unlinked, faults>>

\* ... and tries to lock it; the process exits when it is locked.
TryLock(p) ==
  /\ IF Held(fd[p])
     THEN Step(p, "opened", "dead") /\ fd' = [fd EXCEPT ![p] = None] /\ UNCHANGED holds
     ELSE Step(p, "opened", "booting") /\ Take(p, fd[p]) /\ UNCHANGED fd
  /\ UNCHANGED <<path, addr, callVars, unlinked, faults>>

\* The store is opened and recovered, the socket bound, its address published.
Publish(p) ==
  /\ Step(p, "booting", "serving")
  /\ addr' = p
  /\ UNCHANGED <<fd, holds, path, callVars, unlinked, faults>>

\* One of these fails: the lock's guard is dropped.
BootFails(p) ==
  /\ Fault /\ Step(p, "booting", "unpublished")
  /\ UNCHANGED <<fd, holds, path, addr, callVars, unlinked>>

\* serve_blocking removes the address, whosever it is, ...
Unpublish(p) ==
  /\ Step(p, "stopping", "unpublished")
  /\ addr' = None
  /\ UNCHANGED <<fd, holds, path, callVars, unlinked, faults>>

\* ... and, the drain thread joined, the guard unlocks the file ...
Unlock(p) ==
  /\ Step(p, "unpublished", "unlocked") /\ Take(p, None)
  /\ UNCHANGED <<fd, path, addr, callVars, unlinked, faults>>

\* ... before it removes the name, whatever file that stands for by now.
Unlink(p) ==
  /\ Step(p, "unlocked", "dead")
  /\ path' = None /\ unlinked' = TRUE
  /\ fd' = [fd EXCEPT ![p] = None]
  /\ UNCHANGED <<holds, addr, callVars, faults>>

\* The process is gone; its locks with it, the files it made stay.
Gone(p) ==
  /\ pc' = [pc EXCEPT ![p] = "dead"]
  /\ fd' = [fd EXCEPT ![p] = None] /\ Take(p, None)
  /\ UNCHANGED <<path, addr, unlinked>>

Crash(p) == Fault /\ pc[p] # "dead" /\ Gone(p) /\ UNCHANGED callVars

ProcStep(p) ==
  \/ OpenLock(p) \/ TryLock(p) \/ Publish(p)
  \/ Unpublish(p) \/ Unlock(p) \/ Unlink(p)

-----------------------------------------------------------------------------
(* service_is_running, from the places it is called at: a call goes on at  *)
(* Yes or No of its place.                                                 *)

Yes == [ready |-> "idle", check |-> "idle", explain |-> "spawn", wait |-> "idle",
        excuse |-> "discard", stop |-> "shutdown", probe |-> "idle"]
No  == [ready |-> "kill", check |-> "explain", explain |-> "test", wait |-> "poll",
        excuse |-> "test_excuse", stop |-> "reap", probe |-> "idle"]

\* MUTANT of Leave: the guard is forgotten.
LeaveLocked(c, to) == Goto(c, to) /\ UNCHANGED mutex

\* A call goes on; the lock of `child`, when it has it, is kept only while the
\* message about a child that has exited is made.
Leave(c, to) == /\ Goto(c, to)
                /\ mutex' = IF mutex = c /\ to # "test_excuse" THEN None ELSE mutex

\* The address file is read ...
ReadAddr(c) ==
  /\ at[c] \in DOMAIN Yes /\ seen[c] = None
  /\ IF addr = None
     THEN Leave(c, No[at[c]]) /\ UNCHANGED seen
     ELSE seen' = [seen EXCEPT ![c] = addr] /\ UNCHANGED <<at, mutex>>
  /\ UNCHANGED <<procVars, holds, addr, hand, child, faults>>

\* ... the process answers the health command, ...
Answered(c) ==
  /\ seen[c] # None /\ pc[seen[c]] = "serving"
  /\ Leave(c, Yes[at[c]])
  /\ seen' = [seen EXCEPT ![c] = None]
  /\ UNCHANGED <<procVars, holds, addr, hand, child, faults>>

\* ... or does not, in time, and the file is removed, whatever it holds now.
Unanswered(c) ==
  /\ seen[c] # None
  /\ IF pc[seen[c]] = "serving" THEN Fault ELSE UNCHANGED faults
  /\ Leave(c, No[at[c]])
  /\ seen' = [seen EXCEPT ![c] = None]
  /\ addr' = None
  /\ UNCHANGED <<procVars, holds, hand, child>>

ProbeClient(c) ==
  /\ c \in Clients /\ at[c] = "idle" /\ Goto(c, "probe")
  /\ UNCHANGED <<procVars, holds, addr, seen, hand, child, mutex, faults>>

-----------------------------------------------------------------------------
(* SessionDbService::start                                                 *)

\* is_ready forgets a child that has exited, then probes.
Start(c) ==
  /\ c \in Starters /\ at[c] = "idle" /\ mutex = None
  /\ Goto(c, "ready") /\ mutex' = c
  /\ child' = IF child # None /\ pc[child] = "dead" THEN None ELSE child
  /\ UNCHANGED <<procVars, holds, addr, seen, hand, faults>>

\* kill_managed_child takes the handle, at the start and after a failure, ...
TakeChild(c) ==
  /\ at[c] \in {"kill", "discard"} /\ mutex = None
  /\ child' = None
  /\ hand' = [hand EXCEPT ![c] = child]
  /\ Goto(c, IF at[c] = "kill" THEN "killed" ELSE "discarded")
  /\ UNCHANGED <<procVars, holds, addr, seen, mutex, faults>>

\* MUTANT of KillChild: the handle is dropped, which does not kill.
DropChild(c) ==
  /\ at[c] \in {"killed", "discarded"}
  /\ UNCHANGED <<procVars, holds, addr>>
  /\ hand' = [hand EXCEPT ![c] = None]
  /\ Goto(c, IF at[c] = "killed" THEN "check" ELSE "idle")
  /\ UNCHANGED <<seen, child, mutex, faults>>

\* ... then kills the process and waits for it.
KillChild(c) ==
  /\ at[c] \in {"killed", "discarded"}
  /\ IF hand[c] = None THEN UNCHANGED <<procVars, holds, addr>> ELSE Gone(hand[c])
  /\ hand' = [hand EXCEPT ![c] = None]
  /\ Goto(c, IF at[c] = "killed" THEN "check" ELSE "idle")
  /\ UNCHANGED <<seen, child, mutex, faults>>

\* unreachable_owner_lock_message locks the file if it can, ...
TestLock(c) ==
  /\ at[c] \in {"test", "test_excuse"} /\ holds[c] = None
  /\ IF path = None \/ Held(path)
     THEN /\ Leave(c, CASE at[c] = "test_excuse" -> "discard"
                        [] path = None -> "spawn"
                        [] OTHER -> "idle")
          /\ UNCHANGED holds
     ELSE Take(c, path) /\ UNCHANGED <<at, mutex>>
  /\ UNCHANGED <<procVars, addr, seen, hand, child, faults>>

\* ... and unlocks it.
Untest(c) ==
  /\ holds[c] # None /\ Take(c, None)
  /\ Leave(c, IF at[c] = "test" THEN "spawn" ELSE "discard")
  /\ UNCHANGED <<procVars, addr, seen, hand, child, faults>>

Spawn(c, p) ==
  /\ at[c] = "spawn" /\ Goto(c, "store")
  /\ pc[p] = "dead" /\ p \notin {addr, child} \cup {seen[b] : b \in Calls} \cup {hand[b] : b \in Calls}
  /\ pc' = [pc EXCEPT ![p] = "new"]
  /\ hand' = [hand EXCEPT ![c] = p]
  /\ UNCHANGED <<fd, path, unlinked, holds, addr, seen, child, mutex, faults>>

\* The handle of a child that another request has stored is dropped.
StoreChild(c) ==
  /\ at[c] = "store" /\ mutex = None /\ Goto(c, "wait")
  /\ child' = hand[c] /\ hand' = [hand EXCEPT ![c] = None]
  /\ UNCHANGED <<procVars, holds, addr, seen, mutex, faults>>

\* wait_until_running: a child that has exited ends the wait, with the lock of
\* `child` kept while the message is made.
PollChild(c) ==
  /\ at[c] = "poll" /\ mutex = None
  /\ IF child # None /\ pc[child] = "dead"
     THEN child' = None /\ mutex' = c /\ Goto(c, "excuse")
     ELSE Goto(c, "wait") /\ UNCHANGED <<child, mutex>>
  /\ UNCHANGED <<procVars, holds, addr, seen, hand, faults>>

\* So does the timeout: when nothing will answer, or a start-up is late.
Expected == \E p \in Procs : pc[p] \in {"new", "opened", "booting"} \/ (Owner(p) /\ addr = p)

Timeout(c) ==
  /\ at[c] = "poll" /\ Goto(c, "excuse")
  /\ IF Expected THEN Fault ELSE UNCHANGED faults
  /\ UNCHANGED <<procVars, holds, addr, seen, hand, child, mutex>>

-----------------------------------------------------------------------------
(* SessionDbService::stop                                                  *)

Stop(c) ==
  /\ c \in Stoppers /\ at[c] = "idle" /\ mutex = None
  /\ Goto(c, "stop")
  /\ hand' = [hand EXCEPT ![c] = child] /\ child' = None
  /\ UNCHANGED <<procVars, holds, addr, seen, mutex, faults>>

\* call_service reads the address again and sends the shutdown command.
SendShutdown(c) ==
  /\ at[c] = "shutdown" /\ Goto(c, "reap")
  /\ pc' = [p \in Procs |-> IF p = addr /\ pc[p] = "serving" THEN "stopping" ELSE pc[p]]
  /\ UNCHANGED <<fd, path, unlinked, holds, addr, seen, hand, child, mutex, faults>>

\* A child it managed has exited, or is killed after the timeout.
Reap(c) ==
  /\ at[c] = "reap" /\ Goto(c, "clear")
  /\ IF hand[c] = None THEN UNCHANGED <<procVars, holds, addr>> ELSE Gone(hand[c])
  /\ hand' = [hand EXCEPT ![c] = None]
  /\ UNCHANGED <<seen, child, mutex, faults>>

ClearAddr(c) ==
  /\ at[c] = "clear" /\ Goto(c, "idle")
  /\ addr' = None
  /\ UNCHANGED <<procVars, holds, seen, hand, child, mutex, faults>>

CallStep(c) ==
  \/ ReadAddr(c) \/ Answered(c) \/ Unanswered(c)
  \/ TakeChild(c) \/ KillChild(c) \/ TestLock(c) \/ Untest(c)
  \/ StoreChild(c) \/ PollChild(c) \/ Timeout(c)
  \/ SendShutdown(c) \/ Reap(c) \/ ClearAddr(c)
  \/ \E p \in Procs : Spawn(c, p)

Next ==
  \/ \E p \in Procs : ProcStep(p) \/ BootFails(p) \/ Crash(p)
  \/ \E c \in Calls : Start(c) \/ Stop(c) \/ ProbeClient(c) \/ CallStep(c)

\* Processes run, requests get the lock of `child` in turn, and fronts keep
\* asking the router for its health, which calls start(); the polls of a wait
\* do not keep its timeout away.
Fairness ==
  /\ \A p \in Procs : WF_vars(ProcStep(p))
  /\ \A c \in Calls : SF_vars(CallStep(c)) /\ SF_vars(Timeout(c) /\ ~Expected)
  /\ \A c \in Starters : SF_vars(Start(c))

Spec     == Init /\ [][Next]_vars
FairSpec == Spec /\ Fairness

-----------------------------------------------------------------------------
(* Properties.                                                             *)

ProcStages == Owning \cup {"dead", "new", "opened", "unlocked"}
CallStages == DOMAIN Yes \cup {"idle", "kill", "killed", "discard", "discarded", "test",
                               "test_excuse", "spawn", "store", "poll", "shutdown", "reap", "clear"}

TypeOK ==
  /\ pc \in [Procs -> ProcStages]
  /\ fd \in [Procs -> Inodes \cup {None}]
  /\ holds \in [Procs \cup Calls -> Inodes \cup {None}]
  /\ path \in Inodes \cup {None}
  /\ addr \in Procs \cup {None} /\ child \in Procs \cup {None}
  /\ at \in [Calls -> CallStages]
  /\ seen \in [Calls -> Procs \cup {None}] /\ hand \in [Calls -> Procs \cup {None}]
  /\ mutex \in {None} \cup {c \in Calls : at[c] \in {"ready", "excuse", "test_excuse"}}
  /\ unlinked \in BOOLEAN /\ faults \in 0..MaxFaults

OneOwner == \A p, q \in Procs : Owner(p) /\ Owner(q) => p = q

\* session_log/ARCHITECTURE.md: a second tura_session_db for the same home must
\* fail before it can replace the published endpoint: no two processes serve.
SecondOwnerFails == \A p, q \in Procs : pc[p] = "serving" /\ pc[q] = "serving" => p = q

\* Crashes, kills, lost addresses and concurrent starts never make two owners:
\* that takes an owner that went down gracefully and removed the lock's name.
OneOwnerUntilUnlink == unlinked \/ OneOwner

\* When nothing fails any more, a health check makes the service reachable and
\* it stays so, whatever crashed, was killed or lost its address before.
Recovers == <>[](addr # None /\ pc[addr] = "serving")
=============================================================================
