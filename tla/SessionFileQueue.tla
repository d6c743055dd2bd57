-------------------------- MODULE SessionFileQueue --------------------------
(***************************************************************************)
(* The file queue that hands session writes from runtimes and gateways to  *)
(* the session_db owner (session_log/src/file_queue.rs), drained by the    *)
(* owner's background thread (service.rs).  A queue item is one file; the  *)
(* directory it lies in is its state.  Drain threads of several owners may *)
(* overlap, crash between any two file operations, and meet file system    *)
(* errors.                                                                 *)
(*                                                                         *)
(* The n-th write of a producer is the item <<producer, n>>.  Items of one *)
(* producer sort in the order they were enqueued (time, pid, counter: a    *)
(* wall clock that is not set back); how two producers' items sort depends *)
(* on their clocks, so any merge is allowed.                               *)
(***************************************************************************)
EXTENDS Naturals, FiniteSets

CONSTANTS Producers,   \* processes that enqueue writes
          Drainers,    \* drain threads, one per session_db process
          MaxItems,    \* bound: writes per producer
          MaxFaults,   \* bound: file system and store errors
          MaxCrashes,  \* bound: session_db crashes
          Limit        \* items per drain_queue call (1000)

ASSUME BoundsAssumption ==
  MaxItems \in Nat /\ MaxFaults \in Nat /\ MaxCrashes \in Nat /\ Limit \in Nat \ {0}

Items    == Producers \X (1..MaxItems)
NoItem   == <<>>
Places   == {"absent", "pending", "processing", "failed", "removed"}
Phases   == {"down", "idle", "recover", "drain", "read", "apply", "remove", "quarantine"}

VARIABLES
  sent,     \* how many writes each producer has had accepted
  place,    \* the directory an item's file is in
  phase,    \* where each drain thread is
  todo,     \* directory entries the thread has listed and not yet tried
  left,     \* how many it may still take (Limit)
  cur,      \* the item it has moved to processing/
  faults, crashes,
  stored,   \* the last write of each producer that reached the store
  applied,  \* history: items that reached the store
  erred     \* history: items whose application returned an error

drainVars == <<phase, todo, left, cur>>
storeVars == <<stored, applied, erred>>
vars == <<sent, place, drainVars, faults, crashes, storeVars>>

Accepted == {i \in Items : i[2] <= sent[i[1]]}
In(dir)  == {i \in Items : place[i] = dir}
Move(i, dir) == place' = [place EXCEPT ![i] = dir]
\* Sorted by name: never an item before an earlier one of its producer.
First(S) == {i \in S : \A j \in S : j[1] = i[1] => i[2] <= j[2]}

Goto(d, from, to) == phase[d] = from /\ phase' = [phase EXCEPT ![d] = to]
\* An operation on the file system or the store fails.
Fault == faults < MaxFaults /\ faults' = faults + 1

Init ==
  /\ sent = [p \in Producers |-> 0]
  /\ place = [i \in Items |-> "absent"]
  /\ phase = [d \in Drainers |-> "down"]
  /\ todo = [d \in Drainers |-> {}]
  /\ left = [d \in Drainers |-> 0]
  /\ cur = [d \in Drainers |-> NoItem]
  /\ faults = 0 /\ crashes = 0
  /\ stored = [p \in Producers |-> 0]
  /\ applied = {} /\ erred = {}

\* enqueue_serialized_command: written under a name drains skip, then renamed.
Enqueue(p) ==
  /\ sent[p] < MaxItems
  /\ sent' = [sent EXCEPT ![p] = @ + 1]
  /\ Move(<<p, sent[p] + 1>>, "pending")
  /\ UNCHANGED <<drainVars, faults, crashes, storeVars>>

-----------------------------------------------------------------------------
(* The drain thread of one session_db process.                             *)

Start(d) ==
  /\ Goto(d, "down", "idle")
  /\ UNCHANGED <<sent, place, todo, left, cur, faults, crashes, storeVars>>

\* The process dies, or exits from a shutdown between two drains.
Crash(d) ==
  /\ phase[d] # "down"
  /\ crashes < MaxCrashes /\ crashes' = crashes + 1
  /\ phase' = [phase EXCEPT ![d] = "down"]
  /\ todo' = [todo EXCEPT ![d] = {}]
  /\ cur' = [cur EXCEPT ![d] = NoItem]
  /\ left' = [left EXCEPT ![d] = 0]
  /\ UNCHANGED <<sent, place, faults, storeVars>>

\* MUTANT of BeginDrain: what a dead owner left in processing/ is ignored.
BeginWithoutRecovery(d) ==
  /\ Goto(d, "idle", "recover")
  /\ UNCHANGED <<sent, place, todo, left, cur, faults, crashes, storeVars>>

\* drain_queue: list processing/ first, to recover what a dead owner left.
BeginDrain(d) ==
  /\ Goto(d, "idle", "recover")
  /\ todo' = [todo EXCEPT ![d] = In("processing")]
  /\ UNCHANGED <<sent, place, left, cur, faults, crashes, storeVars>>

\* One entry of processing/ goes back to pending/; the rename fails when
\* another owner has moved the file, and its error is only logged.
RecoverOne(d, i) ==
  /\ phase[d] = "recover" /\ i \in todo[d]
  /\ todo' = [todo EXCEPT ![d] = @ \ {i}]
  /\ \/ /\ IF place[i] = "processing" THEN Move(i, "pending") ELSE UNCHANGED place
        /\ UNCHANGED faults
     \/ Fault /\ UNCHANGED place
  /\ UNCHANGED <<sent, phase, left, cur, crashes, storeVars>>

ListPending(d) ==
  /\ todo[d] = {}
  /\ Goto(d, "recover", "drain")
  /\ todo' = [todo EXCEPT ![d] = In("pending")]
  /\ left' = [left EXCEPT ![d] = Limit]
  /\ UNCHANGED <<sent, place, cur, faults, crashes, storeVars>>

\* MUTANT of Claim: the names are taken in directory order, not sorted.
ClaimUnsorted(d, i) ==
  /\ left[d] > 0 /\ i \in todo[d]
  /\ todo' = [todo EXCEPT ![d] = @ \ {i}]
  /\ left' = [left EXCEPT ![d] = @ - 1]
  /\ place[i] = "pending" /\ Goto(d, "drain", "read")
  /\ Move(i, "processing")
  /\ cur' = [cur EXCEPT ![d] = i]
  /\ UNCHANGED <<sent, faults, crashes, storeVars>>

\* MUTANT of Claim: the limit is not checked.
ClaimPastLimit(d, i) ==
  /\ i \in First(todo[d])
  /\ todo' = [todo EXCEPT ![d] = @ \ {i}]
  /\ left' = [left EXCEPT ![d] = @ - 1]
  /\ place[i] = "pending" /\ Goto(d, "drain", "read")
  /\ Move(i, "processing")
  /\ cur' = [cur EXCEPT ![d] = i]
  /\ UNCHANGED <<sent, faults, crashes, storeVars>>

\* The next name in order is claimed by renaming it to processing/; a rename
\* that fails (another owner has it) skips the name.
Claim(d, i) ==
  /\ left[d] > 0 /\ i \in First(todo[d])
  /\ todo' = [todo EXCEPT ![d] = @ \ {i}]
  /\ left' = [left EXCEPT ![d] = @ - 1]
  /\ \/ /\ place[i] = "pending" /\ Goto(d, "drain", "read")
        /\ Move(i, "processing")
        /\ cur' = [cur EXCEPT ![d] = i]
        /\ UNCHANGED faults
     \/ /\ place[i] # "pending" /\ phase[d] = "drain"
        /\ UNCHANGED <<place, phase, cur, faults>>
     \/ /\ Fault /\ phase[d] = "drain"
        /\ UNCHANGED <<place, phase, cur>>
  /\ UNCHANGED <<sent, crashes, storeVars>>

\* MUTANT of Read: the file is consumed when it is read.
ReadAndRemove(d) ==
  /\ Goto(d, "read", IF place[cur[d]] = "processing" THEN "apply" ELSE "quarantine")
  /\ IF place[cur[d]] = "processing" THEN Move(cur[d], "removed") ELSE UNCHANGED place
  /\ UNCHANGED <<sent, todo, left, cur, faults, crashes, storeVars>>

\* apply_file reads the file: gone when another owner has recovered it.
Read(d) ==
  /\ \/ /\ Goto(d, "read", IF place[cur[d]] = "processing" THEN "apply" ELSE "quarantine")
        /\ UNCHANGED <<faults, erred>>
     \/ Goto(d, "read", "quarantine") /\ Fault /\ erred' = erred \cup {cur[d]}
  /\ UNCHANGED <<sent, place, todo, left, cur, crashes, stored, applied>>

\* apply_command: the store takes the write, or returns an error.
Apply(d) ==
  /\ Goto(d, "apply", "remove")
  /\ stored' = [stored EXCEPT ![cur[d][1]] = cur[d][2]]
  /\ applied' = applied \cup {cur[d]}
  /\ UNCHANGED <<sent, place, todo, left, cur, faults, crashes, erred>>

ApplyFails(d) ==
  /\ Goto(d, "apply", "quarantine")
  /\ Fault
  /\ erred' = erred \cup {cur[d]}
  /\ UNCHANGED <<sent, place, todo, left, cur, crashes, stored, applied>>

\* The applied file is removed from processing/; errors are ignored.
Remove(d) ==
  /\ Goto(d, "remove", "drain")
  /\ \/ /\ IF place[cur[d]] = "processing" THEN Move(cur[d], "removed") ELSE UNCHANGED place
        /\ UNCHANGED faults
     \/ Fault /\ UNCHANGED place
  /\ cur' = [cur EXCEPT ![d] = NoItem]
  /\ UNCHANGED <<sent, todo, left, crashes, storeVars>>

\* MUTANT of Quarantine: what cannot be applied is deleted.
QuarantineByRemoving(d) ==
  /\ Goto(d, "quarantine", "drain")
  /\ IF place[cur[d]] = "processing" THEN Move(cur[d], "removed") ELSE UNCHANGED place
  /\ cur' = [cur EXCEPT ![d] = NoItem]
  /\ UNCHANGED <<sent, todo, left, faults, crashes, storeVars>>

\* A write that could not be applied is moved to failed/ and never retried;
\* when the move fails it stays in processing/, for the next drain.
Quarantine(d) ==
  /\ Goto(d, "quarantine", "drain")
  /\ \/ /\ IF place[cur[d]] = "processing" THEN Move(cur[d], "failed") ELSE UNCHANGED place
        /\ UNCHANGED faults
     \/ Fault /\ UNCHANGED place
  /\ cur' = [cur EXCEPT ![d] = NoItem]
  /\ UNCHANGED <<sent, todo, left, crashes, storeVars>>

EndDrain(d) ==
  /\ todo[d] = {} \/ left[d] = 0
  /\ Goto(d, "drain", "idle")
  /\ todo' = [todo EXCEPT ![d] = {}]
  /\ UNCHANGED <<sent, place, left, cur, faults, crashes, storeVars>>

DrainStep(d) ==
  \/ BeginDrain(d) \/ ListPending(d) \/ Read(d) \/ Apply(d) \/ ApplyFails(d)
  \/ Remove(d) \/ Quarantine(d) \/ EndDrain(d)
  \/ \E i \in Items : RecoverOne(d, i) \/ Claim(d, i)

Next ==
  \/ \E p \in Producers : Enqueue(p)
  \/ \E d \in Drainers : Start(d) \/ Crash(d) \/ DrainStep(d)

\* The drain thread loops for as long as its process lives, and a session_db
\* that died is started again.
Fairness == \A d \in Drainers : WF_vars(Start(d)) /\ WF_vars(DrainStep(d))

Spec     == Init /\ [][Next]_vars
FairSpec == Spec /\ Fairness

-----------------------------------------------------------------------------
(* Properties.                                                             *)

TypeOK ==
  /\ sent \in [Producers -> 0..MaxItems]
  /\ place \in [Items -> Places]
  /\ phase \in [Drainers -> Phases]
  /\ todo \in [Drainers -> SUBSET Items]
  /\ left \in [Drainers -> 0..Limit]
  /\ cur \in [Drainers -> Items \cup {NoItem}]
  /\ faults \in 0..MaxFaults /\ crashes \in 0..MaxCrashes
  /\ stored \in [Producers -> 0..MaxItems]
  /\ applied \subseteq Items /\ erred \subseteq Items

\* A write whose enqueue returned is never lost, whatever crashes, errors and
\* overlapping owners do: it reached the store, or its file is still there, to
\* be drained or in failed/ for inspection.
NeverLost ==
  \A i \in Accepted : i \in applied \/ place[i] \in {"pending", "processing", "failed"}

\* One owner, no error so far: a crash may apply a write again, but never one
\* that a later write of the same producer has overtaken.
NoStaleReplay ==
  [][faults' = 0 => \A p \in Producers : stored'[p] >= stored[p]]_vars

\* One owner, no error so far: a drain, cut short by its limit or by a crash,
\* leaves no hole; what is applied of a producer is a prefix of what it
\* enqueued.
AppliedInOrder ==
  faults = 0 => \A i \in applied : \A n \in 1..i[2] : <<i[1], n>> \in applied

\* The queue keeps the promise its callers rely on, through renames that fail,
\* crashes and overlapping owners: it implements DurableWrites, where a write
\* stays held while its file is in pending/ or processing/.
Writes == INSTANCE DurableWrites
            WITH held  <- In("pending") \cup In("processing"),
                 aside <- In("failed")

DurableSpec == Writes!Spec

\* One owner: it also drains the queue, so no write is held for ever and every
\* one is applied or set aside.
DurableAndDrained == Writes!FairSpec
=============================================================================
