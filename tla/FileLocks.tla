------------------------------ MODULE FileLocks ------------------------------
(***************************************************************************)
(* The file locks of the router's tool execution                           *)
(* (tools/src/runtime/file_locks): shared and exclusive locks on paths and *)
(* an exclusive one on the whole workspace, taken one by one in sorted     *)
(* order.  The model is one lock scope, the session: locks of two scopes   *)
(* never meet.                                                             *)
(***************************************************************************)
EXTENDS Naturals

CONSTANT Paths     \* paths below the workspace

Workspace == "."
Keys      == Paths \cup {Workspace}
Modes     == {"read", "write"}

ASSUME PathsAssumption == Workspace \notin Paths

VARIABLES
  readers,   \* LockState.readers: how many hold each key shared
  writers    \* LockState.writers: keys held exclusively

locks == <<readers, writers>>

LocksInit ==
  /\ readers = [k \in Keys |-> 0]
  /\ writers = {}

\* MUTANT of CanAcquire: a workspace writer looks for writers only.
CanAcquirePastReaders(key, mode) ==
  IF key = Workspace /\ mode = "write"
    THEN writers = {}
    ELSE /\ writers \cap {key, Workspace} = {}
         /\ mode = "write" => readers[key] = 0 /\ readers[Workspace] = 0

\* can_acquire: a workspace writer needs its scope to itself; a path waits for
\* a writer of it or of the workspace, a path writer for every reader too.
CanAcquire(key, mode) ==
  IF key = Workspace /\ mode = "write"
    THEN writers = {} /\ \A k \in Keys : readers[k] = 0
    ELSE /\ writers \cap {key, Workspace} = {}
         /\ mode = "write" => readers[key] = 0 /\ readers[Workspace] = 0

\* acquire_one, once the condition variable lets it through.
Acquire(key, mode) ==
  /\ CanAcquire(key, mode)
  /\ IF mode = "read"
       THEN readers' = [readers EXCEPT ![key] = @ + 1] /\ UNCHANGED writers
       ELSE writers' = writers \cup {key} /\ UNCHANGED readers

\* MUTANT of Release: a writer leaves its key behind.
ReleaseReaders(key, mode) ==
  /\ mode = "read" => readers' = [readers EXCEPT ![key] = @ - 1]
  /\ mode = "write" => UNCHANGED readers
  /\ UNCHANGED writers

\* release_one.
Release(key, mode) ==
  IF mode = "read"
    THEN readers' = [readers EXCEPT ![key] = @ - 1] /\ UNCHANGED writers
    ELSE writers' = writers \ {key} /\ UNCHANGED readers
=============================================================================
