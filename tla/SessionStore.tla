---------------------------- MODULE SessionStore ----------------------------
(***************************************************************************)
(* The store of the session_db owner (session_log/src/store/*.rs): one     *)
(* SQLite database per workspace with the sessions' rows and records, and  *)
(* one index database that says which sessions there are.  A command is a  *)
(* few transactions, each an action here; the owner's threads (one per     *)
(* connection and the queue's drain thread) interleave between them, and a *)
(* crash, or a shutdown that kills the connection threads, may come there  *)
(* too.  One workspace is modelled.                                        *)
(***************************************************************************)
EXTENDS Naturals, FiniteSets

CONSTANTS Sessions,
          Messages,      \* message ids of session records
          Workers,       \* threads that serve commands
          Writers,       \* those that apply upserts
          Boot,          \* the owner's main thread, at start-up
          UpsertStates,  \* lifecycle states that clients write
          Deletes,       \* whether clients delete sessions and workspaces
          MaxWrites,     \* bound: upserts
          MaxCrashes     \* bound: crashes of the owner

States == {"created", "running", "paused", "completed", "failed", "cancelled", "interrupted"}

ASSUME WorkersAssumption == Writers \subseteq Workers /\ Boot \notin Workers
ASSUME StatesAssumption  == UpsertStates \subseteq States
ASSUME DeletesAssumption == Deletes \in BOOLEAN
ASSUME BoundsAssumption  == MaxWrites \in Nat /\ MaxCrashes \in Nat

Threads == Workers \cup {Boot}
NoRow   == [state |-> "absent", recs |-> {}]
Rows    == [state : States, recs : SUBSET Messages] \cup {NoRow}

\* SessionState::is_recoverable_running
Recoverable == {"running", "paused"}

VARIABLES
  row,       \* workspace database: sessions and session_records
  file,      \* whether the workspace database's file exists
  index,     \* index database: the state of each session, or "absent"
  stale,     \* sessions whose index row is older than the stale timeout
  serving,   \* start-up recovery is over
  pc,        \* the transaction a thread does next
  args,      \* the sessions its command is still about
  at,        \* the one it is at, and the state it is to write
  writes, crashes,
  deleted    \* history: sessions ever named by a delete

dbVars == <<row, file, index, stale>>
vars == <<dbVars, serving, pc, args, at, writes, crashes, deleted>>

Indexed == {s \in Sessions : index[s] # "absent"}
Nothing == [s |-> {}, state |-> "absent"]

Become(w, stage) == pc' = [pc EXCEPT ![w] = stage]
\* A worker is free to take a command.
Free(w) == serving /\ w \in Workers /\ pc[w] = "idle"

Init ==
  /\ row = [s \in Sessions |-> NoRow] /\ file = FALSE
  /\ index = [s \in Sessions |-> "absent"]
  /\ stale = {}
  /\ serving = FALSE
  /\ pc = [w \in Threads |-> IF w = Boot THEN "boot" ELSE "idle"]
  /\ args = [w \in Threads |-> {}]
  /\ at = [w \in Threads |-> Nothing]
  /\ writes = 0 /\ crashes = 0
  /\ deleted = {}

-----------------------------------------------------------------------------
(* upsert_session                                                          *)

\* MUTANT of UpsertRow: the transaction is dropped without a commit.
UpsertUncommitted(w, s, st, ms, compacted) ==
  /\ Free(w) /\ w \in Writers
  /\ writes < MaxWrites /\ writes' = writes + 1
  /\ file' = TRUE
  /\ Become(w, "upsert_index")
  /\ at' = [at EXCEPT ![w] = [s |-> {s}, state |-> st]]
  /\ UNCHANGED <<row, index, stale, serving, args, crashes, deleted>>

\* One transaction of the workspace database (created when missing).  Records
\* the snapshot does not list are deleted, unless it is a compacted one.
UpsertRow(w, s, st, ms, compacted) ==
  /\ Free(w) /\ w \in Writers
  /\ writes < MaxWrites /\ writes' = writes + 1
  /\ row' = [row EXCEPT ![s] = [state |-> st,
                                recs |-> IF compacted THEN row[s].recs \cup ms ELSE ms]]
  /\ file' = TRUE
  /\ Become(w, "upsert_index")
  /\ at' = [at EXCEPT ![w] = [s |-> {s}, state |-> st]]
  /\ UNCHANGED <<index, stale, serving, args, crashes, deleted>>

\* Then the row of the index, with the timestamp of the snapshot.
UpsertIndex(w) ==
  /\ pc[w] = "upsert_index" /\ Become(w, "idle")
  /\ index' = [s \in Sessions |-> IF s \in at[w].s THEN at[w].state ELSE index[s]]
  /\ stale' = stale \ at[w].s
  /\ at' = [at EXCEPT ![w] = Nothing]
  /\ UNCHANGED <<row, file, serving, args, writes, crashes, deleted>>

-----------------------------------------------------------------------------
(* Marking sessions interrupted: by request, when stale, and at start-up.  *)

\* Time passes without a write: the index row's updated_at gets old.
Idle(s) ==
  /\ index[s] # "absent" /\ s \notin stale
  /\ stale' = stale \cup {s}
  /\ UNCHANGED <<row, file, index, serving, pc, args, at, writes, crashes, deleted>>

\* mark_session_interrupted looks the session's database up in the index.
MarkInterrupted(w, s) ==
  /\ Free(w) /\ s \in Indexed
  /\ Become(w, "select")
  /\ args' = [args EXCEPT ![w] = {s}]
  /\ UNCHANGED <<dbVars, serving, at, writes, crashes, deleted>>

\* mark_stale_running_sessions_interrupted, the first step of every read.
SweepStale(w) ==
  /\ Free(w)
  /\ {s \in stale : index[s] \in Recoverable} # {}
  /\ Become(w, "select")
  /\ args' = [args EXCEPT ![w] = {s \in stale : index[s] \in Recoverable}]
  /\ UNCHANGED <<dbVars, serving, at, writes, crashes, deleted>>

\* MUTANT of Recover: only sessions the index calls running are looked at.
RecoverIndexedRunning ==
  /\ pc[Boot] = "boot" /\ Become(Boot, "select")
  /\ args' = [args EXCEPT ![Boot] = {s \in Sessions : index[s] \in Recoverable}]
  /\ UNCHANGED <<dbVars, serving, at, writes, crashes, deleted>>

\* mark_running_sessions_interrupted at start-up: every session of the index.
Recover ==
  /\ pc[Boot] = "boot" /\ Become(Boot, "select")
  /\ args' = [args EXCEPT ![Boot] = Indexed]
  /\ UNCHANGED <<dbVars, serving, at, writes, crashes, deleted>>

\* MUTANT of Select: the index is asked for the session's state.
SelectByIndex(w, s) ==
  /\ pc[w] = "select" /\ s \in args[w]
  /\ args' = [args EXCEPT ![w] = @ \ {s}]
  /\ IF index[s] \in Recoverable
     THEN /\ Become(w, "update")
          /\ at' = [at EXCEPT ![w] = [s |-> {s}, state |-> "interrupted"]]
     ELSE UNCHANGED <<pc, at>>
  /\ UNCHANGED <<dbVars, serving, writes, crashes, deleted>>

\* mark_workspace_session_interrupted reads the row; a session without one, or
\* not running, is skipped.
Select(w, s) ==
  /\ pc[w] = "select" /\ s \in args[w]
  /\ args' = [args EXCEPT ![w] = @ \ {s}]
  /\ IF file /\ row[s].state \in Recoverable
     THEN /\ Become(w, "update")
          /\ at' = [at EXCEPT ![w] = [s |-> {s}, state |-> "interrupted"]]
     ELSE UNCHANGED <<pc, at>>
  /\ UNCHANGED <<dbVars, serving, writes, crashes, deleted>>

\* It then updates the row, in a statement of its own: whatever it holds now.
Update(w) ==
  /\ pc[w] = "update" /\ Become(w, "mark_index")
  /\ row' = [s \in Sessions |-> IF s \in at[w].s /\ row[s] # NoRow
                                THEN [row[s] EXCEPT !.state = "interrupted"] ELSE row[s]]
  /\ UNCHANGED <<file, index, stale, serving, args, at, writes, crashes, deleted>>

MarkIndex(w) ==
  /\ pc[w] = "mark_index" /\ Become(w, "select")
  /\ index' = [s \in Sessions |-> IF s \in at[w].s \cap Indexed
                                  THEN "interrupted" ELSE index[s]]
  /\ stale' = stale \ at[w].s
  /\ at' = [at EXCEPT ![w] = Nothing]
  /\ UNCHANGED <<row, file, serving, args, writes, crashes, deleted>>

\* The command is answered; at start-up, the queue drain and the socket open.
Marked(w) ==
  /\ pc[w] = "select" /\ args[w] = {} /\ Become(w, "idle")
  /\ serving' = TRUE
  /\ UNCHANGED <<dbVars, args, at, writes, crashes, deleted>>

-----------------------------------------------------------------------------
(* Reads that repair the index.                                            *)

\* get_session, list_sessions: the index row, then the workspace row.
GetSession(w, s) ==
  /\ Free(w) /\ s \in Indexed
  /\ Become(w, "load")
  /\ args' = [args EXCEPT ![w] = {s}]
  /\ UNCHANGED <<dbVars, serving, at, writes, crashes, deleted>>

\* A session without a row, or whose database is gone, leaves the index.
Load(w) ==
  /\ pc[w] = "load"
  /\ IF \A s \in args[w] : file /\ row[s] # NoRow
     THEN Become(w, "idle") /\ args' = [args EXCEPT ![w] = {}]
     ELSE Become(w, "heal") /\ UNCHANGED args
  /\ UNCHANGED <<dbVars, serving, at, writes, crashes, deleted>>

\* sweep_missing_workspace_dbs finds the database's file missing.
SweepMissing(w) ==
  /\ Free(w) /\ ~file /\ Indexed # {}
  /\ Become(w, "heal")
  /\ args' = [args EXCEPT ![w] = Sessions]
  /\ UNCHANGED <<dbVars, serving, at, writes, crashes, deleted>>

\* MUTANT of Heal: the index rows of the whole database are removed.
HealDatabase(w) ==
  /\ pc[w] = "heal" /\ Become(w, "idle")
  /\ index' = [s \in Sessions |-> "absent"] /\ stale' = {}
  /\ args' = [args EXCEPT ![w] = {}]
  /\ UNCHANGED <<row, file, serving, at, writes, crashes, deleted>>

\* delete_index_session; for a missing file every row that names it.
Heal(w) ==
  /\ pc[w] = "heal" /\ Become(w, "idle")
  /\ index' = [s \in Sessions |-> IF s \in args[w] THEN "absent" ELSE index[s]]
  /\ stale' = stale \ args[w]
  /\ args' = [args EXCEPT ![w] = {}]
  /\ UNCHANGED <<row, file, serving, at, writes, crashes, deleted>>

-----------------------------------------------------------------------------
(* delete_session and delete_workspace                                     *)

\* The database is found through the index; without a row there, only the
\* index is cleared.
DeleteSession(w, s) ==
  /\ Deletes /\ Free(w)
  /\ Become(w, IF s \in Indexed THEN "delete_row" ELSE "heal")
  /\ args' = [args EXCEPT ![w] = {s}]
  /\ deleted' = deleted \cup {s}
  /\ UNCHANGED <<dbVars, serving, at, writes, crashes>>

\* MUTANT of DeleteRow: foreign keys are not enforced, the records stay.
DeleteRowOnly(w) ==
  /\ pc[w] = "delete_row" /\ Become(w, "heal")
  /\ row' = [s \in Sessions |-> IF s \in args[w] THEN [row[s] EXCEPT !.state = "absent"]
                                ELSE row[s]]
  /\ UNCHANGED <<file, index, stale, serving, args, at, writes, crashes, deleted>>

\* The records go with the row (ON DELETE CASCADE).
DeleteRow(w) ==
  /\ pc[w] = "delete_row" /\ Become(w, "heal")
  /\ row' = [s \in Sessions |-> IF s \in args[w] THEN NoRow ELSE row[s]]
  /\ UNCHANGED <<file, index, stale, serving, args, at, writes, crashes, deleted>>

\* The index first; the files only when the index named the database.
DeleteWorkspace(w) ==
  /\ Deletes /\ Free(w)
  /\ Become(w, IF Indexed = {} THEN "idle" ELSE "remove_files")
  /\ index' = [s \in Sessions |-> "absent"] /\ stale' = {}
  /\ deleted' = Sessions
  /\ UNCHANGED <<row, file, serving, args, at, writes, crashes>>

RemoveFiles(w) ==
  /\ pc[w] = "remove_files" /\ Become(w, "idle")
  /\ row' = [s \in Sessions |-> NoRow] /\ file' = FALSE
  /\ UNCHANGED <<index, stale, serving, args, at, writes, crashes, deleted>>

-----------------------------------------------------------------------------
(* The owner dies with all its threads, and is started again.              *)

Crash ==
  /\ crashes < MaxCrashes /\ crashes' = crashes + 1
  /\ serving' = FALSE
  /\ pc' = [w \in Threads |-> IF w = Boot THEN "boot" ELSE "idle"]
  /\ args' = [w \in Threads |-> {}]
  /\ at' = [w \in Threads |-> Nothing]
  /\ UNCHANGED <<dbVars, writes, deleted>>

\* A thread goes on with the command it has taken.
Step(w) ==
  \/ UpsertIndex(w) \/ Update(w) \/ MarkIndex(w) \/ Marked(w) \/ Load(w)
  \/ Heal(w) \/ DeleteRow(w) \/ RemoveFiles(w)
  \/ \E s \in Sessions : Select(w, s)

Command(w) ==
  \/ SweepStale(w) \/ SweepMissing(w) \/ DeleteWorkspace(w)
  \/ \E s \in Sessions :
        \/ MarkInterrupted(w, s) \/ GetSession(w, s) \/ DeleteSession(w, s)
        \/ \E st \in UpsertStates, ms \in SUBSET Messages, compacted \in BOOLEAN :
              UpsertRow(w, s, st, ms, compacted)

Next ==
  \/ \E w \in Workers : Command(w)
  \/ \E w \in Threads : Step(w)
  \/ Recover \/ Crash
  \/ \E s \in Sessions : Idle(s)

\* The owner is started and its threads run; the gateway, which probes busy
\* sessions whenever a front lists them, keeps reporting the dead ones.
Fairness ==
  /\ WF_vars(Recover)
  /\ \A w \in Threads : WF_vars(Step(w))
  /\ \A s \in Sessions : SF_vars(\E w \in Workers : MarkInterrupted(w, s))

Spec     == Init /\ [][Next]_vars
FairSpec == Spec /\ Fairness

-----------------------------------------------------------------------------
(* Properties.                                                             *)

Stages == {"idle", "boot", "upsert_index", "select", "update", "mark_index",
           "load", "heal", "delete_row", "remove_files"}

TypeOK ==
  /\ row \in [Sessions -> Rows] /\ file \in BOOLEAN
  /\ index \in [Sessions -> States \cup {"absent"}]
  /\ stale \subseteq Sessions
  /\ serving \in BOOLEAN
  /\ pc \in [Threads -> Stages]
  /\ args \in [Threads -> SUBSET Sessions]
  /\ at \in [Threads -> [s : SUBSET Sessions, state : States \cup {"absent"}]]
  /\ writes \in 0..MaxWrites /\ crashes \in 0..MaxCrashes
  /\ deleted \subseteq Sessions

\* The index never names a session the workspace database does not have,
\* unless a delete was asked for: a crash between the two databases' writes
\* leaves a row that is not listed, never a listed session without a row.  (A
\* part of SessionCatalogSpec below, and of what its proof needs.)
IndexBackedByRow == \A s \in Indexed \ deleted : row[s] # NoRow

\* What is promised to the readers of the index is kept: no crash, no read that
\* repairs the index and no interleaving of commands hides or loses a listed
\* session nobody asked to delete, lists one that has no row, or serves one that
\* is still running from before.
Catalog == INSTANCE SessionCatalog
             WITH stored <- {s \in Sessions : row[s] # NoRow},
                  running <- {s \in Sessions : row[s].state \in Recoverable},
                  listed <- Indexed, named <- deleted, open <- serving

SessionCatalogSpec == Catalog!Spec

\* Without crashes and deletes, a session that was written is listed as soon
\* as no command is in flight: no read that repairs the index hides it.
WrittenIsListed ==
  crashes = 0 /\ (\A w \in Threads : pc[w] \in {"idle", "boot"}) =>
     \A s \in Sessions \ deleted : row[s] # NoRow => s \in Indexed

\* When the owner starts serving after a crash, no listed session is still
\* running or paused, however the crash cut a write between the databases.
NoRunningAfterRecovery ==
  [][serving' /\ ~serving =>
       \A s \in Sessions : index'[s] # "absent" => row'[s].state \notin Recoverable]_vars

\* A listed session whose runtime is gone does not stay running for ever, not
\* even when the two databases disagree about its state: reports of the
\* gateway's probe reach the row, or a restart's recovery does.
RunningIsInterrupted ==
  \A s \in Sessions :
     (row[s].state \in Recoverable /\ index[s] # "absent") ~>
        (row[s].state \notin Recoverable \/ index[s] = "absent")

\* docs/start/sessions.md: a `completed` session moves only to `created` or
\* `running`.  Read as: the store interrupts only running and paused sessions.
InterruptsOnlyRunning ==
  [][\A s \in Sessions : row'[s].state = "interrupted" /\ row[s].state # "interrupted" =>
        row[s].state \in Recoverable]_vars
=============================================================================
