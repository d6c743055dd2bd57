------------------------- MODULE SessionStore_proofs -------------------------
(***************************************************************************)
(* Proofs about the session store, for any sessions, records, number of    *)
(* threads, writes and crashes.                                            *)
(***************************************************************************)
EXTENDS SessionStore, TLAPS

-----------------------------------------------------------------------------
(* Type correctness.                                                       *)

LEMMA ThreadTypes == Boot \in Threads /\ \A w \in Workers : w \in Threads /\ w # Boot
<1>1. Boot \in Threads /\ \A w \in Workers : w \in Threads
  BY DEF Threads
<1>2. \A w \in Workers : w # Boot
  BY WorkersAssumption, Zenon
<1>3. QED
  BY <1>1, <1>2

LEMMA NothingType == Nothing \in [s : SUBSET Sessions, state : States \cup {"absent"}]
BY DEF Nothing

\* The databases and the threads' commands keep their types.
THEOREM TypeCorrect == Spec => []TypeOK
<1> USE StatesAssumption, BoundsAssumption, WorkersAssumption
<1>1. Init => TypeOK
  <2>1. NoRow \in Rows
    BY DEF Rows
  <2>2. Init => row \in [Sessions -> Rows]
    BY <2>1 DEF Init
  <2>3. Init => /\ index \in [Sessions -> States \cup {"absent"}]
                /\ args \in [Threads -> SUBSET Sessions]
                /\ stale \subseteq Sessions /\ deleted \subseteq Sessions
    BY DEF Init
  <2>4. Init => at \in [Threads -> [s : SUBSET Sessions, state : States \cup {"absent"}]]
    BY NothingType DEF Init
  <2>5. Init => pc \in [Threads -> Stages]
    BY DEF Init, Stages
  <2>6. Init => writes \in 0..MaxWrites /\ crashes \in 0..MaxCrashes
    BY DEF Init
  <2>7. Init => file \in BOOLEAN /\ serving \in BOOLEAN
    BY Zenon DEF Init
  <2>8. QED
    BY <2>7, <2>2, <2>3, <2>4, <2>5, <2>6 DEF TypeOK
<1>2. TypeOK /\ [Next]_vars => TypeOK'
  <2> SUFFICES ASSUME TypeOK, [Next]_vars PROVE TypeOK'
    OBVIOUS
  <2> USE ThreadTypes, NothingType DEF TypeOK, Stages, Become, Free, dbVars, Indexed
  <2>1. ASSUME NEW w \in Workers, NEW s \in Sessions, NEW st \in UpsertStates,
               NEW ms \in SUBSET Messages, NEW compacted \in BOOLEAN,
               UpsertRow(w, s, st, ms, compacted)
        PROVE  TypeOK'
    <3>1. row[s].recs \in SUBSET Messages
      BY DEF Rows, NoRow
    <3>2. row' \in [Sessions -> Rows]
      BY <2>1, <3>1 DEF UpsertRow, Rows
    <3>3. at' \in [Threads -> [s : SUBSET Sessions, state : States \cup {"absent"}]]
      BY <2>1 DEF UpsertRow
    <3>4. QED
      BY <2>1, <3>2, <3>3 DEF UpsertRow
  <2>2. ASSUME NEW w \in Threads, UpsertIndex(w) PROVE TypeOK'
    BY <2>2 DEF UpsertIndex
  <2>3. ASSUME NEW s \in Sessions, Idle(s) PROVE TypeOK'
    BY <2>3 DEF Idle
  <2>4. ASSUME NEW w \in Workers, NEW s \in Sessions, MarkInterrupted(w, s) PROVE TypeOK'
    BY <2>4 DEF MarkInterrupted
  <2>5. ASSUME NEW w \in Workers, SweepStale(w) PROVE TypeOK'
    BY <2>5 DEF SweepStale
  <2>6. CASE Recover
    BY <2>6 DEF Recover
  <2>7. ASSUME NEW w \in Threads, NEW s \in Sessions, Select(w, s) PROVE TypeOK'
    <3>1. [s |-> {s}, state |-> "interrupted"]
            \in [s : SUBSET Sessions, state : States \cup {"absent"}]
      BY DEF States
    <3>2. QED
      <4>1. args' \in [Threads -> SUBSET Sessions]
        BY <2>7 DEF Select
      <4>2. CASE file /\ row[s].state \in Recoverable
        BY <2>7, <3>1, <4>1, <4>2 DEF Select
      <4>3. CASE ~(file /\ row[s].state \in Recoverable)
        BY <2>7, <4>1, <4>3 DEF Select
      <4>4. QED
        BY <4>2, <4>3
  <2>8. ASSUME NEW w \in Threads, Update(w) PROVE TypeOK'
    <3>1. \A s \in Sessions : [row[s] EXCEPT !.state = "interrupted"] \in Rows
      BY DEF Rows, NoRow, States
    <3>2. QED
      BY <2>8, <3>1 DEF Update
  <2>9. ASSUME NEW w \in Threads, MarkIndex(w) PROVE TypeOK'
    BY <2>9 DEF MarkIndex, States
  <2>10. ASSUME NEW w \in Threads, Marked(w) PROVE TypeOK'
    BY <2>10 DEF Marked
  <2>11. ASSUME NEW w \in Workers, NEW s \in Sessions, GetSession(w, s) PROVE TypeOK'
    BY <2>11 DEF GetSession
  <2>12. ASSUME NEW w \in Threads, Load(w) PROVE TypeOK'
    <3>1. /\ pc' \in {[pc EXCEPT ![w] = "idle"], [pc EXCEPT ![w] = "heal"]}
          /\ args' \in {[args EXCEPT ![w] = {}], args}
      BY <2>12 DEF Load
    <3>2. pc' \in [Threads -> Stages] /\ args' \in [Threads -> SUBSET Sessions]
      BY <3>1
    <3>3. QED
      BY <2>12, <3>2 DEF Load
  <2>13. ASSUME NEW w \in Workers, SweepMissing(w) PROVE TypeOK'
    BY <2>13 DEF SweepMissing
  <2>14. ASSUME NEW w \in Threads, Heal(w) PROVE TypeOK'
    BY <2>14 DEF Heal
  <2>15. ASSUME NEW w \in Workers, NEW s \in Sessions, DeleteSession(w, s) PROVE TypeOK'
    BY <2>15 DEF DeleteSession
  <2>16. ASSUME NEW w \in Threads, DeleteRow(w) PROVE TypeOK'
    BY <2>16 DEF DeleteRow, Rows
  <2>17. ASSUME NEW w \in Workers, DeleteWorkspace(w) PROVE TypeOK'
    BY <2>17 DEF DeleteWorkspace
  <2>18. ASSUME NEW w \in Threads, RemoveFiles(w) PROVE TypeOK'
    BY <2>18 DEF RemoveFiles, Rows
  <2>19. CASE Crash
    <3>1. pc' \in [Threads -> Stages]
      BY <2>19 DEF Crash
    <3>2. at' \in [Threads -> [s : SUBSET Sessions, state : States \cup {"absent"}]]
      BY <2>19 DEF Crash
    <3>3. args' \in [Threads -> SUBSET Sessions] /\ crashes' \in 0..MaxCrashes
      BY <2>19 DEF Crash
    <3>4. QED
      BY <2>19, <3>1, <3>2, <3>3 DEF Crash
  <2>20. CASE UNCHANGED vars
    BY <2>20 DEF vars
  <2> HIDE DEF TypeOK, Stages, Become, Free, dbVars, Indexed
  <2>21. QED
    BY <2>1, <2>2, <2>3, <2>4, <2>5, <2>6, <2>7, <2>8, <2>9, <2>10, <2>11, <2>12, <2>13,
       <2>14, <2>15, <2>16, <2>17, <2>18, <2>19, <2>20 DEF Next, Command, Step
<1>3. QED
  BY <1>1, <1>2, PTL DEF Spec

-----------------------------------------------------------------------------
(* The index is backed by rows.  A thread about to write the index has     *)
(* written the row, unless a delete came between; a thread about to remove *)
(* rows removes only those of sessions that a delete has named.            *)

RowWritten ==
  \A w \in Threads : pc[w] = "upsert_index" => \A s \in at[w].s \ deleted : row[s] # NoRow

DeletesNamed ==
  \A w \in Threads : /\ pc[w] = "delete_row" => args[w] \subseteq deleted
                     /\ pc[w] = "remove_files" => deleted = Sessions

Backed == IndexBackedByRow /\ RowWritten /\ DeletesNamed

\* No step but those of a delete takes a session's row away.
LEMMA RowsStay ==
  ASSUME TypeOK, Backed, [Next]_vars
  PROVE  /\ deleted \subseteq deleted' /\ deleted' \subseteq Sessions
         /\ \A s \in Sessions \ deleted' : row[s] # NoRow => row'[s] # NoRow
<1> USE ThreadTypes, StatesAssumption DEF TypeOK, Become, Free, dbVars
<1>1. ASSUME NEW w \in Workers, NEW s \in Sessions, NEW st \in UpsertStates,
             NEW ms \in SUBSET Messages, NEW compacted \in BOOLEAN,
             UpsertRow(w, s, st, ms, compacted)
      PROVE  deleted' = deleted /\ \A x \in Sessions : row[x] # NoRow => row'[x] # NoRow
  BY <1>1 DEF UpsertRow, NoRow, States
<1>2. ASSUME NEW w \in Threads, Update(w)
      PROVE  deleted' = deleted /\ \A x \in Sessions : row[x] # NoRow => row'[x] # NoRow
  <2>1. \A x \in Sessions : [row[x] EXCEPT !.state = "interrupted"] # NoRow
    BY DEF NoRow, Rows
  <2>2. QED
    BY <1>2, <2>1 DEF Update
<1>3. ASSUME NEW w \in Threads, DeleteRow(w)
      PROVE  deleted' = deleted /\ \A x \in Sessions \ deleted : row[x] # NoRow => row'[x] # NoRow
  BY <1>3 DEF DeleteRow, Backed, DeletesNamed
<1>4. ASSUME NEW w \in Threads, RemoveFiles(w)
      PROVE  deleted' = deleted /\ deleted = Sessions
  BY <1>4 DEF RemoveFiles, Backed, DeletesNamed
<1>5. ASSUME NEW w \in Workers, NEW s \in Sessions, DeleteSession(w, s)
      PROVE  row' = row /\ deleted' = deleted \cup {s}
  BY <1>5 DEF DeleteSession
<1>6. ASSUME NEW w \in Workers, DeleteWorkspace(w)
      PROVE  row' = row /\ deleted' = Sessions
  BY <1>6 DEF DeleteWorkspace
<1>7. ASSUME NEW w \in Threads,
             \/ UpsertIndex(w) \/ MarkIndex(w) \/ Marked(w) \/ Load(w) \/ Heal(w)
             \/ \E s \in Sessions : Select(w, s)
      PROVE  row' = row /\ deleted' = deleted
  BY <1>7 DEF UpsertIndex, MarkIndex, Marked, Load, Heal, Select
<1>8. ASSUME NEW w \in Workers,
             \/ SweepStale(w) \/ SweepMissing(w)
             \/ \E s \in Sessions : MarkInterrupted(w, s) \/ GetSession(w, s)
      PROVE  row' = row /\ deleted' = deleted
  BY <1>8 DEF SweepStale, SweepMissing, MarkInterrupted, GetSession
<1>9. ASSUME Recover \/ Crash \/ (\E s \in Sessions : Idle(s)) \/ UNCHANGED vars
      PROVE  row' = row /\ deleted' = deleted
  BY <1>9 DEF Recover, Crash, Idle, vars
<1>10. QED
  BY <1>1, <1>2, <1>3, <1>4, <1>5, <1>6, <1>7, <1>8, <1>9 DEF Next, Command, Step

LEMMA AlwaysBacked == Spec => [](TypeOK /\ Backed)
<1> USE ThreadTypes, StatesAssumption
<1>1. Init => Backed
  BY DEF Init, Backed, IndexBackedByRow, RowWritten, DeletesNamed, Indexed, Nothing
<1>2. TypeOK /\ Backed /\ [Next]_vars => Backed'
  <2> SUFFICES ASSUME TypeOK, Backed, [Next]_vars PROVE Backed'
    OBVIOUS
  <2>1. /\ deleted \subseteq deleted' /\ deleted' \subseteq Sessions
        /\ \A s \in Sessions \ deleted' : row[s] # NoRow => row'[s] # NoRow
    BY RowsStay
  <2> USE DEF TypeOK, Become, Free, dbVars, Backed, IndexBackedByRow, RowWritten,
              DeletesNamed, Indexed
  <2>2. ASSUME NEW w \in Workers, NEW s \in Sessions, NEW st \in UpsertStates,
               NEW ms \in SUBSET Messages, NEW compacted \in BOOLEAN,
               UpsertRow(w, s, st, ms, compacted)
        PROVE  Backed'
    <3>1. row'[s] # NoRow
      BY <2>2 DEF UpsertRow, NoRow, States
    <3>2. QED
      BY <2>1, <2>2, <3>1 DEF UpsertRow
  <2>3. ASSUME NEW w \in Threads, UpsertIndex(w) PROVE Backed'
    BY <2>1, <2>3 DEF UpsertIndex, Nothing
  <2>4. ASSUME NEW w \in Threads, \/ MarkIndex(w) \/ Marked(w) \/ Load(w) \/ Heal(w)
                                  \/ Update(w) \/ DeleteRow(w) \/ RemoveFiles(w)
                                  \/ \E s \in Sessions : Select(w, s)
        PROVE  Backed'
    <3>1. \A s \in Sessions : index'[s] # "absent" => index[s] # "absent"
      BY <2>4 DEF MarkIndex, Marked, Load, Heal, Update, DeleteRow, RemoveFiles, Select
    <3>2. /\ \A v \in Threads : pc'[v] = "upsert_index" =>
                pc[v] = "upsert_index" /\ at'[v] = at[v]
          /\ \A v \in Threads : pc'[v] \in {"delete_row", "remove_files"} =>
                pc'[v] = pc[v] /\ args'[v] = args[v]
      BY <2>4 DEF MarkIndex, Marked, Load, Heal, Update, DeleteRow, RemoveFiles, Select
    <3>3. QED
      BY <2>1, <3>1, <3>2
  <2>5. ASSUME NEW w \in Workers, NEW s \in Sessions, DeleteSession(w, s) PROVE Backed'
    BY <2>1, <2>5 DEF DeleteSession
  <2>6. ASSUME NEW w \in Workers, DeleteWorkspace(w) PROVE Backed'
    BY <2>1, <2>6 DEF DeleteWorkspace
  <2>7. ASSUME NEW w \in Workers,
               \/ SweepStale(w) \/ SweepMissing(w)
               \/ \E s \in Sessions : MarkInterrupted(w, s) \/ GetSession(w, s)
        PROVE  Backed'
    BY <2>1, <2>7 DEF SweepStale, SweepMissing, MarkInterrupted, GetSession
  <2>8. CASE Recover \/ Crash \/ (\E s \in Sessions : Idle(s)) \/ UNCHANGED vars
    BY <2>1, <2>8 DEF Recover, Crash, Idle, vars
  <2> HIDE DEF TypeOK, Become, Free, dbVars, Backed, IndexBackedByRow, RowWritten,
               DeletesNamed, Indexed
  <2>9. QED
    BY <2>2, <2>3, <2>4, <2>5, <2>6, <2>7, <2>8 DEF Next, Command, Step
<1>3. QED
  BY <1>1, <1>2, TypeCorrect, PTL DEF Spec

\* No crash between the two databases' writes, and no interleaving of
\* commands, leaves a listed session without a row, unless it was deleted.
THEOREM IndexIsBacked == Spec => []IndexBackedByRow
<1>1. TypeOK /\ Backed => IndexBackedByRow
  BY DEF Backed
<1>2. QED
  BY <1>1, AlwaysBacked, PTL

-----------------------------------------------------------------------------
(* What was written is listed.  A row that the index does not name is that *)
(* of a thread about to write the index; a thread about to take rows out   *)
(* of the index takes only deleted sessions out of it, because a read that *)
(* found a listed session without a row or a file found a deleted one.     *)

\* A thread that is between an upsert's row and its index row.
Listing(s) == \E w \in Threads : pc[w] = "upsert_index" /\ s \in at[w].s

RowsAreListed == \A s \in Sessions \ deleted : row[s] # NoRow => s \in Indexed \/ Listing(s)

ListsStates ==
  \A w \in Threads : pc[w] = "upsert_index" =>
     at[w].state \in States /\ \E s \in Sessions : at[w].s = {s}

LoadsListed ==
  \A w \in Threads : pc[w] = "load" =>
     \E s \in Sessions : args[w] = {s} /\ (s \in Indexed \/ s \in deleted)

HealsDeleted == \A w \in Threads : pc[w] = "heal" => args[w] \subseteq deleted

\* The file is there as long as anything is in it or about to be listed.
FileIsThere ==
  /\ \A s \in Sessions : row[s] # NoRow => file
  /\ (Indexed # {} \/ \E w \in Threads : pc[w] = "upsert_index") => file \/ deleted = Sessions

\* All but the first also holds across crashes.
ListedInv ==
  /\ crashes = 0 => RowsAreListed
  /\ ListsStates /\ LoadsListed /\ HealsDeleted /\ FileIsThere

\* A step that writes neither database and starts no upsert, read or heal.
LEMMA ListedFrame ==
  ASSUME TypeOK, ListedInv, crashes' = crashes, row' = row, file' = file, index' = index,
         deleted' = deleted,
         \A v \in Threads :
            \/ pc'[v] = pc[v] /\ args'[v] = args[v] /\ at'[v] = at[v]
            \/ pc[v] # "upsert_index" /\ pc'[v] \notin {"upsert_index", "load", "heal"}
  PROVE  ListedInv'
<1> USE DEF TypeOK, ListedInv, RowsAreListed, Listing, ListsStates, LoadsListed,
            HealsDeleted, FileIsThere, Indexed
<1>1. ASSUME NEW s \in Sessions, Listing(s) PROVE Listing(s)'
  <2>1. PICK v \in Threads : pc[v] = "upsert_index" /\ s \in at[v].s
    BY <1>1
  <2>2. pc'[v] = "upsert_index" /\ s \in at'[v].s
    BY <2>1
  <2>3. QED
    BY <2>2
<1>2. RowsAreListed => RowsAreListed'
  BY <1>1
<1>3. ListsStates' /\ LoadsListed' /\ HealsDeleted'
  OBVIOUS
<1>4. FileIsThere'
  OBVIOUS
<1>5. QED
  BY <1>2, <1>3, <1>4

LEMMA StepKeepsListed == TypeOK /\ Backed /\ ListedInv /\ [Next]_vars => ListedInv'
<1> SUFFICES ASSUME TypeOK, Backed, ListedInv, [Next]_vars PROVE ListedInv'
  OBVIOUS
<1> USE ThreadTypes, StatesAssumption DEF Become, Free, dbVars
<1>1. ASSUME NEW w \in Workers, NEW s \in Sessions, NEW st \in UpsertStates,
             NEW ms \in SUBSET Messages, NEW compacted \in BOOLEAN,
             UpsertRow(w, s, st, ms, compacted)
      PROVE  ListedInv'
  <2> USE DEF TypeOK
  <2>1. /\ crashes' = crashes /\ index' = index /\ deleted' = deleted /\ file' = TRUE
        /\ \A x \in Sessions \ {s} : row'[x] = row[x]
        /\ pc[w] = "idle" /\ pc'[w] = "upsert_index" /\ at'[w].s = {s} /\ at'[w].state \in States
        /\ \A v \in Threads \ {w} : pc'[v] = pc[v] /\ at'[v] = at[v]
        /\ args' = args
    BY <1>1 DEF UpsertRow
  <2>2. RowsAreListed => RowsAreListed'
    BY <2>1 DEF RowsAreListed, Listing, Indexed
  <2>3. ListsStates /\ LoadsListed /\ HealsDeleted => ListsStates' /\ LoadsListed' /\ HealsDeleted'
    <3>1. ListsStates => ListsStates'
      BY <2>1 DEF ListsStates
    <3>2. Indexed' = Indexed
      BY <2>1 DEF Indexed
    <3>3. LoadsListed => LoadsListed'
      BY <2>1, <3>2 DEF LoadsListed
    <3>4. HealsDeleted => HealsDeleted'
      BY <2>1 DEF HealsDeleted
    <3>5. QED
      BY <3>1, <3>3, <3>4
  <2>4. FileIsThere'
    BY <2>1 DEF FileIsThere
  <2>5. QED
    BY <2>1, <2>2, <2>3, <2>4 DEF ListedInv
<1>2. ASSUME NEW w \in Threads, UpsertIndex(w) PROVE ListedInv'
  <2> USE DEF TypeOK
  <2>1. /\ crashes' = crashes /\ deleted' = deleted /\ file' = file /\ row' = row /\ args' = args
        /\ pc[w] = "upsert_index" /\ pc'[w] = "idle"
        /\ \A v \in Threads \ {w} : pc'[v] = pc[v] /\ at'[v] = at[v]
        /\ \A x \in Sessions : index'[x] = IF x \in at[w].s THEN at[w].state ELSE index[x]
    BY <1>2 DEF UpsertIndex
  <2>2. ListsStates => \A x \in Sessions : x \in Indexed \/ x \in at[w].s => x \in Indexed'
    BY <2>1 DEF ListsStates, Indexed, States
  <2>3. RowsAreListed /\ ListsStates => RowsAreListed'
    BY <2>1, <2>2 DEF RowsAreListed, Listing
  <2>4. ListsStates /\ LoadsListed /\ HealsDeleted => ListsStates' /\ LoadsListed' /\ HealsDeleted'
    <3>1. ListsStates => ListsStates'
      BY <2>1 DEF ListsStates
    <3>2. \A v \in Threads : pc'[v] = "load" => v # w /\ pc[v] = "load" /\ args'[v] = args[v]
      BY <2>1
    <3>3. ListsStates /\ HealsDeleted => Indexed \cup deleted \subseteq Indexed' \cup deleted'
      BY <2>1, <2>2 DEF Indexed
    <3>4. ListsStates /\ HealsDeleted /\ LoadsListed => LoadsListed'
      BY <3>2, <3>3 DEF LoadsListed
    <3>5. HealsDeleted => HealsDeleted'
      BY <2>1 DEF HealsDeleted
    <3>6. QED
      BY <3>1, <3>4, <3>5
  <2>5. FileIsThere => FileIsThere'
    BY <2>1 DEF FileIsThere
  <2>6. QED
    BY <2>1, <2>3, <2>4, <2>5 DEF ListedInv
<1>3. ASSUME NEW w \in Threads, Update(w) PROVE ListedInv'
  <2> USE DEF TypeOK
  <2>1. /\ crashes' = crashes /\ deleted' = deleted /\ file' = file /\ index' = index
        /\ args' = args /\ at' = at
        /\ pc[w] = "update" /\ pc'[w] = "mark_index"
        /\ \A v \in Threads \ {w} : pc'[v] = pc[v]
        /\ \A x \in Sessions : row'[x] # NoRow => row[x] # NoRow
    BY <1>3 DEF Update
  <2>2. RowsAreListed => RowsAreListed'
    BY <2>1 DEF RowsAreListed, Listing, Indexed
  <2>3. ListsStates /\ LoadsListed /\ HealsDeleted => ListsStates' /\ LoadsListed' /\ HealsDeleted'
    <3>1. ListsStates => ListsStates'
      BY <2>1 DEF ListsStates
    <3>2. Indexed' = Indexed
      BY <2>1 DEF Indexed
    <3>3. LoadsListed => LoadsListed'
      BY <2>1, <3>2 DEF LoadsListed
    <3>4. HealsDeleted => HealsDeleted'
      BY <2>1 DEF HealsDeleted
    <3>5. QED
      BY <3>1, <3>3, <3>4
  <2>4. FileIsThere => FileIsThere'
    BY <2>1 DEF FileIsThere, Indexed
  <2>5. QED
    BY <2>1, <2>2, <2>3, <2>4 DEF ListedInv
<1>4. ASSUME NEW w \in Threads, MarkIndex(w) PROVE ListedInv'
  <2> USE DEF TypeOK
  <2>1. /\ crashes' = crashes /\ deleted' = deleted /\ file' = file /\ row' = row /\ args' = args
        /\ pc[w] = "mark_index" /\ pc'[w] = "select"
        /\ \A v \in Threads \ {w} : pc'[v] = pc[v] /\ at'[v] = at[v]
    BY <1>4 DEF MarkIndex
  <2>2. Indexed' = Indexed
    BY <1>4 DEF MarkIndex, Indexed
  <2>3. RowsAreListed => RowsAreListed'
    BY <2>1, <2>2 DEF RowsAreListed, Listing
  <2>4. ListsStates /\ LoadsListed /\ HealsDeleted => ListsStates' /\ LoadsListed' /\ HealsDeleted'
    <3>1. ListsStates => ListsStates'
      BY <2>1 DEF ListsStates
    <3>2. \A v \in Threads : pc'[v] = "load" => v # w /\ pc[v] = "load" /\ args'[v] = args[v]
      BY <2>1
    <3>3. ListsStates /\ HealsDeleted => Indexed \cup deleted \subseteq Indexed' \cup deleted'
      BY <2>1, <2>2 DEF Indexed
    <3>4. ListsStates /\ HealsDeleted /\ LoadsListed => LoadsListed'
      BY <3>2, <3>3 DEF LoadsListed
    <3>5. HealsDeleted => HealsDeleted'
      BY <2>1 DEF HealsDeleted
    <3>6. QED
      BY <3>1, <3>4, <3>5
  <2>5. FileIsThere => FileIsThere'
    BY <2>1, <2>2 DEF FileIsThere
  <2>6. QED
    BY <2>1, <2>3, <2>4, <2>5 DEF ListedInv
\* A listed session has its row, and its database a file, unless it was deleted.
<1>5. ASSUME NEW w \in Threads, Load(w) PROVE ListedInv'
  <2> USE DEF TypeOK
  <2>1. /\ crashes' = crashes /\ deleted' = deleted /\ file' = file /\ row' = row
        /\ index' = index /\ at' = at
        /\ pc[w] = "load" /\ pc'[w] \in {"idle", "heal"}
        /\ pc'[w] = "heal" => args' = args /\ ~ \A x \in args[w] : file /\ row[x] # NoRow
        /\ \A v \in Threads \ {w} : pc'[v] = pc[v] /\ args'[v] = args[v]
    BY <1>5 DEF Load
  <2>2. RowsAreListed => RowsAreListed'
    BY <2>1 DEF RowsAreListed, Listing, Indexed
  <2>3. ListsStates /\ LoadsListed => ListsStates' /\ LoadsListed'
    <3>1. \A v \in Threads : pc'[v] \in {"load", "upsert_index"} =>
             v # w /\ pc'[v] = pc[v] /\ args'[v] = args[v]
      BY <2>1
    <3>2. Indexed' = Indexed /\ deleted \subseteq deleted'
      BY <2>1 DEF Indexed
    <3>3. LoadsListed => LoadsListed'
      BY <3>1, <3>2 DEF LoadsListed
    <3>4. ListsStates => ListsStates'
      BY <2>1, <3>1 DEF ListsStates
    <3>5. QED
      BY <3>3, <3>4
  <2>4. LoadsListed /\ FileIsThere /\ pc'[w] = "heal" => args[w] \subseteq deleted
    BY <2>1 DEF LoadsListed, FileIsThere, Backed, IndexBackedByRow
  <2>5. LoadsListed /\ FileIsThere /\ HealsDeleted => HealsDeleted'
    BY <2>1, <2>4 DEF HealsDeleted
  <2>6. FileIsThere => FileIsThere'
    BY <2>1 DEF FileIsThere, Indexed
  <2>7. QED
    BY <2>1, <2>2, <2>3, <2>5, <2>6 DEF ListedInv
<1>6. ASSUME NEW w \in Workers, SweepMissing(w) PROVE ListedInv'
  <2> USE DEF TypeOK
  <2>1. /\ crashes' = crashes /\ deleted' = deleted /\ file' = file /\ row' = row
        /\ index' = index /\ at' = at
        /\ ~file /\ Indexed # {}
        /\ pc[w] = "idle" /\ pc'[w] = "heal" /\ args'[w] = Sessions
        /\ \A v \in Threads \ {w} : pc'[v] = pc[v] /\ args'[v] = args[v]
    BY <1>6 DEF SweepMissing
  <2>2. RowsAreListed => RowsAreListed'
    BY <2>1 DEF RowsAreListed, Listing, Indexed
  <2>3. ListsStates /\ LoadsListed => ListsStates' /\ LoadsListed'
    <3>1. \A v \in Threads : pc'[v] \in {"load", "upsert_index"} =>
             v # w /\ pc'[v] = pc[v] /\ args'[v] = args[v]
      BY <2>1
    <3>2. Indexed' = Indexed /\ deleted \subseteq deleted'
      BY <2>1 DEF Indexed
    <3>3. LoadsListed => LoadsListed'
      BY <3>1, <3>2 DEF LoadsListed
    <3>4. ListsStates => ListsStates'
      BY <2>1, <3>1 DEF ListsStates
    <3>5. QED
      BY <3>3, <3>4
  <2>4. FileIsThere => deleted = Sessions
    BY <2>1 DEF FileIsThere
  <2>5. FileIsThere /\ HealsDeleted => HealsDeleted'
    BY <2>1, <2>4 DEF HealsDeleted
  <2>6. FileIsThere => FileIsThere'
    BY <2>1 DEF FileIsThere, Indexed
  <2>7. QED
    BY <2>1, <2>2, <2>3, <2>5, <2>6 DEF ListedInv
<1>7. ASSUME NEW w \in Threads, Heal(w) PROVE ListedInv'
  <2> USE DEF TypeOK
  <2>1. /\ crashes' = crashes /\ deleted' = deleted /\ file' = file /\ row' = row /\ at' = at
        /\ pc[w] = "heal" /\ pc'[w] = "idle"
        /\ \A v \in Threads \ {w} : pc'[v] = pc[v] /\ args'[v] = args[v]
    BY <1>7 DEF Heal
  <2>2. Indexed' \subseteq Indexed /\ (HealsDeleted => Indexed \subseteq Indexed' \cup deleted)
    BY <1>7 DEF Heal, HealsDeleted, Indexed
  <2>3. RowsAreListed /\ HealsDeleted => RowsAreListed'
    BY <2>1, <2>2 DEF RowsAreListed, Listing
  <2>4. ListsStates /\ LoadsListed /\ HealsDeleted => ListsStates' /\ LoadsListed' /\ HealsDeleted'
    <3>1. ListsStates => ListsStates'
      BY <2>1 DEF ListsStates
    <3>2. \A v \in Threads : pc'[v] = "load" => v # w /\ pc[v] = "load" /\ args'[v] = args[v]
      BY <2>1
    <3>3. ListsStates /\ HealsDeleted => Indexed \cup deleted \subseteq Indexed' \cup deleted'
      BY <2>1, <2>2 DEF Indexed
    <3>4. ListsStates /\ HealsDeleted /\ LoadsListed => LoadsListed'
      BY <3>2, <3>3 DEF LoadsListed
    <3>5. HealsDeleted => HealsDeleted'
      BY <2>1 DEF HealsDeleted
    <3>6. QED
      BY <3>1, <3>4, <3>5
  <2>5. FileIsThere => FileIsThere'
    BY <2>1, <2>2 DEF FileIsThere
  <2>6. QED
    BY <2>1, <2>3, <2>4, <2>5 DEF ListedInv
<1>8. ASSUME NEW w \in Workers, NEW s \in Sessions, DeleteSession(w, s) PROVE ListedInv'
  <2> USE DEF TypeOK
  <2>1. /\ crashes' = crashes /\ deleted' = deleted \cup {s} /\ file' = file /\ row' = row
        /\ index' = index /\ at' = at
        /\ pc[w] = "idle" /\ pc'[w] \in {"delete_row", "heal"} /\ args'[w] = {s}
        /\ \A v \in Threads \ {w} : pc'[v] = pc[v] /\ args'[v] = args[v]
    BY <1>8 DEF DeleteSession
  <2>2. RowsAreListed => RowsAreListed'
    BY <2>1 DEF RowsAreListed, Listing, Indexed
  <2>3. ListsStates /\ LoadsListed => ListsStates' /\ LoadsListed'
    <3>1. \A v \in Threads : pc'[v] \in {"load", "upsert_index"} =>
             v # w /\ pc'[v] = pc[v] /\ args'[v] = args[v]
      BY <2>1
    <3>2. Indexed' = Indexed /\ deleted \subseteq deleted'
      BY <2>1 DEF Indexed
    <3>3. LoadsListed => LoadsListed'
      BY <3>1, <3>2 DEF LoadsListed
    <3>4. ListsStates => ListsStates'
      BY <2>1, <3>1 DEF ListsStates
    <3>5. QED
      BY <3>3, <3>4
  <2>4. HealsDeleted => HealsDeleted'
    BY <2>1 DEF HealsDeleted
  <2>5. FileIsThere => FileIsThere'
    BY <2>1 DEF FileIsThere, Indexed
  <2>6. QED
    BY <2>1, <2>2, <2>3, <2>4, <2>5 DEF ListedInv
<1>9. ASSUME NEW w \in Threads, DeleteRow(w) PROVE ListedInv'
  <2> USE DEF TypeOK
  <2>1. /\ crashes' = crashes /\ deleted' = deleted /\ file' = file /\ index' = index
        /\ at' = at /\ args' = args
        /\ pc[w] = "delete_row" /\ pc'[w] = "heal"
        /\ \A v \in Threads \ {w} : pc'[v] = pc[v]
        /\ \A x \in Sessions : row'[x] # NoRow => row[x] # NoRow
    BY <1>9 DEF DeleteRow
  <2>2. RowsAreListed => RowsAreListed'
    BY <2>1 DEF RowsAreListed, Listing, Indexed
  <2>3. ListsStates /\ LoadsListed /\ HealsDeleted => ListsStates' /\ LoadsListed' /\ HealsDeleted'
    <3>1. \A v \in Threads : pc'[v] # "heal" => v # w /\ pc'[v] = pc[v]
      BY <2>1
    <3>2. Indexed' = Indexed
      BY <2>1 DEF Indexed
    <3>3. LoadsListed => LoadsListed'
      BY <2>1, <3>1, <3>2 DEF LoadsListed
    <3>4. ListsStates => ListsStates'
      BY <2>1, <3>1 DEF ListsStates
    <3>5. HealsDeleted => HealsDeleted'
      BY <2>1 DEF HealsDeleted, Backed, DeletesNamed
    <3>6. QED
      BY <3>3, <3>4, <3>5
  <2>4. FileIsThere => FileIsThere'
    BY <2>1 DEF FileIsThere, Indexed
  <2>5. QED
    BY <2>1, <2>2, <2>3, <2>4 DEF ListedInv
<1>10. ASSUME NEW w \in Threads, DeleteWorkspace(w) \/ RemoveFiles(w) PROVE ListedInv'
  <2> USE DEF TypeOK
  <2>1. /\ crashes' = crashes /\ deleted' = Sessions /\ args' = args /\ at' = at
        /\ (\A x \in Sessions : row'[x] = NoRow) \/ (row' = row /\ file' = file)
        /\ pc[w] # "upsert_index" /\ pc'[w] \in {"idle", "remove_files"}
        /\ \A v \in Threads \ {w} : pc'[v] = pc[v]
    BY <1>10 DEF DeleteWorkspace, RemoveFiles, Backed, DeletesNamed
  <2>2. RowsAreListed' /\ HealsDeleted'
    BY <2>1 DEF RowsAreListed, HealsDeleted
  <2>3. ListsStates => ListsStates'
    BY <2>1 DEF ListsStates
  <2>4. LoadsListed => LoadsListed'
    BY <2>1 DEF LoadsListed
  <2>5. FileIsThere => FileIsThere'
    BY <2>1 DEF FileIsThere
  <2>6. QED
    BY <2>1, <2>2, <2>3, <2>4, <2>5 DEF ListedInv
<1>11. ASSUME NEW w \in Workers, NEW s \in Sessions, GetSession(w, s) PROVE ListedInv'
  <2> USE DEF TypeOK
  <2>1. /\ crashes' = crashes /\ deleted' = deleted /\ file' = file /\ row' = row
        /\ index' = index /\ at' = at
        /\ pc[w] = "idle" /\ pc'[w] = "load" /\ args'[w] = {s} /\ s \in Indexed
        /\ \A v \in Threads \ {w} : pc'[v] = pc[v] /\ args'[v] = args[v]
    BY <1>11 DEF GetSession
  <2>2. RowsAreListed => RowsAreListed'
    BY <2>1 DEF RowsAreListed, Listing, Indexed
  <2>3. ListsStates /\ HealsDeleted => ListsStates' /\ HealsDeleted'
    BY <2>1 DEF ListsStates, HealsDeleted
  <2>4. LoadsListed => LoadsListed'
    <3>1. Indexed' = Indexed
      BY <2>1 DEF Indexed
    <3>2. QED
      BY <2>1, <3>1 DEF LoadsListed
  <2>5. FileIsThere => FileIsThere'
    BY <2>1 DEF FileIsThere, Indexed
  <2>6. QED
    BY <2>1, <2>2, <2>3, <2>4, <2>5 DEF ListedInv
<1>12. ASSUME NEW w \in Threads,
              \/ Marked(w) \/ SweepStale(w)
              \/ \E s \in Sessions : Select(w, s) \/ MarkInterrupted(w, s)
       PROVE  ListedInv'
  <2>1. /\ crashes' = crashes /\ row' = row /\ file' = file /\ index' = index
        /\ deleted' = deleted
        /\ \A v \in Threads :
              \/ pc'[v] = pc[v] /\ args'[v] = args[v] /\ at'[v] = at[v]
              \/ pc[v] # "upsert_index" /\ pc'[v] \notin {"upsert_index", "load", "heal"}
    BY <1>12 DEF Marked, SweepStale, Select, MarkInterrupted, TypeOK
  <2>2. QED
    BY <2>1, ListedFrame
<1>13. CASE Recover \/ (\E s \in Sessions : Idle(s)) \/ UNCHANGED vars
  <2>1. /\ crashes' = crashes /\ row' = row /\ file' = file /\ index' = index
        /\ deleted' = deleted
        /\ \A v \in Threads :
              \/ pc'[v] = pc[v] /\ args'[v] = args[v] /\ at'[v] = at[v]
              \/ pc[v] # "upsert_index" /\ pc'[v] \notin {"upsert_index", "load", "heal"}
    BY <1>13 DEF Recover, Idle, vars, TypeOK
  <2>2. QED
    BY <2>1, ListedFrame
<1>14. CASE Crash
  <2>1. crashes' # 0
    BY <1>14, BoundsAssumption DEF Crash, TypeOK
  <2>2. ListsStates' /\ LoadsListed' /\ HealsDeleted'
    BY <1>14 DEF Crash, ListsStates, LoadsListed, HealsDeleted
  <2>3. FileIsThere => FileIsThere'
    BY <1>14 DEF Crash, FileIsThere, Indexed
  <2>4. QED
    BY <2>1, <2>2, <2>3 DEF ListedInv
<1>15. \A w \in Workers : w \in Threads
  OBVIOUS
<1> HIDE DEF Become, Free, dbVars
<1>16. QED
  BY <1>1, <1>2, <1>3, <1>4, <1>5, <1>6, <1>7, <1>8, <1>9, <1>10, <1>11, <1>12, <1>13, <1>14,
     <1>15 DEF Next, Command, Step

\* Until the owner crashes, a session that was written and not deleted is
\* listed whenever no command is in flight: no read, sweep or delete of
\* another session takes it out of the index.
THEOREM WrittenStaysListed == Spec => []WrittenIsListed
<1> USE ThreadTypes
<1>1. Init => ListedInv
  BY DEF Init, ListedInv, RowsAreListed, ListsStates, LoadsListed, HealsDeleted, FileIsThere,
         Indexed
<1>2. ListedInv => WrittenIsListed
  BY DEF ListedInv, RowsAreListed, Listing, WrittenIsListed
<1>3. QED
  BY <1>1, <1>2, StepKeepsListed, AlwaysBacked, PTL DEF Spec
-----------------------------------------------------------------------------
(* Recovery.  Until the owner serves, its main thread is the only one that *)
(* runs, and each listed session is still before it or no longer running.  *)

\* A session recovery has not dealt with yet.
Pending(s) == s \in args[Boot] \/ (pc[Boot] = "update" /\ s \in at[Boot].s)

Recovering ==
  /\ ~file => \A s \in Sessions : row[s] = NoRow
  /\ serving => pc[Boot] = "idle"
  /\ ~serving => /\ \A w \in Workers : pc[w] = "idle"
                 /\ pc[Boot] \in {"boot", "select", "update", "mark_index"}
                 /\ pc[Boot] # "boot" =>
                      \A s \in Indexed : Pending(s) \/ row[s].state \notin Recoverable

LEMMA StepKeepsRecovering == TypeOK /\ Recovering /\ [Next]_vars => Recovering'
<1> SUFFICES ASSUME TypeOK, Recovering, [Next]_vars PROVE Recovering'
  OBVIOUS
<1> USE ThreadTypes DEF TypeOK, Become, Free, dbVars, Recovering, Indexed, Pending
<1>1. ASSUME NEW w \in Workers, Command(w) PROVE Recovering'
  <2>1. serving /\ serving' /\ pc'[Boot] = pc[Boot] /\ (file => file')
    BY <1>1 DEF Command, SweepStale, SweepMissing, DeleteWorkspace, MarkInterrupted,
                GetSession, DeleteSession, UpsertRow
  <2>2. ~file' => row' = row
    BY <1>1 DEF Command, SweepStale, SweepMissing, DeleteWorkspace, MarkInterrupted,
                GetSession, DeleteSession, UpsertRow
  <2>3. QED
    BY <2>1, <2>2
<1>2. ASSUME NEW w \in Workers, Step(w) PROVE Recovering'
  <2>0. serving /\ w # Boot
    <3>1. pc[w] # "idle"
      BY <1>2 DEF Step, UpsertIndex, Update, MarkIndex, Marked, Load, Heal, DeleteRow,
                  RemoveFiles, Select
    <3>2. QED
      BY <3>1
  <2>1. serving' /\ pc'[Boot] = pc[Boot] /\ (file' => file)
    <3>1. pc'[Boot] = pc[Boot]
      BY <1>2, <2>0 DEF Step, UpsertIndex, Update, MarkIndex, Marked, Load, Heal, DeleteRow,
                        RemoveFiles, Select
    <3>2. serving' = serving \/ serving' = TRUE
      BY <1>2, Zenon DEF Step, UpsertIndex, Update, MarkIndex, Marked, Load, Heal, DeleteRow,
                         RemoveFiles, Select
    <3>3. file' = file \/ file' = FALSE
      BY <1>2, Zenon DEF Step, UpsertIndex, Update, MarkIndex, Marked, Load, Heal, DeleteRow,
                         RemoveFiles, Select
    <3>4. QED
      <4>1. serving = TRUE
        BY <2>0
      <4>2. serving' = TRUE
        BY <3>2, <4>1
      <4>3. file' => file
        <5>1. file' \in {file, FALSE} /\ file \in BOOLEAN
          BY <3>3
        <5>2. QED
          BY <5>1
      <4>4. QED
        BY <3>1, <4>2, <4>3
  <2>2. (\A s \in Sessions : row'[s] = NoRow) \/ file' = file
    BY <1>2 DEF Step, UpsertIndex, Update, MarkIndex, Marked, Load, Heal, DeleteRow,
                RemoveFiles, Select
  <2>3. \A s \in Sessions : row[s] = NoRow => row'[s] = NoRow
    BY <1>2 DEF Step, UpsertIndex, Update, MarkIndex, Marked, Load, Heal, DeleteRow,
                RemoveFiles, Select
  <2>4. QED
    BY <2>0, <2>1, <2>2, <2>3
<1>3. CASE Recover
  BY <1>3 DEF Recover
<1>4. ASSUME NEW s \in Sessions, Select(Boot, s) PROVE Recovering'
  <2>1. CASE file /\ row[s].state \in Recoverable
    BY <1>4, <2>1 DEF Select
  <2>2. CASE ~(file /\ row[s].state \in Recoverable)
    <3>1. row[s].state \notin Recoverable
      BY <2>2 DEF NoRow, Recoverable
    <3>2. QED
      BY <1>4, <2>2, <3>1 DEF Select
  <2>3. QED
    BY <2>1, <2>2
<1>5. CASE Update(Boot)
  <2>1. \A s \in Sessions : row[s] = NoRow => row'[s] = NoRow
    BY <1>5 DEF Update
  <2>2. \A s \in Sessions : row'[s].state \in {row[s].state, "interrupted"}
    <3>1. \A s \in Sessions : row[s] # NoRow => row[s] \in [state : States, recs : SUBSET Messages]
      BY DEF Rows
    <3>2. \A s \in Sessions : row'[s] = row[s] \/
               (row[s] # NoRow /\ row'[s] = [row[s] EXCEPT !.state = "interrupted"])
      BY <1>5 DEF Update
    <3>3. QED
      BY <3>1, <3>2
  <2>3. \A s \in at[Boot].s : s \in Sessions => row'[s].state \notin Recoverable
    <3>1. \A s \in Sessions : row[s] # NoRow => row[s] \in [state : States, recs : SUBSET Messages]
      BY DEF Rows
    <3>2. QED
      BY <1>5, <3>1 DEF Update, Recoverable, NoRow
  <2>4. \A s \in Sessions : row[s].state \notin Recoverable => row'[s].state \notin Recoverable
    BY <2>2 DEF Recoverable
  <2>5. ~serving /\ ~serving' /\ index' = index /\ args' = args /\ file' = file
    BY <1>5 DEF Update
  <2>6. pc[Boot] = "update" /\ pc'[Boot] = "mark_index" /\ \A w \in Workers : pc'[w] = pc[w]
    BY <1>5 DEF Update
  <2>7. QED
    BY <2>1, <2>3, <2>4, <2>5, <2>6
<1>6. CASE MarkIndex(Boot)
  BY <1>6 DEF MarkIndex
<1>7. CASE Marked(Boot)
  BY <1>7 DEF Marked
<1>8. CASE UpsertIndex(Boot) \/ Load(Boot) \/ Heal(Boot) \/ DeleteRow(Boot) \/ RemoveFiles(Boot)
  BY <1>8 DEF UpsertIndex, Load, Heal, DeleteRow, RemoveFiles
<1>9. CASE Crash
  BY <1>9 DEF Crash
<1>10. CASE (\E s \in Sessions : Idle(s)) \/ UNCHANGED vars
  BY <1>10 DEF Idle, vars
<1> HIDE DEF TypeOK, Become, Free, dbVars, Recovering, Indexed, Pending
<1>11. \A w \in Threads : w \in Workers \/ w = Boot
  BY DEF Threads
<1>12. QED
  BY <1>1, <1>2, <1>3, <1>4, <1>5, <1>6, <1>7, <1>8, <1>9, <1>10, <1>11 DEF Next, Step

\* However a crash cut a write between the two databases, a restarted owner
\* serves only after every listed session has stopped being running or paused.
THEOREM RecoveryIsComplete == Spec => NoRunningAfterRecovery
<1> USE ThreadTypes
<1>1. Init => Recovering
  BY DEF Init, Recovering
<1>2. TypeOK /\ Recovering /\ [Next]_vars => Recovering'
  BY StepKeepsRecovering
<1>3. TypeOK /\ Recovering /\ [Next]_vars =>
        [serving' /\ ~serving =>
           \A s \in Sessions : index'[s] # "absent" => row'[s].state \notin Recoverable]_vars
  <2> SUFFICES ASSUME TypeOK, Recovering, Next, serving', ~serving
               PROVE  \A s \in Sessions : index'[s] # "absent" => row'[s].state \notin Recoverable
    BY DEF vars
  <2>1. Marked(Boot)
    <3>1. ASSUME NEW w \in Workers PROVE ~Command(w)
      BY DEF Command, Free, SweepStale, SweepMissing, DeleteWorkspace, MarkInterrupted, GetSession,
             DeleteSession, UpsertRow
    <3>2. ASSUME NEW w \in Threads, Step(w) PROVE Marked(Boot)
      <4>1. w = Boot
        BY <3>2 DEF Recovering, Threads, Step, UpsertIndex, Update, MarkIndex, Marked, Load, Heal,
                    DeleteRow, RemoveFiles, Select
      <4>2. Marked(w)
        BY <3>2 DEF Step, UpsertIndex, Update, MarkIndex, Load, Heal, DeleteRow, RemoveFiles, Select
      <4>3. QED
        BY <4>1, <4>2
    <3>3. ~Recover /\ ~Crash /\ \A s \in Sessions : ~Idle(s)
      BY DEF Recover, Crash, Idle
    <3>4. QED
      BY <3>1, <3>2, <3>3 DEF Next
  <2>2. QED
    BY <2>1 DEF Marked, Recovering, Pending, Indexed, dbVars
<1>4. QED
  BY <1>1, <1>2, <1>3, TypeCorrect, PTL DEF Spec, NoRunningAfterRecovery

-----------------------------------------------------------------------------
(* What readers are promised: the refinement of SessionCatalog.            *)

Kept  == {s \in Sessions : row[s] # NoRow}
Going == {s \in Sessions : row[s].state \in Recoverable}

\* Only the main thread's recovery runs before the store serves.
LEMMA OthersServe ==
  ASSUME TypeOK, Recovering, NEW w \in Threads,
         pc[w] \in {"upsert_index", "load", "heal", "delete_row", "remove_files"}
  PROVE  serving
<1>1. CASE w = Boot
  BY <1>1 DEF Recovering
<1>2. CASE w \in Workers
  BY <1>2 DEF Recovering
<1>3. QED
  BY <1>1, <1>2 DEF Threads

\* Marking changes the state of rows, never whether there is one.
LEMMA UpdateInterrupts ==
  ASSUME TypeOK, NEW w \in Threads, Update(w)
  PROVE  Kept' = Kept /\ Going' = Going \ at[w].s
<1>1. ASSUME NEW s \in Sessions
      PROVE  /\ row'[s] = NoRow <=> row[s] = NoRow
             /\ row'[s].state \in Recoverable <=> row[s].state \in Recoverable /\ s \notin at[w].s
  <2>1. CASE s \in at[w].s /\ row[s] # NoRow
    <3>1. row[s] \in [state : States, recs : SUBSET Messages]
      BY <2>1 DEF TypeOK, Rows
    <3>2. row'[s] = [row[s] EXCEPT !.state = "interrupted"]
      BY <2>1 DEF Update
    <3>3. row'[s].state = "interrupted"
      BY <3>1, <3>2
    <3>4. QED
      BY <2>1, <3>3 DEF NoRow, Recoverable
  <2>2. CASE ~(s \in at[w].s /\ row[s] # NoRow)
    <3>1. row'[s] = row[s]
      BY <2>2 DEF Update
    <3>2. s \in at[w].s => row[s].state \notin Recoverable
      BY <2>2 DEF NoRow, Recoverable
    <3>3. QED
      BY <3>1, <3>2
  <2>3. QED
    BY <2>1, <2>2
<1>2. QED
  BY <1>1 DEF Kept, Going

\* Whatever a thread or a crash does is one step of the catalog, or changes
\* nothing a reader is promised.
LEMMA StepRefinesCatalog ==
  ASSUME TypeOK, Backed, ListedInv, Recovering, [Next]_vars
  PROVE  [Catalog!Next]_(Catalog!vars)
<1> USE ThreadTypes
<1> DEFINE Same == UNCHANGED <<Kept, Going, Indexed, deleted, serving>>
<1>1. Same => UNCHANGED Catalog!vars
  BY Zenon DEF Catalog!vars, Kept, Going
<1>2. row' = row => Kept' = Kept /\ Going' = Going
  BY DEF Kept, Going
<1>3. index' = index => Indexed' = Indexed
  BY DEF Indexed
<1>4. ASSUME NEW w \in Workers, NEW s \in Sessions, NEW st \in UpsertStates,
             NEW ms \in SUBSET Messages, NEW compacted \in BOOLEAN,
             UpsertRow(w, s, st, ms, compacted)
      PROVE  Catalog!Store(s)
  <2>1. /\ serving /\ UNCHANGED <<index, deleted, serving>>
        /\ row'[s].state = st /\ \A x \in Sessions \ {s} : row'[x] = row[x]
    BY <1>4 DEF UpsertRow, Free, TypeOK
  <2>2. row'[s] # NoRow
    BY <2>1, StatesAssumption DEF NoRow, States
  <2>3. Kept' = Kept \cup {s}
    BY <2>1, <2>2 DEF Kept
  <2>4. Going' \in {Going \cup {s}, Going \ {s}}
    <3>1. CASE st \in Recoverable
      BY <2>1, <3>1 DEF Going
    <3>2. CASE st \notin Recoverable
      BY <2>1, <3>2 DEF Going
    <3>3. QED
      BY <3>1, <3>2
  <2>5. QED
    BY <1>3, <2>1, <2>3, <2>4 DEF Catalog!Store, Kept, Going
<1>5. ASSUME NEW w \in Threads, UpsertIndex(w)
      PROVE  \E s \in Sessions : Catalog!List(s)
  <2>1. pc[w] = "upsert_index" /\ UNCHANGED <<row, deleted, serving>>
    BY <1>5 DEF UpsertIndex
  <2>2. PICK s \in Sessions : at[w].s = {s} /\ at[w].state \in States
    BY <2>1 DEF ListedInv, ListsStates
  <2>3. Indexed' = Indexed \cup {s}
    BY <1>5, <2>2 DEF UpsertIndex, Indexed, States
  <2>4. s \in Kept \cup deleted
    BY <2>1, <2>2 DEF Backed, RowWritten, Kept
  <2>5. serving
    BY <2>1, OthersServe
  <2>6. Catalog!List(s)
    BY <1>2, <2>1, <2>3, <2>4, <2>5 DEF Catalog!List, Kept, Going
  <2>7. QED
    BY <2>6
<1>6. ASSUME NEW w \in Threads, Update(w)
      PROVE  \E S \in SUBSET Sessions : Catalog!Interrupt(S)
  <2>1. UNCHANGED <<index, deleted, serving>>
    BY <1>6 DEF Update
  <2>2. PICK S \in SUBSET Sessions : S = at[w].s
    BY DEF TypeOK
  <2>3. Kept' = Kept /\ Going' = Going \ S
    BY <1>6, <2>2, UpdateInterrupts
  <2>4. Catalog!Interrupt(S)
    BY <1>3, <2>1, <2>3 DEF Catalog!Interrupt, Kept, Going
  <2>5. QED
    BY <2>4
<1>7. ASSUME NEW w \in Threads, MarkIndex(w) PROVE Same
  <2>1. Indexed' = Indexed /\ UNCHANGED <<row, deleted, serving>>
    BY <1>7 DEF MarkIndex, Indexed
  <2>2. QED
    BY <1>2, <2>1
<1>8. ASSUME NEW w \in Threads, Marked(w) PROVE Catalog!Open \/ Same
  <2>1. UNCHANGED <<row, index, deleted>> /\ serving' = TRUE /\ pc[w] = "select" /\ args[w] = {}
    BY <1>8 DEF Marked, dbVars
  <2>2. CASE serving
    <3>1. serving' = serving
      BY <2>1, <2>2, Zenon DEF TypeOK
    <3>2. QED
      BY <1>2, <1>3, <2>1, <3>1
  <2>3. CASE ~serving
    <3>1. w = Boot
      BY <2>1, <2>3 DEF Recovering, Threads
    <3>2. Indexed \cap Going = {}
      BY <2>1, <2>3, <3>1 DEF Recovering, Pending, Going
    <3>3. QED
      BY <1>2, <1>3, <2>1, <2>3, <3>2 DEF Catalog!Open, Kept, Going
  <2>4. QED
    BY <2>2, <2>3
<1>9. ASSUME NEW w \in Threads, Heal(w)
      PROVE  \E S \in SUBSET Sessions : Catalog!Unlist(S)
  <2>1. /\ pc[w] = "heal" /\ UNCHANGED <<row, deleted, serving>>
        /\ args[w] \in SUBSET Sessions /\ Indexed' = Indexed \ args[w]
    BY <1>9 DEF Heal, Indexed, TypeOK
  <2>2. serving /\ args[w] \subseteq deleted
    BY <2>1, OthersServe DEF ListedInv, HealsDeleted
  <2>3. Catalog!Unlist(args[w])
    BY <1>2, <2>1, <2>2 DEF Catalog!Unlist, Kept, Going
  <2>4. QED
    BY <2>1, <2>3
<1>10. ASSUME NEW w \in Workers, DeleteWorkspace(w) \/ \E s \in Sessions : DeleteSession(w, s)
       PROVE  \E S \in SUBSET Sessions : Catalog!Name(S)
  <2>1. serving /\ UNCHANGED <<row, serving>>
    BY <1>10 DEF DeleteWorkspace, DeleteSession, Free, dbVars
  <2>2. CASE DeleteWorkspace(w)
    <3>1. deleted' = deleted \cup Sessions /\ Indexed' = Indexed \ Sessions
      BY <2>2 DEF DeleteWorkspace, Indexed, TypeOK
    <3>2. Catalog!Name(Sessions)
      BY <1>2, <2>1, <3>1 DEF Catalog!Name, Kept, Going
    <3>3. QED
      BY <3>2
  <2>3. ASSUME NEW s \in Sessions, DeleteSession(w, s)
        PROVE  \E S \in SUBSET Sessions : Catalog!Name(S)
    <3>1. deleted' = deleted \cup {s} /\ index' = index
      BY <2>3 DEF DeleteSession, dbVars
    <3>2. Catalog!Name({s})
      BY <1>2, <1>3, <2>1, <3>1 DEF Catalog!Name, Kept, Going
    <3>3. QED
      BY <3>2
  <2>4. QED
    BY <1>10, <2>2, <2>3
<1>11. ASSUME NEW w \in Threads, DeleteRow(w) \/ RemoveFiles(w)
       PROVE  \E S \in SUBSET Sessions : Catalog!Remove(S)
  <2>1. UNCHANGED <<index, deleted, serving>> /\ pc[w] \in {"delete_row", "remove_files"}
    BY <1>11 DEF DeleteRow, RemoveFiles
  <2>2. serving
    BY <2>1, OthersServe
  <2>3. NoRow.state \notin Recoverable
    BY DEF NoRow, Recoverable
  <2>4. PICK S \in SUBSET Sessions :
           /\ S \subseteq deleted
           /\ \A s \in Sessions : row'[s] = IF s \in S THEN NoRow ELSE row[s]
    <3>1. CASE DeleteRow(w)
      BY <3>1 DEF DeleteRow, Backed, DeletesNamed, TypeOK
    <3>2. CASE RemoveFiles(w)
      BY <3>2 DEF RemoveFiles, Backed, DeletesNamed
    <3>3. QED
      BY <1>11, <3>1, <3>2
  <2>5. Kept' = Kept \ S /\ Going' = Going \ S
    BY <2>3, <2>4 DEF Kept, Going
  <2>6. Catalog!Remove(S)
    BY <1>3, <2>1, <2>2, <2>4, <2>5 DEF Catalog!Remove, Kept, Going
  <2>7. QED
    BY <2>6
<1>12. ASSUME Crash PROVE Catalog!Crash
  <2>1. UNCHANGED <<row, index, deleted>> /\ serving' = FALSE
    BY <1>12 DEF Crash, dbVars
  <2>2. QED
    BY <1>2, <1>3, <2>1 DEF Catalog!Crash, Kept, Going
<1>13. ASSUME NEW w \in Threads,
              \/ Load(w) \/ SweepStale(w) \/ SweepMissing(w)
              \/ \E s \in Sessions : Select(w, s) \/ MarkInterrupted(w, s) \/ GetSession(w, s)
       PROVE  Same
  <2>1. UNCHANGED <<row, index, deleted, serving>>
    BY <1>13, Zenon DEF Load, SweepStale, SweepMissing, Select, MarkInterrupted, GetSession, dbVars
  <2>2. QED
    BY <1>2, <1>3, <2>1
<1>14. CASE Recover \/ (\E s \in Sessions : Idle(s)) \/ UNCHANGED vars
  <2>1. UNCHANGED <<row, index, deleted, serving>>
    BY <1>14, Zenon DEF Recover, Idle, vars, dbVars
  <2>2. QED
    BY <1>1, <1>2, <1>3, <2>1
<1> HIDE DEF Same
<1>15. QED
  BY <1>1, <1>4, <1>5, <1>6, <1>7, <1>8, <1>9, <1>10, <1>11, <1>12, <1>13, <1>14
     DEF Next, Command, Step, Catalog!Next

LEMMA AlwaysListed == Spec => [](TypeOK /\ Backed /\ ListedInv /\ Recovering)
<1>1. Init => ListedInv /\ Recovering
  BY ThreadTypes DEF Init, ListedInv, RowsAreListed, ListsStates, LoadsListed, HealsDeleted,
                     FileIsThere, Indexed, Recovering
<1>2. QED
  BY <1>1, StepKeepsListed, StepKeepsRecovering, AlwaysBacked, PTL DEF Spec

\* Through crashes, repairs and interleaved commands the store implements the
\* catalog: one set of sessions that only deletes take anything from.
THEOREM ImplementsSessionCatalog == Spec => SessionCatalogSpec
<1>1. Init => Catalog!Init
  BY DEF Init, Catalog!Init, Indexed, NoRow, Recoverable
<1>2. QED
  BY <1>1, StepRefinesCatalog, AlwaysListed, PTL DEF Spec, SessionCatalogSpec, Catalog!Spec

-----------------------------------------------------------------------------
(* What follows for a reader.                                              *)

\* No step, a crash of the owner included, hides a listed session or takes its
\* row, but for sessions a delete has named.
ListedSessionsStay ==
  [][\A s \in Indexed \ deleted' : row[s] # NoRow /\ s \in Indexed' /\ row'[s] # NoRow]_vars

THEOREM ListedAcrossCrashes == Spec => ListedSessionsStay
<1>1. ASSUME TypeOK, Backed, [Catalog!Next]_(Catalog!vars),
             NEW s \in Indexed, s \notin deleted'
      PROVE  row[s] # NoRow /\ s \in Indexed' /\ row'[s] # NoRow
  <2>1. deleted \subseteq deleted' /\ s \in Indexed' /\ (s \in Kept => s \in Kept')
    BY <1>1 DEF Catalog!Next, Catalog!vars, Catalog!Store, Catalog!List, Catalog!Interrupt,
                Catalog!Name, Catalog!Unlist, Catalog!Remove, Catalog!Open, Catalog!Crash, Kept
  <2>2. s \in Kept
    BY <1>1, <2>1 DEF Backed, IndexBackedByRow, Kept, Indexed
  <2>3. QED
    BY <2>1, <2>2 DEF Kept
<1>2. TypeOK /\ Backed /\ [Catalog!Next]_(Catalog!vars) =>
        \A s \in Indexed \ deleted' : row[s] # NoRow /\ s \in Indexed' /\ row'[s] # NoRow
  BY <1>1
<1>3. QED
  BY <1>2, StepRefinesCatalog, AlwaysListed, PTL DEF Spec, ListedSessionsStay
=============================================================================
