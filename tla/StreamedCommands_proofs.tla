----------------------- MODULE StreamedCommands_proofs -----------------------
(***************************************************************************)
(* Proofs about streamed commands, their locks and the run of a call, for  *)
(* any number of commands, steps and faults and any paths a media command  *)
(* reads.                                                                  *)
(***************************************************************************)
EXTENDS StreamedCommands, FiniteSetTheorems, SequenceTheorems, TLAPS

LEMMA PathKeys == \A i \in 1..Len(MediaLocks) : MediaLocks[i] \in Paths /\ MediaLocks[i] # Workspace
BY BoundsAssumption, PathsAssumption

LEMMA MediaLen == Len(MediaLocks) \in Nat /\ Len(MediaLocks) > 0
BY BoundsAssumption

\* What a command locks, by its kind.
LEMMA LocksOfPatch ==
  ASSUME NEW c \in Commands, kind[c] = "patch"
  PROVE  LocksOf(c) = << <<Workspace, "write">> >> /\ Len(LocksOf(c)) = 1
BY DEF LocksOf, Mutating

LEMMA LocksOfMedia ==
  ASSUME NEW c \in Commands, kind[c] = "media"
  PROVE  /\ Len(LocksOf(c)) = Len(MediaLocks)
         /\ \A i \in 1..Len(MediaLocks) : LocksOf(c)[i] = <<MediaLocks[i], "read">>
<1>1. LocksOf(c) = [i \in DOMAIN MediaLocks |-> <<MediaLocks[i], "read">>]
  BY DEF LocksOf, Mutating
<1>2. DOMAIN MediaLocks = 1..Len(MediaLocks)
  BY BoundsAssumption
<1>3. QED
  BY <1>1, <1>2, MediaLen

LEMMA LocksOfLook ==
  ASSUME NEW c \in Commands, kind[c] = "look"
  PROVE  LocksOf(c) = <<>> /\ Len(LocksOf(c)) = 0
BY DEF LocksOf, Mutating
-----------------------------------------------------------------------------
(* Who holds what.                                                         *)

Places == {"none", "locking", "executing", "releasing", "ended"}

\* The shared locks on a key: the command and the place of the lock in its list.
Holds(k) ==
  {x \in Commands \X (1..Len(MediaLocks)) :
     kind[x[1]] = "media" /\ x[2] <= held[x[1]] /\ MediaLocks[x[2]] = k}

LockTypes ==
  /\ kind \in [Commands -> Kinds] /\ exec \in [Commands -> Places]
  /\ held \in [Commands -> Nat]
  /\ readers \in [Keys -> Nat] /\ writers \subseteq {Workspace}

\* No command holds more than its locks, one that executes holds all of them.
HoldsItsLocks ==
  \A c \in Commands : /\ held[c] <= Len(LocksOf(c))
                      /\ exec[c] = "executing" => held[c] = Len(LocksOf(c))

\* The lock table counts the holders.
ReadersCounted == \A k \in Keys : readers[k] = Cardinality(Holds(k))

\* A writer of the workspace is the only holder.
WriterAlone ==
  \A c \in Commands :
    kind[c] = "patch" /\ held[c] > 0
      => /\ Workspace \in writers
         /\ \A d \in Commands : d # c => held[d] = 0

LockInv == LockTypes /\ HoldsItsLocks /\ ReadersCounted /\ WriterAlone

LEMMA HoldsFinite == \A k : IsFiniteSet(Holds(k))
<1>1. IsFiniteSet(Commands) /\ IsFiniteSet(1..Len(MediaLocks))
  BY FS_Interval, BoundsAssumption, MediaLen DEF Commands
<1>2. IsFiniteSet(Commands \X (1..Len(MediaLocks)))
  BY <1>1, FS_Product
<1>3. QED
  BY <1>2, FS_Subset DEF Holds

\* A step that takes and drops no lock keeps the invariant.
LEMMA LocksUntouched ==
  ASSUME LockInv, UNCHANGED <<kind, held, readers, writers>>, exec' \in [Commands -> Places],
         \A c \in Commands : exec'[c] = "executing" => exec[c] = "executing"
  PROVE  LockInv'
<1>1. \A c : LocksOf(c)' = LocksOf(c)
  BY DEF LocksOf, Mutating
<1>2. \A k : Holds(k)' = Holds(k)
  BY DEF Holds
<1>3. HoldsItsLocks'
  BY <1>1 DEF LockInv, HoldsItsLocks
<1>4. ReadersCounted'
  BY <1>2 DEF LockInv, ReadersCounted
<1>5. QED
  BY <1>3, <1>4 DEF LockInv, LockTypes, WriterAlone

\* No reader is counted, no media command holds anything.
LEMMA NoReaders ==
  ASSUME LockInv, \A k \in Keys : readers[k] = 0, NEW c \in Commands, kind[c] = "media"
  PROVE  held[c] = 0
<1> SUFFICES ASSUME held[c] # 0 PROVE FALSE
  OBVIOUS
<1>1. held[c] >= 1
  BY DEF LockInv, LockTypes
<1>2. <<c, 1>> \in Holds(MediaLocks[1])
  BY <1>1, MediaLen DEF Holds
<1>3. MediaLocks[1] \in Keys
  BY PathKeys, MediaLen DEF Keys
<1>4. Cardinality(Holds(MediaLocks[1])) = 0
  BY <1>3 DEF LockInv, ReadersCounted
<1>5. QED
  BY <1>2, <1>4, HoldsFinite, FS_EmptySet
LEMMA KindOf == LockTypes => \A c \in Commands : kind[c] \in {"patch", "media", "look"}
BY DEF LockTypes, Kinds

\* Taking a lock.
LEMMA TakeKeepsLocks ==
  ASSUME LockInv, NEW c \in Commands, TakeLock(c)
  PROVE  LockInv'
<1> USE DEF LockInv
<1>1. /\ held[c] < Len(LocksOf(c)) /\ UNCHANGED kind
      /\ held' = [held EXCEPT ![c] = @ + 1] /\ exec[c] = "locking"
      /\ exec' = [exec EXCEPT ![c] = IF held'[c] = Len(LocksOf(c)) THEN "executing" ELSE @]
  BY DEF TakeLock, constants
<1>2. held' \in [Commands -> Nat] /\ exec' \in [Commands -> Places] /\ held'[c] = held[c] + 1
      /\ \A d \in Commands : d # c => held'[d] = held[d] /\ exec'[d] = exec[d]
  BY <1>1 DEF LockTypes, Places
<1>3. \A d : LocksOf(d)' = LocksOf(d)
  BY <1>1 DEF LocksOf, Mutating
<1>4. Len(LocksOf(c)) \in Nat
  BY KindOf, LocksOfPatch, LocksOfMedia, LocksOfLook, MediaLen
<1>5. HoldsItsLocks'
  <2>1. held'[c] <= Len(LocksOf(c))
    BY <1>1, <1>2, <1>4 DEF LockTypes
  <2>2. exec'[c] = "executing" => held'[c] = Len(LocksOf(c))
    BY <1>1 DEF LockTypes
  <2>3. QED
    BY <1>2, <1>3, <2>1, <2>2 DEF HoldsItsLocks
<1>6. CASE kind[c] = "patch"
  <2>1. held[c] = 0 /\ Acquire(Workspace, "write")
    BY <1>1, <1>6, LocksOfPatch DEF TakeLock, LockTypes
  <2>2. /\ writers = {} /\ \A k \in Keys : readers[k] = 0
        /\ writers' = {Workspace} /\ readers' = readers
    BY <2>1 DEF Acquire, CanAcquire
  <2>3. \A d \in Commands : held[d] = 0
    <3> SUFFICES ASSUME NEW d \in Commands PROVE held[d] = 0
      OBVIOUS
    <3>1. CASE kind[d] = "patch"
      BY <3>1, <2>2 DEF WriterAlone, LockTypes
    <3>2. CASE kind[d] = "media"
      BY <3>2, <2>2, NoReaders
    <3>3. CASE kind[d] = "look"
      BY <3>3, LocksOfLook DEF HoldsItsLocks, LockTypes
    <3>4. QED
      BY <3>1, <3>2, <3>3, KindOf
  <2>4. \A k : Holds(k)' = Holds(k)
    BY <1>1, <1>2, <1>6 DEF Holds
  <2>5. ReadersCounted'
    BY <2>2, <2>4 DEF ReadersCounted
  <2>6. WriterAlone'
    BY <1>1, <1>2, <2>2, <2>3 DEF WriterAlone
  <2>7. QED
    BY <1>1, <1>2, <1>5, <2>2, <2>5, <2>6 DEF LockTypes
<1>7. CASE kind[c] = "media"
  <2>i. PICK i \in 1..Len(MediaLocks) : i = held[c] + 1
    BY <1>1, <1>7, LocksOfMedia, MediaLen DEF LockTypes
  <2>k. PICK key \in Keys : key = MediaLocks[i] /\ key # Workspace
    BY PathKeys DEF Keys
  <2>1. i = held[c] + 1 /\ i \in 1..Len(MediaLocks) /\ key = MediaLocks[i] /\ key \in Keys /\ key # Workspace
    BY <2>i, <2>k
  <2>2. Acquire(key, "read")
    BY <1>1, <1>7, <2>1, LocksOfMedia DEF TakeLock
  <2>3. /\ Workspace \notin writers /\ writers' = writers
        /\ readers' = [readers EXCEPT ![key] = @ + 1]
    BY <2>1, <2>2 DEF Acquire, CanAcquire
  <2>4. Holds(key)' = Holds(key) \cup {<<c, i>>} /\ <<c, i>> \notin Holds(key)
    <3>1. <<c, i>> \notin Holds(key)
      BY <2>1 DEF Holds, LockTypes
    <3>2. \A x \in Commands \X (1..Len(MediaLocks)) :
             x \in Holds(key)' <=> x \in Holds(key) \/ x = <<c, i>>
      <4> SUFFICES ASSUME NEW d \in Commands, NEW n \in 1..Len(MediaLocks)
                   PROVE  <<d, n>> \in Holds(key)' <=> <<d, n>> \in Holds(key) \/ <<d, n>> = <<c, i>>
        OBVIOUS
      <4>1. CASE d = c
        BY <4>1, <2>1, <1>1, <1>2, <1>7 DEF Holds, LockTypes
      <4>2. CASE d # c
        BY <4>2, <2>1, <1>1, <1>2 DEF Holds
      <4>3. QED
        BY <4>1, <4>2
    <3>3. QED
      BY <3>1, <3>2, <2>1 DEF Holds
  <2>5. \A k : k # key => Holds(k)' = Holds(k)
    <3> SUFFICES ASSUME NEW k, k # key, NEW d \in Commands, NEW n \in 1..Len(MediaLocks)
                 PROVE  <<d, n>> \in Holds(k)' <=> <<d, n>> \in Holds(k)
      BY DEF Holds
    <3>1. CASE d = c
      BY <3>1, <2>1, <1>1, <1>2 DEF Holds, LockTypes
    <3>2. CASE d # c
      BY <3>2, <1>1, <1>2 DEF Holds
    <3>3. QED
      BY <3>1, <3>2
  <2>6. ReadersCounted'
    <3>1. Cardinality(Holds(key)') = Cardinality(Holds(key)) + 1
      BY <2>4, HoldsFinite, FS_AddElement
    <3>2. QED
      BY <3>1, <2>1, <2>3, <2>5 DEF ReadersCounted, LockTypes
  <2>7. WriterAlone'
    BY <1>1, <1>2, <1>7, <2>3 DEF WriterAlone, LockTypes
  <2>8. LockTypes'
    <3>1. readers' \in [Keys -> Nat]
      BY <2>1, <2>3 DEF LockTypes
    <3>2. QED
      BY <3>1, <1>1, <1>2, <2>3 DEF LockTypes
  <2>9. QED
    BY <1>5, <2>6, <2>7, <2>8
<1>8. CASE kind[c] = "look"
  BY <1>8, <1>1, LocksOfLook DEF LockTypes
<1>9. QED
  BY <1>6, <1>7, <1>8, KindOf

\* Dropping a lock.
LEMMA DropKeepsLocks ==
  ASSUME LockInv, NEW c \in Commands, DropLock(c)
  PROVE  LockInv'
<1> USE DEF LockInv
<1>1. /\ held[c] > 0 /\ UNCHANGED kind
      /\ held' = [held EXCEPT ![c] = @ - 1]
      /\ \/ exec' = [exec EXCEPT ![c] = "releasing"]
         \/ exec' = [exec EXCEPT ![c] = "ended"]
  BY DEF DropLock, Respond, constants
<1>2. held' \in [Commands -> Nat] /\ exec' \in [Commands -> Places] /\ held'[c] = held[c] - 1
      /\ exec'[c] # "executing"
      /\ \A d \in Commands : d # c => held'[d] = held[d] /\ exec'[d] = exec[d]
  BY <1>1 DEF LockTypes, Places
<1>3. \A d : LocksOf(d)' = LocksOf(d)
  BY <1>1 DEF LocksOf, Mutating
<1>4. Len(LocksOf(c)) \in Nat
  BY KindOf, LocksOfPatch, LocksOfMedia, LocksOfLook, MediaLen
<1>5. HoldsItsLocks'
  <2>1. held'[c] <= Len(LocksOf(c))
    BY <1>1, <1>2, <1>4 DEF HoldsItsLocks, LockTypes
  <2>2. QED
    BY <1>2, <1>3, <2>1 DEF HoldsItsLocks
<1>6. CASE kind[c] = "patch"
  <2>1. held[c] = 1 /\ Release(Workspace, "write")
    BY <1>1, <1>6, LocksOfPatch DEF DropLock, LockTypes, HoldsItsLocks
  <2>2. writers' = writers \ {Workspace} /\ readers' = readers
    BY <2>1 DEF Release
  <2>3. \A d \in Commands : held'[d] = 0
    BY <1>1, <1>2, <1>6, <2>1 DEF WriterAlone, LockTypes
  <2>4. \A k : Holds(k)' = Holds(k)
    BY <1>1, <1>2, <1>6 DEF Holds
  <2>5. ReadersCounted'
    BY <2>2, <2>4 DEF ReadersCounted
  <2>6. WriterAlone'
    BY <2>3 DEF WriterAlone
  <2>7. QED
    BY <1>1, <1>2, <1>5, <2>2, <2>5, <2>6 DEF LockTypes
<1>7. CASE kind[c] = "media"
  <2>i. PICK i \in 1..Len(MediaLocks) : i = held[c]
    BY <1>1, <1>7, LocksOfMedia, MediaLen DEF LockTypes, HoldsItsLocks
  <2>k. PICK key \in Keys : key = MediaLocks[i] /\ key # Workspace
    BY PathKeys DEF Keys
  <2>1. i = held[c] /\ i \in 1..Len(MediaLocks) /\ key = MediaLocks[i] /\ key \in Keys /\ key # Workspace
    BY <2>i, <2>k
  <2>2. Release(key, "read")
    BY <1>1, <1>7, <2>1, LocksOfMedia DEF DropLock
  <2>3. writers' = writers /\ readers' = [readers EXCEPT ![key] = @ - 1]
    BY <2>2 DEF Release
  <2>4. Holds(key)' = Holds(key) \ {<<c, i>>} /\ <<c, i>> \in Holds(key)
    <3>1. <<c, i>> \in Holds(key)
      BY <2>1, <1>7 DEF Holds, LockTypes
    <3>2. \A x \in Commands \X (1..Len(MediaLocks)) :
             x \in Holds(key)' <=> x \in Holds(key) /\ x # <<c, i>>
      <4> SUFFICES ASSUME NEW d \in Commands, NEW n \in 1..Len(MediaLocks)
                   PROVE  <<d, n>> \in Holds(key)' <=> <<d, n>> \in Holds(key) /\ <<d, n>> # <<c, i>>
        OBVIOUS
      <4>1. CASE d = c
        BY <4>1, <2>1, <1>1, <1>2, <1>7 DEF Holds, LockTypes
      <4>2. CASE d # c
        BY <4>2, <2>1, <1>1, <1>2 DEF Holds
      <4>3. QED
        BY <4>1, <4>2
    <3>3. QED
      BY <3>1, <3>2, <2>1 DEF Holds
  <2>5. \A k : k # key => Holds(k)' = Holds(k)
    <3> SUFFICES ASSUME NEW k, k # key, NEW d \in Commands, NEW n \in 1..Len(MediaLocks)
                 PROVE  <<d, n>> \in Holds(k)' <=> <<d, n>> \in Holds(k)
      BY DEF Holds
    <3>1. CASE d = c
      BY <3>1, <2>1, <1>1, <1>2 DEF Holds, LockTypes
    <3>2. CASE d # c
      BY <3>2, <1>1, <1>2 DEF Holds
    <3>3. QED
      BY <3>1, <3>2
  <2>6. /\ Cardinality(Holds(key)') = Cardinality(Holds(key)) - 1
        /\ Cardinality(Holds(key)') \in Nat
    <3>1. IsFiniteSet(Holds(key)')
      BY <2>4, HoldsFinite, FS_RemoveElement
    <3>2. QED
      BY <3>1, <2>4, HoldsFinite, FS_RemoveElement, FS_CardinalityType
  <2>7. ReadersCounted'
    BY <2>6, <2>1, <2>3, <2>5 DEF ReadersCounted, LockTypes
  <2>8. WriterAlone'
    BY <1>1, <1>2, <1>7, <2>3 DEF WriterAlone, LockTypes
  <2>9. readers' \in [Keys -> Nat]
    BY <2>1, <2>3, <2>6 DEF ReadersCounted, LockTypes
  <2>10. LockTypes'
    BY <2>9, <1>1, <1>2, <2>3 DEF LockTypes
  <2>11. QED
    BY <1>5, <2>7, <2>8, <2>10
<1>8. CASE kind[c] = "look"
  BY <1>8, <1>1, LocksOfLook DEF HoldsItsLocks, LockTypes
<1>9. QED
  BY <1>6, <1>7, <1>8, KindOf

-----------------------------------------------------------------------------
(* The theorem.                                                            *)

LEMMA LocksInitially == Init => LockInv
<1> SUFFICES ASSUME Init PROVE LockInv
  OBVIOUS
<1>1. LockTypes
  BY DEF Init, LocksInit, LockTypes, Places
<1>2. \A c \in Commands : held[c] = 0 /\ exec[c] = "none"
  BY DEF Init
<1>3. HoldsItsLocks
  BY <1>1, <1>2, KindOf, LocksOfPatch, LocksOfMedia, LocksOfLook, MediaLen DEF HoldsItsLocks
<1>4. \A k : Holds(k) = {}
  BY <1>2 DEF Holds
<1>5. ReadersCounted
  BY <1>4, FS_EmptySet DEF Init, LocksInit, ReadersCounted
<1>6. WriterAlone
  BY <1>2 DEF WriterAlone
<1>7. QED
  BY <1>1, <1>3, <1>5, <1>6 DEF LockInv

\* Starting commands takes no lock.
LEMMA StartTypes ==
  ASSUME LockInv, NEW S, Start(S)
  PROVE  /\ exec' \in [Commands -> Places] /\ UNCHANGED <<held, readers, writers>>
         /\ \A c \in Commands : exec'[c] = "executing" => exec[c] = "executing"
BY DEF Start, LockInv, LockTypes, Places, locks

LEMMA StepKeepsLocks == LockInv /\ [Next]_vars => LockInv'
<1> SUFFICES ASSUME LockInv, [Next]_vars PROVE LockInv'
  OBVIOUS
<1> USE DEF constants, locks, routerVars
<1>t. exec \in [Commands -> Places]
  BY DEF LockInv, LockTypes
<1>1. CASE Caller
  BY <1>1, <1>t, LocksUntouched DEF Caller, StreamCommand, ProviderAnswers, ProviderFails, CancelTick,
     DiscardTick, Join, Leave
<1>2. CASE TakeCompletion \/ StreamCloses
  BY <1>2, <1>t, LocksUntouched DEF TakeCompletion, StreamCloses
<1>3. CASE Schedule
  <2>1. Start(Ready) /\ UNCHANGED kind
    BY <1>3 DEF Schedule
  <2>2. QED
    BY <2>1, StartTypes, LocksUntouched
<1>4. CASE ReadEvent
  <2>1. UNCHANGED kind /\ \E S : Start(S)
    BY <1>4 DEF ReadEvent
  <2>2. QED
    BY <2>1, StartTypes, LocksUntouched
<1>5. ASSUME NEW c \in Commands, Router(c) PROVE LockInv'
  <2>1. CASE ExecuteUnlocked(c)
    <3>1. /\ UNCHANGED <<kind, held, readers, writers>> /\ LocksOf(c) = <<>>
          /\ exec' = [exec EXCEPT ![c] = "executing"]
      BY <2>1 DEF ExecuteUnlocked
    <3>2. \A d : LocksOf(d)' = LocksOf(d)
      BY <3>1 DEF LocksOf, Mutating
    <3>3. \A k : Holds(k)' = Holds(k)
      BY <3>1 DEF Holds
    <3>4. held[c] = Len(LocksOf(c))
      BY <3>1 DEF LockInv, HoldsItsLocks, LockTypes
    <3>5. HoldsItsLocks'
      BY <3>1, <3>2, <3>4, <1>t DEF LockInv, HoldsItsLocks
    <3>6. LockTypes'
      BY <3>1 DEF LockInv, LockTypes, Places
    <3>7. ReadersCounted' /\ WriterAlone'
      BY <3>1, <3>3 DEF LockInv, ReadersCounted, WriterAlone
    <3>8. QED
      BY <3>5, <3>6, <3>7 DEF LockInv
  <2>2. CASE CompleteUnlocked(c)
    <3>1. /\ UNCHANGED <<kind, held, readers, writers>>
          /\ exec' = [exec EXCEPT ![c] = "ended"]
      BY <2>2 DEF CompleteUnlocked, Respond
    <3>2. QED
      BY <3>1, <1>t, LocksUntouched DEF Places
  <2>3. QED
    BY <1>5, <2>1, <2>2, TakeKeepsLocks, DropKeepsLocks DEF Router
<1>6. ASSUME NEW c \in Commands, Refuse(c) PROVE LockInv'
  <2>1. UNCHANGED <<kind, held, readers, writers>> /\ exec' = [exec EXCEPT ![c] = "ended"]
    BY <1>6 DEF Refuse
  <2>2. QED
    BY <2>1, <1>t, LocksUntouched DEF Places
<1>7. ASSUME NEW c \in Commands, GiveUp(c) PROVE LockInv'
  BY <1>7, <1>t, LocksUntouched DEF GiveUp
<1>8. CASE UNCHANGED vars
  BY <1>8, <1>t, LocksUntouched DEF vars
<1>9. QED
  BY <1>1, <1>2, <1>3, <1>4, <1>5, <1>6, <1>7, <1>8 DEF Next, Thread

\* While a mutating command executes, no other command that locks anything does,
\* whatever the runtime has given up on.
THEOREM MutatorsExcludeOthers == Spec => []MutatorsExclude
<1>1. LockInv => MutatorsExclude
  <2> SUFFICES ASSUME LockInv, NEW c \in Commands, NEW d \in Commands,
                      c # d, Mutating(c), Executing(c), Executing(d), kind[d] # "look"
               PROVE  FALSE
    BY DEF MutatorsExclude
  <2> USE DEF LockInv, HoldsItsLocks, Executing
  <2>1. held[c] = 1
    BY LocksOfPatch DEF Mutating
  <2>2. held[d] = 0
    BY <2>1 DEF WriterAlone, Mutating
  <2>a. held[d] = Len(LocksOf(d))
    OBVIOUS
  <2>3. CASE kind[d] = "patch"
    <3>1. Len(LocksOf(d)) = 1
      BY <2>3, LocksOfPatch
    <3>2. QED
      BY <2>2, <2>a, <3>1
  <2>4. CASE kind[d] = "media"
    BY <2>2, <2>4, LocksOfMedia, MediaLen
  <2>5. QED
    BY <2>3, <2>4, KindOf
<1>2. QED
  BY <1>1, LocksInitially, StepKeepsLocks, PTL DEF Spec

-----------------------------------------------------------------------------
(* The run of the commands.  Each command is started at most once, is told *)
(* of once, through the channel, and is recorded once; what is running is  *)
(* what was started and is not recorded yet.                               *)

Started == {c \in Commands : runs[c] > 0}
Told    == {c \in Commands : answer[c] # "none"}

RunTypes ==
  /\ step \in [Commands -> Steps] /\ requireStartup \in BOOLEAN
  /\ turn \in {"streaming", "joining", "returned"}
  /\ outcome \in {"none", "success", "failed", "cancelled", "discarded"}
  /\ output \subseteq Commands /\ sent \in 0..NCommands
  /\ stream \in Seq(Commands) /\ streamOpen \in BOOLEAN
  /\ stage \in {"drain", "poll", "finished"} /\ receiverOpen \in BOOLEAN
  /\ active \in 0..MaxStep
  /\ pending \subseteq Commands /\ known \subseteq Commands
  /\ channel \in Seq(Commands) /\ results \subseteq Commands
  /\ cancelled \in BOOLEAN /\ discarded \in BOOLEAN /\ discardComplete \in BOOLEAN
  /\ answer \in [Commands -> {"none", "told", "halted"}]
  /\ faults \in 0..MaxFaults /\ runs \in [Commands -> {0, 1}]

\* A command is at the router as soon as it is started.
AtRouter == \A c \in Commands : runs[c] = 0 <=> exec[c] = "none"

\* Nothing is started that is not remembered, and until the run is given up
\* everything remembered is started or waits for its step.
Remembered ==
  /\ Started \subseteq known /\ pending \subseteq known
  /\ pending \cap Started = {}
  /\ ~StopAccepting => known \subseteq Started \cup pending

\* What the thread has still to hear of is in the channel, once.
Entries(q)  == {q[i] : i \in 1..Len(q)}
Distinct(q) == \A i, j \in 1..Len(q) : q[i] = q[j] => i = j

Completions ==
  /\ Distinct(channel) /\ Entries(channel) = Told \ results
  /\ results \subseteq Told /\ Told \subseteq Started
  /\ \A c \in Commands : exec[c] = "ended" => c \in Told

Counted == running = Cardinality(Started \ results)

\* The active step is that of a command that was started.
ActiveIsStarted ==
  /\ active = 0 => Started = {}
  /\ active # 0 => \E c \in Started : step[c] = active

\* The thread leaves its loop with nothing running and nothing pending.
Ended == stage = "finished" => ~receiverOpen /\ Started \subseteq results /\ pending = {}

\* The answer's commands are known or still to be read; the receiver closes
\* only on an empty stream, unless the run is given up.
Delivered ==
  /\ turn = "streaming" <=> streamOpen
  /\ ~receiverOpen /\ ~StopAccepting => stream = <<>> /\ ~streamOpen
  /\ outcome = "success" => ~streamOpen
  /\ outcome = "success" /\ ~StopAccepting => Commands \subseteq known \cup Entries(stream)

Returned ==
  turn = "returned" => stage = "finished" /\ (outcome = "success" => output = results)

\* Without a fault, the router has ended what the runtime was told of.
ToldEnded == faults = 0 => \A c \in Told : exec[c] = "ended"

RunInv == /\ RunTypes /\ AtRouter /\ Remembered /\ Completions /\ Counted
          /\ ActiveIsStarted /\ Ended /\ Delivered /\ Returned /\ ToldEnded

\* What is in a queue, as it grows and shrinks.
LEMMA EntriesOfAppend ==
  ASSUME NEW S, NEW q \in Seq(S), NEW t \in S
  PROVE  /\ Append(q, t) \in Seq(S)
         /\ Entries(Append(q, t)) = Entries(q) \cup {t}
         /\ Distinct(q) /\ t \notin Entries(q) => Distinct(Append(q, t))
<1> DEFINE r == Append(q, t)
<1>1. /\ r \in Seq(S) /\ Len(q) \in Nat /\ Len(r) = Len(q) + 1 /\ r[Len(q) + 1] = t
      /\ \A i \in 1..Len(q) : r[i] = q[i]
  OBVIOUS
<1> HIDE DEF r
<1>2. /\ \A i \in 1..Len(r) : i \in 1..Len(q) \/ i = Len(q) + 1
      /\ \A i \in 1..Len(q) : i \in 1..Len(r)
      /\ Len(q) + 1 \in 1..Len(r)
  BY <1>1
<1>3. Entries(r) = Entries(q) \cup {t}
  <2>1. \A x \in Entries(r) : x \in Entries(q) \/ x = t
    BY <1>1, <1>2 DEF Entries
  <2>2. t \in Entries(r) /\ \A x \in Entries(q) : x \in Entries(r)
    <3>1. t \in Entries(r)
      BY <1>1, <1>2 DEF Entries
    <3>2. ASSUME NEW i \in 1..Len(q) PROVE q[i] \in Entries(r)
      BY <1>1, <1>2 DEF Entries
    <3>3. QED
      BY <3>1, <3>2 DEF Entries
  <2>3. QED
    BY <2>1, <2>2
<1>4. ASSUME Distinct(q), t \notin Entries(q) PROVE Distinct(r)
  <2>1. \A i \in 1..Len(q) : q[i] # t
    BY <1>4 DEF Entries
  <2>2. QED
    BY <1>1, <1>2, <1>4, <2>1 DEF Distinct
<1>5. QED
  BY <1>1, <1>3, <1>4 DEF r

LEMMA EntriesOfTail ==
  ASSUME NEW S, NEW q \in Seq(S), q # <<>>
  PROVE  /\ Tail(q) \in Seq(S) /\ Head(q) \in Entries(q)
         /\ Entries(q) = Entries(Tail(q)) \cup {Head(q)}
         /\ Distinct(q) => Distinct(Tail(q)) /\ Head(q) \notin Entries(Tail(q))
<1> DEFINE r == Tail(q)
<1>1. /\ r \in Seq(S) /\ Len(q) \in Nat /\ Len(q) > 0 /\ Head(q) = q[1]
      /\ Len(r) = Len(q) - 1
      /\ \A i \in 1..(Len(q) - 1) : r[i] = q[i + 1]
  OBVIOUS
<1> HIDE DEF r
<1>2. /\ 1 \in 1..Len(q)
      /\ \A i \in 1..Len(r) : i + 1 \in 1..Len(q) /\ i + 1 # 1 /\ r[i] = q[i + 1]
      /\ \A i \in 1..Len(q) : i # 1 => i - 1 \in 1..Len(r) /\ r[i - 1] = q[i]
  <2>1. \A i \in 1..Len(r) : i + 1 \in 1..Len(q) /\ i + 1 # 1 /\ r[i] = q[i + 1]
    BY <1>1
  <2>2. ASSUME NEW i \in 1..Len(q), i # 1 PROVE i - 1 \in 1..Len(r) /\ r[i - 1] = q[i]
    <3>1. i - 1 \in 1..(Len(q) - 1) /\ (i - 1) + 1 = i
      BY <1>1, <2>2
    <3>2. QED
      BY <1>1, <3>1
  <2>3. 1 \in 1..Len(q)
    BY <1>1
  <2>4. QED
    BY <2>1, <2>2, <2>3
<1>3. Head(q) \in Entries(q)
  BY <1>1, <1>2 DEF Entries
<1>4. Entries(q) = Entries(r) \cup {Head(q)}
  <2>1. ASSUME NEW x, x \in Entries(q) PROVE x \in Entries(r) \/ x = Head(q)
    <3>1. PICK i \in 1..Len(q) : q[i] = x
      BY <2>1 DEF Entries
    <3>2. QED
      BY <1>1, <1>2, <3>1 DEF Entries
  <2>2. ASSUME NEW x, x \in Entries(r) PROVE x \in Entries(q)
    <3>1. PICK i \in 1..Len(r) : r[i] = x
      BY <1>1, <2>2 DEF Entries
    <3>2. QED
      BY <1>2, <3>1 DEF Entries
  <2>3. QED
    BY <1>3, <2>1, <2>2
<1>5. ASSUME Distinct(q) PROVE Distinct(r) /\ Head(q) \notin Entries(r)
  <2>1. \A i, j \in 1..Len(r) : r[i] = r[j] => i + 1 = j + 1
    BY <1>2, <1>5 DEF Distinct
  <2>2. Distinct(r)
    BY <1>1, <2>1 DEF Distinct
  <2>3. \A i \in 1..Len(r) : r[i] # q[1]
    BY <1>2, <1>5 DEF Distinct
  <2>4. QED
    BY <1>1, <2>2, <2>3 DEF Entries
<1>6. QED
  BY <1>1, <1>3, <1>4, <1>5 DEF r

\* The complete answer, sent behind what was streamed.
LEMMA EntriesOfAnswer ==
  ASSUME NEW q \in Seq(Commands)
  PROVE  /\ q \o [c \in Commands |-> c] \in Seq(Commands)
         /\ Commands \subseteq Entries(q \o [c \in Commands |-> c])
<1> DEFINE all == [c \in Commands |-> c]
<1>1. all \in Seq(Commands) /\ Len(all) = NCommands /\ \A c \in Commands : all[c] = c
  BY BoundsAssumption DEF Commands
<1> HIDE DEF all
<1>2. /\ q \o all \in Seq(Commands)
      /\ Len(q \o all) = Len(q) + Len(all)
      /\ \A i \in 1..(Len(q) + Len(all)) : (q \o all)[i] =
            IF i <= Len(q) THEN q[i] ELSE all[i - Len(q)]
  BY <1>1, ConcatProperties
<1>3. ASSUME NEW c \in Commands PROVE c \in Entries(q \o all)
  <2>1. Len(q) \in Nat /\ c \in 1..NCommands /\ NCommands \in Nat
    BY BoundsAssumption DEF Commands
  <2>2. Len(q) + c \in 1..Len(q \o all) /\ (q \o all)[Len(q) + c] = c
    BY <1>1, <1>2, <2>1
  <2>3. QED
    BY <1>2, <2>2 DEF Entries
<1>4. QED
  BY <1>2, <1>3 DEF all

\* A set of naturals has a least element.
LEMMA Lowest ==
  ASSUME NEW S \in SUBSET Nat, S # {}
  PROVE  \E n \in S : \A m \in S : n <= m
<1> DEFINE T == {0..n : n \in S}
<1>1. T \subseteq FiniteSubsetsOf(Nat)
  <2>1. \A n \in S : 0..n \subseteq Nat /\ IsFiniteSet(0..n)
    BY FS_Interval
  <2>2. QED
    BY <2>1 DEF FiniteSubsetsOf
<1>2. PICK x \in T : \A y \in T : ~(<<y, x>> \in StrictSubsetOrdering(Nat))
  <2>1. T # {}
    OBVIOUS
  <2> HIDE DEF T
  <2>2. QED
    BY <1>1, <2>1, WFMin, FS_StrictSubsetOrderingWellFounded
<1>3. PICK n \in S : x = 0..n
  BY <1>2
<1>4. ASSUME NEW m \in S, m < n PROVE FALSE
  <2>1. 0..m \in T /\ n \in Nat /\ m \in Nat
    OBVIOUS
  <2>2. 0..m \subseteq 0..n /\ n \in 0..n /\ n \notin 0..m
    BY <1>4, <2>1
  <2>3. <<0..m, 0..n>> \in StrictSubsetOrdering(Nat)
    BY <2>1, <2>2 DEF StrictSubsetOrdering
  <2>4. QED
    BY <1>2, <1>3, <2>1, <2>3
<1>5. QED
  BY <1>4

\* The lowest pending step, as NextStep chooses it.
LEMMA LowestStep ==
  ASSUME NEW P \in SUBSET Commands, P # {}, step \in [Commands -> Steps]
  PROVE  LET low == CHOOSE n \in Steps : /\ \E c \in P : step[c] = n
                                         /\ \A c \in P : n <= step[c]
         IN  /\ low \in Steps /\ low # 0
             /\ \E c \in P : step[c] = low
             /\ \A c \in P : low <= step[c]
<1>1. \A n \in Steps : n \in Nat /\ n # 0
  BY BoundsAssumption DEF Steps
<1>2. {step[c] : c \in P} \in SUBSET Nat /\ {step[c] : c \in P} # {}
  BY <1>1
<1>3. PICK n \in {step[c] : c \in P} : \A m \in {step[c] : c \in P} : n <= m
  BY <1>2, Lowest
<1>4. n \in Steps /\ (\E c \in P : step[c] = n) /\ \A c \in P : n <= step[c]
  BY <1>3
<1>5. QED
  BY <1>1, <1>4

LEMMA SomeRun == \A S \in SUBSET Commands : IsFiniteSet(S) /\ Cardinality(S) \in 0..NCommands
<1>1. IsFiniteSet(Commands) /\ Cardinality(Commands) = NCommands
  BY FS_Interval, BoundsAssumption DEF Commands
<1>2. QED
  BY <1>1, FS_Subset, FS_CardinalityType

\* The caller's steps: it streams, answers, leaves and joins.
LEMMA CallerKeepsRun ==
  ASSUME RunInv, LockTypes, Caller
  PROVE  RunInv'
<1> USE DEF RunInv, constants, threadVars, routerVars, sharedVars, locks
<1>0. /\ UNCHANGED <<step, requireStartup, stage, receiverOpen, active, running, pending,
                     known, results, cancelled, discarded, discardComplete>>
      /\ UNCHANGED <<exec, channel, answer, faults, runs>>
  BY DEF Caller, StreamCommand, ProviderAnswers, ProviderFails, CancelTick, DiscardTick, Join, Leave
<1>1. /\ Started' = Started /\ Told' = Told /\ (StopAccepting' <=> StopAccepting)
      /\ Entries(channel)' = Entries(channel) /\ (Distinct(channel)' <=> Distinct(channel))
  BY <1>0 DEF Started, Told, StopAccepting, Entries, Distinct
<1>2. /\ stream' \in Seq(Commands) /\ Entries(stream) \subseteq Entries(stream')
      /\ outcome' = "success" /\ outcome # "success" => Commands \subseteq Entries(stream')
      /\ stream' # stream => turn = "streaming"
  <2>1. CASE StreamCommand
    <3>1. sent + 1 \in Commands
      BY <2>1, BoundsAssumption DEF StreamCommand, RunTypes, Commands
    <3>2. stream' = Append(stream, sent + 1) /\ outcome' = outcome /\ turn = "streaming"
      BY <2>1 DEF StreamCommand
    <3>3. QED
      BY <3>1, <3>2, EntriesOfAppend DEF RunTypes
  <2>2. CASE ProviderAnswers
    <3>1. stream' = stream \o [c \in Commands |-> c] /\ turn = "streaming"
      BY <2>2 DEF ProviderAnswers, Leave
    <3>2. stream \in Seq(Commands)
      BY DEF RunTypes
    <3>3. stream' \in Seq(Commands) /\ Commands \subseteq Entries(stream')
      BY <3>1, <3>2, EntriesOfAnswer
    <3>4. Entries(stream) \subseteq Commands
      BY <3>2 DEF Entries
    <3>5. QED
      BY <3>1, <3>3, <3>4
  <2>3. CASE ProviderFails \/ CancelTick \/ DiscardTick \/ Join
    <3>1. stream' = stream /\ (outcome' = "success" => outcome = "success")
      BY <2>3 DEF ProviderFails, CancelTick, DiscardTick, Join, Leave
    <3>2. QED
      BY <3>1 DEF RunTypes
  <2>4. QED
    BY <2>1, <2>2, <2>3 DEF Caller
<1>3. /\ turn' \in {"streaming", "joining", "returned"}
      /\ outcome' \in {"none", "success", "failed", "cancelled", "discarded"}
      /\ output' \subseteq Commands /\ sent' \in 0..NCommands /\ streamOpen' \in BOOLEAN
  <2>1. sent' \in 0..NCommands
    BY BoundsAssumption DEF RunTypes, Caller, StreamCommand, ProviderAnswers, ProviderFails,
           CancelTick, DiscardTick, Join, Leave
  <2>2. streamOpen' = streamOpen \/ streamOpen' = FALSE
    BY Zenon DEF Caller, StreamCommand, ProviderAnswers, ProviderFails, CancelTick, DiscardTick,
                 Join, Leave
  <2>3. streamOpen' \in BOOLEAN
    BY <2>2 DEF RunTypes
  <2>4. /\ turn' \in {"streaming", "joining", "returned"}
        /\ outcome' \in {"none", "success", "failed", "cancelled", "discarded"}
        /\ output' \subseteq Commands
    BY DEF RunTypes, Caller, StreamCommand, ProviderAnswers, ProviderFails, CancelTick,
           DiscardTick, Join, Leave
  <2>5. QED
    BY <2>1, <2>3, <2>4
<1>4. RunTypes'
  BY <1>0, <1>2, <1>3 DEF RunTypes
<1>5. Delivered'
  <2>1. turn' = "streaming" <=> streamOpen'
    BY DEF RunTypes, Delivered, Caller, StreamCommand, ProviderAnswers, ProviderFails, CancelTick,
           DiscardTick, Join, Leave
  <2>2. turn # "streaming" => outcome' = outcome /\ streamOpen' = streamOpen
    BY DEF Caller, StreamCommand, ProviderAnswers, ProviderFails, CancelTick, DiscardTick, Join, Leave
  <2>3. outcome' = "success" => ~streamOpen'
    BY DEF RunTypes, Delivered, Caller, StreamCommand, ProviderAnswers, ProviderFails, CancelTick,
           DiscardTick, Join, Leave
  <2>4. ~receiverOpen /\ ~StopAccepting => stream' = <<>> /\ ~streamOpen'
    BY <1>2, <2>2 DEF Delivered
  <2>5. outcome' = "success" /\ ~StopAccepting => Commands \subseteq known \cup Entries(stream')
    BY <1>2 DEF Delivered
  <2>6. QED
    BY <1>0, <1>1, <2>1, <2>3, <2>4, <2>5 DEF Delivered
<1>6. Returned'
  BY <1>0 DEF RunTypes, Returned, Caller, StreamCommand, ProviderAnswers, ProviderFails, CancelTick,
              DiscardTick, Join, Leave
<1>7. Remembered' /\ Completions' /\ Counted' /\ ActiveIsStarted' /\ Ended' /\ ToldEnded' /\ AtRouter'
  BY <1>0, <1>1 DEF Remembered, Completions, Counted, ActiveIsStarted, Ended, ToldEnded, AtRouter
<1>8. QED
  BY <1>4, <1>5, <1>6, <1>7

\* A step of a command's request: it moves on, and tells of the command at
\* most once, without a fault only when it ends.
LEMMA RequestKeepsRun ==
  ASSUME RunInv, LockTypes, NEW c \in Commands, NEW place \in Places \ {"none"},
         exec[c] \in {"locking", "executing", "releasing"},
         exec' = [exec EXCEPT ![c] = place],
         UNCHANGED <<constants, callerVars, threadVars, runs>>,
         faults' \in 0..MaxFaults, faults' = 0 => faults = 0,
         \/ answer' = answer /\ channel' = channel /\ (place = "ended" => c \in Told)
         \/ \E told \in {"told", "halted"} :
               answer[c] = "none" /\ Tell(c, told) /\ (faults' = 0 => place = "ended")
  PROVE  RunInv'
<1> USE DEF RunInv, constants, callerVars, threadVars
<1>1. /\ Started' = Started /\ (StopAccepting' <=> StopAccepting)
      /\ Entries(stream)' = Entries(stream)
  BY DEF Started, StopAccepting, Entries
<1>2. runs[c] # 0 /\ c \in Started
  BY DEF AtRouter, Started, RunTypes
<1>3. /\ answer' \in [Commands -> {"none", "told", "halted"}] /\ channel' \in Seq(Commands)
      /\ Distinct(channel') /\ Entries(channel') = Told' \ results
      /\ Told \subseteq Told' /\ Told' \subseteq Told \cup {c}
      /\ place = "ended" => c \in Told'
      /\ faults' = 0 /\ c \in Told' => place = "ended"
  <2>1. CASE answer' = answer /\ channel' = channel /\ (place = "ended" => c \in Told)
    <3>1. Told' = Told
      BY <2>1 DEF Told
    <3>2. faults' = 0 => c \notin Told
      BY DEF ToldEnded
    <3>3. QED
      BY <2>1, <3>1, <3>2 DEF Completions, RunTypes
  <2>2. CASE \E told \in {"told", "halted"} :
               answer[c] = "none" /\ Tell(c, told) /\ (faults' = 0 => place = "ended")
    <3>1. PICK told \in {"told", "halted"} :
             answer[c] = "none" /\ Tell(c, told) /\ (faults' = 0 => place = "ended")
      BY <2>2
    <3>2. channel' = Append(channel, c) /\ answer' = [answer EXCEPT ![c] = told]
      BY <3>1 DEF Tell
    <3>3. c \notin Told /\ Told' = Told \cup {c}
      BY <3>1, <3>2 DEF Told, RunTypes
    <3>4. channel \in Seq(Commands) /\ Distinct(channel) /\ c \notin Entries(channel) /\ c \notin results
      BY <3>3 DEF Completions, RunTypes
    <3>5. /\ channel' \in Seq(Commands) /\ Distinct(channel')
          /\ Entries(channel') = Entries(channel) \cup {c}
      BY <3>2, <3>4, EntriesOfAppend
    <3>6. QED
      BY <3>1, <3>2, <3>3, <3>4, <3>5 DEF Completions, RunTypes
  <2>3. QED
    BY <2>1, <2>2
<1>4. RunTypes'
  BY <1>3 DEF RunTypes
<1>5. AtRouter'
  BY <1>2 DEF AtRouter, LockTypes
<1>6. Completions'
  BY <1>1, <1>2, <1>3 DEF Completions, LockTypes
<1>7. ToldEnded'
  BY <1>3 DEF ToldEnded, LockTypes
<1>8. Remembered' /\ Counted' /\ ActiveIsStarted' /\ Ended' /\ Delivered' /\ Returned'
  BY <1>1 DEF Remembered, Counted, ActiveIsStarted, Ended, Delivered, Returned
<1>9. QED
  BY <1>4, <1>5, <1>6, <1>7, <1>8

LEMMA RouterKeepsRun ==
  ASSUME RunInv, LockTypes, NEW c \in Commands, Router(c) \/ Refuse(c) \/ GiveUp(c)
  PROVE  RunInv'
<1> USE DEF constants, callerVars, threadVars, routerVars, sharedVars, Places
<1>0. faults \in 0..MaxFaults /\ exec \in [Commands -> Places] /\ (c \in Told <=> answer[c] # "none")
  BY DEF RunInv, RunTypes, LockTypes, Told
<1>1. CASE TakeLock(c)
  <2>1. PICK place \in Places \ {"none", "ended"} : exec' = [exec EXCEPT ![c] = place]
    BY <1>1, <1>0 DEF TakeLock
  <2>2. QED
    BY <1>0, <1>1, <2>1, RequestKeepsRun DEF TakeLock
<1>2. CASE ExecuteUnlocked(c)
  BY <1>0, <1>2, RequestKeepsRun DEF ExecuteUnlocked
<1>3. CASE DropLock(c)
  <2>1. CASE held[c] > 1
    BY <1>0, <1>3, <2>1, RequestKeepsRun DEF DropLock
  <2>2. CASE ~(held[c] > 1)
    BY <1>0, <1>3, <2>2, RequestKeepsRun DEF DropLock, Respond
  <2>3. QED
    BY <2>1, <2>2
<1>4. CASE CompleteUnlocked(c)
  BY <1>0, <1>4, RequestKeepsRun DEF CompleteUnlocked, Respond
<1>5. CASE Refuse(c)
  <2>1. faults' \in 0..MaxFaults /\ faults' # 0
    BY <1>0, <1>5, BoundsAssumption DEF Refuse, Fault
  <2>2. \E told \in {"told", "halted"} : Tell(c, told)
    BY <1>5 DEF Refuse, Failure
  <2>3. QED
    BY <1>0, <1>5, <2>1, <2>2, RequestKeepsRun DEF Refuse
<1>6. CASE GiveUp(c)
  <2>1. faults' \in 0..MaxFaults /\ faults' # 0
    BY <1>0, <1>6, BoundsAssumption DEF GiveUp, Fault
  <2>2. \E told \in {"told", "halted"} : Tell(c, told)
    BY <1>6 DEF GiveUp, Failure
  <2>3. exec' = [exec EXCEPT ![c] = exec[c]] /\ exec[c] \in Places \ {"none"}
    BY <1>0, <1>6 DEF GiveUp
  <2>4. QED
    BY <1>6, <2>1, <2>2, <2>3, RequestKeepsRun DEF GiveUp
<1>7. QED
  BY <1>1, <1>2, <1>3, <1>4, <1>5, <1>6 DEF Router

\* The thread's steps.  A completion is taken out of the channel.
LEMMA TakeKeepsRun ==
  ASSUME RunInv, LockTypes, TakeCompletion
  PROVE  RunInv'
<1> USE DEF RunInv, constants, callerVars, routerVars, locks
<1> DEFINE c == Head(channel)
<1>1. /\ channel \in Seq(Commands) /\ channel # <<>> /\ channel' = Tail(channel)
      /\ results' = results \cup {c} /\ running' = running - 1 /\ stage' = "drain"
      /\ UNCHANGED <<receiverOpen, active, pending, known, discarded, discardComplete>>
      /\ UNCHANGED <<answer, runs, exec, step, requireStartup>>
  BY DEF TakeCompletion, RunTypes
<1>2. /\ channel' \in Seq(Commands) /\ c \in Entries(channel)
      /\ Entries(channel) = Entries(channel') \cup {c}
      /\ Distinct(channel') /\ c \notin Entries(channel')
  BY <1>1, EntriesOfTail DEF Completions
<1> HIDE DEF c
<1>3. c \in Started /\ c \notin results /\ c \in Told /\ c \in Commands
  BY <1>2 DEF Completions, Started
<1>4. /\ Started' = Started /\ Told' = Told
      /\ Entries(stream)' = Entries(stream)
  BY <1>1 DEF Started, Told, Entries, TakeCompletion
<1>5. /\ cancelled' \in BOOLEAN /\ (cancelled => cancelled')
      /\ faults' \in 0..MaxFaults /\ (faults' = 0 => faults = 0)
  <2>1. \/ cancelled' = (cancelled \/ Cancels(c)) /\ faults' = faults
        \/ Fault /\ cancelled' = TRUE
    BY DEF TakeCompletion, c
  <2>2. Fault => faults' \in 0..MaxFaults /\ faults' # 0
    BY BoundsAssumption DEF Fault, RunTypes
  <2>3. faults \in 0..MaxFaults /\ cancelled \in BOOLEAN
    BY DEF RunTypes
  <2>4. CASE cancelled' = (cancelled \/ Cancels(c)) /\ faults' = faults
    BY <2>3, <2>4
  <2>5. CASE Fault /\ cancelled' = TRUE
    BY <2>2, <2>5
  <2>6. QED
    BY <2>1, <2>4, <2>5
<1>6. StopAccepting => StopAccepting'
  BY <1>1, <1>5 DEF StopAccepting
<1>7. stage # "finished"
  BY <1>3 DEF Ended
<1>8. RunTypes'
  BY <1>1, <1>2, <1>3, <1>5 DEF RunTypes, TakeCompletion
<1>9. Completions'
  BY <1>1, <1>2, <1>3, <1>4 DEF Completions
<1>10. Counted'
  <2>1. Started' \ results' = (Started \ results) \ {c} /\ c \in Started \ results
    BY <1>1, <1>3, <1>4
  <2>2. Started \ results \in SUBSET Commands
    BY DEF Started
  <2>3. IsFiniteSet(Started \ results)
    BY <2>2, SomeRun
  <2>4. Cardinality((Started \ results) \ {c}) = Cardinality(Started \ results) - 1
    BY <2>1, <2>3, FS_RemoveElement
  <2>5. running = Cardinality(Started \ results)
    BY DEF Counted
  <2>6. running' = Cardinality(Started' \ results')
    BY <1>1, <2>1, <2>4, <2>5
  <2>7. QED
    BY <2>6 DEF Counted
<1>11. Delivered' /\ Returned'
  BY <1>1, <1>4, <1>6, <1>7 DEF Delivered, Returned, TakeCompletion
<1>12. AtRouter' /\ Remembered' /\ ActiveIsStarted' /\ Ended' /\ ToldEnded'
  BY <1>1, <1>4, <1>5, <1>6 DEF AtRouter, Remembered, ActiveIsStarted, Ended, ToldEnded
<1>13. QED
  BY <1>8, <1>9, <1>10, <1>11, <1>12

LEMMA CloseKeepsRun ==
  ASSUME RunInv, LockTypes, StreamCloses
  PROVE  RunInv'
<1> USE DEF RunInv, constants, callerVars, routerVars, sharedVars, locks
<1>1. /\ stage' = "drain" /\ receiverOpen' = FALSE /\ stream = <<>> /\ ~streamOpen
      /\ stage = "poll"
      /\ UNCHANGED <<active, running, pending, known, results, cancelled, discarded,
                     discardComplete, turn, outcome, output, sent, stream, streamOpen>>
      /\ UNCHANGED <<channel, answer, faults, runs, exec, kind, step, requireStartup>>
  BY DEF StreamCloses
<1>2. /\ Started' = Started /\ Told' = Told /\ (StopAccepting' <=> StopAccepting)
      /\ Entries(stream)' = Entries(stream)
      /\ Entries(channel)' = Entries(channel) /\ (Distinct(channel)' <=> Distinct(channel))
  BY <1>1 DEF Started, Told, StopAccepting, Entries, Distinct
<1>3. RunTypes'
  BY <1>1 DEF RunTypes
<1>4. Delivered' /\ Returned' /\ Ended'
  BY <1>1, <1>2 DEF Delivered, Returned, Ended
<1>5. Remembered' /\ Completions' /\ Counted' /\ ActiveIsStarted' /\ ToldEnded' /\ AtRouter'
  BY <1>1, <1>2 DEF Remembered, Completions, Counted, ActiveIsStarted, ToldEnded, AtRouter
<1>6. QED
  BY <1>3, <1>4, <1>5

\* Starting commands that were not started before.
LEMMA StartKeepsRun ==
  ASSUME RunInv, LockTypes, NEW S \in SUBSET Commands, S \cap Started = {}, Start(S),
         UNCHANGED <<results, answer, channel, faults>>
  PROVE  /\ Started' = Started \cup S /\ runs' \in [Commands -> {0, 1}]
         /\ AtRouter' /\ Completions' /\ Counted' /\ ToldEnded'
<1> USE DEF RunInv
<1>1. \A c \in Commands : runs[c] \in {0, 1} /\ (c \in Started <=> runs[c] = 1)
  BY DEF RunTypes, Started
<1>2. /\ runs' = [c \in Commands |-> IF c \in S THEN runs[c] + 1 ELSE runs[c]]
      /\ exec' = [c \in Commands |-> IF c \in S THEN "locking" ELSE exec[c]]
      /\ running' = running + Cardinality(S)
  BY DEF Start
<1>3. \A c \in S : runs[c] = 0
  BY <1>1
<1>4. runs' \in [Commands -> {0, 1}] /\ \A c \in S : runs'[c] = 1
  BY <1>1, <1>2, <1>3
<1>5. Started' = Started \cup S
  BY <1>1, <1>2, <1>4 DEF Started
<1>6. Told' = Told /\ Entries(channel)' = Entries(channel)
      /\ (Distinct(channel)' <=> Distinct(channel))
  BY DEF Told, Entries, Distinct
<1>7. Completions'
  BY <1>2, <1>5, <1>6 DEF Completions
<1>8. AtRouter'
  BY <1>1, <1>2, <1>4 DEF AtRouter
<1>9. ToldEnded'
  BY <1>2, <1>6 DEF ToldEnded, Completions, Told
<1>10. Counted'
  <2>1. Started' \ results' = (Started \ results) \cup S /\ (Started \ results) \cap S = {}
    BY <1>5 DEF Completions
  <2>2. Started \ results \in SUBSET Commands
    BY DEF Started
  <2>3. Cardinality((Started \ results) \cup S)
           = Cardinality(Started \ results) + Cardinality(S) - Cardinality({})
    BY <2>1, <2>2, SomeRun, FS_Union
  <2>4. Cardinality(Started \ results) \in Nat /\ Cardinality(S) \in Nat /\ Cardinality({}) = 0
    BY <2>2, SomeRun, FS_EmptySet
  <2>5. running = Cardinality(Started \ results)
    BY DEF Counted
  <2>6. running' = Cardinality((Started \ results) \cup S)
    BY <1>2, <2>3, <2>4, <2>5
  <2>7. running' = Cardinality(Started' \ results')
    BY <2>1, <2>6, Zenon
  <2>8. QED
    BY <2>7 DEF Counted
<1>11. QED
  BY <1>4, <1>5, <1>7, <1>8, <1>9, <1>10

\* The scheduler: with nothing running, the lowest step of the pending
\* commands becomes active, and they are started up to it.
LEMMA ScheduleKeepsRun ==
  ASSUME RunInv, LockTypes, Schedule
  PROVE  /\ RunInv'
         /\ runs' # runs => Started \subseteq results
<1> USE DEF RunInv, constants, callerVars
<1>1. /\ stage = "drain" /\ channel = <<>>
      /\ receiverOpen' = (receiverOpen /\ ~StopAccepting)
      /\ pending' = StillPending \ Ready /\ active' = NextStep /\ Start(Ready)
      /\ stage' = IF Finished THEN "finished" ELSE "poll"
      /\ discardComplete' = (Finished /\ discarded /\ ~cancelled)
      /\ UNCHANGED <<known, results, cancelled, discarded, channel, answer, faults>>
      /\ UNCHANGED <<step, requireStartup, turn, outcome, output, sent, stream, streamOpen>>
  BY DEF Schedule
<1>2. StillPending \subseteq pending /\ (~StopAccepting => StillPending = pending)
      /\ StillPending \in SUBSET Commands
  BY DEF StillPending, RunTypes
<1>3. Ready \subseteq StillPending /\ Ready \in SUBSET Commands /\ Ready \cap Started = {}
  BY <1>2 DEF Ready, Remembered
<1>4. /\ Started' = Started \cup Ready /\ runs' \in [Commands -> {0, 1}]
      /\ AtRouter' /\ Completions' /\ Counted' /\ ToldEnded'
  BY <1>1, <1>3, StartKeepsRun
<1>5. running = 0 => Started \subseteq results
  <2>1. Started \ results \in SUBSET Commands
    BY DEF Started
  <2>2. running = Cardinality(Started \ results) /\ IsFiniteSet(Started \ results)
    BY <2>1, SomeRun DEF Counted
  <2>3. QED
    BY <2>2, FS_EmptySet
<1>6. /\ StopAccepting' <=> StopAccepting
      /\ Entries(stream)' = Entries(stream)
  BY <1>1 DEF StopAccepting, Entries
<1>7. /\ active' \in 0..MaxStep
      /\ active' = 0 => active = 0 /\ Ready = {}
      /\ active' # active => \E c \in Ready : step[c] = active'
  <2>1. CASE running = 0 /\ StillPending # {}
    <3> DEFINE low == CHOOSE n \in Steps : /\ \E c \in StillPending : step[c] = n
                                           /\ \A c \in StillPending : n <= step[c]
    <3>1. /\ low \in Steps /\ low # 0
          /\ \E c \in StillPending : step[c] = low
          /\ \A c \in StillPending : low <= step[c]
      BY <1>2, <2>1, LowestStep DEF RunTypes
    <3>2. active' = IF active >= low THEN active ELSE low
      BY <1>1, <2>1 DEF NextStep
    <3>3. Ready = {c \in StillPending : step[c] <= active'}
      BY <1>1, <2>1 DEF Ready
    <3> HIDE DEF low
    <3>4. low \in 0..MaxStep /\ low > 0 /\ active \in 0..MaxStep
      BY <3>1, BoundsAssumption DEF Steps, RunTypes
    <3>5. active' \in 0..MaxStep /\ active' # 0
      BY <3>2, <3>4
    <3>6. active' # active => active' = low
      BY <3>2
    <3>7. ASSUME active' # active PROVE \E c \in Ready : step[c] = active'
      <4>1. PICK c \in StillPending : step[c] = low
        BY <3>1
      <4>2. step[c] = active' /\ step[c] <= active'
        BY <3>4, <3>6, <3>7, <4>1
      <4>3. QED
        BY <3>3, <4>2
    <3>8. QED
      BY <3>5, <3>7
  <2>2. CASE ~(running = 0 /\ StillPending # {})
    <3>1. active' = active
      BY <1>1, <2>2 DEF NextStep
    <3>2. Ready = {}
      BY <2>2 DEF Ready
    <3>3. QED
      BY <3>1, <3>2 DEF RunTypes
  <2>3. QED
    BY <2>1, <2>2
<1>8. RunTypes'
  <2>1. /\ receiverOpen' \in BOOLEAN /\ discardComplete' \in BOOLEAN
        /\ stage' \in {"drain", "poll", "finished"}
    BY <1>1
  <2>2. pending' \subseteq Commands
    BY <1>1, <1>2
  <2>3. QED
    BY <1>1, <1>4, <1>7, <2>1, <2>2 DEF RunTypes
<1>9. Remembered'
  <2>1. Started' \subseteq known /\ pending' \subseteq known /\ pending' \cap Started' = {}
    BY <1>1, <1>2, <1>3, <1>4 DEF Remembered
  <2>2. ~StopAccepting => known \subseteq Started' \cup pending'
    BY <1>1, <1>2, <1>4 DEF Remembered
  <2>3. QED
    BY <1>1, <1>6, <2>1, <2>2 DEF Remembered
<1>10. ActiveIsStarted'
  <2>1. active' = 0 => Started' = {}
    BY <1>4, <1>7 DEF ActiveIsStarted
  <2>2. active' # 0 => \E c \in Started' : step[c] = active'
    BY <1>4, <1>7 DEF ActiveIsStarted
  <2>3. QED
    BY <1>1, <2>1, <2>2 DEF ActiveIsStarted
<1>11. Ended'
  <2>1. Finished => running = 0 /\ StillPending = {} /\ receiverOpen' = FALSE
    BY <1>1 DEF Finished
  <2>2. Finished => Started' \subseteq results /\ pending' = {}
    BY <1>1, <1>3, <1>4, <1>5, <2>1
  <2>3. QED
    BY <1>1, <2>1, <2>2 DEF Ended
<1>12. Delivered'
  <2>1. ~receiverOpen' /\ ~StopAccepting => ~receiverOpen
    BY <1>1
  <2>2. QED
    BY <1>1, <1>6, <2>1 DEF Delivered
<1>13. Returned'
  BY <1>1 DEF Returned
<1>14. runs' # runs => Started \subseteq results
  <2>1. CASE running = 0
    BY <1>5, <2>1
  <2>2. CASE running # 0
    <3>1. Ready = {}
      BY <2>2 DEF Ready
    <3>2. QED
      BY <1>1, <3>1 DEF Start, RunTypes
  <2>3. QED
    BY <2>1, <2>2
<1>15. QED
  BY <1>4, <1>8, <1>9, <1>10, <1>11, <1>12, <1>13, <1>14

\* The next event of the stream: a command seen before is dropped, a patch
\* that comes too early discarded; any other starts or waits for its step.
LEMMA ReadKeepsRun ==
  ASSUME RunInv, LockTypes, ReadEvent
  PROVE  /\ RunInv'
         /\ runs' # runs => Started = {} \/ \E d \in Started, c \in Commands :
                               step[c] <= step[d] /\ runs' = [runs EXCEPT ![c] = @ + 1]
<1> USE DEF RunInv, constants
<1> DEFINE c == Head(stream)
           now == Fresh(c) /\ StartsNow(c)
           S == IF now THEN {c} ELSE {}
<1>1. /\ stage = "poll" /\ receiverOpen /\ stream # <<>>
      /\ stream' = Tail(stream) /\ stage' = "drain"
      /\ discarded' = (discarded \/ (c \notin known /\ Discards(c)))
      /\ known' = IF Fresh(c) THEN known \cup {c} ELSE known
      /\ pending' = IF Fresh(c) /\ ~now THEN pending \cup {c} ELSE pending
      /\ active' = IF now /\ active = 0 THEN step[c] ELSE active
      /\ Start(S)
      /\ UNCHANGED <<receiverOpen, results, cancelled, discardComplete, channel, answer, faults>>
      /\ UNCHANGED <<step, requireStartup, turn, outcome, output, sent, streamOpen>>
  BY DEF ReadEvent
<1>2. /\ stream \in Seq(Commands) /\ stream' \in Seq(Commands)
      /\ c \in Commands /\ Entries(stream) = Entries(stream') \cup {c}
  <2>1. stream \in Seq(Commands)
    BY DEF RunTypes
  <2>2. QED
    BY <1>1, <2>1, EntriesOfTail
<1>3. /\ Fresh(c) <=> c \notin known /\ ~Discards(c)
      /\ StartsNow(c) <=> active = 0 \/ step[c] <= active
  BY DEF Fresh, StartsNow
<1> HIDE DEF c
<1>4. S \in SUBSET Commands /\ S \cap Started = {}
  BY <1>2, <1>3 DEF Remembered
<1>5. /\ Started' = Started \cup S /\ runs' \in [Commands -> {0, 1}]
      /\ AtRouter' /\ Completions' /\ Counted' /\ ToldEnded'
  <2> HIDE DEF S
  <2>1. QED
    BY <1>1, <1>4, StartKeepsRun
<1>6. step[c] \in 0..MaxStep /\ step[c] # 0
  BY <1>2, BoundsAssumption DEF RunTypes, Steps
<1>7. RunTypes'
  <2>1. discarded' \in BOOLEAN
    BY <1>1 DEF RunTypes
  <2>2. known' \subseteq Commands /\ pending' \subseteq Commands /\ active' \in 0..MaxStep
    BY <1>1, <1>2, <1>6 DEF RunTypes
  <2>3. QED
    BY <1>1, <1>2, <1>5, <2>1, <2>2 DEF RunTypes
<1>8. StopAccepting => StopAccepting'
  BY <1>1 DEF StopAccepting
<1>9. Remembered'
  <2>1. Started' \subseteq known' /\ pending' \subseteq known' /\ pending' \cap Started' = {}
    BY <1>1, <1>3, <1>5 DEF Remembered
  <2>2. ~StopAccepting => known' \subseteq Started' \cup pending'
    BY <1>1, <1>3, <1>5 DEF Remembered
  <2>3. QED
    BY <1>8, <2>1, <2>2 DEF Remembered
<1>10. ActiveIsStarted'
  <2>1. active' = 0 => Started' = {}
    BY <1>1, <1>3, <1>5, <1>6 DEF ActiveIsStarted
  <2>2. active' # 0 => \E d \in Started' : step[d] = active'
    BY <1>1, <1>3, <1>5 DEF ActiveIsStarted
  <2>3. QED
    BY <1>1, <2>1, <2>2 DEF ActiveIsStarted
<1>11. Ended' /\ Returned'
  BY <1>1 DEF Ended, Returned
<1>12. Delivered'
  <2>1. ~StopAccepting' => c \in known'
    BY <1>1, <1>3 DEF StopAccepting
  <2>2. known \subseteq known'
    BY <1>1
  <2>3. outcome = "success" /\ ~StopAccepting' => Commands \subseteq known' \cup Entries(stream')
    BY <1>2, <1>8, <2>1, <2>2 DEF Delivered
  <2>4. Entries(stream)' = Entries(stream')
    BY DEF Entries
  <2>5. QED
    BY <1>1, <2>3, <2>4 DEF Delivered
<1>13. ASSUME runs' # runs
       PROVE  Started = {} \/ \E d \in Started, e \in Commands :
                 step[e] <= step[d] /\ runs' = [runs EXCEPT ![e] = @ + 1]
  <2>1. S # {}
    BY <1>1, <1>13 DEF Start, RunTypes
  <2>2. now /\ S = {c}
    BY <2>1
  <2>3. runs' = [runs EXCEPT ![c] = @ + 1]
    BY <1>1, <1>2, <2>2 DEF Start, RunTypes
  <2>4. active = 0 \/ \E d \in Started : step[c] <= step[d]
    BY <1>3, <2>2 DEF ActiveIsStarted
  <2>5. QED
    BY <1>2, <2>3, <2>4 DEF ActiveIsStarted
<1>14. QED
  BY <1>5, <1>7, <1>9, <1>10, <1>11, <1>12, <1>13

LEMMA RunInitially == Init => RunInv
<1> SUFFICES ASSUME Init PROVE RunInv
  OBVIOUS
<1>1. Started = {} /\ Told = {} /\ Entries(channel) = {} /\ Distinct(channel)
  BY DEF Init, Started, Told, Entries, Distinct
<1>2. RunTypes
  <2>1. requireStartup \in BOOLEAN
    BY DEF Init
  <2>2. 0 \in 0..MaxStep /\ 0 \in 0..NCommands /\ 0 \in 0..MaxFaults
    BY BoundsAssumption
  <2>3. streamOpen \in BOOLEAN /\ receiverOpen \in BOOLEAN /\ cancelled \in BOOLEAN
        /\ discarded \in BOOLEAN /\ discardComplete \in BOOLEAN
    BY Zenon DEF Init
  <2>4. stream \in Seq(Commands) /\ channel \in Seq(Commands)
    BY DEF Init
  <2>5. active \in 0..MaxStep /\ sent \in 0..NCommands /\ faults \in 0..MaxFaults
    BY <2>2 DEF Init
  <2>6. /\ answer \in [Commands -> {"none", "told", "halted"}] /\ runs \in [Commands -> {0, 1}]
        /\ step \in [Commands -> Steps]
    BY DEF Init
  <2>7. /\ turn \in {"streaming", "joining", "returned"}
        /\ outcome \in {"none", "success", "failed", "cancelled", "discarded"}
        /\ stage \in {"drain", "poll", "finished"}
        /\ output \subseteq Commands /\ pending \subseteq Commands
        /\ known \subseteq Commands /\ results \subseteq Commands
    BY DEF Init
  <2>8. QED
    BY <2>1, <2>3, <2>4, <2>5, <2>6, <2>7 DEF RunTypes
<1>3. Completions
  BY <1>1 DEF Init, Completions
<1>4. Counted
  <2>1. Started \ results = {}
    BY <1>1
  <2>2. QED
    BY <2>1, FS_EmptySet DEF Init, Counted
<1>5. AtRouter /\ Remembered /\ ActiveIsStarted /\ Ended /\ Delivered /\ Returned /\ ToldEnded
  BY <1>1 DEF Init, AtRouter, Remembered, ActiveIsStarted, Ended, Delivered, Returned, ToldEnded
<1>6. QED
  BY <1>2, <1>3, <1>4, <1>5 DEF RunInv

LEMMA StepKeepsRun == RunInv /\ LockInv /\ [Next]_vars => RunInv'
<1> SUFFICES ASSUME RunInv, LockInv, [Next]_vars PROVE RunInv'
  OBVIOUS
<1>1. LockTypes
  BY DEF LockInv
<1>2. CASE UNCHANGED vars
  <2>1. UNCHANGED vars
    BY <1>2
  <2>2. /\ Started' = Started /\ Told' = Told /\ (StopAccepting' <=> StopAccepting)
        /\ Entries(stream)' = Entries(stream)
        /\ Entries(channel)' = Entries(channel) /\ (Distinct(channel)' <=> Distinct(channel))
    BY <2>1 DEF vars, threadVars, sharedVars, callerVars, Started, Told, StopAccepting, Entries,
                Distinct
  <2>3. QED
    BY <2>1, <2>2 DEF vars, constants, callerVars, threadVars, routerVars, sharedVars, RunInv,
       RunTypes, AtRouter, Remembered, Completions, Counted, ActiveIsStarted, Ended, Delivered,
       Returned, ToldEnded
<1>3. CASE Next
  BY <1>1, <1>3, CallerKeepsRun, TakeKeepsRun, ScheduleKeepsRun, ReadKeepsRun, CloseKeepsRun,
     RouterKeepsRun DEF Next, Thread
<1>4. QED
  BY <1>2, <1>3

LEMMA AlwaysRun == Spec => [](LockInv /\ RunInv)
BY RunInitially, StepKeepsRun, LocksInitially, StepKeepsLocks, PTL DEF Spec

\* The caller, the thread, the lock table and the requests keep their types,
\* and the counter of running commands stays between 0 and their number.
THEOREM TypeCorrect == Spec => []TypeOK
<1>1. LockInv /\ RunInv => TypeOK
  <2> SUFFICES ASSUME LockInv, RunInv PROVE TypeOK
    OBVIOUS
  <2>1. running \in 0..NCommands
    <3>1. Started \ results \in SUBSET Commands
      BY DEF Started
    <3>2. QED
      BY <3>1, SomeRun DEF RunInv, Counted
  <2>2. writers \subseteq Keys
    BY DEF LockInv, LockTypes, Keys
  <2>3. runs \in [Commands -> Nat]
    BY DEF RunInv, RunTypes
  <2>4. QED
    BY <2>1, <2>2, <2>3 DEF TypeOK, LockInv, LockTypes, Places, RunInv, RunTypes
<1>2. QED
  BY <1>1, AlwaysRun, PTL

\* Whatever the stream repeats, no command is started twice, and a call that
\* succeeds shows the result of every command of the answer, unless the run
\* was cancelled or a patch discarded.
THEOREM EveryCommandOnce == Spec => []RunsExactlyOnce
<1>1. RunInv => RunsExactlyOnce
  <2> SUFFICES ASSUME RunInv PROVE RunsExactlyOnce
    OBVIOUS
  <2> USE DEF RunInv
  <2>1. \A c \in Commands : runs[c] <= 1
    BY DEF RunTypes
  <2>2. ASSUME turn = "returned", outcome = "success", ~cancelled, ~discarded
        PROVE  output = Commands
    <3>1. stage = "finished" /\ output = results
      BY <2>2 DEF Returned
    <3>2. ~receiverOpen /\ Started \subseteq results /\ pending = {}
      BY <3>1 DEF Ended
    <3>3. ~StopAccepting
      BY <2>2 DEF StopAccepting
    <3>4. stream = <<>> /\ Commands \subseteq known \cup Entries(stream)
      BY <2>2, <3>2, <3>3 DEF Delivered
    <3>5. Entries(stream) = {}
      BY <3>4 DEF Entries
    <3>6. known \subseteq Started
      BY <3>2, <3>3 DEF Remembered
    <3>7. Commands \subseteq results /\ results \subseteq Commands
      BY <3>2, <3>4, <3>5, <3>6 DEF RunTypes
    <3>8. QED
      BY <3>1, <3>7
  <2>3. QED
    BY <2>1, <2>2 DEF RunsExactlyOnce
<1>2. QED
  BY <1>1, AlwaysRun, PTL

\* When the call has returned, none of its commands is at work at the router,
\* unless the runtime gave up on one.
THEOREM ReturnsWhenQuiet == Spec => []QuietAfterReturn
<1>1. LockInv /\ RunInv => QuietAfterReturn
  <2> SUFFICES ASSUME LockInv, RunInv, turn = "returned", faults = 0, NEW c \in Commands
               PROVE  exec[c] \in {"none", "ended"}
    BY DEF QuietAfterReturn
  <2> USE DEF RunInv
  <2>1. Started \subseteq results
    BY DEF Returned, Ended
  <2>2. CASE c \in Started
    BY <2>1, <2>2 DEF Completions, ToldEnded
  <2>3. CASE c \notin Started
    BY <2>3 DEF Started, AtRouter, RunTypes
  <2>4. QED
    BY <2>2, <2>3
<1>2. QED
  BY <1>1, AlwaysRun, PTL

\* No step starts a command of a later step than all before it while a result
\* is out: only the scheduler does, with nothing running, or the very first
\* event of the stream.
THEOREM NewStepsAreHeldBack == Spec => NewStepsWait
<1> DEFINE Waits == \A c \in Commands :
              runs'[c] > runs[c] /\ (\A d \in Commands : runs[d] > 0 => step[d] < step[c])
                => \A d \in Commands : runs[d] > 0 => d \in results
<1>1. LockInv /\ RunInv /\ [Next]_vars => [Waits]_vars
  <2> SUFFICES ASSUME LockInv, RunInv, [Next]_vars, NEW c \in Commands, runs'[c] > runs[c],
                      \A d \in Commands : runs[d] > 0 => step[d] < step[c]
               PROVE  Started \subseteq results
    BY DEF Started
  <2>1. LockTypes /\ runs \in [Commands -> {0, 1}] /\ step \in [Commands -> Steps]
    BY DEF LockInv, RunInv, RunTypes
  <2>2. runs' # runs
    BY <2>1
  <2>3. CASE Schedule
    BY <2>1, <2>2, <2>3, ScheduleKeepsRun
  <2>4. CASE ReadEvent
    <3>1. Started = {} \/ \E d \in Started, e \in Commands :
                             step[e] <= step[d] /\ runs' = [runs EXCEPT ![e] = @ + 1]
      BY <2>1, <2>2, <2>4, ReadKeepsRun
    <3>2. ASSUME NEW d \in Started, NEW e \in Commands,
                 step[e] <= step[d], runs' = [runs EXCEPT ![e] = @ + 1]
          PROVE  FALSE
      <4>1. e = c
        BY <2>1, <3>2
      <4>2. step[d] < step[c] /\ d \in Commands
        BY DEF Started
      <4>3. step[c] \in Nat /\ step[d] \in Nat
        BY <2>1, <4>2, BoundsAssumption DEF Steps
      <4>4. QED
        BY <3>2, <4>1, <4>2, <4>3
    <3>3. QED
      BY <3>1, <3>2
  <2>5. CASE TakeCompletion \/ StreamCloses \/ Caller \/ UNCHANGED vars
    BY <2>2, <2>5 DEF TakeCompletion, StreamCloses, Caller, StreamCommand, ProviderAnswers,
       ProviderFails, CancelTick, DiscardTick, Join, Leave, vars, sharedVars
  <2>6. CASE \E x \in Commands : Router(x) \/ Refuse(x) \/ GiveUp(x)
    BY <2>2, <2>6 DEF Router, TakeLock, ExecuteUnlocked, DropLock, CompleteUnlocked, Refuse, GiveUp,
       sharedVars
  <2>7. QED
    BY <2>3, <2>4, <2>5, <2>6 DEF Next, Thread
<1>2. QED
  BY <1>1, AlwaysRun, PTL DEF Spec, NewStepsWait

-----------------------------------------------------------------------------
(* Somebody can always go on.  The provers do not know ENABLED: the guards *)
(* of the actions are written out.  Every other conjunct of those actions  *)
(* says what the next state is.                                            *)

\* The next lock of the command is free.
LockIsFree(c) ==
  /\ held[c] < Len(LocksOf(c))
  /\ CanAcquire(LocksOf(c)[held[c] + 1][1], LocksOf(c)[held[c] + 1][2])

\* TakeLock or ExecuteUnlocked, DropLock or CompleteUnlocked.
RouterCan(c) ==
  \/ exec[c] = "locking" /\ (LockIsFree(c) \/ LocksOf(c) = <<>>)
  \/ exec[c] = "executing"
  \/ exec[c] = "releasing" /\ held[c] > 0

\* TakeCompletion, Schedule, or ReadEvent or StreamCloses.
ThreadCan ==
  \/ channel # <<>> /\ MayTake
  \/ stage = "drain" /\ channel = <<>>
  \/ stage = "poll" /\ receiverOpen /\ (stream # <<>> \/ ~streamOpen)

CanGoOn == stage = "finished" \/ ThreadCan \/ \E c \in Commands : RouterCan(c)

\* A command asks for locks while it lacks one and gives back while it has one.
Placed ==
  \A c \in Commands :
    /\ exec[c] = "locking" => held[c] < Len(LocksOf(c)) \/ LocksOf(c) = <<>>
    /\ exec[c] = "releasing" => held[c] > 0
    /\ exec[c] \in {"none", "ended"} => held[c] = 0

\* The workspace is locked by a command that still has to give it back.
WriterHolds == Workspace \in writers => \E c \in Commands : kind[c] = "patch" /\ held[c] > 0

\* The thread sleeps past the end of the stream only for a running command.
PollWaits == stage = "poll" /\ ~receiverOpen => running # 0

WorkInv == Placed /\ WriterHolds /\ PollWaits

LEMMA NoLock == LockTypes => \A c \in Commands : LocksOf(c) = <<>> <=> Len(LocksOf(c)) = 0
BY KindOf, LocksOfPatch, LocksOfMedia, LocksOfLook, MediaLen

\* Steps that leave the locks alone and start or end commands without them.
LEMMA PlacesKept ==
  ASSUME LockInv, Placed, WriterHolds, UNCHANGED <<kind, held, readers, writers>>,
         \A c \in Commands : \/ exec'[c] = exec[c]
                             \/ /\ exec[c] \in {"none", "locking", "executing"}
                                /\ held[c] = 0 /\ exec'[c] \in {"executing", "ended"}
                             \/ exec[c] = "none" /\ exec'[c] = "locking"
  PROVE  Placed' /\ WriterHolds'
<1>1. \A c : LocksOf(c)' = LocksOf(c)
  BY DEF LocksOf, Mutating
<1>2. ASSUME NEW c \in Commands
      PROVE  /\ exec'[c] = "locking" => held'[c] < Len(LocksOf(c)') \/ LocksOf(c)' = <<>>
             /\ exec'[c] = "releasing" => held'[c] > 0
             /\ exec'[c] \in {"none", "ended"} => held'[c] = 0
  <2>1. CASE exec'[c] = exec[c]
    BY <1>1, <2>1 DEF Placed
  <2>2. CASE held[c] = 0 /\ exec'[c] \in {"executing", "ended"}
    BY <2>2
  <2>3. CASE exec[c] = "none" /\ exec'[c] = "locking"
    <3>1. LockTypes
      BY DEF LockInv
    <3>2. Len(LocksOf(c)) \in Nat
      BY <3>1, KindOf, LocksOfPatch, LocksOfMedia, LocksOfLook, MediaLen
    <3>3. LocksOf(c) = <<>> <=> Len(LocksOf(c)) = 0
      BY <3>1, NoLock
    <3>4. held'[c] = 0
      BY <2>3 DEF Placed
    <3>5. held'[c] < Len(LocksOf(c)') \/ LocksOf(c)' = <<>>
      BY <1>1, <3>2, <3>3, <3>4
    <3>6. QED
      BY <2>3, <3>5
  <2>4. QED
    BY <2>1, <2>2, <2>3
<1>3. Placed'
  BY <1>2 DEF Placed
<1>4. WriterHolds'
  BY DEF WriterHolds
<1>5. QED
  BY <1>3, <1>4

\* A started command begins to lock.
LEMMA StartPlaces ==
  ASSUME WorkInv, LockInv, AtRouter, UNCHANGED kind,
         NEW S, \A c \in S : c \in Commands => runs[c] = 0, Start(S)
  PROVE  Placed' /\ WriterHolds'
<1>1. /\ exec' = [c \in Commands |-> IF c \in S THEN "locking" ELSE exec[c]]
      /\ UNCHANGED <<held, readers, writers>>
  BY DEF Start, locks
<1>2. \A c \in S : c \in Commands => exec[c] = "none"
  BY DEF AtRouter
<1>3. \A c \in Commands : \/ exec'[c] = exec[c]
                          \/ exec[c] = "none" /\ exec'[c] = "locking"
  BY <1>1, <1>2
<1>4. QED
  BY <1>1, <1>3, PlacesKept DEF WorkInv

LEMMA TakeKeepsPlaces ==
  ASSUME WorkInv, LockInv, NEW c \in Commands, TakeLock(c)
  PROVE  Placed' /\ WriterHolds'
<1> USE DEF LockInv, WorkInv
<1>1. /\ held[c] < Len(LocksOf(c)) /\ UNCHANGED kind /\ exec[c] = "locking"
      /\ held' = [held EXCEPT ![c] = @ + 1]
      /\ exec' = [exec EXCEPT ![c] = IF held'[c] = Len(LocksOf(c)) THEN "executing" ELSE @]
  BY DEF TakeLock, constants
<1>2. /\ held'[c] = held[c] + 1 /\ held[c] \in Nat
      /\ exec'[c] = IF held'[c] = Len(LocksOf(c)) THEN "executing" ELSE "locking"
      /\ \A d \in Commands : d # c => held'[d] = held[d] /\ exec'[d] = exec[d]
  BY <1>1 DEF LockTypes
<1>3. \A d : LocksOf(d)' = LocksOf(d)
  BY <1>1 DEF LocksOf, Mutating
<1>4. Len(LocksOf(c)) \in Nat
  BY KindOf, LocksOfPatch, LocksOfMedia, LocksOfLook, MediaLen
<1>5. exec'[c] = "locking" => held'[c] < Len(LocksOf(c)')
  BY <1>1, <1>2, <1>3, <1>4
<1>6. exec'[c] \in {"locking", "executing"}
  BY <1>2
<1>7. Placed'
  BY <1>2, <1>3, <1>5, <1>6 DEF Placed
<1>8. WriterHolds'
  <2> SUFFICES ASSUME Workspace \in writers' PROVE \E d \in Commands : kind'[d] = "patch" /\ held'[d] > 0
    BY DEF WriterHolds
  <2>1. CASE kind[c] = "patch"
    BY <1>1, <1>2, <2>1
  <2>2. CASE kind[c] = "look"
    BY <1>1, <1>2, <2>2, LocksOfLook
  <2>3. CASE kind[c] = "media"
    <3>1. held[c] + 1 \in 1..Len(MediaLocks)
      BY <1>1, <1>2, <2>3, LocksOfMedia, MediaLen
    <3>2. writers' = writers
      BY <3>1, <2>3, LocksOfMedia DEF TakeLock, Acquire
    <3>3. PICK d \in Commands : kind[d] = "patch" /\ held[d] > 0
      BY <3>2 DEF WriterHolds
    <3>4. QED
      BY <1>1, <1>2, <2>3, <3>3
  <2>4. QED
    BY <2>1, <2>2, <2>3, KindOf
<1>9. QED
  BY <1>7, <1>8

LEMMA DropKeepsPlaces ==
  ASSUME WorkInv, LockInv, NEW c \in Commands, DropLock(c)
  PROVE  Placed' /\ WriterHolds'
<1> USE DEF LockInv, WorkInv
<1>1. /\ held[c] > 0 /\ UNCHANGED kind
      /\ held' = [held EXCEPT ![c] = @ - 1]
      /\ exec' = [exec EXCEPT ![c] = IF held[c] > 1 THEN "releasing" ELSE "ended"]
  BY DEF DropLock, Respond, constants
<1>2. /\ held'[c] = held[c] - 1 /\ held[c] \in Nat
      /\ exec'[c] = IF held[c] > 1 THEN "releasing" ELSE "ended"
      /\ \A d \in Commands : d # c => held'[d] = held[d] /\ exec'[d] = exec[d]
  BY <1>1 DEF LockTypes
<1>3. \A d : LocksOf(d)' = LocksOf(d)
  BY <1>1 DEF LocksOf, Mutating
<1>4. /\ exec'[c] = "releasing" => held'[c] > 0
      /\ exec'[c] = "ended" => held'[c] = 0
      /\ exec'[c] \in {"releasing", "ended"}
  BY <1>1, <1>2
<1>5. Placed'
  BY <1>2, <1>3, <1>4 DEF Placed
<1>6. WriterHolds'
  <2> SUFFICES ASSUME Workspace \in writers' PROVE \E d \in Commands : kind'[d] = "patch" /\ held'[d] > 0
    BY DEF WriterHolds
  <2>1. held[c] <= Len(LocksOf(c))
    BY DEF HoldsItsLocks
  <2>2. CASE kind[c] = "patch"
    <3>1. held[c] = 1
      <4>1. Len(LocksOf(c)) = 1
        BY <2>2, LocksOfPatch
      <4>2. QED
        BY <1>1, <1>2, <2>1, <4>1
    <3>2. writers' = writers \ {Workspace}
      BY <2>2, <3>1, LocksOfPatch DEF DropLock, Release
    <3>3. QED
      BY <3>2
  <2>3. CASE kind[c] = "look"
    BY <1>1, <1>2, <2>1, <2>3, LocksOfLook
  <2>4. CASE kind[c] = "media"
    <3>1. held[c] \in 1..Len(MediaLocks)
      BY <1>1, <1>2, <2>1, <2>4, LocksOfMedia, MediaLen
    <3>2. writers' = writers
      BY <3>1, <2>4, LocksOfMedia DEF DropLock, Release
    <3>3. PICK d \in Commands : kind[d] = "patch" /\ held[d] > 0
      BY <3>2 DEF WriterHolds
    <3>4. QED
      BY <1>1, <1>2, <2>4, <3>3
  <2>5. QED
    BY <2>2, <2>3, <2>4, KindOf
<1>7. QED
  BY <1>5, <1>6

\* The thread leaves the loop, or something that it waits for is running: a
\* run that is over starts nothing, and a step that is ready starts.
LEMMA ScheduleStartsWork ==
  ASSUME RunInv, Schedule
  PROVE  PollWaits'
<1> SUFFICES ASSUME stage' = "poll", ~receiverOpen' PROVE running' # 0
  BY DEF PollWaits
<1> USE DEF RunInv
<1>1. /\ receiverOpen' = (receiverOpen /\ ~StopAccepting) /\ ~Finished
      /\ running' = running + Cardinality(Ready)
  BY DEF Schedule, Start
<1>2. StillPending \in SUBSET Commands /\ Ready \in SUBSET Commands
  BY DEF StillPending, Ready, RunTypes
<1>3. Cardinality(Ready) \in Nat /\ IsFiniteSet(Ready) /\ running \in Nat
  <2>1. Started \ results \in SUBSET Commands
    BY DEF Started
  <2>2. 0..NCommands \subseteq Nat
    BY BoundsAssumption
  <2>3. QED
    BY <1>2, <2>1, <2>2, SomeRun DEF Counted
<1>4. CASE running # 0
  BY <1>1, <1>3, <1>4
<1>5. CASE running = 0
  <2>1. StillPending # {}
    BY <1>1, <1>5 DEF Finished
  <2> DEFINE low == CHOOSE n \in Steps : /\ \E c \in StillPending : step[c] = n
                                         /\ \A c \in StillPending : n <= step[c]
  <2>2. low \in Steps /\ \E c \in StillPending : step[c] = low
    BY <1>2, <2>1, LowestStep DEF RunTypes
  <2>3. NextStep = IF active >= low THEN active ELSE low
    BY <1>5, <2>1 DEF NextStep
  <2> HIDE DEF low
  <2>4. low \in Nat /\ active \in Nat
    BY <2>2, BoundsAssumption DEF Steps, RunTypes
  <2>5. PICK c \in StillPending : step[c] <= NextStep
    BY <2>2, <2>3, <2>4
  <2>6. Ready # {}
    BY <1>5, <2>5 DEF Ready
  <2>7. QED
    BY <1>1, <1>3, <1>5, <2>6, FS_EmptySet
<1>6. QED
  BY <1>4, <1>5

LEMMA StepKeepsWork == LockInv /\ RunInv /\ WorkInv /\ [Next]_vars => WorkInv'
<1> SUFFICES ASSUME LockInv, RunInv, WorkInv, [Next]_vars PROVE WorkInv'
  OBVIOUS
<1> USE DEF WorkInv, constants, locks, routerVars
<1>t. AtRouter /\ Remembered /\ exec \in [Commands -> Places] /\ held \in [Commands -> Nat]
  BY DEF RunInv, LockInv, LockTypes
<1>1. CASE Caller \/ UNCHANGED vars
  <2>1. /\ UNCHANGED <<kind, held, readers, writers, exec>>
        /\ UNCHANGED <<stage, receiverOpen, running>>
    BY <1>1 DEF Caller, StreamCommand, ProviderAnswers, ProviderFails, CancelTick, DiscardTick,
       Join, Leave, vars, threadVars
  <2>2. PollWaits'
    BY <2>1 DEF PollWaits
  <2>3. QED
    BY <2>1, <2>2, PlacesKept
<1>2. CASE TakeCompletion \/ StreamCloses
  <2>1. UNCHANGED <<kind, held, readers, writers, exec>> /\ stage' = "drain"
    BY <1>2 DEF TakeCompletion, StreamCloses
  <2>2. QED
    BY <2>1, PlacesKept DEF PollWaits
<1>3. CASE Schedule
  <2>1. Start(Ready) /\ UNCHANGED kind
    BY <1>3 DEF Schedule
  <2>2. \A c \in Ready : c \in Commands => runs[c] = 0
    <3>1. Ready \subseteq pending
      BY DEF Ready, StillPending
    <3>2. \A c \in Commands : c \notin Started => runs[c] = 0
      BY DEF Started, RunInv, RunTypes
    <3>3. QED
      BY <1>t, <3>1, <3>2 DEF Remembered
  <2>3. QED
    BY <1>3, <1>t, <2>1, <2>2, StartPlaces, ScheduleStartsWork
<1>4. CASE ReadEvent
  <2> DEFINE c == Head(stream)
             S == IF Fresh(c) /\ StartsNow(c) THEN {c} ELSE {}
  <2>1. Start(S) /\ UNCHANGED kind /\ stage' = "drain"
    BY <1>4 DEF ReadEvent
  <2>2. \A d \in S : d \in Commands => runs[d] = 0
    <3>1. \A d \in S : d \notin known
      BY DEF Fresh
    <3>2. \A d \in Commands : d \notin Started => runs[d] = 0
      BY DEF Started, RunInv, RunTypes
    <3>3. QED
      BY <1>t, <3>1, <3>2 DEF Remembered
  <2> HIDE DEF S
  <2>3. QED
    BY <1>t, <2>1, <2>2, StartPlaces DEF PollWaits
<1>5. ASSUME NEW c \in Commands, Router(c) \/ Refuse(c) \/ GiveUp(c) PROVE WorkInv'
  <2>1. UNCHANGED <<stage, receiverOpen, running>>
    BY <1>5 DEF Router, TakeLock, ExecuteUnlocked, DropLock, CompleteUnlocked, Refuse, GiveUp, threadVars
  <2>2. PollWaits'
    BY <2>1 DEF PollWaits
  <2>3. CASE ExecuteUnlocked(c)
    <3>1. /\ UNCHANGED <<kind, held, readers, writers>> /\ exec[c] = "locking" /\ LocksOf(c) = <<>>
          /\ exec' = [exec EXCEPT ![c] = "executing"]
      BY <2>3 DEF ExecuteUnlocked
    <3>2. held[c] = 0
      BY <1>t, <3>1 DEF LockInv, HoldsItsLocks
    <3>3. QED
      BY <1>t, <2>2, <3>1, <3>2, PlacesKept
  <2>4. CASE CompleteUnlocked(c)
    <3>1. /\ UNCHANGED <<kind, held, readers, writers>> /\ exec[c] = "executing" /\ held[c] = 0
          /\ exec' = [exec EXCEPT ![c] = "ended"]
      BY <2>4 DEF CompleteUnlocked, Respond
    <3>2. QED
      BY <1>t, <2>2, <3>1, PlacesKept
  <2>5. CASE Refuse(c)
    <3>1. /\ UNCHANGED <<kind, held, readers, writers>> /\ exec[c] = "locking" /\ held[c] = 0
          /\ exec' = [exec EXCEPT ![c] = "ended"]
      BY <2>5 DEF Refuse
    <3>2. QED
      BY <1>t, <2>2, <3>1, PlacesKept
  <2>6. CASE GiveUp(c)
    <3>1. UNCHANGED <<kind, held, readers, writers, exec>>
      BY <2>6 DEF GiveUp
    <3>2. QED
      BY <2>2, <3>1, PlacesKept
  <2>7. QED
    BY <1>5, <2>2, <2>3, <2>4, <2>5, <2>6, TakeKeepsPlaces, DropKeepsPlaces DEF Router
<1>6. QED
  BY <1>1, <1>2, <1>3, <1>4, <1>5 DEF Next, Thread

\* A command that the router has neither ended nor is stuck with makes way: if
\* its lock is taken, the holder can go on.
LEMMA WorkGoesOn ==
  ASSUME LockInv, WorkInv, NEW c \in Commands, exec[c] \in {"locking", "executing", "releasing"}
  PROVE  \E d \in Commands : RouterCan(d)
<1> USE DEF LockInv, WorkInv
<1>t. held \in [Commands -> Nat] /\ exec \in [Commands -> Places] /\ writers \subseteq {Workspace}
  BY DEF LockTypes
<1>1. ASSUME NEW d \in Commands, kind[d] = "patch", held[d] > 0 PROVE RouterCan(d)
  <2>1. LocksOf(d) # <<>> /\ Len(LocksOf(d)) = 1 /\ held[d] = 1
    <3>1. Len(LocksOf(d)) = 1
      BY <1>1, LocksOfPatch
    <3>2. LocksOf(d) # <<>>
      BY <3>1, NoLock
    <3>3. held[d] \in Nat /\ held[d] <= 1
      BY <1>t, <3>1 DEF HoldsItsLocks
    <3>4. QED
      BY <1>1, <3>1, <3>2, <3>3
  <2>2. exec[d] # "locking" /\ exec[d] \notin {"none", "ended"}
    <3>1. ~(held[d] < Len(LocksOf(d))) /\ held[d] # 0
      BY <2>1
    <3>2. QED
      BY <2>1, <3>1 DEF Placed
  <2>3. QED
    BY <1>t, <1>1, <2>2 DEF RouterCan, Places
<1>2. CASE Workspace \in writers
  BY <1>1, <1>2 DEF WriterHolds
<1>3. ASSUME Workspace \notin writers, NEW d \in Commands, kind[d] = "media",
             exec[d] \in {"locking", "executing", "releasing"}
      PROVE  RouterCan(d)
  <2>1. CASE exec[d] = "locking"
    <3>1. LocksOf(d) = <<>> <=> Len(LocksOf(d)) = 0
      BY NoLock
    <3>2. held[d] < Len(LocksOf(d)) \/ LocksOf(d) = <<>>
      BY <2>1 DEF Placed
    <3>3. CASE held[d] < Len(LocksOf(d))
      <4>1. held[d] + 1 \in 1..Len(MediaLocks)
        BY <1>t, <1>3, <3>3, LocksOfMedia, MediaLen
      <4>2. LocksOf(d)[held[d] + 1] = <<MediaLocks[held[d] + 1], "read">>
        BY <1>3, <4>1, LocksOfMedia
      <4>3. CanAcquire(MediaLocks[held[d] + 1], "read")
        BY <1>t, <1>3 DEF CanAcquire
      <4>4. QED
        BY <2>1, <3>3, <4>2, <4>3 DEF RouterCan, LockIsFree
    <3>4. QED
      BY <2>1, <3>2, <3>3 DEF RouterCan
  <2>2. CASE exec[d] # "locking"
    BY <1>3, <2>2 DEF RouterCan, Placed
  <2>3. QED
    BY <2>1, <2>2
<1>4. CASE Workspace \notin writers /\ kind[c] = "media"
  BY <1>3, <1>4
<1>5. CASE Workspace \notin writers /\ kind[c] = "look"
  BY <1>5, LocksOfLook DEF RouterCan, Placed
<1>6. CASE Workspace \notin writers /\ kind[c] = "patch"
  <2>1. CASE exec[c] # "locking"
    BY <2>1 DEF RouterCan, Placed
  <2>2. CASE exec[c] = "locking" /\ \A k \in Keys : readers[k] = 0
    <3>1. writers = {}
      BY <1>6, <1>t
    <3>2. LocksOf(c) = << <<Workspace, "write">> >> /\ Len(LocksOf(c)) = 1
      BY <1>6, LocksOfPatch
    <3>3. held[c] = 0
      <4>1. LocksOf(c) # <<>> /\ held[c] \in Nat
        BY <1>t, <3>2, NoLock
      <4>2. held[c] < 1
        BY <2>2, <3>2, <4>1 DEF Placed
      <4>3. QED
        BY <4>1, <4>2
    <3>4. CanAcquire(Workspace, "write")
      BY <2>2, <3>1 DEF CanAcquire
    <3>5. LocksOf(c)[held[c] + 1] = <<Workspace, "write">>
      BY <3>2, <3>3
    <3>6. QED
      BY <2>2, <3>2, <3>3, <3>4, <3>5 DEF RouterCan, LockIsFree
  <2>3. CASE \E k \in Keys : readers[k] # 0
    <3>1. PICK k \in Keys : readers[k] # 0
      BY <2>3
    <3>2. Holds(k) # {}
      BY <3>1, FS_EmptySet DEF ReadersCounted
    <3>3. PICK d \in Commands : kind[d] = "media" /\ held[d] > 0
      BY <1>t, <3>2, MediaLen DEF Holds
    <3>4. exec[d] \in {"locking", "executing", "releasing"}
      BY <1>t, <3>3 DEF Placed, Places
    <3>5. QED
      BY <1>3, <1>6, <3>3, <3>4
  <2>4. QED
    BY <2>1, <2>2, <2>3
<1>7. QED
  BY <1>2, <1>4, <1>5, <1>6, KindOf

\* The guards behind NeverStuck: while the caller waits for the thread, the
\* thread can go on, or it waits for a command that runs, and then a command
\* at the router can: no wait for locks, completions and events is circular,
\* also after time-outs, refused requests and commands given up.
THEOREM SomebodyCanGoOn == Spec => [](turn = "joining" => CanGoOn)
<1>1. Init => WorkInv
  BY DEF Init, LocksInit, WorkInv, Placed, WriterHolds, PollWaits
<1>2. LockInv /\ RunInv /\ WorkInv => (turn = "joining" => CanGoOn)
  <2> SUFFICES ASSUME LockInv, RunInv, WorkInv, turn = "joining" PROVE CanGoOn
    OBVIOUS
  <2> USE DEF RunInv
  <2>1. stage \in {"drain", "poll", "finished"} /\ ~streamOpen
    BY DEF RunTypes, Delivered
  <2>2. CASE stage = "finished"
    BY <2>2 DEF CanGoOn
  <2>3. CASE stage = "drain"
    BY <2>3 DEF CanGoOn, ThreadCan, MayTake
  <2>4. CASE stage = "poll" /\ receiverOpen
    BY <2>1, <2>4 DEF CanGoOn, ThreadCan
  <2>5. CASE stage = "poll" /\ ~receiverOpen /\ channel # <<>>
    BY <2>5 DEF CanGoOn, ThreadCan, MayTake
  <2>6. CASE stage = "poll" /\ ~receiverOpen /\ channel = <<>>
    <3>1. Started \ results # {}
      <4>1. running # 0
        BY <2>6 DEF WorkInv, PollWaits
      <4>2. QED
        BY <4>1, FS_EmptySet DEF Counted
    <3>2. PICK c \in Started : c \notin results
      BY <3>1
    <3>3. c \notin Told
      <4>1. Entries(channel) = {}
        BY <2>6 DEF Entries
      <4>2. QED
        BY <3>2, <4>1 DEF Completions
    <3>4. c \in Commands /\ exec[c] # "none" /\ exec[c] # "ended"
      BY <3>2, <3>3 DEF Started, AtRouter, Completions, RunTypes
    <3>5. exec[c] \in {"locking", "executing", "releasing"}
      BY <3>4 DEF LockInv, LockTypes, Places
    <3>6. QED
      BY <3>4, <3>5, WorkGoesOn DEF CanGoOn
  <2>7. QED
    BY <2>1, <2>2, <2>3, <2>4, <2>5, <2>6
<1>3. QED
  BY <1>1, <1>2, AlwaysRun, StepKeepsWork, PTL DEF Spec
=============================================================================
