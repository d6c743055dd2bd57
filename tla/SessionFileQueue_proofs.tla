----------------------- MODULE SessionFileQueue_proofs -----------------------
(***************************************************************************)
(* Proofs about the file queue, for any number of producers, writes,       *)
(* overlapping owners, crashes and errors.                                 *)
(***************************************************************************)
EXTENDS SessionFileQueue, TLAPS

-----------------------------------------------------------------------------
(* Type correctness.  A thread between claiming an item and letting go of  *)
(* it has one: the type of cur alone does not say so.                      *)

Holding == {"read", "apply", "remove", "quarantine"}

CurOK == \A d \in Drainers : phase[d] \in Holding => cur[d] \in Items

TypeInv == TypeOK /\ CurOK

LEMMA ItemParts ==
  ASSUME NEW i \in Items PROVE i[1] \in Producers /\ i[2] \in 1..MaxItems
BY DEF Items

\* The variables of the queue keep their types, whatever owners overlap and
\* crash.
THEOREM TypeInvariant == Spec => []TypeInv
<1> USE BoundsAssumption
<1>1. Init => TypeInv
  BY DEF Init, TypeInv, TypeOK, CurOK, Items, Places, Phases, Holding
<1>2. TypeInv /\ [Next]_vars => TypeInv'
  <2> SUFFICES ASSUME TypeInv, [Next]_vars PROVE TypeInv'
    OBVIOUS
  <2> USE DEF TypeInv, TypeOK, CurOK, Places, Phases, Holding, Goto, Move, In
  <2>1. ASSUME NEW p \in Producers, Enqueue(p) PROVE TypeInv'
    BY <2>1 DEF Enqueue, drainVars, storeVars, Items
  <2>2. ASSUME NEW d \in Drainers, Start(d) PROVE TypeInv'
    BY <2>2 DEF Start, storeVars
  <2>3. ASSUME NEW d \in Drainers, Crash(d) PROVE TypeInv'
    BY <2>3 DEF Crash, storeVars
  <2>4. ASSUME NEW d \in Drainers, BeginDrain(d) PROVE TypeInv'
    BY <2>4 DEF BeginDrain, storeVars
  <2>5. ASSUME NEW d \in Drainers, ListPending(d) PROVE TypeInv'
    BY <2>5 DEF ListPending, storeVars
  <2>6. ASSUME NEW d \in Drainers, NEW i \in Items, RecoverOne(d, i) PROVE TypeInv'
    BY <2>6 DEF RecoverOne, Fault, storeVars
  <2>7. ASSUME NEW d \in Drainers, NEW i \in Items, Claim(d, i) PROVE TypeInv'
    <3>1. left' \in [Drainers -> 0..Limit] /\ todo' \in [Drainers -> SUBSET Items]
      BY <2>7 DEF Claim
    <3>2. QED
      BY <2>7, <3>1 DEF Claim, Fault, storeVars
  <2>8. ASSUME NEW d \in Drainers, Read(d) PROVE TypeInv'
    BY <2>8 DEF Read, Fault, storeVars
  <2>9. ASSUME NEW d \in Drainers, Apply(d) PROVE TypeInv'
    <3>1. cur[d] \in Items
      BY <2>9 DEF Apply
    <3>2. cur[d][1] \in Producers /\ cur[d][2] \in 0..MaxItems
      BY <3>1, ItemParts
    <3>3. QED
      BY <2>9, <3>1, <3>2 DEF Apply
  <2>10. ASSUME NEW d \in Drainers, ApplyFails(d) PROVE TypeInv'
    BY <2>10 DEF ApplyFails, Fault, storeVars
  <2>11. ASSUME NEW d \in Drainers, Remove(d) PROVE TypeInv'
    BY <2>11 DEF Remove, Fault, storeVars
  <2>12. ASSUME NEW d \in Drainers, Quarantine(d) PROVE TypeInv'
    BY <2>12 DEF Quarantine, Fault, storeVars
  <2>13. ASSUME NEW d \in Drainers, EndDrain(d) PROVE TypeInv'
    BY <2>13 DEF EndDrain, storeVars
  <2>14. CASE UNCHANGED vars
    BY <2>14 DEF vars, drainVars, storeVars
  <2>15. QED
    BY <2>1, <2>2, <2>3, <2>4, <2>5, <2>6, <2>7, <2>8, <2>9, <2>10, <2>11, <2>12,
       <2>13, <2>14 DEF Next, DrainStep
<1>3. QED
  BY <1>1, <1>2, PTL DEF Spec

\* Whatever owners overlap and crash, the queue is well typed.
THEOREM TypeCorrect == Spec => []TypeOK
BY TypeInvariant, PTL DEF TypeInv

-----------------------------------------------------------------------------
(* Durability.  The directory of an item tells its story: a file that was  *)
(* never renamed into pending/ was never accepted, and a file is removed   *)
(* only by a thread that has applied it.                                   *)

PlaceTellsStory ==
  \A i \in Items : /\ place[i] = "absent" => i \notin Accepted
                   /\ place[i] = "removed" => i \in applied

RemoveAfterApply == \A d \in Drainers : phase[d] = "remove" => cur[d] \in applied

Durable == PlaceTellsStory /\ RemoveAfterApply

LEMMA DurableNeverLost == TypeInv /\ Durable => NeverLost
BY DEF TypeInv, TypeOK, Durable, PlaceTellsStory, NeverLost, Accepted, Places

LEMMA AlwaysDurable == Spec => [](TypeInv /\ Durable)
<1> USE BoundsAssumption
<1>1. Init => Durable
  BY ItemParts DEF Init, Durable, PlaceTellsStory, RemoveAfterApply, Accepted
<1>2. TypeInv /\ Durable /\ [Next]_vars => Durable'
  <2> SUFFICES ASSUME TypeInv, Durable, [Next]_vars PROVE Durable'
    OBVIOUS
  <2> USE DEF TypeInv, TypeOK, CurOK, Holding, Durable, PlaceTellsStory,
              RemoveAfterApply, Accepted, Goto, Move
  <2>1. ASSUME NEW p \in Producers, Enqueue(p) PROVE Durable'
    <3>1. PlaceTellsStory'
      <4> SUFFICES ASSUME NEW i \in Items
                   PROVE  /\ place'[i] = "absent" => ~(i[2] <= sent'[i[1]])
                          /\ place'[i] = "removed" => i \in applied
        BY <2>1 DEF Enqueue, storeVars
      <4>1. i[1] \in Producers /\ i[2] \in 1..MaxItems /\ i = <<i[1], i[2]>>
        BY DEF Items
      <4>2. <<p, sent[p] + 1>> \in Items
        BY <2>1 DEF Enqueue, Items
      <4>3. CASE i = <<p, sent[p] + 1>>
        BY <2>1, <4>2, <4>3 DEF Enqueue
      <4>4. CASE i # <<p, sent[p] + 1>>
        BY <2>1, <4>1, <4>2, <4>4 DEF Enqueue
      <4>5. QED
        BY <4>3, <4>4
    <3>2. QED
      BY <2>1, <3>1 DEF Enqueue, drainVars, storeVars
  <2>2. ASSUME NEW d \in Drainers,
               \/ Start(d) \/ Crash(d) \/ BeginDrain(d) \/ ListPending(d)
               \/ Read(d) \/ ApplyFails(d) \/ EndDrain(d)
        PROVE  Durable'
    <3>1. UNCHANGED <<place, sent, applied>>
      BY <2>2 DEF Start, Crash, BeginDrain, ListPending, Read, ApplyFails, EndDrain, storeVars
    <3>2. PlaceTellsStory'
      BY <3>1
    <3>3. \A e \in Drainers : phase'[e] = "remove" => phase[e] = "remove" /\ cur'[e] = cur[e]
      BY <2>2 DEF Start, Crash, BeginDrain, ListPending, Read, ApplyFails, EndDrain
    <3>4. QED
      BY <3>1, <3>2, <3>3
  <2>3. ASSUME NEW d \in Drainers, NEW i \in Items, RecoverOne(d, i) \/ Claim(d, i)
        PROVE  Durable'
    <3>1. UNCHANGED <<sent, applied>>
      BY <2>3 DEF RecoverOne, Claim, storeVars
    <3>2. \A j \in Items : /\ place'[j] = "absent" => place[j] = "absent"
                           /\ place'[j] = "removed" => place[j] = "removed"
      BY <2>3 DEF RecoverOne, Claim
    <3>3. \A e \in Drainers : phase'[e] = "remove" => phase[e] = "remove" /\ cur'[e] = cur[e]
      BY <2>3 DEF RecoverOne, Claim
    <3>4. QED
      BY <3>1, <3>2, <3>3
  <2>4. ASSUME NEW d \in Drainers, Apply(d) PROVE Durable'
    BY <2>4 DEF Apply
  <2>5. ASSUME NEW d \in Drainers, Remove(d) \/ Quarantine(d) PROVE Durable'
    <3>1. UNCHANGED <<sent, applied>>
      BY <2>5 DEF Remove, Quarantine, storeVars
    <3>2. \A j \in Items : /\ place'[j] = "absent" => place[j] = "absent"
                           /\ place'[j] = "removed" => place[j] = "removed" \/ j \in applied
      BY <2>5 DEF Remove, Quarantine
    <3>3. \A e \in Drainers : phase'[e] = "remove" => phase[e] = "remove" /\ cur'[e] = cur[e]
      BY <2>5 DEF Remove, Quarantine
    <3>4. QED
      BY <3>1, <3>2, <3>3
  <2>6. CASE UNCHANGED vars
    BY <2>6 DEF vars, drainVars, storeVars
  <2>7. QED
    BY <2>1, <2>2, <2>3, <2>4, <2>5, <2>6 DEF Next, DrainStep
<1>3. QED
  BY <1>1, <1>2, TypeInvariant, PTL DEF Spec

\* An accepted write is never lost: it has been applied, or its file is in
\* pending/, processing/ or failed/.
THEOREM WritesAreNeverLost == Spec => []NeverLost
BY AlwaysDurable, DurableNeverLost, PTL

-----------------------------------------------------------------------------
(* Refinement.  Only accepted writes have a file, are listed by a thread   *)
(* or are applied by one; with that, every step of the directories is a    *)
(* step of DurableWrites or changes nothing it can see.                    *)

AcceptedOnly ==
  /\ \A i \in Items : i \notin Accepted => place[i] = "absent"
  /\ \A d \in Drainers : todo[d] \subseteq Accepted
  /\ \A d \in Drainers : phase[d] \in Holding => cur[d] \in Accepted

LEMMA AlwaysAcceptedOnly == Spec => [](TypeInv /\ AcceptedOnly)
<1> USE BoundsAssumption
<1>1. Init => AcceptedOnly
  BY DEF Init, AcceptedOnly, Holding
<1>2. TypeInv /\ AcceptedOnly /\ [Next]_vars => AcceptedOnly'
  <2> SUFFICES ASSUME TypeInv, AcceptedOnly, [Next]_vars PROVE AcceptedOnly'
    OBVIOUS
  <2> USE DEF TypeInv, TypeOK, CurOK, AcceptedOnly, Holding, Goto, Move
  <2>1. ASSUME NEW p \in Producers, Enqueue(p) PROVE AcceptedOnly'
    <3>1. Accepted \subseteq Accepted' /\ <<p, sent[p] + 1>> \in Accepted'
      BY <2>1, ItemParts DEF Enqueue, Accepted, Items
    <3>2. \A i \in Items : i \notin Accepted' => place'[i] = "absent"
      BY <2>1, <3>1 DEF Enqueue
    <3>3. QED
      BY <2>1, <3>1, <3>2 DEF Enqueue, drainVars
  <2>2. ASSUME NEW d \in Drainers, DrainStep(d) \/ Start(d) \/ Crash(d) PROVE AcceptedOnly'
    <3>1. Accepted' = Accepted
      BY <2>2 DEF Accepted, DrainStep, Start, Crash, BeginDrain, ListPending, Read,
                  Apply, ApplyFails, Remove, Quarantine, EndDrain, RecoverOne, Claim
    <3>2. In("processing") \subseteq Accepted /\ In("pending") \subseteq Accepted
      BY DEF In
    <3>3. \A i \in Items : i \notin Accepted => place'[i] = "absent"
      BY <2>2, ItemParts
         DEF DrainStep, Start, Crash, BeginDrain, ListPending, Read,
             Apply, ApplyFails, Remove, Quarantine, EndDrain, RecoverOne, Claim
    <3>4. \A e \in Drainers : todo'[e] \subseteq Accepted
      BY <2>2, <3>2
         DEF DrainStep, Start, Crash, BeginDrain, ListPending, Read,
             Apply, ApplyFails, Remove, Quarantine, EndDrain, RecoverOne, Claim
    <3>5. \A e \in Drainers : phase'[e] \in Holding => cur'[e] \in Accepted
      BY <2>2
         DEF DrainStep, Start, Crash, BeginDrain, ListPending, Read,
             Apply, ApplyFails, Remove, Quarantine, EndDrain, RecoverOne, Claim
    <3>6. QED
      BY <3>1, <3>3, <3>4, <3>5
  <2>3. CASE UNCHANGED vars
    BY <2>3 DEF vars, drainVars, Accepted
  <2>4. QED
    BY <2>1, <2>2, <2>3 DEF Next
<1>3. QED
  BY <1>1, <1>2, TypeInvariant, PTL DEF Spec

Held == In("pending") \cup In("processing")

LEMMA StepRefines ==
  ASSUME TypeInv, Durable, AcceptedOnly, [Next]_vars
  PROVE  [Writes!Next]_(Writes!vars)
<1> USE DEF Writes!vars, Writes!Items, Held
<1>1. ASSUME NEW p \in Producers, Enqueue(p) PROVE Writes!Accept(p)
  <2> DEFINE new == <<p, sent[p] + 1>>
  <2>1. new \in Items /\ new \notin Accepted
    BY <1>1, BoundsAssumption DEF Enqueue, Items, TypeInv, TypeOK, Accepted
  <2>2. place \in [Items -> Places] /\ place[new] = "absent"
    BY <2>1 DEF AcceptedOnly, TypeInv, TypeOK
  <2>3. place' = [place EXCEPT ![new] = "pending"]
    BY <1>1 DEF Enqueue, Move
  <2>4. Held' = Held \cup {new} /\ In("failed")' = In("failed")
    BY <2>1, <2>2, <2>3 DEF In
  <2>5. QED
    BY <1>1, <2>4 DEF Enqueue, Writes!Accept, storeVars
<1>2. ASSUME NEW d \in Drainers, Apply(d) PROVE Writes!Apply(cur[d]) /\ cur[d] \in Items
  BY <1>2 DEF Apply, Goto, Writes!Apply, AcceptedOnly, Holding, Accepted, In
<1>3. ASSUME NEW d \in Drainers, Remove(d)
      PROVE  (cur[d] \in Items /\ Writes!Discard(cur[d])) \/ UNCHANGED Writes!vars
  <2>1. cur[d] \in Items /\ cur[d] \in applied /\ place \in [Items -> Places]
    BY <1>3 DEF Remove, Goto, TypeInv, TypeOK, CurOK, Holding, Durable, RemoveAfterApply
  <2>2. CASE place' = place
    BY <1>3, <2>2 DEF Remove, In, storeVars
  <2>3. CASE place[cur[d]] = "processing" /\ place' = [place EXCEPT ![cur[d]] = "removed"]
    <3>1. Held' = Held \ {cur[d]} /\ In("failed")' = In("failed") /\ cur[d] \in Held
      BY <2>1, <2>3 DEF In
    <3>2. QED
      BY <1>3, <2>1, <3>1 DEF Remove, Writes!Discard, storeVars
  <2>4. QED
    BY <1>3, <2>2, <2>3 DEF Remove, Move
<1>4. ASSUME NEW d \in Drainers, Quarantine(d)
      PROVE  (cur[d] \in Items /\ Writes!SetAside(cur[d])) \/ UNCHANGED Writes!vars
  <2>1. cur[d] \in Items /\ place \in [Items -> Places]
    BY <1>4 DEF Quarantine, Goto, TypeInv, TypeOK, CurOK, Holding
  <2>2. CASE place' = place
    BY <1>4, <2>2 DEF Quarantine, In, storeVars
  <2>3. CASE place[cur[d]] = "processing" /\ place' = [place EXCEPT ![cur[d]] = "failed"]
    <3>1. Held' = Held \ {cur[d]} /\ In("failed")' = In("failed") \cup {cur[d]} /\ cur[d] \in Held
      BY <2>1, <2>3 DEF In
    <3>2. QED
      BY <1>4, <2>1, <3>1 DEF Quarantine, Writes!SetAside, storeVars
  <2>4. QED
    BY <1>4, <2>2, <2>3 DEF Quarantine, Move
<1>5. ASSUME NEW d \in Drainers, NEW i \in Items, RecoverOne(d, i) \/ Claim(d, i)
      PROVE  UNCHANGED Writes!vars
  <2>1. place' = place \/ /\ place[i] \in {"pending", "processing"}
                          /\ \/ place' = [place EXCEPT ![i] = "pending"]
                             \/ place' = [place EXCEPT ![i] = "processing"]
    BY <1>5 DEF RecoverOne, Claim, Move
  <2>2. Held' = Held /\ In("failed")' = In("failed")
    BY <2>1 DEF In, TypeInv, TypeOK
  <2>3. QED
    BY <1>5, <2>2 DEF RecoverOne, Claim, storeVars
<1>6. ASSUME NEW d \in Drainers,
             \/ Start(d) \/ Crash(d) \/ BeginDrain(d) \/ ListPending(d)
             \/ Read(d) \/ ApplyFails(d) \/ EndDrain(d)
      PROVE  UNCHANGED Writes!vars
  BY <1>6 DEF Start, Crash, BeginDrain, ListPending, Read, ApplyFails, EndDrain, In, storeVars
<1>7. CASE UNCHANGED vars
  BY <1>7 DEF vars, storeVars, In
<1>8. QED
  BY <1>1, <1>2, <1>3, <1>4, <1>5, <1>6, <1>7 DEF Next, DrainStep, Writes!Next, Items

\* The directories implement the promise made to the producers, for any number
\* of owners, crashes and errors.
THEOREM ImplementsDurableWrites == Spec => DurableSpec
<1>1. Init => Writes!Init
  BY DEF Init, Writes!Init, In
<1>2. TypeInv /\ Durable /\ AcceptedOnly /\ [Next]_vars => [Writes!Next]_(Writes!vars)
  BY StepRefines
<1>3. QED
  BY <1>1, <1>2, AlwaysDurable, AlwaysAcceptedOnly, PTL DEF Spec, DurableSpec, Writes!Spec

-----------------------------------------------------------------------------
(* Order, with one drain thread and before the first error.  A file is     *)
(* claimed only when all earlier writes of its producer are removed, and   *)
(* stays the only one in processing/; what a crash leaves there is earlier *)
(* than everything pending, and the next pass begins with it.              *)

OneDrainer == \A d, e \in Drainers : d = e

Before(i, j) == i[1] = j[1] /\ i[2] < j[2]

\* An item that was claimed once its turn had come.
Begun(i) == place[i] \in {"processing", "removed"} \/ i \in applied

ClaimedInTurn == \A i, j \in Items : Before(i, j) /\ Begun(j) => place[i] = "removed"

\* The directories and the listing, by where the thread is.
PassInv ==
  \A d \in Drainers :
    /\ phase[d] # "quarantine"
    /\ phase[d] = "recover" => In("processing") \subseteq todo[d]
    /\ phase[d] = "drain" => In("processing") = {}
    /\ phase[d] \in {"read", "apply", "remove"} => In("processing") = {cur[d]}
    /\ phase[d] \in {"drain", "read", "apply", "remove"} =>
         /\ todo[d] \subseteq In("pending")
         /\ \A i \in In("pending"), j \in todo[d] : Before(i, j) => i \in todo[d]

LastStored == \A p \in Producers : stored[p] # 0 => <<p, stored[p]>> \in applied

OrderInv ==
  faults = 0 => /\ In("failed") = {}
                /\ ClaimedInTurn /\ PassInv /\ LastStored

LEMMA StepKeepsOrder ==
  ASSUME OneDrainer, TypeInv, Durable, AcceptedOnly, OrderInv, [Next]_vars
  PROVE  OrderInv'
<1> SUFFICES ASSUME faults' = 0 PROVE OrderInv'
  BY DEF OrderInv
<1> USE BoundsAssumption DEF TypeInv, TypeOK, CurOK, Holding, Goto, Move, In
<1>0. faults \in Nat /\ ~Fault
  BY DEF Fault
<1>1. ASSUME NEW p \in Producers, Enqueue(p) PROVE OrderInv'
  <2> DEFINE new == <<p, sent[p] + 1>>
  <2>1. new \in Items /\ place[new] = "absent" /\ faults = 0
    <3>1. new \in Items /\ new \notin Accepted
      BY <1>1 DEF Enqueue, Items, Accepted
    <3>2. QED
      BY <1>1, <3>1 DEF Enqueue, AcceptedOnly
  <2>2. /\ place' = [place EXCEPT ![new] = "pending"]
        /\ UNCHANGED <<phase, todo, cur, stored, applied>>
    BY <1>1 DEF Enqueue, drainVars, storeVars
  <2>3. ClaimedInTurn'
    BY <2>1, <2>2 DEF ClaimedInTurn, Begun, OrderInv
  <2>4. \A d \in Drainers : \A j \in todo[d] : ~Before(new, j)
    BY ItemParts DEF AcceptedOnly, Accepted, Before
  <2>5. PassInv'
    BY <2>1, <2>2, <2>4 DEF PassInv, OrderInv
  <2>6. QED
    BY <2>1, <2>2, <2>3, <2>5 DEF OrderInv, LastStored
<1>2. ASSUME NEW d \in Drainers, Start(d) \/ Crash(d) \/ BeginDrain(d) \/ ListPending(d) \/ EndDrain(d)
      PROVE  OrderInv'
  <2>1. UNCHANGED <<place, applied, stored, faults>>
    BY <1>2 DEF Start, Crash, BeginDrain, ListPending, EndDrain, storeVars
  <2>2. PassInv'
    BY <1>2, <2>1 DEF Start, Crash, BeginDrain, ListPending, EndDrain, PassInv, OrderInv, OneDrainer
  <2>3. QED
    BY <2>1, <2>2 DEF OrderInv, ClaimedInTurn, Begun, LastStored
<1>3. ASSUME NEW d \in Drainers, NEW i \in Items, RecoverOne(d, i) PROVE OrderInv'
  <2>1. /\ faults = 0 /\ phase[d] = "recover"
        /\ place' = IF place[i] = "processing" THEN [place EXCEPT ![i] = "pending"] ELSE place
        /\ todo' = [todo EXCEPT ![d] = @ \ {i}]
        /\ UNCHANGED <<phase, cur, stored, applied>>
    BY <1>0, <1>3 DEF RecoverOne, storeVars
  <2>2. ClaimedInTurn'
    BY <2>1 DEF ClaimedInTurn, Begun, OrderInv
  <2>3. PassInv'
    BY <2>1 DEF PassInv, OrderInv, OneDrainer
  <2>4. QED
    BY <2>1, <2>2, <2>3 DEF OrderInv, LastStored
<1>4. ASSUME NEW d \in Drainers, NEW i \in Items, Claim(d, i) PROVE OrderInv'
  <2>1. /\ faults = 0 /\ phase[d] = "drain" /\ i \in First(todo[d])
        /\ todo' = [todo EXCEPT ![d] = @ \ {i}]
        /\ UNCHANGED <<stored, applied>>
    BY <1>0, <1>4 DEF Claim, storeVars
  <2>2. PassInv /\ ClaimedInTurn /\ In("failed") = {} /\ i \in todo[d] /\ place[i] = "pending"
    BY <2>1 DEF OrderInv, PassInv, First
  <2>3. /\ place' = [place EXCEPT ![i] = "processing"]
        /\ phase' = [phase EXCEPT ![d] = "read"] /\ cur' = [cur EXCEPT ![d] = i]
    BY <1>0, <1>4, <2>2 DEF Claim
  <2>4. \A h \in Items : Before(h, i) => place[h] = "removed"
    <3> SUFFICES ASSUME NEW h \in Items, Before(h, i) PROVE place[h] = "removed"
      OBVIOUS
    <3>1. h \in Accepted
      BY ItemParts, <2>2 DEF AcceptedOnly, Accepted, Before
    <3>2. place[h] \in {"pending", "processing", "failed", "removed"}
      BY <3>1 DEF Durable, PlaceTellsStory, Places
    <3>3. place[h] # "pending"
      <4> SUFFICES ASSUME place[h] = "pending" PROVE FALSE
        OBVIOUS
      <4>1. h \in todo[d]
        BY <2>1, <2>2 DEF PassInv
      <4>2. i[2] <= h[2]
        BY <2>1, <4>1 DEF First, Before
      <4>3. QED
        BY <4>2, ItemParts DEF Before
    <3>4. QED
      BY <2>1, <2>2, <3>2, <3>3 DEF PassInv
  <2>5. ClaimedInTurn'
    BY <2>1, <2>2, <2>3, <2>4 DEF ClaimedInTurn, Begun
  <2>6. PassInv'
    BY <2>1, <2>2, <2>3 DEF PassInv, OneDrainer
  <2>7. QED
    BY <2>1, <2>2, <2>3, <2>5, <2>6 DEF OrderInv, LastStored
<1>5. ASSUME NEW d \in Drainers, Read(d) PROVE OrderInv'
  <2>1. /\ faults = 0 /\ phase[d] = "read" /\ UNCHANGED <<place, todo, cur, stored, applied>>
        /\ phase' = [phase EXCEPT ![d] = IF place[cur[d]] = "processing" THEN "apply" ELSE "quarantine"]
    BY <1>0, <1>5 DEF Read
  <2>2. place[cur[d]] = "processing"
    BY <2>1 DEF OrderInv, PassInv
  <2>3. PassInv'
    BY <2>1, <2>2 DEF OrderInv, PassInv, OneDrainer
  <2>4. QED
    BY <2>1, <2>3 DEF OrderInv, ClaimedInTurn, Begun, LastStored
<1>6. ASSUME NEW d \in Drainers, Apply(d) PROVE OrderInv'
  <2>1. /\ faults = 0 /\ phase[d] = "apply" /\ UNCHANGED <<place, todo, cur>>
        /\ phase' = [phase EXCEPT ![d] = "remove"]
        /\ stored' = [stored EXCEPT ![cur[d][1]] = cur[d][2]]
        /\ applied' = applied \cup {cur[d]}
    BY <1>6 DEF Apply
  <2>2. cur[d] \in Items /\ place[cur[d]] = "processing"
    BY <2>1 DEF OrderInv, PassInv
  <2>3. ClaimedInTurn'
    BY <2>1, <2>2 DEF OrderInv, ClaimedInTurn, Begun
  <2>4. PassInv'
    BY <2>1, <2>2 DEF OrderInv, PassInv, OneDrainer
  <2>5. LastStored'
    <3>1. cur[d] = <<cur[d][1], cur[d][2]>>
      BY <2>2 DEF Items
    <3>2. QED
      BY <2>1, <3>1 DEF OrderInv, LastStored
  <2>6. QED
    BY <2>1, <2>3, <2>4, <2>5 DEF OrderInv
<1>7. ASSUME NEW d \in Drainers, Remove(d) PROVE OrderInv'
  <2>1. /\ faults = 0 /\ phase[d] = "remove" /\ UNCHANGED <<todo, stored, applied>>
        /\ phase' = [phase EXCEPT ![d] = "drain"]
        /\ place' = IF place[cur[d]] = "processing" THEN [place EXCEPT ![cur[d]] = "removed"] ELSE place
    BY <1>0, <1>7 DEF Remove, storeVars
  <2>2. cur[d] \in Items /\ place[cur[d]] = "processing"
    BY <2>1 DEF OrderInv, PassInv
  <2>3. ClaimedInTurn'
    BY <2>1, <2>2 DEF OrderInv, ClaimedInTurn, Begun
  <2>4. PassInv'
    BY <2>1, <2>2 DEF OrderInv, PassInv, OneDrainer
  <2>5. QED
    BY <2>1, <2>2, <2>3, <2>4 DEF OrderInv, LastStored
<1>8. ASSUME NEW d \in Drainers, ApplyFails(d) \/ Quarantine(d) PROVE OrderInv'
  BY <1>0, <1>8 DEF ApplyFails, Quarantine, OrderInv, PassInv
<1>9. CASE UNCHANGED vars
  BY <1>9 DEF vars, drainVars, storeVars, OrderInv, ClaimedInTurn, Begun, PassInv, LastStored
<1>10. QED
  BY <1>1, <1>2, <1>3, <1>4, <1>5, <1>6, <1>7, <1>8, <1>9 DEF Next, DrainStep

LEMMA AlwaysInOrder == ASSUME OneDrainer PROVE Spec => [](TypeInv /\ Durable /\ OrderInv)
<1>1. Init => OrderInv
  BY DEF Init, OrderInv, ClaimedInTurn, Begun, PassInv, LastStored, In
<1>2. TypeInv /\ Durable /\ AcceptedOnly /\ OrderInv /\ [Next]_vars => OrderInv'
  BY StepKeepsOrder
<1>3. QED
  BY <1>1, <1>2, AlwaysDurable, AlwaysAcceptedOnly, PTL DEF Spec

\* With one owner and before the first error, a drain leaves no hole, wherever
\* its limit or a crash cuts it: what was applied of a producer is a prefix.
THEOREM PrefixesAreApplied == ASSUME OneDrainer PROVE Spec => []AppliedInOrder
<1>1. TypeInv /\ Durable /\ OrderInv => AppliedInOrder
  <2> SUFFICES ASSUME TypeInv, Durable, OrderInv, faults = 0, NEW i \in applied, NEW n \in 1..i[2]
               PROVE  <<i[1], n>> \in applied
    BY DEF AppliedInOrder
  <2>1. i \in Items /\ i[1] \in Producers /\ i[2] \in 1..MaxItems /\ i = <<i[1], i[2]>>
    BY DEF TypeInv, TypeOK, Items
  <2>2. <<i[1], n>> \in Items
    BY <2>1, BoundsAssumption DEF Items
  <2>3. n = i[2] \/ Before(<<i[1], n>>, i)
    BY <2>1 DEF Before
  <2>4. QED
    BY <2>1, <2>2, <2>3 DEF OrderInv, ClaimedInTurn, Begun, Durable, PlaceTellsStory
<1>2. QED
  BY <1>1, AlwaysInOrder, PTL

\* With one owner and before the first error, a crash may apply a write again,
\* but never one that a later write of its producer has overtaken.
THEOREM ReplaysAreFresh == ASSUME OneDrainer PROVE Spec => NoStaleReplay
<1>1. TypeInv /\ Durable /\ OrderInv /\ [Next]_vars =>
        [faults' = 0 => \A p \in Producers : stored'[p] >= stored[p]]_vars
  <2> SUFFICES ASSUME TypeInv, OrderInv, Next, faults' = 0, NEW p \in Producers
               PROVE  stored'[p] >= stored[p]
    BY DEF vars
  <2>0. stored[p] \in Nat /\ faults = 0
    <3>1. faults' \in {faults, faults + 1}
      <4>1. ASSUME NEW d \in Drainers, DrainStep(d) PROVE faults' \in {faults, faults + 1}
        BY <4>1 DEF DrainStep, BeginDrain, ListPending, RecoverOne, Claim, Read, Apply,
                    ApplyFails, Remove, Quarantine, EndDrain, Fault
      <4>2. QED
        BY <4>1 DEF Next, Enqueue, Start, Crash
    <3>2. faults \in Nat /\ stored[p] \in Nat
      BY BoundsAssumption DEF TypeInv, TypeOK
    <3>3. QED
      BY <3>1, <3>2
  <2>1. CASE stored' = stored
    BY <2>0, <2>1
  <2>2. ASSUME NEW d \in Drainers, Apply(d) PROVE stored'[p] >= stored[p]
    <3>1. cur[d] \in Items /\ place[cur[d]] = "processing"
      BY <2>0, <2>2 DEF Apply, Goto, OrderInv, PassInv, In, TypeInv, CurOK, Holding
    <3>2. /\ stored' = [stored EXCEPT ![cur[d][1]] = cur[d][2]]
          /\ stored \in [Producers -> 0..MaxItems]
      BY <2>2 DEF Apply, TypeInv, TypeOK
    <3>3. CASE cur[d][1] = p /\ stored[p] > cur[d][2]
      <4>1. <<p, stored[p]>> \in applied /\ <<p, stored[p]>> \in Items
        BY <2>0, <3>1, <3>3, ItemParts DEF OrderInv, LastStored, TypeInv, TypeOK
      <4>2. Before(cur[d], <<p, stored[p]>>)
        BY <3>3 DEF Before
      <4>3. QED
        BY <2>0, <3>1, <4>1, <4>2 DEF OrderInv, ClaimedInTurn, Begun
    <3>4. QED
      BY <2>0, <3>1, <3>2, <3>3, ItemParts
  <2>3. QED
    BY <2>1, <2>2
       DEF Next, DrainStep, Enqueue, Start, Crash, BeginDrain, ListPending, RecoverOne, Claim,
           Read, ApplyFails, Remove, Quarantine, EndDrain, storeVars
<1>2. QED
  BY <1>1, AlwaysInOrder, PTL DEF Spec, NoStaleReplay
=============================================================================
