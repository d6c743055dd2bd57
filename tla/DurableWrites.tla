---------------------------- MODULE DurableWrites ----------------------------
(***************************************************************************)
(* What the session write queue promises its producers, with no file, no   *)
(* directory and no drain thread in it: a write that was accepted is held  *)
(* until it has been applied, at least once, or has been set aside for     *)
(* inspection, and it is not held for ever.  SessionFileQueue implements   *)
(* this specification.                                                     *)
(***************************************************************************)
EXTENDS Naturals

CONSTANTS Producers, MaxItems

Items == Producers \X (1..MaxItems)

VARIABLES
  sent,     \* how many writes each producer has had accepted
  held,     \* writes the queue still has to deal with
  aside,    \* writes given up on, kept for inspection
  applied   \* writes that reached the store

vars == <<sent, held, aside, applied>>

Init ==
  /\ sent = [p \in Producers |-> 0]
  /\ held = {} /\ aside = {} /\ applied = {}

Accept(p) ==
  /\ sent[p] < MaxItems
  /\ sent' = [sent EXCEPT ![p] = @ + 1]
  /\ held' = held \cup {<<p, sent[p] + 1>>}
  /\ UNCHANGED <<aside, applied>>

\* A write may be applied again, even one another owner has already let go.
Apply(i) ==
  /\ i[2] <= sent[i[1]]
  /\ applied' = applied \cup {i}
  /\ UNCHANGED <<sent, held, aside>>

\* Only a write that has been applied is forgotten.
Discard(i) ==
  /\ i \in held \cap applied
  /\ held' = held \ {i}
  /\ UNCHANGED <<sent, aside, applied>>

SetAside(i) ==
  /\ i \in held
  /\ held' = held \ {i}
  /\ aside' = aside \cup {i}
  /\ UNCHANGED <<sent, applied>>

Next ==
  \/ \E p \in Producers : Accept(p)
  \/ \E i \in Items : Apply(i) \/ Discard(i) \/ SetAside(i)

Spec == Init /\ [][Next]_vars

\* The queue is drained: no write is held for ever.
Drained == \A i \in Items : i \in held ~> i \notin held

FairSpec == Spec /\ Drained
=============================================================================
