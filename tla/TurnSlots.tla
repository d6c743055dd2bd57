------------------------------ MODULE TurnSlots ------------------------------
(***************************************************************************)
(* What the execution service of the router promises for the turns it is   *)
(* given, with no table, no registry and no requests in it: turns get one  *)
(* of the runtime slots in the order in which they began to wait for one;  *)
(* a turn has at most one runtime process in its life, and only while it   *)
(* has a slot; and a slot that is given back has no process left on it.    *)
(* RouterExecution implements this specification.                          *)
(***************************************************************************)
EXTENDS Naturals, Sequences, FiniteSets

CONSTANTS Turns,
          Slots      \* how many turns may have a slot

VARIABLES
  stage,    \* new, waiting, with a slot and a process to start, spent, or over
  line,     \* the turns that wait for a slot
  running   \* turns whose runtime process is alive

vars == <<stage, line, running>>

Init ==
  /\ stage = [t \in Turns |-> "new"]
  /\ line = <<>> /\ running = {}

Holding == {t \in Turns : stage[t] \in {"slotted", "spent"}}

Becomes(t, from, to) == stage[t] \in from /\ stage' = [stage EXCEPT ![t] = to]

\* Refused, or failed before it waited.
Refuse(t) ==
  /\ Becomes(t, {"new"}, "over")
  /\ UNCHANGED <<line, running>>

Wait(t) ==
  /\ Becomes(t, {"new"}, "waiting")
  /\ line' = Append(line, t)
  /\ UNCHANGED running

\* A slot goes to the turn that has waited longest.
Grant(t) ==
  /\ line # <<>> /\ t = Head(line)
  /\ Cardinality(Holding) < Slots
  /\ Becomes(t, {"waiting"}, "slotted")
  /\ line' = Tail(line)
  /\ UNCHANGED running

\* A turn leaves the line, the others keep their order.
Withdraw(t) ==
  /\ Becomes(t, {"waiting"}, "over")
  /\ \E i \in 1..Len(line) :
        line[i] = t /\ line' = SubSeq(line, 1, i - 1) \o SubSeq(line, i + 1, Len(line))
  /\ UNCHANGED running

\* The one chance to start a process is used, or given up.
Begin(t) ==
  /\ Becomes(t, {"slotted"}, "spent")
  /\ running' = running \cup {t}
  /\ UNCHANGED line

Forgo(t) ==
  /\ Becomes(t, {"slotted"}, "spent")
  /\ UNCHANGED <<line, running>>

\* The process ends or is killed.
Stop(t) ==
  /\ running' = running \ {t}
  /\ UNCHANGED <<stage, line>>

\* The slot is given back, and with it the process if there still is one.
GiveBack(t) ==
  /\ Becomes(t, {"slotted", "spent"}, "over")
  /\ running' = running \ {t}
  /\ UNCHANGED line

Next ==
  \E t \in Turns :
     \/ Refuse(t) \/ Wait(t) \/ Grant(t) \/ Withdraw(t)
     \/ Begin(t) \/ Forgo(t) \/ Stop(t) \/ GiveBack(t)

Spec == Init /\ [][Next]_vars
=============================================================================
