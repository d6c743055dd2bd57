---------------------------- MODULE SessionCatalog ----------------------------
(***************************************************************************)
(* What the session store promises its readers, with no threads, no        *)
(* commands and only one set of sessions: a session is listed once it was  *)
(* stored and stays listed and stored, whatever crashes, until a delete    *)
(* names it; and when the store opens, no listed session is running.       *)
(* SessionStore implements this specification.                             *)
(***************************************************************************)
EXTENDS Naturals

CONSTANT Sessions

VARIABLES
  stored,   \* sessions the store has
  running,  \* those of them whose turn is not over
  listed,   \* sessions that readers find
  named,    \* sessions a delete has named
  open      \* commands are served

vars == <<stored, running, listed, named, open>>

Init ==
  /\ stored = {} /\ running = {} /\ listed = {} /\ named = {}
  /\ open = FALSE

\* A write of any state.  That the session is listed comes later, or never.
Store(s) ==
  /\ open
  /\ stored' = stored \cup {s}
  /\ running' \in {running \cup {s}, running \ {s}}
  /\ UNCHANGED <<listed, named, open>>

List(s) ==
  /\ open /\ s \in stored \cup named
  /\ listed' = listed \cup {s}
  /\ UNCHANGED <<stored, running, named, open>>

\* Sessions stop running, which is all that happens before the store opens.
Interrupt(S) ==
  /\ running' = running \ S
  /\ UNCHANGED <<stored, listed, named, open>>

\* A delete is asked for, of a session or of all.
Name(S) ==
  /\ open
  /\ named' = named \cup S
  /\ listed' \in {listed, listed \ S}
  /\ UNCHANGED <<stored, running, open>>

Unlist(S) ==
  /\ open /\ S \cap listed \subseteq named
  /\ listed' = listed \ S
  /\ UNCHANGED <<stored, running, named, open>>

Remove(S) ==
  /\ open /\ S \subseteq named
  /\ stored' = stored \ S /\ running' = running \ S
  /\ UNCHANGED <<listed, named, open>>

Open ==
  /\ ~open /\ open' = TRUE
  /\ listed \cap running = {}
  /\ UNCHANGED <<stored, running, listed, named>>

\* A crash keeps what is stored and listed.
Crash ==
  /\ open' = FALSE
  /\ UNCHANGED <<stored, running, listed, named>>

Next ==
  \/ \E s \in Sessions : Store(s) \/ List(s)
  \/ \E S \in SUBSET Sessions : Interrupt(S) \/ Name(S) \/ Unlist(S) \/ Remove(S)
  \/ Open \/ Crash

Spec == Init /\ [][Next]_vars
=============================================================================
