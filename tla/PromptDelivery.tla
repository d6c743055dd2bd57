---------------------------- MODULE PromptDelivery ----------------------------
(***************************************************************************)
(* What the gateway and the router promise for the prompts of one session, *)
(* with no handler, no status, no runtime, no probe and no database in it: *)
(* a prompt becomes a turn of its own, is kept for the runtimes of other   *)
(* turns, or is answered with an error. Until a call is lost exactly one   *)
(* of the three happens to it, and it is offered a second time at most,    *)
(* after its call was lost. A turn is accepted only while none is open,    *)
(* but the runtime of a turn that was aborted may go on beside the next.   *)
(* GatewaySessions implements this specification.                          *)
(***************************************************************************)
EXTENDS Naturals

CONSTANT Prompts

VARIABLES
  due,       \* prompts the router has not been told of, or was asked to take again
  kept,      \* prompts kept for a runtime to take
  open,      \* whether the session has an open turn
  worked,    \* how often each prompt became a turn or was taken
  repeated,  \* prompts that were offered a second time
  rejected,  \* prompts that were answered with an error
  lost       \* whether any call was lost so far

vars == <<due, kept, open, worked, repeated, rejected, lost>>

Init ==
  /\ due = Prompts /\ kept = {} /\ open = FALSE
  /\ worked = [p \in Prompts |-> 0]
  /\ repeated = {} /\ rejected = {} /\ lost = FALSE

\* A prompt becomes the turn of its session.
Begin(p) ==
  /\ ~open /\ p \in due
  /\ open' = TRUE /\ due' = due \ {p}
  /\ worked' = [worked EXCEPT ![p] = @ + 1]
  /\ UNCHANGED <<kept, repeated, rejected, lost>>

Keep(p) ==
  /\ p \in due
  /\ due' = due \ {p} /\ kept' = kept \cup {p}
  /\ UNCHANGED <<open, worked, repeated, rejected, lost>>

\* The answer is an error: the user is told, and nothing else happens to it.
Reject(p) ==
  /\ p \in due
  /\ due' = due \ {p} /\ rejected' = rejected \cup {p}
  /\ UNCHANGED <<kept, open, worked, repeated, lost>>

\* A runtime takes all that is kept.
Take ==
  /\ kept' = {}
  /\ worked' = [p \in Prompts |-> IF p \in kept THEN worked[p] + 1 ELSE worked[p]]
  /\ UNCHANGED <<due, open, repeated, rejected, lost>>

\* The turn ends or is aborted. What is kept stays for the next runtime.
End ==
  /\ open' = FALSE
  /\ UNCHANGED <<due, kept, worked, repeated, rejected, lost>>

\* A call is lost, and it was one that only asked.
Miss ==
  /\ lost' = TRUE
  /\ UNCHANGED <<due, kept, open, worked, repeated, rejected>>

\* It was the call that offered a prompt, which became a turn: the prompt is
\* offered again, once.
Repeat(p) ==
  /\ lost' = TRUE
  /\ p \notin repeated /\ p \notin due /\ worked[p] > 0
  /\ due' = due \cup {p} /\ repeated' = repeated \cup {p}
  /\ UNCHANGED <<kept, open, worked, rejected>>

\* It was the call that had the prompt kept.
Drop(p) ==
  /\ lost' = TRUE
  /\ p \in due /\ due' = due \ {p}
  /\ UNCHANGED <<kept, open, worked, repeated, rejected>>

\* It was the answer with what was kept, or all the router had.
Forget ==
  /\ lost' = TRUE
  /\ kept' = {} /\ open' \in {open, FALSE}
  /\ UNCHANGED <<due, worked, repeated, rejected>>

Next ==
  \/ Take \/ End \/ Miss \/ Forget
  \/ \E p \in Prompts : Begin(p) \/ Keep(p) \/ Reject(p) \/ Repeat(p) \/ Drop(p)

Spec == Init /\ [][Next]_vars
=============================================================================
