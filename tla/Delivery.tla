------------------------------ MODULE Delivery ------------------------------
(***************************************************************************)
(* What an outbox promises to those who store events in it: an event is    *)
(* published while it waits, is settled only after it was published, and   *)
(* may be given up; a settled event is never taken up again - unless       *)
(* several processors run at once, which may publish it again.  An event   *)
(* nobody knows is settled without anyone hearing of it.                   *)
(***************************************************************************)
EXTENDS Naturals

CONSTANT Entries

VARIABLES many,     \* whether several processors run
          state,    \* of each entry
          known,    \* whether the processors know each entry's event
          times     \* how often each entry was published

vars == <<many, known, state, times>>

Init ==
  /\ many \in BOOLEAN /\ known \in [Entries -> BOOLEAN]
  /\ state = [e \in Entries |-> "none"]
  /\ times = [e \in Entries |-> 0]

Accept(e) ==
  /\ state[e] = "none"
  /\ state' = [state EXCEPT ![e] = "waiting"]
  /\ UNCHANGED <<many, known, times>>

Publish(e) ==
  /\ known[e]
  /\ state[e] = "waiting" \/ (many /\ state[e] # "none")
  /\ times' = [times EXCEPT ![e] = @ + 1]
  /\ UNCHANGED <<many, known, state>>

Settle(e) ==
  /\ state[e] = "waiting" \/ (many /\ state[e] # "none")
  /\ known[e] => times[e] > 0
  /\ state' = [state EXCEPT ![e] = "settled"]
  /\ UNCHANGED <<many, known, times>>

GiveUp(e) ==
  /\ state[e] = "waiting" \/ (many /\ state[e] # "none")
  /\ state' = [state EXCEPT ![e] = "given up"]
  /\ UNCHANGED <<many, known, times>>

\* A processor that listed the entry before another one settled it.
TakeUpAgain(e) ==
  /\ many /\ state[e] # "none"
  /\ state' = [state EXCEPT ![e] = "waiting"]
  /\ UNCHANGED <<many, known, times>>

Next ==
  \E e \in Entries : Accept(e) \/ Publish(e) \/ Settle(e) \/ GiveUp(e) \/ TakeUpAgain(e)

Spec == Init /\ [][Next]_vars
=============================================================================
