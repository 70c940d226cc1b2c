------------------------------ MODULE MCEvents ------------------------------
(* An instance of Events for TLC: two outbox entries, two API processes; and *)
(* a user's bell, in a scenario of its own.                                  *)
EXTENDS Events, Bell, TLC

CONSTANTS w1, w2, cu, ow

MCKindOf == <<"OrderStatusChangedEvent", "OrderCreatedEvent">>

MCInit == Init /\ BellInit

BellStep(A) == "bell" \in uses /\ A /\ UNCHANGED vars

MCNext == (Next /\ UNCHANGED bellVars) \/ BellStep(BellNext)

\* The page stays in front, and its requests are answered.
MCSpec ==
  /\ MCInit /\ [][MCNext]_<<vars, bellVars>>
  /\ Fairness
  /\ WF_bellVars(BellStep(Poll)) /\ WF_bellVars(BellStep(ListForUser)) /\ WF_bellVars(BellStep(Load))

MCTypeOK == TypeOK /\ BellTypeOK

\* Entries are published in their order and again only after a fault; who is concerned
\* is told, what was pushed can be listed, and no mail is lost or wrongly called sent.
EventsReach ==
  /\ MCTypeOK
  /\ OncePerFault /\ InOrder
  /\ PushedIsListed /\ EveryoneIsTold
  /\ SentWasMailed /\ NoMailForgotten
=============================================================================
