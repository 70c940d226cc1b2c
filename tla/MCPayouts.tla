------------------------------ MODULE MCPayouts ------------------------------
(***************************************************************************)
(* An instance of Payouts for TLC: two orders worth 2 and 1 to the vendor, *)
(* two payouts of 1 or 2, in scenes that share a run.                      *)
(***************************************************************************)
EXTENDS Payouts, TLC

CONSTANTS o1, o2, p1, p2, r1, r2,
          SceneNames   \* the scenes of a run

VARIABLE scene   \* chosen at the start: which of the steps of Payouts happen

MCOrderTotal == (o1 :> 3) @@ (o2 :> 2)
MCOrderCommission == (o1 :> 1) @@ (o2 :> 1)

\* One administrator, who pays, rejects or marks processing while merchants ask for more.
Serial ==
  [name |-> "serial", admins |-> {r1}, decisions |-> {"PAID", "REJECTED", "PROCESSING"},
   orders |-> {o1, o2}, legacy |-> {}, mirror |-> MirrorBound, amounts |-> Amounts, refunds |-> 3]

\* Two administrators, every decision, and a row left by an older release.
Overlap ==
  [name |-> "overlap", admins |-> {r1, r2}, decisions |-> Decisions,
   orders |-> {o2}, legacy |-> {p1}, mirror |-> 2, amounts |-> {1}, refunds |-> 0]

\* Two administrators who pay and reject.
Race ==
  [name |-> "race", admins |-> {r1, r2}, decisions |-> {"PAID", "REJECTED"},
   orders |-> {o2}, legacy |-> {}, mirror |-> MirrorBound, amounts |-> {1}, refunds |-> 0]

\* The names are those of the instance.
ASSUME MCAssumption ==
  /\ {o1, o2} \subseteq Orders /\ {r1, r2} \subseteq Admins /\ {p1, p2} \subseteq Payouts
  /\ {"PAID", "REJECTED", "PROCESSING"} \subseteq Decisions
  /\ 1 \in Amounts

MCInit ==
  /\ scene \in {Serial, Overlap, Race} /\ scene.name \in SceneNames
  /\ Init
  /\ \A p \in Payouts : status[p] = "PENDING" <=> p \in scene.legacy
  /\ \A p \in Payouts : amount[p] \in scene.amounts \cup {0}

\* Arrival, for what the scene allows.
MCArrival(r) ==
  \/ \E a \in scene.amounts : RequestPayout(r, a)
  \/ /\ r \in scene.admins /\ legacy.paidOut < scene.mirror
     /\ \E p \in Payouts, d \in scene.decisions :
          DecidePayout(r, p, d) \/ ProcessPayout(r, p, d) \/ MarkPayoutProcessing(r, p, d)

MCEnvironment ==
  \E o \in scene.orders :
    OrderPaid(o) \/ PaymentPosted(o) \/ \E a \in 1..OrderTotal[o] : a <= scene.refunds /\ RefundCompleted(o, a)

MCNext ==
  /\ UNCHANGED scene
  /\ MCEnvironment \/ \E r \in Requests : MCArrival(r) \/ Advance(r) \/ Abort(r)

\* The fairness of FairSpec.
MCSpec ==
  /\ MCInit /\ [][MCNext]_<<vars, scene>>
  /\ \A r \in Requests : SF_vars(Advance(r) /\ UNCHANGED scene)

-----------------------------------------------------------------------------
(* What holds as long as one administrator decides at a time.              *)

\* The money set aside is exactly that of the RESERVED and PROCESSING rows, through
\* every request and every decision (completePayout and failPayout).
ReservesMatchRowsSerially == scene = Serial => ReservesMatchRows
=============================================================================
