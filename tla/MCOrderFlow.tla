----------------------------- MODULE MCOrderFlow -----------------------------
(***************************************************************************)
(* An instance of OrderFlow for TLC: orders of one or two units, two       *)
(* warehouses and two calls, in three scenes that share one run.           *)
(***************************************************************************)
EXTENDS OrderFlow, TLC

CONSTANTS o1, o2, o3, w1, w2, c1, c2

VARIABLE scene   \* chosen at the start: which of the steps of OrderFlow happen

MCQuantity == [o \in Orders |-> IF o = o3 THEN 2 ELSE 1]

AfterPayment == {"PAID", "PROCESSING", "SHIPPED", "COMPLETED"}

\* One call at a time: abandoned orders expire, the others are paid in time, and only
\* paid orders are disputed.
Serial ==
  [name |-> "serial", calls |-> {c1}, orders |-> {o1, o2, o3}, payable |-> {o1, o3}, late |-> {o2},
   targets |-> Targets, disputes |-> AfterPayment, defaults |-> {w1, NoWarehouse},
   moves |-> {}, edits |-> {}]

\* Two calls about two orders, in any order.
Overlap ==
  [name |-> "overlap", calls |-> {c1, c2}, orders |-> {o1, o2}, payable |-> {o1}, late |-> {o1, o2},
   targets |-> {"PROCESSING", "CANCELLED"}, disputes |-> {"PENDING_PAYMENT"}, defaults |-> {w1},
   moves |-> {}, edits |-> {}]

\* One order, with stock edits and warehouse changes.
Expiry ==
  [name |-> "expiry", calls |-> {c1, c2}, orders |-> {o1}, payable |-> {o1}, late |-> {o1},
   targets |-> {"PROCESSING", "CANCELLED"}, disputes |-> {"PENDING_PAYMENT", "CANCELLED"},
   defaults |-> {w1}, moves |-> DefaultMoves, edits |-> StockEdits]

\* The names are those of the instance: the order that expires is not one of those paid.
ASSUME MCAssumption ==
  /\ {o1, o2, o3} \subseteq Orders /\ o2 \notin {o1, o3}
  /\ w1 \in Warehouses /\ {c1, c2} \subseteq Calls

MCInit ==
  /\ scene \in {Serial, Overlap, Expiry}
  /\ Init
  /\ default \in scene.defaults

\* Start, for what the scene allows.
MCStart(c) ==
  \/ \E o \in scene.orders :
       \/ Checkout(c, o) \/ ReleaseExpiredRead(c, o)
       \/ \E role \in Roles, to \in scene.targets : UpdateStatusRead(c, o, role, to)
       \/ status[o] \in scene.disputes /\ (CreateDispute(c, o) \/ HandleStripeDispute(c, o))
  \/ \E o \in scene.payable : MarkPaidRead(c, o)
  \/ \E n \in scene.edits :
       UpdateProduct(c, n) \/ \E w \in Warehouses : UpsertProductStock(c, w, n)
  \/ \E w \in scene.moves : CreateWarehouse(c, w) \/ UpdateWarehouse(c, w)

MCNext ==
  /\ UNCHANGED scene
  /\ \/ \E c \in scene.calls : MCStart(c) \/ Continue(c)
     \/ \E o \in scene.late : PassExpiry(o)

\* The fairness of FairSpec.
MCSpec ==
  /\ MCInit /\ [][MCNext]_<<vars, scene>>
  /\ \A c \in Calls : WF_vars(Continue(c) /\ UNCHANGED scene) /\ SF_vars(MarkPaidCommit(c) /\ UNCHANGED scene)
  /\ \A c \in Crons : /\ SF_vars((\E o \in scene.orders : ReleaseExpiredRead(c, o)) /\ UNCHANGED scene)
                      /\ SF_vars(ReleaseExpiredReadRow(c) /\ UNCHANGED scene)
                      /\ SF_vars(ReleaseExpiredCommit(c) /\ UNCHANGED scene)

-----------------------------------------------------------------------------
(* What holds as long as calls do not overlap.                             *)

\* Calls made one at a time keep the books of the product: its stock is the sum of its
\* rows and nothing is negative; units are neither lost nor made up, whichever way an order goes after its
\* payment; every ACTIVE reservation is backed by units reserved for it alone; with
\* payments in time an order that is to be shipped has its units, and a payment delivered
\* again posts nothing.
SerialBooks ==
  scene = Serial =>
    StockIsSumOfRows /\ NoneNegative /\ Conservation /\ HoldsBacked /\ PaidHasUnits /\ PaidOnce
=============================================================================
