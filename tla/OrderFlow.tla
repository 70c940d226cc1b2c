------------------------------ MODULE OrderFlow ------------------------------
(***************************************************************************)
(* Life of the orders for one product: OrdersService                       *)
(* (orders/orders.service.ts, orders/order-status.machine.ts), the disputes*)
(* that write order status elsewhere, the release-expired job, and the     *)
(* stock and warehouse endpoints, over the tables of Inventory.            *)
(*                                                                         *)
(* A call c reads the order, awaits, opens a transaction that reads the    *)
(* reservations, awaits, and writes.  The writes of a transaction, and the *)
(* reads made under the locks it then holds, are one step; the earlier     *)
(* reads are steps of their own, so that other calls come in between.  Only *)
(* confirm keeps a lock, the Product row's, from a read to its write.      *)
(***************************************************************************)
EXTENDS Inventory

CONSTANTS Calls,            \* API calls and jobs that may be in flight together
          Crons,            \* those that run the release-expired job
          Payable,          \* orders whose payment may succeed
          Expirable,        \* orders whose reservation may pass its expiresAt
          Targets,          \* statuses that callers of updateStatus ask for
          DisputeFrom,      \* statuses in which somebody opens a dispute
          InitialDefaults,  \* default warehouse at the start
          DefaultMoves,     \* defaults that merchants may switch to
          StockEdits,       \* quantities that merchants may enter
          NotCalling

VARIABLES inv,              \* the tables of Inventory
          status,           \* Order.status
          earnings,         \* number of VENDOR_EARNING rows of each order
          default,          \* the warehouse resolveDefaultWarehouse returns
          call              \* what each call remembers between its steps

vars == <<inv, status, earnings, default, call>>

ASSUME CallsAssumption == Crons \subseteq Calls

-----------------------------------------------------------------------------
(* order-status.machine.ts                                                 *)

OrderStatus == {"PENDING_PAYMENT", "PAID", "PROCESSING", "SHIPPED", "COMPLETED",
                "CANCELLED", "DISPUTED", "REFUNDED", "PARTIALLY_REFUNDED"}

ASSUME EnvironmentAssumption ==
  /\ Payable \subseteq Orders
  /\ Expirable \subseteq Orders
  /\ Targets \subseteq OrderStatus
  /\ InitialDefaults \subseteq Warehouses \cup {NoWarehouse}
  /\ DefaultMoves \subseteq Warehouses \cup {NoWarehouse}
  /\ StockEdits \subseteq 0..MaxUnits

Roles == {"MERCHANT", "CUSTOMER", "ADMIN"}

MerchantTransitions == {<<"PAID", "PROCESSING">>, <<"PROCESSING", "SHIPPED">>}

CustomerTransitions ==
  {<<"PENDING_PAYMENT", "CANCELLED">>,
   <<"PAID", "CANCELLED">>, <<"PAID", "DISPUTED">>,
   <<"PROCESSING", "DISPUTED">>,
   <<"SHIPPED", "COMPLETED">>, <<"SHIPPED", "DISPUTED">>}

\* Mutant: administrators may skip the payment.
AdminTransitionsSkip ==
  ({"PENDING_PAYMENT"} \X {"CANCELLED", "PROCESSING"})
    \cup ({"PAID"} \X {"PROCESSING", "CANCELLED", "DISPUTED", "REFUNDED"})
    \cup ({"PROCESSING"} \X {"SHIPPED", "CANCELLED", "DISPUTED", "REFUNDED"})

AdminTransitions ==
  ({"PENDING_PAYMENT"} \X {"CANCELLED"})
    \cup ({"PAID"} \X {"PROCESSING", "CANCELLED", "DISPUTED", "REFUNDED"})
    \cup ({"PROCESSING"} \X {"SHIPPED", "CANCELLED", "DISPUTED", "REFUNDED"})
    \cup ({"SHIPPED"} \X {"COMPLETED", "DISPUTED", "REFUNDED"})
    \cup ({"COMPLETED"} \X {"REFUNDED", "PARTIALLY_REFUNDED"})
    \cup ({"DISPUTED"} \X {"REFUNDED", "PARTIALLY_REFUNDED", "COMPLETED", "CANCELLED"})

AllowedTransitions ==
  [MERCHANT |-> MerchantTransitions, CUSTOMER |-> CustomerTransitions,
   ADMIN |-> AdminTransitions]

CanTransition(role, from, to) == <<from, to>> \in AllowedTransitions[role]

\* Mutant: a disputed order is taken for unpaid.
PaidStatusesNoDispute == {"PAID", "PROCESSING", "SHIPPED", "COMPLETED"}

\* updateStatus: the units of an order in one of these were taken from stock.
PaidStatuses == {"PAID", "PROCESSING", "SHIPPED", "COMPLETED", "DISPUTED"}

CancelLike == {"CANCELLED", "REFUNDED"}

-----------------------------------------------------------------------------
(* Calls in flight                                                         *)

\* The order was read PENDING_PAYMENT by markPaidFromPayment.
Paying(o) == [op |-> "pay", order |-> o]

\* Its transaction has read whether the reservation is ACTIVE.
Confirming(o, active) == [op |-> "confirm", order |-> o, active |-> active]

\* It holds the Product row lock and has found the units that it will take.
Committing(o) == [op |-> "commit", order |-> o]

\* updateStatus accepted the move of o, read with status from, to to.
Updating(o, from, to) == [op |-> "update", order |-> o, from |-> from, to |-> to]

\* releaseOrder, in the transaction of updateStatus, has read the reservation.
Releasing(o, to, active) ==
  [op |-> "release", order |-> o, to |-> to, active |-> active]

\* It has read in the row what it will decrement by.
Freeing(o, to, freed) == [op |-> "free", order |-> o, to |-> to, freed |-> freed]

\* releaseExpired has read the reservation of o ACTIVE inside its transaction.
Expiring(o) == [op |-> "expire", order |-> o]

\* It has read in the row what it will decrement by.
Ending(o, freed) == [op |-> "end", order |-> o, freed |-> freed]

\* UpdateProductStockHandler has computed the sum of the rows.
Syncing(n) == [op |-> "sync", total |-> n]

CallStates ==
  {NotCalling}
    \cup [op : {"pay", "commit", "expire"}, order : Orders]
    \cup [op : {"confirm"}, order : Orders, active : BOOLEAN]
    \cup [op : {"update"}, order : Orders, from : OrderStatus, to : OrderStatus]
    \cup [op : {"release"}, order : Orders, to : CancelLike, active : BOOLEAN]
    \cup [op : {"free"}, order : Orders, to : CancelLike, freed : Nat \cup {NoRow}]
    \cup [op : {"end"}, order : Orders, freed : Nat \cup {NoRow}]
    \cup [op : {"sync"}, total : Int]

Free(c) == call[c] = NotCalling

Becomes(c, s) == call' = [call EXCEPT ![c] = s]

InStep(c, op) == call[c] # NotCalling /\ call[c].op = op

\* Others that write the Product row wait.
ProductLocked == \E c \in Calls : InStep(c, "commit")

-----------------------------------------------------------------------------

Init ==
  /\ inv = InitialInventory
  /\ status = [o \in Orders |-> "none"]
  /\ earnings = [o \in Orders |-> 0]
  /\ default \in InitialDefaults
  /\ call = [c \in Calls |-> NotCalling]

\* checkout: the order and its reservation are created in one transaction
\* under the Product row lock; if reserve throws, nothing remains.
Checkout(c, o) ==
  /\ Free(c) /\ ~ProductLocked
  /\ status[o] = "none"
  /\ CanReserve(inv, o, default)
  /\ inv' = Reserve(inv, o, default)
  /\ status' = [status EXCEPT ![o] = "PENDING_PAYMENT"]
  /\ UNCHANGED <<earnings, default, call>>

\* Time passes beyond expiresAt.
PassExpiry(o) ==
  /\ o \in (Expirable \cap Active(inv)) \ inv.late
  /\ inv' = [inv EXCEPT !.late = @ \cup {o}]
  /\ UNCHANGED <<status, earnings, default, call>>

-----------------------------------------------------------------------------
(* markPaidFromPayment                                                     *)

\* Mutant: no early return for a PAID order.
MarkPaidReadAgain(c, o) ==
  /\ Free(c)
  /\ o \in Payable
  /\ status[o] \in {"PENDING_PAYMENT", "PAID"} /\ earnings[o] < 2
  /\ Becomes(c, Paying(o))
  /\ UNCHANGED <<inv, status, earnings, default>>

\* Mutant: a payment reopens a cancelled order.
MarkPaidReadReopens(c, o) ==
  /\ Free(c)
  /\ o \in Payable
  /\ status[o] \in {"PENDING_PAYMENT", "CANCELLED"} /\ earnings[o] = 0
  /\ Becomes(c, Paying(o))
  /\ UNCHANGED <<inv, status, earnings, default>>

\* Any other status returns without a write.
MarkPaidRead(c, o) ==
  /\ Free(c)
  /\ o \in Payable
  /\ status[o] = "PENDING_PAYMENT"
  /\ Becomes(c, Paying(o))
  /\ UNCHANGED <<inv, status, earnings, default>>

MarkPaidBegin(c) ==
  /\ InStep(c, "pay")
  /\ LET o == call[c].order IN Becomes(c, Confirming(o, o \in Active(inv)))
  /\ UNCHANGED <<inv, status, earnings, default>>

\* confirm locks the Product row and reads what it is about to decrement;
MarkPaidLock(c) ==
  /\ InStep(c, "confirm") /\ call[c].active
  /\ ~ProductLocked
  /\ CanConfirm(inv, call[c].order)
  /\ Becomes(c, Committing(call[c].order))
  /\ UNCHANGED <<inv, status, earnings, default>>

\* the rest of the transaction.
MarkPaid(c) ==
  /\ status' = [status EXCEPT ![call[c].order] = "PAID"]
  /\ earnings' = [earnings EXCEPT ![call[c].order] = @ + 1]
  /\ Becomes(c, NotCalling)
  /\ UNCHANGED default

MarkPaidCommit(c) ==
  /\ InStep(c, "commit")
  /\ CanTakeUnits(inv, call[c].order)
  /\ inv' = Confirm(inv, call[c].order)
  /\ MarkPaid(c)

\* No reservation was ACTIVE: confirm has nothing to do.
MarkPaidLate(c) ==
  /\ InStep(c, "confirm") /\ ~call[c].active
  /\ MarkPaid(c)
  /\ UNCHANGED inv

-----------------------------------------------------------------------------
(* updateStatus                                                            *)

UpdateStatusRead(c, o, role, to) ==
  /\ Free(c)
  /\ CanTransition(role, status[o], to)
  /\ Becomes(c, Updating(o, status[o], to))
  /\ UNCHANGED <<inv, status, earnings, default>>

\* No inventory work: not a cancellation.
UpdateStatusPlain(c) ==
  /\ InStep(c, "update")
  /\ call[c].to \notin CancelLike
  /\ status' = [status EXCEPT ![call[c].order] = call[c].to]
  /\ Becomes(c, NotCalling)
  /\ UNCHANGED <<inv, earnings, default>>

\* A cancellation of what was read as paid puts the units back.
UpdateStatusRestock(c) ==
  /\ InStep(c, "update")
  /\ call[c].to \in CancelLike /\ call[c].from \in PaidStatuses
  /\ ~ProductLocked
  /\ LET o == call[c].order IN
       /\ WithinBound(inv, inv.at[o], Quantity[o])
       /\ inv' = Restock(inv, inv.at[o], Quantity[o])
       /\ status' = [status EXCEPT ![o] = call[c].to]
  /\ Becomes(c, NotCalling)
  /\ UNCHANGED <<earnings, default>>

\* A cancellation of what was read as unpaid releases the reservation:
\* releaseOrder reads it first,
UpdateStatusBegin(c) ==
  /\ InStep(c, "update")
  /\ call[c].to \in CancelLike /\ call[c].from \notin PaidStatuses
  /\ LET o == call[c].order IN
       Becomes(c, Releasing(o, call[c].to, o \in Active(inv)))
  /\ UNCHANGED <<inv, status, earnings, default>>

\* releaseReservation reads the row of what was ACTIVE, without a lock,
UpdateStatusReadRow(c) ==
  /\ InStep(c, "release") /\ call[c].active
  /\ LET o == call[c].order IN
       Becomes(c, Freeing(o, call[c].to, Freed(inv, inv.at[o], Quantity[o])))
  /\ UNCHANGED <<inv, status, earnings, default>>

\* and decrements it by what it read.
UpdateStatusRelease(c) ==
  /\ InStep(c, "free")
  /\ ~ProductLocked
  /\ LET o == call[c].order IN
       /\ inv' = ReleaseOrder(inv, o, call[c].freed)
       /\ status' = [status EXCEPT ![o] = call[c].to]
  /\ Becomes(c, NotCalling)
  /\ UNCHANGED <<earnings, default>>

\* Nothing was ACTIVE.
UpdateStatusNothing(c) ==
  /\ InStep(c, "release") /\ ~call[c].active
  /\ status' = [status EXCEPT ![call[c].order] = call[c].to]
  /\ Becomes(c, NotCalling)
  /\ UNCHANGED <<inv, earnings, default>>

-----------------------------------------------------------------------------
(* releaseExpired.  The list made before the transactions only picks the   *)
(* candidates: each one is read again in its own transaction.              *)

\* Mutant: only the reservations of unpaid orders are candidates.
ReleaseExpiredReadUnpaid(c, o) ==
  /\ Free(c)
  /\ c \in Crons
  /\ o \in Active(inv) \cap inv.late /\ status[o] = "PENDING_PAYMENT"
  /\ Becomes(c, Expiring(o))
  /\ UNCHANGED <<inv, status, earnings, default>>

ReleaseExpiredRead(c, o) ==
  /\ Free(c)
  /\ c \in Crons
  /\ o \in Active(inv) \cap inv.late
  /\ Becomes(c, Expiring(o))
  /\ UNCHANGED <<inv, status, earnings, default>>

ReleaseExpiredReadRow(c) ==
  /\ InStep(c, "expire")
  /\ LET o == call[c].order IN
       Becomes(c, Ending(o, Freed(inv, inv.at[o], Quantity[o])))
  /\ UNCHANGED <<inv, status, earnings, default>>

ReleaseExpiredCommit(c) ==
  /\ InStep(c, "end")
  /\ ~ProductLocked
  /\ inv' = ReleaseExpired(inv, call[c].order, call[c].freed)
  /\ Becomes(c, NotCalling)
  /\ UNCHANGED <<status, earnings, default>>

-----------------------------------------------------------------------------
(* Disputes: neither writer looks at the current status.                   *)

MarkDisputed(c, o) ==
  /\ Free(c)
  /\ status[o] \in DisputeFrom \cap OrderStatus
  /\ status' = [status EXCEPT ![o] = "DISPUTED"]
  /\ UNCHANGED <<inv, earnings, default, call>>

\* SupportService, by the customer or the merchant.
CreateDispute(c, o) == MarkDisputed(c, o)

\* PaymentsService, for an order that has a Stripe payment.
HandleStripeDispute(c, o) == o \in Payable /\ MarkDisputed(c, o)

-----------------------------------------------------------------------------
(* Merchants' stock and warehouses                                         *)

\* UpdateProductStockHandler, no transaction: the row is written and the rows
\* are summed,
UpsertProductStock(c, w, n) ==
  /\ Free(c)
  /\ inv' = [inv EXCEPT !.rows[w] =
               [quantity |-> n, reserved |-> IF HasRow(inv, w) THEN @.reserved ELSE 0]]
  /\ Becomes(c, Syncing(Total(Quantities(inv'))))
  /\ UNCHANGED <<status, earnings, default>>

\* and then Product.stock is set to that sum.
WriteProductStock(c) ==
  /\ InStep(c, "sync")
  /\ ~ProductLocked
  /\ inv' = [inv EXCEPT !.stock = call[c].total]
  /\ Becomes(c, NotCalling)
  /\ UNCHANGED <<status, earnings, default>>

\* MerchantProductsService.update writes Product.stock alone.
UpdateProduct(c, n) ==
  /\ Free(c) /\ ~ProductLocked
  /\ inv' = [inv EXCEPT !.stock = n]
  /\ UNCHANGED <<status, earnings, default, call>>

ChangeDefaultWarehouse(c, w) ==
  /\ Free(c)
  /\ w # default
  /\ default' = w
  /\ UNCHANGED <<inv, status, earnings, call>>

\* The first warehouse of the shop, or one created as its default.
CreateWarehouse(c, w) == w # NoWarehouse /\ ChangeDefaultWarehouse(c, w)

\* Another one is made the default, or the default is deactivated.
UpdateWarehouse(c, w) == default # NoWarehouse /\ ChangeDefaultWarehouse(c, w)

\* The call is lost: another line fails (stock_fail), the database rolls the
\* transaction back, or the process stops between two awaits.
Abandon(c) ==
  /\ ~Free(c)
  /\ Becomes(c, NotCalling)
  /\ UNCHANGED <<inv, status, earnings, default>>

-----------------------------------------------------------------------------

\* A call arrives; some are over in one step.
Start(c) ==
  \/ \E o \in Orders :
       \/ Checkout(c, o) \/ MarkPaidRead(c, o) \/ ReleaseExpiredRead(c, o)
       \/ CreateDispute(c, o) \/ HandleStripeDispute(c, o)
       \/ \E role \in Roles, to \in Targets : UpdateStatusRead(c, o, role, to)
  \/ \E n \in StockEdits :
       UpdateProduct(c, n) \/ \E w \in Warehouses : UpsertProductStock(c, w, n)
  \/ \E w \in DefaultMoves : CreateWarehouse(c, w) \/ UpdateWarehouse(c, w)

\* A call goes on after an await, or is lost.
Continue(c) ==
  \/ MarkPaidBegin(c) \/ MarkPaidLock(c) \/ MarkPaidCommit(c) \/ MarkPaidLate(c)
  \/ UpdateStatusPlain(c) \/ UpdateStatusRestock(c)
  \/ UpdateStatusBegin(c) \/ UpdateStatusReadRow(c)
  \/ UpdateStatusRelease(c) \/ UpdateStatusNothing(c)
  \/ ReleaseExpiredReadRow(c) \/ ReleaseExpiredCommit(c)
  \/ WriteProductStock(c) \/ Abandon(c)

Next == \/ \E c \in Calls : Start(c) \/ Continue(c)
        \/ \E o \in Orders : PassExpiry(o)

Spec == Init /\ [][Next]_vars

\* Every call goes on or is lost: awaits end, transactions time out.  A
\* payment that has the Product row is not always rolled back.  The
\* release-expired job repeats for ever (jobs.module.ts): it takes a candidate
\* again and again while there is one, and is not always rolled back.
FairSpec ==
  /\ Spec
  /\ \A c \in Calls : WF_vars(Continue(c)) /\ SF_vars(MarkPaidCommit(c))
  /\ \A c \in Crons : /\ SF_vars(\E o \in Orders : ReleaseExpiredRead(c, o))
                      /\ SF_vars(ReleaseExpiredReadRow(c))
                      /\ SF_vars(ReleaseExpiredCommit(c))

-----------------------------------------------------------------------------
(* Properties                                                              *)

\* Every table and every call in flight is well typed.  Product.reservedStock
\* is never negative: every writer clamps it.  Nothing of the kind is said of
\* ProductStock.reserved, which a cancellation and the job that end the same
\* reservation decrement twice.
TypeOK ==
  /\ inv \in Inventories
  /\ status \in [Orders -> OrderStatus \cup {"none"}]
  /\ earnings \in [Orders -> Nat]
  /\ default \in Warehouses \cup {NoWarehouse}
  /\ call \in [Calls -> CallStates]

\* A warehouse never promises more units than it has.
NoOverReserve == Covered(inv)

\* No call, however stale its read of the order, gets an order to PAID,
\* PROCESSING or SHIPPED whose vendor earning was not posted.
GoodsOnlyAfterPayment ==
  \A o \in Orders : status[o] \in {"PAID", "PROCESSING", "SHIPPED"} => earnings[o] > 0

\* markPaidFromPayment is idempotent: it posts the earning of an order once.
PaidOnce == \A o \in Orders : earnings[o] <= 1

\* Orders that have units of the product: taken and not given back.
Out == {o \in Orders : inv.hold[o] = "CONFIRMED" /\ status[o] \notin CancelLike}

\* Units are neither lost nor made up: what is in stock and what paid orders
\* took is what there was.
Conservation == inv.stock + Units(Out) = InitialStock

\* A paid order that is to be, or has been, shipped has its units.
PaidHasUnits ==
  \A o \in Orders : status[o] \in {"PAID", "PROCESSING", "SHIPPED"} => inv.hold[o] = "CONFIRMED"

\* An ACTIVE reservation holds its units until it is confirmed or expires:
\* those at a warehouse are covered by what its row has reserved, those
\* without one by the stock that no row has reserved.
HoldsBacked ==
  /\ \A w \in Warehouses :
       Units({o \in Active(inv) : inv.at[o] = w}) <= Reserveds(inv)[w]
  /\ Units({o \in Active(inv) : inv.at[o] = NoWarehouse})
       <= inv.stock - Total(Reserveds(inv))

\* No column is negative.
NoneNegative ==
  /\ inv.stock >= 0
  /\ \A w \in Warehouses :
       HasRow(inv, w) => inv.rows[w].quantity >= 0 /\ inv.rows[w].reserved >= 0

\* Product.stock is the sum of the quantities of its warehouse rows.
StockIsSumOfRows ==
  (\E w \in Warehouses : HasRow(inv, w)) => inv.stock = Total(Quantities(inv))

\* A reservation that has passed its expiresAt does not stay ACTIVE.
LateHoldsEnd ==
  \A o \in Orders : (o \in Active(inv) \cap inv.late) ~> (o \notin Active(inv))
=============================================================================
