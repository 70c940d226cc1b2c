------------------------------- MODULE Payouts -------------------------------
(***************************************************************************)
(* Vendor payouts of one shop: FinanceService (finance/finance.service.ts) *)
(* and AdminService.processPayout (admin/admin.service.ts) over the ledger.*)
(*                                                                         *)
(* Every API call in flight is a request r.  A handler that reads a row,   *)
(* awaits, and writes later is two or three steps here; the statements of  *)
(* a transaction that run under the "Shop" row lock (SELECT ... FOR UPDATE)*)
(* are one step, except that the balance read and the posting are two,     *)
(* because payments and refunds post without taking that lock.             *)
(***************************************************************************)
EXTENDS Ledger, Functions

CONSTANTS Requests,         \* API calls that may be in flight together
          Admins,           \* those of them made by administrators
          Amounts,          \* amounts a merchant may ask for
          OrderTotal,       \* totalCents of each order
          OrderCommission,  \* commissionCents of each order
          LegacyPayouts,    \* rows that may be left PENDING by releases without reserves
          Decisions,        \* what administrators do with a payout
          MirrorBound,      \* bound on the legacy mirror of payouts
          NoRequest

VARIABLES ledger,           \* double-entry ledger (see Ledger)
          legacy,           \* sums of the legacy LedgerEntry rows
          paid,             \* orders marked PAID
          status, amount,   \* the PayoutRequest rows
          req,              \* what each request remembers between its steps
          lock              \* holder of the Shop row lock

vars == <<ledger, legacy, paid, status, amount, req, lock>>

ASSUME AmountsAssumption == Amounts \subseteq Nat \ {0}

ASSUME OrdersAssumption ==
  /\ OrderTotal \in [Orders -> Nat \ {0}]
  /\ OrderCommission \in [Orders -> Nat]
  /\ \A o \in Orders : OrderCommission[o] <= OrderTotal[o]

ASSUME PayoutsAssumption ==
  /\ IsFiniteSet(Payouts) /\ LegacyPayouts \subseteq Payouts
  /\ Admins \subseteq Requests
  /\ MirrorBound \in Nat
  /\ NoRequest \notin Requests

-----------------------------------------------------------------------------

PayoutStatus == {"PENDING", "RESERVED", "PROCESSING", "APPROVED", "REJECTED",
                 "COMPLETED", "PAID", "FAILED", "CANCELLED"}

\* "none": no row with this id yet.
RowStatus == PayoutStatus \cup {"none"}

OpenPayoutStatuses == {"PENDING", "RESERVED", "PROCESSING", "APPROVED"}

Idle == [op |-> "idle"]

\* Lock held, balance checked, row about to be created.
Requesting(a) == [op |-> "request", amount |-> a]

\* In the middle of op on payout p, whose row was last read with status seen.
Deciding(op, p, seen) == [op |-> op, payout |-> p, seen |-> seen]

StatusWrites == {"reject", "approve", "adminApprove", "adminReject", "processing"}

DecisionOps == StatusWrites \cup {"adminPaid",
                 "startComplete", "complete", "completeLocked",
                 "startFail", "fail", "approveReserve", "approveLocked"}

Locked == {"request", "completeLocked", "approveLocked"}

RequestStates == {Idle} \cup [op : {"request"}, amount : Amounts]
                   \cup [op : DecisionOps, payout : Payouts, seen : RowStatus]

Max0(n) == IF n > 0 THEN n ELSE 0

\* What the open requests of the shop hold in the legacy computation.
Held == SumFunction([p \in Payouts |-> IF status[p] \in OpenPayoutStatuses THEN amount[p] ELSE 0])

GetAvailableBalance ==
  IF ledger.deCount > 0
    THEN Max0(VendorPayableBalanceCents(ledger))
    ELSE Max0(legacy.earned - legacy.paidOut - Held)

-----------------------------------------------------------------------------

Init ==
  /\ ledger = EmptyLedger
  /\ legacy = [earned |-> 0, paidOut |-> 0]
  /\ paid = {}
  /\ status \in [Payouts -> {"none", "PENDING"}]
  /\ \A p \in Payouts : status[p] = "PENDING" => p \in LegacyPayouts
  /\ amount \in [Payouts -> Amounts \cup {0}]
  /\ \A p \in Payouts : amount[p] = 0 <=> status[p] = "none"
  /\ req = [r \in Requests |-> Idle]
  /\ lock = NoRequest

-----------------------------------------------------------------------------
(* Money coming in and going back, without the Shop lock.                  *)

\* markPaidFromPayment: the vendor's earning in the legacy ledger.
OrderPaid(o) ==
  /\ o \notin paid
  /\ paid' = paid \cup {o}
  /\ legacy' = [legacy EXCEPT !.earned = @ + (OrderTotal[o] - OrderCommission[o])]
  /\ UNCHANGED <<ledger, status, amount, req, lock>>

\* completePayment posts to the double-entry ledger afterwards; an error there
\* is swallowed, so the step may also never happen.
PaymentPosted(o) ==
  /\ o \in paid
  /\ ~IsPosted(ledger, <<"Order", o>>)
  /\ ledger' = PostPayment(ledger, o, OrderTotal[o], OrderCommission[o])
  /\ UNCHANGED <<legacy, paid, status, amount, req, lock>>

\* Math.round(amount * commission / total) for a refund of a.
RefundCommission(o, a) ==
  (2 * a * OrderCommission[o] + OrderTotal[o]) \div (2 * OrderTotal[o])

\* confirmProviderRefund: one refund per order here, of any part of it.
RefundCompleted(o, a) ==
  /\ o \in paid
  /\ ~IsPosted(ledger, <<"Refund", o>>)
  /\ ledger' = PostRefund(ledger, o, a, RefundCommission(o, a))
  /\ UNCHANGED <<legacy, paid, status, amount, req, lock>>

-----------------------------------------------------------------------------
(* requestPayoutAtomic.                                                    *)

\* Mutant: no FOR UPDATE.
RequestPayoutUnlocked(r, a) ==
  /\ req[r] = Idle
  /\ \E p \in Payouts : status[p] = "none"
  /\ GetAvailableBalance >= a
  /\ req' = [req EXCEPT ![r] = Requesting(a)]
  /\ UNCHANGED <<ledger, legacy, paid, status, amount, lock>>

RequestPayout(r, a) ==
  /\ req[r] = Idle
  /\ lock = NoRequest
  /\ \E p \in Payouts : status[p] = "none"
  /\ GetAvailableBalance >= a
  /\ req' = [req EXCEPT ![r] = Requesting(a)]
  /\ lock' = r
  /\ UNCHANGED <<ledger, legacy, paid, status, amount>>

CommitRequest(r, p) ==
  /\ req[r].op = "request"
  /\ status[p] = "none"
  /\ status' = [status EXCEPT ![p] = "RESERVED"]
  /\ amount' = [amount EXCEPT ![p] = req[r].amount]
  /\ ledger' = PostPayoutReserve(ledger, p, req[r].amount)
  /\ legacy' = [legacy EXCEPT !.paidOut = @ + req[r].amount]
  /\ req' = [req EXCEPT ![r] = Idle]
  /\ lock' = NoRequest
  /\ UNCHANGED paid

-----------------------------------------------------------------------------
(* Administrators: the first read of the row chooses what is done next.    *)

Begin(r, p, op) ==
  /\ req[r] = Idle
  /\ status[p] # "none"
  /\ legacy.paidOut < MirrorBound
  /\ req' = [req EXCEPT ![r] = Deciding(op, p, status[p])]
  /\ UNCHANGED <<ledger, legacy, paid, status, amount, lock>>

DecidePayout(r, p, decision) ==
  \/ /\ decision = "PAID"
     /\ Begin(r, p, "startComplete")
  \/ /\ decision = "REJECTED"
     /\ status[p] \in {"RESERVED", "PROCESSING"}
     /\ Begin(r, p, "startFail")
  \/ /\ decision = "REJECTED"
     /\ status[p] \notin {"RESERVED", "PROCESSING"}
     /\ Begin(r, p, "reject")
  \/ /\ decision = "APPROVED"
     /\ status[p] = "PENDING"
     /\ Begin(r, p, "approveReserve")
  \/ /\ decision = "APPROVED"
     /\ status[p] # "PENDING"
     /\ Begin(r, p, "approve")

ProcessPayout(r, p, decision) ==
  /\ status[p] \in {"PENDING", "APPROVED"}
  /\ \/ decision = "admin:PAID" /\ Begin(r, p, "adminPaid")
     \/ decision = "admin:APPROVED" /\ Begin(r, p, "adminApprove")
     \/ decision = "admin:REJECTED" /\ Begin(r, p, "adminReject")

MarkPayoutProcessing(r, p, decision) ==
  /\ decision = "PROCESSING"
  /\ status[p] \in {"RESERVED", "APPROVED", "PENDING"}
  /\ Begin(r, p, "processing")

-----------------------------------------------------------------------------
(* The later steps of a decision, on what the request remembers.           *)

\* completePayout and failPayout read the row again, before their transaction.
ReadRow(r) ==
  /\ req[r].op \in {"startComplete", "startFail"}
  /\ LET now == status[req[r].payout]
         proceeds == \/ /\ req[r].op = "startComplete"
                        /\ now \in OpenPayoutStatuses
                     \/ /\ req[r].op = "startFail"
                        /\ now \notin {"COMPLETED", "PAID", "FAILED", "CANCELLED"}
         next == IF req[r].op = "startComplete" THEN "complete" ELSE "fail"
     IN req' = [req EXCEPT ![r] = IF proceeds THEN Deciding(next, req[r].payout, now) ELSE Idle]
  /\ UNCHANGED <<ledger, legacy, paid, status, amount, lock>>

\* completePayout checks the balance only for a row it saw PENDING or APPROVED.
ChecksBalance(r) ==
  req[r].op = "approveReserve" \/ req[r].seen \in {"PENDING", "APPROVED"}

LockShop(r) ==
  /\ req[r].op \in {"complete", "approveReserve"}
  /\ lock = NoRequest
  /\ ChecksBalance(r) => GetAvailableBalance >= amount[req[r].payout]
  /\ lock' = r
  /\ LET next == IF req[r].op = "complete" THEN "completeLocked" ELSE "approveLocked"
     IN req' = [req EXCEPT ![r] = Deciding(next, req[r].payout, req[r].seen)]
  /\ UNCHANGED <<ledger, legacy, paid, status, amount>>

InsufficientBalance(r) ==
  /\ req[r].op \in {"complete", "approveReserve"}
  /\ lock = NoRequest
  /\ ChecksBalance(r)
  /\ GetAvailableBalance < amount[req[r].payout]
  /\ req' = [req EXCEPT ![r] = Idle]
  /\ UNCHANGED <<ledger, legacy, paid, status, amount, lock>>

\* Mutant: the connection goes back to the pool with the transaction open.
CommitCompleteKeepsLock(r) ==
  /\ req[r].op = "completeLocked"
  /\ ledger' = PostPayoutCompleted(ledger, req[r].payout, amount[req[r].payout])
  /\ status' = [status EXCEPT ![req[r].payout] = "COMPLETED"]
  /\ req' = [req EXCEPT ![r] = Idle]
  /\ UNCHANGED <<legacy, paid, amount, lock>>

CommitComplete(r) ==
  /\ req[r].op = "completeLocked"
  /\ LET p == req[r].payout
         L == IF ChecksBalance(r) THEN PostPayoutReserve(ledger, p, amount[p]) ELSE ledger
     IN /\ ledger' = PostPayoutCompleted(L, p, amount[p])
        /\ status' = [status EXCEPT ![p] = "COMPLETED"]
  /\ req' = [req EXCEPT ![r] = Idle]
  /\ lock' = NoRequest
  /\ UNCHANGED <<legacy, paid, amount>>

CommitApproveReserve(r) ==
  /\ req[r].op = "approveLocked"
  /\ LET p == req[r].payout
     IN /\ ledger' = PostPayoutReserve(ledger, p, amount[p])
        /\ status' = [status EXCEPT ![p] = "RESERVED"]
  /\ req' = [req EXCEPT ![r] = Idle]
  /\ lock' = NoRequest
  /\ UNCHANGED <<legacy, paid, amount>>

\* failPayout releases for a row it saw RESERVED or PROCESSING.
HeldReserve(r) == req[r].seen \in {"RESERVED", "PROCESSING"}

\* Mutant: the reserve is not released.
CommitFailNoRelease(r) ==
  /\ req[r].op = "fail"
  /\ lock = NoRequest
  /\ status' = [status EXCEPT ![req[r].payout] = "FAILED"]
  /\ req' = [req EXCEPT ![r] = Idle]
  /\ UNCHANGED <<ledger, legacy, paid, amount, lock>>

\* Mutant: the mirror is netted instead of summed in absolute value.
CommitFailNetsMirror(r) ==
  /\ req[r].op = "fail"
  /\ lock = NoRequest
  /\ ledger' = ReleasePayoutReserve(ledger, req[r].payout, amount[req[r].payout])
  /\ legacy' = [legacy EXCEPT !.paidOut = @ - amount[req[r].payout]]
  /\ status' = [status EXCEPT ![req[r].payout] = "FAILED"]
  /\ req' = [req EXCEPT ![r] = Idle]
  /\ UNCHANGED <<paid, amount, lock>>

CommitFail(r) ==
  /\ req[r].op = "fail"
  /\ lock = NoRequest
  /\ LET p == req[r].payout
     IN /\ ledger' = IF HeldReserve(r) THEN ReleasePayoutReserve(ledger, p, amount[p]) ELSE ledger
        /\ legacy' = IF HeldReserve(r)
                       THEN [legacy EXCEPT !.paidOut = @ + amount[p]]
                       ELSE legacy
        /\ status' = [status EXCEPT ![p] = "FAILED"]
  /\ req' = [req EXCEPT ![r] = Idle]
  /\ UNCHANGED <<paid, amount, lock>>

\* The remaining decisions write the status whatever it has become.
WrittenStatus(op) ==
  CASE op \in {"reject", "adminReject"} -> "REJECTED"
    [] op \in {"approve", "adminApprove"} -> "APPROVED"
    [] op = "processing" -> "PROCESSING"

WriteStatus(r) ==
  /\ req[r].op \in StatusWrites
  /\ status' = [status EXCEPT ![req[r].payout] = WrittenStatus(req[r].op)]
  /\ req' = [req EXCEPT ![r] = Idle]
  /\ UNCHANGED <<ledger, legacy, paid, amount, lock>>

\* AdminService marks PAID and writes the legacy mirror, not the ledger.
CommitAdminPaid(r) ==
  /\ req[r].op = "adminPaid"
  /\ status' = [status EXCEPT ![req[r].payout] = "PAID"]
  /\ legacy' = [legacy EXCEPT !.paidOut = @ + amount[req[r].payout]]
  /\ req' = [req EXCEPT ![r] = Idle]
  /\ UNCHANGED <<ledger, paid, amount, lock>>

\* A crash, a timeout or a database error: the transaction rolls back and its
\* lock goes with it.  A retried requestPayoutAtomic is a new request.
Abort(r) ==
  /\ req[r] # Idle
  /\ req' = [req EXCEPT ![r] = Idle]
  /\ lock' = IF lock = r THEN NoRequest ELSE lock
  /\ UNCHANGED <<ledger, legacy, paid, status, amount>>

-----------------------------------------------------------------------------

Environment ==
  \E o \in Orders :
    \/ OrderPaid(o)
    \/ PaymentPosted(o)
    \/ \E a \in 1..OrderTotal[o] : RefundCompleted(o, a)

\* The routes of FinanceController, for merchants and for administrators, and the console's.
Arrival(r) ==
  \/ \E a \in Amounts : RequestPayout(r, a)
  \/ /\ r \in Admins
     /\ \E p \in Payouts, d \in Decisions :
          DecidePayout(r, p, d) \/ ProcessPayout(r, p, d) \/ MarkPayoutProcessing(r, p, d)

Advance(r) ==
  \/ \E p \in Payouts : CommitRequest(r, p)
  \/ ReadRow(r)
  \/ LockShop(r)
  \/ InsufficientBalance(r)
  \/ CommitComplete(r)
  \/ CommitApproveReserve(r)
  \/ CommitFail(r)
  \/ WriteStatus(r)
  \/ CommitAdminPaid(r)

Next ==
  \/ Environment
  \/ \E r \in Requests : Arrival(r) \/ Advance(r) \/ Abort(r)

Spec == Init /\ [][Next]_vars

\* A started handler keeps running, and PostgreSQL queues the waiters of a row
\* lock, so a waiting handler is not passed over for ever.
Fairness == \A r \in Requests : SF_vars(Advance(r))

FairSpec == Spec /\ Fairness

-----------------------------------------------------------------------------
(* Properties.                                                             *)

\* Every variable keeps its type.
TypeOK ==
  /\ ledger \in Ledgers
  /\ legacy \in [earned : Int, paidOut : Nat]
  /\ paid \in SUBSET Orders
  /\ status \in [Payouts -> RowStatus]
  /\ amount \in [Payouts -> Amounts \cup {0}]
  /\ req \in [Requests -> RequestStates]
  /\ lock \in Requests \cup {NoRequest}

\* Debits equal credits in the postings of every kind, whatever payments,
\* refunds and payout handlers post and in whatever order
\* (docs/PAYMENTS.md: "Invariant: total debit = total credit").
DoubleEntry == Balanced(ledger)

\* What the vendor was credited, reserved (net of releases) and finally paid.
VendorCredits(L) == L.book["Order"]["VENDOR_PAYABLE"]
NetReserved(L) == - (L.book["Payout"]["VENDOR_PAYABLE"] + L.book["PayoutRelease"]["VENDOR_PAYABLE"])
Finalized(L) == L.book["PayoutComplete"]["PLATFORM_CLEARING"]

\* Concurrent payout requests and decisions never reserve more than the shop
\* earned: what is reserved and not released is covered by the credits of the
\* double-entry ledger or, when the first reserve was granted from the legacy
\* balance, by the legacy earnings.  This is what the Shop lock is for: the
\* balance is read in one statement and the reserve posted in a later one.
PayoutsBacked ==
  NetReserved(ledger) <= VendorCredits(ledger) \/ NetReserved(ledger) <= legacy.earned

\* The money set aside in VENDOR_AVAILABLE is exactly the sum of the rows that
\* are RESERVED or PROCESSING: ledger and payout rows never drift apart.  It
\* holds while decisions on a payout are made one at a time.
ReservesMatchRows ==
  Balance(ledger, "VENDOR_AVAILABLE")
    = SumFunction([p \in Payouts |-> IF status[p] \in {"RESERVED", "PROCESSING"} THEN amount[p] ELSE 0])

\* The shop is never paid more than it earned (docs/PAYMENTS.md:
\* "Concurrent double-spend rejected").
PaidOutBacked == Finalized(ledger) <= legacy.earned

\* Every payout call returns: no handler waits for ever for the Shop lock.
RequestsReturn == \A r \in Requests : req[r] # Idle ~> req[r] = Idle
=============================================================================
