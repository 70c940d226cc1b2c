------------------------------ MODULE Refunds ------------------------------
(***************************************************************************)
(* Refunds of one paid order: RefundsService (refunds/refunds.service.ts)   *)
(* and the refund events of Stripe, the external provider.                 *)
(*                                                                         *)
(* A refund is requested, approved, asked of Stripe and completed by an    *)
(* event of Stripe, which may arrive before the call that asked for it has *)
(* written its answer, more than once, or after a crash.  Each request and *)
(* each delivery is a call c, split where the code awaits.                 *)
(***************************************************************************)
EXTENDS Naturals, FiniteSets, Functions

CONSTANTS RefundIds,      \* refund rows that may be created
          Amounts,        \* amounts people ask for
          Total,          \* what was paid for the order
          StripeIds,      \* refunds Stripe may make
          Calls, NoCall, NoRow, NoRefund,
          Types,          \* the refund events Stripe is told to send
          Shared,         \* rows that people may work on while others do
          Faults          \* what may go wrong: "crash", "timeout"

ASSUME AmountsAssumption == Total \in Nat \ {0} /\ Amounts \subseteq 1 .. Total

ASSUME TypesAssumption ==
  /\ Types \subseteq {"refund.created", "refund.updated", "charge.refunded"}
  /\ Faults \subseteq {"crash", "timeout"} /\ Shared \subseteq RefundIds

VARIABLES order,          \* Order.status
          refund,         \* Refund rows: status and amountCents
          stripe,         \* Stripe's refunds: the row they are for, and the amount
          acked,          \* events answered with 200
          posted,         \* amount of the REFUND transaction of each row, 0 if none
          call, faults

vars == <<order, refund, stripe, acked, posted, call, faults>>

RefundStatus == {"REQUESTED", "APPROVED", "PROVIDER_REQUESTED", "PROVIDER_CONFIRMED",
                 "COMPLETED", "REJECTED", "FAILED"}

RefundRows == [status : RefundStatus, amount : 1 .. Total]

OrderStatus == {"PAID", "PROCESSING", "SHIPPED", "COMPLETED", "PARTIALLY_REFUNDED", "REFUNDED",
                "CANCELLED", "DISPUTED"}

Refundable == {"PAID", "PARTIALLY_REFUNDED", "PROCESSING", "SHIPPED", "COMPLETED"}

\* refund-status.machine.ts
Transitions ==
  [s \in RefundStatus |->
     CASE s = "REQUESTED" -> {"APPROVED", "REJECTED"}
       [] s = "APPROVED" -> {"PROVIDER_REQUESTED", "REJECTED", "FAILED"}
       [] s = "PROVIDER_REQUESTED" -> {"PROVIDER_CONFIRMED", "COMPLETED", "FAILED"}
       [] s = "PROVIDER_CONFIRMED" -> {"COMPLETED"}
       [] s = "FAILED" -> {"APPROVED"}
       [] OTHER -> {}]

CanTransitionRefund(from, to) == to \in Transitions[from]

\* Mutant: an event that overtakes the call that asked for the refund is ignored.
ProviderConfirmableAsked == {"PROVIDER_REQUESTED", "PROVIDER_CONFIRMED"}

ProviderConfirmable == {"PROVIDER_REQUESTED", "APPROVED", "PROVIDER_CONFIRMED"}

StripeRefunds == [row : RefundIds, amount : 1 .. Total]

Events == Types \X StripeIds

Steps == {"create", "approve", "approveWrite", "rejectWrite", "provider", "ask", "asked",
          "failed", "confirm", "commit"}

\* whole is set in the one-call refund of an administrator (refundPayment); seen
\* is the order's status a confirmation read.
CallRows ==
  [step : Steps, row : RefundIds, amount : 1 .. Total, whole : BOOLEAN,
   event : Events \cup {NoRefund}, seen : OrderStatus]

CallStates == {NoCall} \cup CallRows

\* The values that stand for nothing are none of the others.
ASSUME NothingAssumption ==
  /\ NoCall \notin CallRows /\ NoRow \notin RefundRows
  /\ NoRefund \notin StripeRefunds \cup Events /\ IsFiniteSet(StripeIds)

Free(c) == call[c] = NoCall

At(c, s) == call[c] # NoCall /\ call[c].step = s

Goes(c, s) == call' = [call EXCEPT ![c].step = s]

Returns(c) == call' = [call EXCEPT ![c] = NoCall]

Starts(c, s, r, a, whole, e) ==
  call' = [call EXCEPT ![c] = [step |-> s, row |-> r, amount |-> a, whole |-> whole,
                               event |-> e, seen |-> order]]

\* A person's request on row r may start.
MayStart(c, r) ==
  Free(c) /\ (r \in Shared \/ \A d \in Calls : call[d] # NoCall => call[d].event # NoRefund)

Status(r) == IF refund[r] = NoRow THEN "none" ELSE refund[r].status

Writes(r, s) == refund' = [refund EXCEPT ![r].status = s]

Init ==
  /\ order = "PAID"
  /\ refund = [r \in RefundIds |-> NoRow]
  /\ stripe = [s \in StripeIds |-> NoRefund]
  /\ acked = {}
  /\ posted = [r \in RefundIds |-> 0]
  /\ call = [c \in Calls |-> NoCall]
  /\ faults = Faults

-----------------------------------------------------------------------------
(* requestRefund, approveRefund, rejectRefund                              *)

\* What the order's open and completed refunds take up.
RefundedSoFar ==
  SumFunctionOnSet([r \in RefundIds |-> refund[r].amount],
    {r \in RefundIds : Status(r) \in {"REQUESTED", "APPROVED", "PROVIDER_REQUESTED",
                                      "PROVIDER_CONFIRMED", "COMPLETED"}})

\* Mutant: a confirmation adds the charge to the amount of the refund.
CommitRefundAdds(c) ==
  /\ At(c, "commit")
  /\ LET r == call[c].row
         a == call[c].amount + Total IN
       /\ refund' = [refund EXCEPT ![r] = [status |-> "COMPLETED", amount |-> a]]
       /\ order' = "PARTIALLY_REFUNDED"
       /\ posted' = [posted EXCEPT ![r] = IF @ = 0 THEN a ELSE @]
  /\ acked' = acked \cup {call[c].event}
  /\ Returns(c)
  /\ UNCHANGED <<stripe, faults>>

\* Mutant: the provider's success is taken for the confirmation.
StoreProviderCompleted(c) ==
  /\ At(c, "asked")
  /\ Writes(call[c].row, "COMPLETED")
  /\ Returns(c)
  /\ UNCHANGED <<order, stripe, acked, posted, faults>>

\* The checks, and the insert as a second step (Create).
RequestRefund(c, r, a, whole) ==
  /\ MayStart(c, r)
  /\ refund[r] = NoRow
  /\ \A d \in Calls : call[d] # NoCall => call[d].row # r
  /\ order \in Refundable
  /\ a + RefundedSoFar <= Total
  /\ Starts(c, "create", r, a, whole, NoRefund)
  /\ UNCHANGED <<order, refund, stripe, acked, posted, faults>>

Create(c) ==
  /\ At(c, "create")
  /\ refund' = [refund EXCEPT ![call[c].row] = [status |-> "REQUESTED", amount |-> call[c].amount]]
  /\ IF call[c].whole THEN Goes(c, "approve") ELSE Returns(c)
  /\ UNCHANGED <<order, stripe, acked, posted, faults>>

\* An administrator's request for one of the three routes on a row.
StartOn(c, r, s) ==
  /\ MayStart(c, r)
  /\ refund[r] # NoRow
  /\ Starts(c, s, r, refund[r].amount, FALSE, NoRefund)
  /\ UNCHANGED <<order, refund, stripe, acked, posted, faults>>

ApproveRefund(c) ==
  /\ At(c, "approve")
  /\ IF Status(call[c].row) = "REQUESTED" /\ CanTransitionRefund("REQUESTED", "APPROVED")
       THEN Goes(c, "approveWrite")
       ELSE Returns(c)
  /\ UNCHANGED <<order, refund, stripe, acked, posted, faults>>

ApproveWrite(c) ==
  /\ At(c, "approveWrite")
  /\ Writes(call[c].row, "APPROVED")
  /\ IF call[c].whole THEN Goes(c, "provider") ELSE Returns(c)
  /\ UNCHANGED <<order, stripe, acked, posted, faults>>

RejectRefund(c, r) ==
  /\ MayStart(c, r)
  /\ Status(r) \in {"REQUESTED", "APPROVED"}
  /\ Starts(c, "rejectWrite", r, refund[r].amount, FALSE, NoRefund)
  /\ UNCHANGED <<order, refund, stripe, acked, posted, faults>>

\* decideRefund of support.service, a second route: it approves as approveRefund does,
\* and rejects a refund whatever has become of it, COMPLETED too.
DecideRefund(c, r) ==
  /\ MayStart(c, r)
  /\ refund[r] # NoRow
  /\ Starts(c, "rejectWrite", r, refund[r].amount, FALSE, NoRefund)
  /\ UNCHANGED <<order, refund, stripe, acked, posted, faults>>

RejectWrite(c) ==
  /\ At(c, "rejectWrite")
  /\ Writes(call[c].row, "REJECTED")
  /\ Returns(c)
  /\ UNCHANGED <<order, stripe, acked, posted, faults>>

-----------------------------------------------------------------------------
(* requestProviderRefund                                                   *)

RequestProviderRefund(c) ==
  /\ At(c, "provider")
  /\ IF Status(call[c].row) = "APPROVED" THEN Goes(c, "ask") ELSE Returns(c)
  /\ UNCHANGED <<order, refund, stripe, acked, posted, faults>>

\* What Stripe has given back; it refuses to give back more than it took.
GivenBack ==
  SumFunctionOnSet([s \in StripeIds |-> stripe[s].amount], {s \in StripeIds : stripe[s] # NoRefund})

\* stripe.refunds.create, without an idempotency key: the refund is made or
\* refused, or made and the answer lost.
AskStripe(c) ==
  /\ At(c, "ask")
  /\ \/ /\ GivenBack + call[c].amount <= Total
        /\ \E s \in StripeIds : stripe[s] = NoRefund
        /\ LET s == CHOOSE s \in StripeIds : stripe[s] = NoRefund IN
             stripe' = [stripe EXCEPT ![s] = [row |-> call[c].row, amount |-> call[c].amount]]
        /\ \/ Goes(c, "asked") /\ UNCHANGED faults
           \/ "timeout" \in faults /\ faults' = faults \ {"timeout"} /\ Goes(c, "failed")
     \/ /\ GivenBack + call[c].amount > Total \/ \A s \in StripeIds : stripe[s] # NoRefund
        /\ Goes(c, "failed")
        /\ UNCHANGED <<stripe, faults>>
  /\ UNCHANGED <<order, refund, acked, posted>>

\* Whatever the row has become meanwhile.
StoreProviderRequested(c) ==
  /\ At(c, "asked")
  /\ Writes(call[c].row, "PROVIDER_REQUESTED")
  /\ Returns(c)
  /\ UNCHANGED <<order, stripe, acked, posted, faults>>

StoreProviderFailed(c) ==
  /\ At(c, "failed")
  /\ Writes(call[c].row, "FAILED")
  /\ Returns(c)
  /\ UNCHANGED <<order, stripe, acked, posted, faults>>

-----------------------------------------------------------------------------
(* handleStripeRefundEvent, confirmProviderRefund                          *)

\* A refund event carries the refund's amount, a charge event the charge's.
EventAmount(e) == IF e[1] = "charge.refunded" THEN Total ELSE stripe[e[2]].amount

\* Deliveries of one event go on until one of them is answered.
HandleStripeRefundEvent(c, e) ==
  /\ Free(c)
  /\ stripe[e[2]] # NoRefund
  /\ e \notin acked
  /\ Starts(c, "confirm", stripe[e[2]].row, EventAmount(e), FALSE, e)
  /\ UNCHANGED <<order, refund, stripe, acked, posted, faults>>

\* The row is found by the refundId that Stripe keeps with the refund.
ConfirmProviderRefund(c) ==
  /\ At(c, "confirm")
  /\ IF Status(call[c].row) \in ProviderConfirmable
       THEN call' = [call EXCEPT ![c].step = "commit", ![c].seen = order] /\ UNCHANGED acked
       ELSE Returns(c) /\ acked' = acked \cup {call[c].event}
  /\ UNCHANGED <<order, refund, stripe, posted, faults>>

\* Mutant: any completed refund makes the order REFUNDED.
OrderAfterAny(seen, amount) == "REFUNDED"

OrderAfter(seen, amount) ==
  IF amount >= Total THEN "REFUNDED"
  ELSE IF seen \in {"REFUNDED", "PARTIALLY_REFUNDED"} THEN order ELSE "PARTIALLY_REFUNDED"

\* Mutant: the posting is not looked up first.
PostRefundAgain(r, a) == posted' = [posted EXCEPT ![r] = @ + a]

\* postTransaction does nothing when the refund has its transaction.
PostRefund(r, a) == posted' = [posted EXCEPT ![r] = IF @ = 0 THEN a ELSE @]

\* The transaction writes the row first and so is serialised with any other
\* confirmation of it.
CommitRefund(c) ==
  /\ At(c, "commit")
  /\ LET r == call[c].row
         a == call[c].amount IN
       /\ refund' = [refund EXCEPT ![r] = [status |-> "COMPLETED", amount |-> a]]
       /\ order' = OrderAfter(call[c].seen, a)
       /\ PostRefund(r, a)
  /\ acked' = acked \cup {call[c].event}
  /\ Returns(c)
  /\ UNCHANGED <<stripe, faults>>

-----------------------------------------------------------------------------
(* Everything else                                                         *)

\* The process stops between two steps of a call.
Crash(c) ==
  /\ "crash" \in faults
  /\ ~Free(c)
  /\ faults' = faults \ {"crash"}
  /\ Returns(c)
  /\ UNCHANGED <<order, refund, stripe, acked, posted>>

\* The routes of the controller: request, approve, reject, provider.  The one
\* for COMPLETED always refuses.
RefundRoutes(c) ==
  \E r \in RefundIds :
    \/ \E a \in Amounts : RequestRefund(c, r, a, FALSE)
    \/ StartOn(c, r, "approve")
    \/ RejectRefund(c, r) \/ DecideRefund(c, r)
    \/ StartOn(c, r, "provider")

\* refundPayment: request, approve and provider in one call.
RefundPayment(c) == \E r \in RefundIds, a \in Amounts : RequestRefund(c, r, a, TRUE)

Handler(c) ==
  \/ Create(c) \/ ApproveRefund(c) \/ ApproveWrite(c) \/ RejectWrite(c)
  \/ RequestProviderRefund(c) \/ AskStripe(c)
  \/ StoreProviderRequested(c) \/ StoreProviderFailed(c)
  \/ ConfirmProviderRefund(c) \/ CommitRefund(c)

Next ==
  \/ \E c \in Calls :
       \/ RefundRoutes(c) \/ RefundPayment(c) \/ Handler(c) \/ Crash(c)
       \/ \E e \in Events : HandleStripeRefundEvent(c, e)

Spec == Init /\ [][Next]_vars

\* Calls run on, and Stripe repeats an event until it is answered.
FairSpec ==
  /\ Spec
  /\ \A c \in Calls : WF_vars(Handler(c))
  /\ \A e \in Events : SF_vars(\E c \in Calls : HandleStripeRefundEvent(c, e))

-----------------------------------------------------------------------------
(* Properties                                                              *)

\* Every variable keeps its type; a row's amount never leaves 1 .. Total.
TypeOK ==
  /\ order \in OrderStatus
  /\ refund \in [RefundIds -> RefundRows \cup {NoRow}]
  /\ stripe \in [StripeIds -> StripeRefunds \cup {NoRefund}]
  /\ acked \in SUBSET Events
  /\ posted \in [RefundIds -> 0 .. Total]
  /\ call \in [Calls -> CallStates]
  /\ faults \in SUBSET Faults

\* The ledger reverses only money Stripe gave back, and each Stripe refund at
\* most once: however often its events are delivered, to whatever calls.
PostedIsRefunded ==
  \A r \in RefundIds :
    posted[r] > 0 => \E s \in StripeIds :
                       /\ stripe[s] # NoRefund
                       /\ stripe[s].row = r /\ stripe[s].amount = posted[r]

\* An order is REFUNDED only when the whole payment went back.
RefundedMeansAll == order = "REFUNDED" => GivenBack = Total

\* A COMPLETED refund has its posting, of its amount.
CompletedIsPosted ==
  \A r \in RefundIds : Status(r) = "COMPLETED" => posted[r] = refund[r].amount

\* What Stripe gave back reaches the ledger, although the event may overtake the
\* call that asked for it, or that call crash; except for a refund that an
\* administrator rejected, or whose call was told that it failed.  Administrators
\* must not work on the refund at the same time.
ProviderRefundIsPosted ==
  \A s \in StripeIds : \A r \in RefundIds \ Shared :
    (stripe[s] # NoRefund /\ stripe[s].row = r)
      ~> (posted[r] > 0 \/ Status(r) \in {"REJECTED", "FAILED"})

\* Postings, rows and the order's status tell what the provider gave back, and no more,
\* however requests, decisions and events overlap.
RefundsAgree == TypeOK /\ PostedIsRefunded /\ CompletedIsPosted /\ RefundedMeansAll
=============================================================================
