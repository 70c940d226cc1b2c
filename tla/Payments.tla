------------------------------ MODULE Payments ------------------------------
(***************************************************************************)
(* Payments of one order: PaymentsService (payments/payments.service.ts)   *)
(* and the webhooks of Stripe, the external provider.                      *)
(*                                                                         *)
(* A payment i is a Stripe intent, its idempotency key and its Payment row.*)
(* Stripe delivers an event until it is answered with 200, possibly more   *)
(* than once and in any order.  Each delivery, and each call of a client,  *)
(* is a call c, split where the handler awaits; it may crash at any await. *)
(* Refund events are in Refunds, account.updated is in Connect.            *)
(***************************************************************************)
EXTENDS Naturals

CONSTANTS Intents,          \* payments that may be started for the order
          Mismatched,       \* those that Stripe may capture with another amount or currency
          Flaky,            \* those whose first attempt is declined
          Providers,        \* values of PAYMENT_PROVIDER considered
          Calls, NoCall,
          OtherTypes,       \* events that are sent beside successes and failures
          MaxFaults,        \* bound: crashes and errors in a behaviour
          OrderMoves        \* status changes made by people meanwhile

ASSUME IntentsAssumption ==
  Mismatched \subseteq Intents /\ Flaky \subseteq Intents /\ Providers \subseteq {"stripe", "dev"}

ASSUME FaultsAssumption == MaxFaults \in Nat

VARIABLES provider,         \* how this deployment is configured
          order,            \* Order.status
          row,              \* Payment.status of each payment
          stripe,           \* what Stripe did with each intent
          sent,             \* events Stripe sent
          acked,            \* intents whose success was answered with 200
          hook,             \* PaymentWebhookEvent.status
          earned,           \* times markPaidFromPayment committed
          posted,           \* PAYMENT transactions of the order in the ledger
          call, faults

vars == <<provider, order, row, stripe, sent, acked, hook, earned, posted, call, faults>>

OrderStatus == {"PENDING_PAYMENT", "PAID", "PROCESSING", "CANCELLED", "DISPUTED"}

ASSUME MovesAssumption == OrderMoves \subseteq (OrderStatus \ {"PAID"}) \X (OrderStatus \ {"PAID"})
                            \cup ({"PAID"} \X OrderStatus)

\* The values of Payment.status that are ever written.
PaymentStatus == {"PENDING", "SUCCEEDED", "FAILED"}

PaymentRows == [Intents -> PaymentStatus \cup {"none"}]

EventTypes == {"payment_intent.succeeded", "payment_intent.payment_failed"} \cup OtherTypes

ASSUME OtherTypesAssumption == OtherTypes \subseteq {"charge.dispute.created", "payout.paid", "other"}

Events == EventTypes \X Intents

WebhookRows == [Events -> {"none", "received", "processed", "ignored", "failed"}]

Succeeded(i) == <<"payment_intent.succeeded", i>>

\* A call of DevConfirm works on a payment without an event.
Jobs == Events \cup ({"dev"} \X Intents)

Steps == {"create", "store", "handle", "complete", "markPaid", "commitPaid",
          "succeed", "fail", "post", "createPosting", "failWrite", "finish"}

CallStates == {NoCall} \cup [step : Steps, job : Jobs]

Free(c) == call[c] = NoCall

At(c, s) == call[c] # NoCall /\ call[c].step = s

Intent(c) == call[c].job[2]

Goes(c, s) == call' = [call EXCEPT ![c].step = s]

Returns(c) == call' = [call EXCEPT ![c] = NoCall]

Ack(e) == acked' = IF e[1] = "payment_intent.succeeded" THEN acked \cup {e[2]} ELSE acked

Starts(c, s, j) == call' = [call EXCEPT ![c] = [step |-> s, job |-> j]]

Init ==
  /\ provider \in Providers
  /\ order = "PENDING_PAYMENT"
  /\ row = [i \in Intents |-> "none"]
  /\ stripe = [i \in Intents |-> "none"]
  /\ sent = {} /\ acked = {}
  /\ hook = [e \in Events |-> "none"]
  /\ earned = 0 /\ posted = 0
  /\ call = [c \in Calls |-> NoCall]
  /\ faults = 0

-----------------------------------------------------------------------------
(* Starting a payment                                                      *)

\* assertCanPayOrder.
CanPay == order = "PENDING_PAYMENT"

\* createPaymentIntent: CanPay, no row with this key, and the call
\* of Stripe, which answers a repeated key with the same intent.
CreatePaymentIntent(c, i) ==
  /\ Free(c)
  /\ provider = "stripe"
  /\ CanPay
  /\ row[i] = "none"
  /\ stripe' = [stripe EXCEPT ![i] = IF @ = "none" THEN "open" ELSE @]
  /\ Starts(c, "create", Succeeded(i))
  /\ UNCHANGED <<provider, order, row, sent, acked, hook, earned, posted, faults>>

\* The row is created; the key is unique, so a second insert throws.
CreateStripeIntent(c) ==
  /\ At(c, "create")
  /\ row' = [row EXCEPT ![Intent(c)] = IF @ = "none" THEN "PENDING" ELSE @]
  /\ Returns(c)
  /\ UNCHANGED <<provider, order, stripe, sent, acked, hook, earned, posted, faults>>

\* With the provider "dev" the row is all there is.
CreateDevPayment(i) ==
  /\ provider = "dev"
  /\ CanPay
  /\ row[i] = "none"
  /\ row' = [row EXCEPT ![i] = "PENDING"]
  /\ UNCHANGED <<provider, order, stripe, sent, acked, hook, earned, posted, call, faults>>

\* devConfirm: without a PAID order, a row is found or created and completed.
DevConfirm(c, i) ==
  /\ Free(c)
  /\ provider = "dev"
  /\ CanPay
  /\ row' = [row EXCEPT ![i] = IF @ = "none" THEN "PENDING" ELSE @]
  /\ Starts(c, "complete", <<"dev", i>>)
  /\ UNCHANGED <<provider, order, stripe, sent, acked, hook, earned, posted, faults>>

-----------------------------------------------------------------------------
(* Stripe and people                                                       *)

\* The client has the intent's secret only once the row exists.
Capture(i) ==
  /\ stripe[i] \in {"open", "declined"} /\ row[i] # "none"
  /\ \E how \in {"captured"} \cup (IF i \in Mismatched THEN {"differs"} ELSE {}) :
       stripe' = [stripe EXCEPT ![i] = how]
  /\ sent' = sent \cup {Succeeded(i)}
  /\ UNCHANGED <<provider, order, row, acked, hook, earned, posted, call, faults>>

Decline(i) ==
  /\ i \in Flaky
  /\ stripe[i] = "open" /\ row[i] # "none"
  /\ stripe' = [stripe EXCEPT ![i] = "declined"]
  /\ sent' = sent \cup {<<"payment_intent.payment_failed", i>>}
  /\ UNCHANGED <<provider, order, row, acked, hook, earned, posted, call, faults>>

\* A dispute, a payout or an event the application does not handle; bound: one
\* of them for an intent.
SendOther(i, t) ==
  /\ t \in OtherTypes
  /\ stripe[i] = "captured"
  /\ \A o \in OtherTypes : <<o, i>> \notin sent
  /\ sent' = sent \cup {<<t, i>>}
  /\ UNCHANGED <<provider, order, row, stripe, acked, hook, earned, posted, call, faults>>

\* updateStatus, by the customer, the merchant or an administrator.
UpdateStatus(to) ==
  /\ <<order, to>> \in OrderMoves
  /\ order' = to
  /\ UNCHANGED <<provider, row, stripe, sent, acked, hook, earned, posted, call, faults>>

-----------------------------------------------------------------------------
(* processVerifiedStripeEvent                                              *)

\* Mutant: any stored event counts as done.
DeliverOnce(c, e) ==
  /\ Free(c) /\ e \in sent
  /\ IF hook[e] # "none"
       THEN Ack(e) /\ UNCHANGED call
       ELSE Starts(c, "store", e) /\ UNCHANGED acked
  /\ UNCHANGED <<provider, order, row, stripe, sent, hook, earned, posted, faults>>

\* Only a processed or ignored event is answered without doing anything.
Deliver(c, e) ==
  /\ Free(c) /\ e \in sent
  /\ IF hook[e] \in {"processed", "ignored"}
       THEN Ack(e) /\ UNCHANGED call
       ELSE Starts(c, "store", e) /\ UNCHANGED acked
  /\ UNCHANGED <<provider, order, row, stripe, sent, hook, earned, posted, faults>>

\* Mutant: the event is inserted, which a second delivery cannot repeat.
StoreEventInsert(c) ==
  /\ At(c, "store")
  /\ IF hook[call[c].job] = "none"
       THEN hook' = [hook EXCEPT ![call[c].job] = "received"] /\ Goes(c, "handle")
       ELSE Returns(c) /\ UNCHANGED hook
  /\ UNCHANGED <<provider, order, row, stripe, sent, acked, earned, posted, faults>>

\* The upsert writes "received", whatever the row has become.
StoreEvent(c) ==
  /\ At(c, "store")
  /\ hook' = [hook EXCEPT ![call[c].job] = "received"]
  /\ Goes(c, "handle")
  /\ UNCHANGED <<provider, order, row, stripe, sent, acked, earned, posted, faults>>

\* "ignored" for types without a case; a DevConfirm has no event.
Finish(c) ==
  /\ \/ At(c, "finish")
     \/ At(c, "handle") /\ call[c].job[1] \in {"payout.paid", "other"}
  /\ LET e == call[c].job IN
       IF e \in Events
         THEN /\ hook' = [hook EXCEPT ![e] = IF e[1] = "other" THEN "ignored" ELSE "processed"]
              /\ Ack(e)
         ELSE UNCHANGED <<hook, acked>>
  /\ Returns(c)
  /\ UNCHANGED <<provider, order, row, stripe, sent, earned, posted, faults>>

\* An error outside the handlers' own catch: the event is kept as failed and
\* Stripe is told to retry.
Throw(c) ==
  /\ faults < MaxFaults /\ faults' = faults + 1
  /\ call[c] # NoCall
  /\ call[c].step \in {"handle", "succeed", "fail", "failWrite"}
  /\ LET e == call[c].job IN
       hook' = IF e \in Events THEN [hook EXCEPT ![e] = "failed"] ELSE hook
  /\ Returns(c)
  /\ UNCHANGED <<provider, order, row, stripe, sent, acked, earned, posted>>

\* The process stops: nothing is written and nothing answered.
Crash(c) ==
  /\ faults < MaxFaults /\ faults' = faults + 1
  /\ ~Free(c)
  /\ Returns(c)
  /\ UNCHANGED <<provider, order, row, stripe, sent, acked, hook, earned, posted>>

-----------------------------------------------------------------------------
(* payment_intent.payment_failed and charge.dispute.*                      *)

HandlePaymentIntentFailed(c) ==
  /\ At(c, "handle") /\ call[c].job[1] = "payment_intent.payment_failed"
  /\ Goes(c, IF row[Intent(c)] = "PENDING" THEN "failWrite" ELSE "finish")
  /\ UNCHANGED <<provider, order, row, stripe, sent, acked, hook, earned, posted, faults>>

WritePaymentFailed(c) ==
  /\ At(c, "failWrite")
  /\ row' = [row EXCEPT ![Intent(c)] = "FAILED"]
  /\ Goes(c, "finish")
  /\ UNCHANGED <<provider, order, stripe, sent, acked, hook, earned, posted, faults>>

\* Mutant: a dispute is taken for a refund.
HandleStripeDisputeAsRefund(c) ==
  /\ At(c, "handle") /\ call[c].job[1] = "charge.dispute.created"
  /\ order' = "REFUNDED"
  /\ Goes(c, "finish")
  /\ UNCHANGED <<provider, row, stripe, sent, acked, hook, earned, posted, faults>>

HandleStripeDispute(c) ==
  /\ At(c, "handle") /\ call[c].job[1] = "charge.dispute.created"
  /\ order' = "DISPUTED"
  /\ Goes(c, "finish")
  /\ UNCHANGED <<provider, row, stripe, sent, acked, hook, earned, posted, faults>>

-----------------------------------------------------------------------------
(* payment_intent.succeeded: completeStripeSucceeded, completePayment      *)

OfSuccess(c) == At(c, "handle") /\ call[c].job[1] = "payment_intent.succeeded"

\* Mutant: what Stripe reports is not compared with the order.
CompleteStripeSucceededUnchecked(c) ==
  /\ OfSuccess(c)
  /\ Goes(c, IF row[Intent(c)] = "SUCCEEDED" THEN "finish" ELSE "complete")
  /\ UNCHANGED <<provider, order, row, stripe, sent, acked, hook, earned, posted, faults>>

\* The event's order, amount and currency must be those of the row and the order.
CompleteStripeSucceeded(c) ==
  /\ OfSuccess(c)
  /\ LET i == Intent(c) IN
       Goes(c, CASE row[i] = "SUCCEEDED" -> "finish"
                 [] row[i] # "SUCCEEDED" /\ stripe[i] = "differs" -> "fail"
                 [] OTHER -> "complete")
  /\ UNCHANGED <<provider, order, row, stripe, sent, acked, hook, earned, posted, faults>>

\* completePayment reads the row again.
CompletePayment(c) ==
  /\ At(c, "complete")
  /\ Goes(c, IF row[Intent(c)] = "SUCCEEDED" THEN "finish" ELSE "markPaid")
  /\ UNCHANGED <<provider, order, row, stripe, sent, acked, hook, earned, posted, faults>>

\* markPaidFromPayment: the early returns,
MarkPaidRead(c) ==
  /\ At(c, "markPaid")
  /\ Goes(c, CASE order = "PAID" -> "succeed"
               [] order = "PENDING_PAYMENT" -> "commitPaid"
               [] OTHER -> "fail")
  /\ UNCHANGED <<provider, order, row, stripe, sent, acked, hook, earned, posted, faults>>

\* its transaction,
MarkPaidCommit(c) ==
  /\ At(c, "commitPaid")
  /\ order' = "PAID"
  /\ earned' = earned + 1
  /\ Goes(c, "succeed")
  /\ UNCHANGED <<provider, row, stripe, sent, acked, hook, posted, faults>>

\* and what it makes of an error in it: a reason like any other.
MarkPaidFails(c) ==
  /\ faults < MaxFaults /\ faults' = faults + 1
  /\ At(c, "commitPaid")
  /\ Goes(c, "fail")
  /\ UNCHANGED <<provider, order, row, stripe, sent, acked, hook, earned, posted>>

\* Mutant: SUCCEEDED is written whatever markPaidFromPayment answered.
RecordFailureAsSuccess(c) ==
  /\ At(c, "fail")
  /\ row' = [row EXCEPT ![Intent(c)] = "SUCCEEDED"]
  /\ Goes(c, "finish")
  /\ UNCHANGED <<provider, order, stripe, sent, acked, hook, earned, posted, faults>>

RecordFailure(c) ==
  /\ At(c, "fail")
  /\ row' = [row EXCEPT ![Intent(c)] = "FAILED"]
  /\ Goes(c, "finish")
  /\ UNCHANGED <<provider, order, stripe, sent, acked, hook, earned, posted, faults>>

RecordSuccess(c) ==
  /\ At(c, "succeed")
  /\ row' = [row EXCEPT ![Intent(c)] = "SUCCEEDED"]
  /\ Goes(c, "post")
  /\ UNCHANGED <<provider, order, stripe, sent, acked, hook, earned, posted, faults>>

\* ledger.postPayment looks for a posted transaction of the order first; an
\* error is logged and forgotten.
PostLookup(c) ==
  /\ At(c, "post")
  /\ \/ Goes(c, IF posted > 0 THEN "finish" ELSE "createPosting")
     \/ Goes(c, "finish")
  /\ UNCHANGED <<provider, order, row, stripe, sent, acked, hook, earned, posted, faults>>

PostCreate(c) ==
  /\ At(c, "createPosting")
  /\ posted' = posted + 1
  /\ Goes(c, "finish")
  /\ UNCHANGED <<provider, order, row, stripe, sent, acked, hook, earned, faults>>

-----------------------------------------------------------------------------

Handler(c) ==
  \/ CreateStripeIntent(c)
  \/ StoreEvent(c) \/ Finish(c)
  \/ HandlePaymentIntentFailed(c) \/ WritePaymentFailed(c) \/ HandleStripeDispute(c)
  \/ CompleteStripeSucceeded(c) \/ CompletePayment(c) \/ MarkPaidRead(c) \/ MarkPaidCommit(c) \/ MarkPaidFails(c)
  \/ RecordFailure(c) \/ RecordSuccess(c) \/ PostLookup(c) \/ PostCreate(c)

\* The routes payment-intent, pay-dev and dev-confirm, for whoever may pay.
PaymentRoutes(c) == \E i \in Intents : CreatePaymentIntent(c, i) \/ DevConfirm(c, i)

\* The two routes of Stripe's webhook, which are not throttled.
DispatchStripeWebhook(c) == \E e \in Events : Deliver(c, e)

Next ==
  \/ \E c \in Calls :
       \/ PaymentRoutes(c)
       \/ DispatchStripeWebhook(c)
       \/ Handler(c) \/ Throw(c) \/ Crash(c)
  \/ \E i \in Intents : CreateDevPayment(i) \/ Capture(i) \/ Decline(i) \/ \E t \in EventTypes : SendOther(i, t)
  \/ \E to \in OrderStatus : UpdateStatus(to)

Spec == Init /\ [][Next]_vars

\* Calls that were started run on, and Stripe delivers a success again until it
\* is answered.
FairSpec ==
  /\ Spec
  /\ \A c \in Calls : WF_vars(Handler(c))
  /\ \A i \in Intents : SF_vars(i \notin acked /\ \E c \in Calls : Deliver(c, Succeeded(i)))

-----------------------------------------------------------------------------
(* Properties                                                              *)

\* Every variable keeps its type.
TypeOK ==
  /\ provider \in Providers
  /\ order \in OrderStatus
  /\ row \in PaymentRows
  /\ stripe \in [Intents -> {"none", "open", "declined", "captured", "differs"}]
  /\ sent \in SUBSET Events /\ acked \in SUBSET Intents
  /\ hook \in WebhookRows
  /\ earned \in Nat /\ posted \in Nat /\ faults \in 0 .. MaxFaults
  /\ call \in [Calls -> CallStates]

\* Money was received for payment i: captured by Stripe as the order asks for
\* it, or confirmed with the local development secret.
Received(i) == stripe[i] = "captured" \/ (provider = "dev" /\ row[i] # "none")

\* markPaidFromPayment is reached only by a payment whose money arrived and
\* matches the order, however events are repeated, delayed or interleaved.
PaidMeansReceived == earned > 0 => \E i \in Intents : Received(i)

\* A row says SUCCEEDED, and the ledger has the posting, only for an order
\* that was marked paid.
SucceededMeansPaid ==
  (posted > 0 \/ \E i \in Intents : row[i] = "SUCCEEDED") => earned > 0

\* Stripe stops retrying a success only once the payment is settled one way or
\* the other: a crash between any two steps of the handler loses nothing.
AckedIsRecorded ==
  \A i \in Intents : i \in acked => row[i] \in {"SUCCEEDED", "FAILED"}

\* What Stripe captured is recorded in the end, and Stripe told so, although the
\* process may crash or throw at any step of any delivery.
CapturedIsSettled ==
  \A i \in Intents :
    stripe[i] \in {"captured", "differs"} ~> (i \in acked /\ row[i] \in {"SUCCEEDED", "FAILED"})

\* Order, payment rows, ledger and the provider agree at every moment: only money that
\* arrived pays for the order, only a paid order is recorded and posted, and no success
\* was acknowledged that is not recorded.
PaymentsAgree == TypeOK /\ PaidMeansReceived /\ SucceededMeansPaid /\ AckedIsRecorded
=============================================================================
