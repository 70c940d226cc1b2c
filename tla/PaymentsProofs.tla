--------------------------- MODULE PaymentsProofs ---------------------------
(***************************************************************************)
(* PaymentsAgree holds in every state, for any payments, calls and faults. *)
(*                                                                         *)
(* Nothing that a handler relies on is ever taken back (Grows): an event   *)
(* that was sent, money that was received, an order that was marked paid,  *)
(* a row that is settled.  So what was true of a call when it took its     *)
(* last step (CallFact) is still true when it takes the next one, whatever *)
(* other calls have done meanwhile.                                        *)
(***************************************************************************)
EXTENDS Payments, TLAPS

Settled(i) == row[i] \in {"SUCCEEDED", "FAILED"}

\* The jobs that lead to completePayment.
Paying == {"payment_intent.succeeded", "dev"}

\* What is known of a call at step s that works on job j.
CallFact(s, j) ==
  /\ s = "create" => j[1] = "payment_intent.succeeded"
  /\ s # "create" => j \in sent \/ (j[1] = "dev" /\ provider = "dev" /\ row[j[2]] # "none")
  /\ s \in {"complete", "markPaid", "commitPaid"} => j[1] \in Paying /\ Received(j[2])
  /\ s = "succeed" => j[1] \in Paying /\ earned > 0
  /\ s = "fail" => j[1] \in Paying
  /\ s \in {"post", "createPosting"} => j[1] \in Paying /\ earned > 0 /\ Settled(j[2])
  /\ s = "failWrite" => j[1] = "payment_intent.payment_failed"
  /\ (s = "finish" /\ j[1] = "payment_intent.succeeded") => Settled(j[2])

CallInv == \A c \in Calls : call[c] # NoCall => CallFact(call[c].step, call[c].job)

\* A success that was sent is one that Stripe captured.
SentInv ==
  \A i \in Intents : Succeeded(i) \in sent => stripe[i] \in {"captured", "differs"} /\ row[i] # "none"

\* An event that needs no more work has left its payment settled.
HookInv ==
  \A i \in Intents : hook[Succeeded(i)] \in {"processed", "ignored"} => Settled(i)

PaidInv == order = "PAID" => earned > 0

IInv == PaymentsAgree /\ CallInv /\ SentInv /\ HookInv /\ PaidInv

\* What no step takes back.
Grows ==
  /\ provider' = provider
  /\ sent \subseteq sent'
  /\ earned > 0 => earned' > 0
  /\ \A i \in Intents :
       /\ row[i] # "none" => row'[i] # "none"
       /\ Settled(i) => Settled(i)'
       /\ stripe[i] = "captured" => stripe'[i] = "captured"
       /\ stripe[i] = "differs" => stripe'[i] = "differs"

-----------------------------------------------------------------------------
(* Types                                                                   *)

\* A call that is not free is a record of a step and a job.
LEMMA CallRecord ==
  ASSUME TypeOK, NEW c \in Calls, call[c] # NoCall
  PROVE  /\ call[c] \in [step : Steps, job : Jobs]
         /\ call[c].step \in Steps
         /\ call[c].job \in Jobs
         /\ Intent(c) \in Intents
<1>1. call[c] \in [step : Steps, job : Jobs]
  BY DEF TypeOK, CallStates
<1>2. call[c].job \in Jobs /\ call[c].step \in Steps
  BY <1>1
<1>3. call[c].job[2] \in Intents
  BY <1>2 DEF Jobs, Events
<1> QED BY <1>1, <1>2, <1>3 DEF Intent

\* A step of a call leaves the other calls alone.
LEMMA GoesEffect ==
  ASSUME TypeOK, NEW c \in Calls, call[c] # NoCall, NEW s \in Steps, Goes(c, s)
  PROVE  /\ call' \in [Calls -> CallStates]
         /\ call'[c].step = s
         /\ call'[c].job = call[c].job
         /\ \A d \in Calls : d # c => call'[d] = call[d]
<1>1. call[c] \in [step : Steps, job : Jobs]
  BY CallRecord
<1>2. call \in [Calls -> CallStates]
  BY DEF TypeOK
<1>3. call'[c] = [call[c] EXCEPT !.step = s]
  BY <1>2 DEF Goes
<1>4. call'[c] \in [step : Steps, job : Jobs] /\ call'[c].step = s /\ call'[c].job = call[c].job
  BY <1>1, <1>3
<1>5. \A d \in Calls : d # c => call'[d] = call[d]
  BY <1>2 DEF Goes
<1>6. call' \in [Calls -> CallStates]
  BY <1>2, <1>4 DEF Goes, CallStates
<1> QED BY <1>4, <1>5, <1>6

\* A call that returns is free again.
LEMMA ReturnsEffect ==
  ASSUME TypeOK, NEW c \in Calls, Returns(c)
  PROVE  /\ call' \in [Calls -> CallStates]
         /\ call'[c] = NoCall
         /\ \A d \in Calls : d # c => call'[d] = call[d]
<1>1. call \in [Calls -> CallStates]
  BY DEF TypeOK
<1> QED BY <1>1 DEF Returns, CallStates

\* A call that starts works on its job.
LEMMA StartsEffect ==
  ASSUME TypeOK, NEW c \in Calls, NEW s \in Steps, NEW j \in Jobs, Starts(c, s, j)
  PROVE  /\ call' \in [Calls -> CallStates]
         /\ call'[c].step = s
         /\ call'[c].job = j
         /\ \A d \in Calls : d # c => call'[d] = call[d]
<1>1. call \in [Calls -> CallStates]
  BY DEF TypeOK
<1>2. [step |-> s, job |-> j] \in CallStates
  BY DEF CallStates
<1>3. call'[c] = [step |-> s, job |-> j]
  BY <1>1 DEF Starts
<1> QED BY <1>1, <1>2, <1>3 DEF Starts

-----------------------------------------------------------------------------
(* Facts about calls                                                       *)

\* What is known of a call stays known.
LEMMA FactStays ==
  ASSUME Grows, NEW s \in Steps, NEW j \in Jobs, CallFact(s, j)
  PROVE  CallFact(s, j)'
<1>1. j[2] \in Intents
  BY DEF Jobs, Events
<1>2. Received(j[2]) => Received(j[2])'
  BY <1>1 DEF Grows, Received
<1>3. Settled(j[2]) => Settled(j[2])'
  BY <1>1 DEF Grows
<1>4. /\ provider = "dev" => provider' = "dev"
      /\ row[j[2]] # "none" => row'[j[2]] # "none"
      /\ j \in sent => j \in sent'
      /\ earned > 0 => earned' > 0
  BY <1>1 DEF Grows
<1> HIDE DEF Received, Settled
<1> QED BY <1>2, <1>3, <1>4 DEF CallFact

\* After a step of c, the calls are as they should be if c is.
LEMMA CallsStay ==
  ASSUME TypeOK, CallInv, Grows, NEW c \in Calls,
         \A d \in Calls : d # c => call'[d] = call[d],
         call'[c] # NoCall => CallFact(call[c].step, call[c].job)'
  PROVE  CallInv'
<1> SUFFICES ASSUME NEW d \in Calls, call'[d] # NoCall
             PROVE  CallFact(call[d].step, call[d].job)'
  BY DEF CallInv
<1>1. CASE d = c
  BY <1>1
<1>2. CASE d # c
  <2>1. call'[d] = call[d]
    BY <1>2
  <2>2. CallFact(call[d].step, call[d].job)
    BY <2>1 DEF CallInv
  <2>3. call[d].step \in Steps /\ call[d].job \in Jobs
    BY <2>1, CallRecord
  <2>4. PICK s \in Steps, j \in Jobs : s = call[d].step /\ j = call[d].job
    BY <2>3
  <2>5. CallFact(s, j)'
    BY <2>2, <2>4, FactStays
  <2>6. s = call'[d].step /\ j = call'[d].job
    BY <2>1, <2>4
  <2> QED BY <2>5, <2>6 DEF CallFact
<1> QED BY <1>1, <1>2

-----------------------------------------------------------------------------
(* The steps of a call                                                     *)

\* What the database, Stripe and the ledger hold.
Data == <<provider, order, row, stripe, sent, acked, hook, earned, posted>>

\* The part of the invariant that does not look at the calls.
DataInv ==
  /\ PaidMeansReceived /\ SucceededMeansPaid /\ AckedIsRecorded
  /\ SentInv /\ HookInv /\ PaidInv

\* A step that only moves a call on keeps the invariant if the call's new step is right.
LEMMA OnlyCalls ==
  ASSUME IInv, UNCHANGED Data, faults' \in 0 .. MaxFaults, NEW c \in Calls,
         call' \in [Calls -> CallStates],
         \A d \in Calls : d # c => call'[d] = call[d],
         call'[c] # NoCall => CallFact(call[c].step, call[c].job)'
  PROVE  IInv'
<1>1. TypeOK'
  BY DEF IInv, PaymentsAgree, TypeOK, Data
<1>2. Grows
  BY DEF Grows, Data, Settled
<1>3. CallInv'
  BY <1>2, CallsStay DEF IInv, PaymentsAgree
<1>4. DataInv'
  BY DEF IInv, PaymentsAgree, Data, DataInv, PaidMeansReceived, SucceededMeansPaid, AckedIsRecorded,
         SentInv, HookInv, PaidInv, Received, Settled
<1> QED BY <1>1, <1>3, <1>4 DEF IInv, PaymentsAgree, DataInv

\* The same for a step that moves on from one step to the next within a handler.
LEMMA OnlyGoes ==
  ASSUME IInv, UNCHANGED Data, faults' \in 0 .. MaxFaults, NEW c \in Calls, call[c] # NoCall,
         NEW s \in Steps, Goes(c, s), CallFact(s, call[c].job)
  PROVE  IInv'
<1>1. /\ call' \in [Calls -> CallStates]
      /\ call'[c].step = s /\ call'[c].job = call[c].job
      /\ \A d \in Calls : d # c => call'[d] = call[d]
  BY GoesEffect DEF IInv, PaymentsAgree
<1>2. CallFact(call[c].step, call[c].job)'
  BY <1>1 DEF CallFact, Received, Settled, Data
<1> QED BY <1>1, <1>2, OnlyCalls

\* A success that was sent was captured, so what does not differ is money received.
LEMMA CompleteStripeSucceededStep ==
  ASSUME IInv, NEW c \in Calls, CompleteStripeSucceeded(c)
  PROVE  IInv'
<1>1. call[c] # NoCall /\ call[c].step = "handle" /\ call[c].job[1] = "payment_intent.succeeded"
  BY DEF CompleteStripeSucceeded, OfSuccess, At
<1>2. CallFact("handle", call[c].job) /\ Intent(c) \in Intents /\ call[c].job \in Jobs
  BY <1>1, CallRecord DEF IInv, PaymentsAgree, CallInv
<1>3. call[c].job = Succeeded(Intent(c)) /\ call[c].job \in sent
  BY <1>1, <1>2 DEF CallFact, Succeeded, Intent, Jobs, Events
<1>4. stripe[Intent(c)] \in {"captured", "differs"} /\ row[Intent(c)] # "none"
  BY <1>2, <1>3 DEF IInv, SentInv
<1>5. UNCHANGED Data /\ faults' \in 0 .. MaxFaults
  BY DEF CompleteStripeSucceeded, Data, IInv, PaymentsAgree, TypeOK
<1>6. CASE row[Intent(c)] = "SUCCEEDED"
  <2>1. Goes(c, "finish")
    BY <1>6 DEF CompleteStripeSucceeded
  <2>2. CallFact("finish", call[c].job)
    BY <1>3, <1>6 DEF CallFact, Settled, Intent
  <2> QED BY <1>1, <1>5, <2>1, <2>2, OnlyGoes DEF Steps
<1>7. CASE row[Intent(c)] # "SUCCEEDED" /\ stripe[Intent(c)] = "differs"
  <2>1. Goes(c, "fail")
    BY <1>7 DEF CompleteStripeSucceeded
  <2>2. CallFact("fail", call[c].job)
    BY <1>1, <1>3 DEF CallFact, Paying
  <2> QED BY <1>1, <1>5, <2>1, <2>2, OnlyGoes DEF Steps
<1>8. CASE row[Intent(c)] # "SUCCEEDED" /\ stripe[Intent(c)] = "captured"
  <2>1. Goes(c, "complete")
    BY <1>8 DEF CompleteStripeSucceeded
  <2>2. CallFact("complete", call[c].job)
    BY <1>1, <1>3, <1>8 DEF CallFact, Paying, Received, Intent
  <2> QED BY <1>1, <1>5, <2>1, <2>2, OnlyGoes DEF Steps
<1> QED BY <1>4, <1>6, <1>7, <1>8

\* The second read of the row finds it settled or goes on to the order.
LEMMA CompletePaymentStep ==
  ASSUME IInv, NEW c \in Calls, CompletePayment(c)
  PROVE  IInv'
<1>1. call[c] # NoCall /\ call[c].step = "complete"
  BY DEF CompletePayment, At
<1>2. CallFact("complete", call[c].job)
  BY <1>1 DEF IInv, CallInv
<1>3. UNCHANGED Data /\ faults' \in 0 .. MaxFaults
  BY DEF CompletePayment, Data, IInv, PaymentsAgree, TypeOK
<1>4. CASE row[Intent(c)] = "SUCCEEDED"
  <2>1. Goes(c, "finish")
    BY <1>4 DEF CompletePayment
  <2>2. CallFact("finish", call[c].job)
    BY <1>2, <1>4 DEF CallFact, Settled, Intent
  <2> QED BY <1>1, <1>3, <2>1, <2>2, OnlyGoes DEF Steps
<1>5. CASE row[Intent(c)] # "SUCCEEDED"
  <2>1. Goes(c, "markPaid")
    BY <1>5 DEF CompletePayment
  <2>2. CallFact("markPaid", call[c].job)
    BY <1>2 DEF CallFact
  <2> QED BY <1>1, <1>3, <2>1, <2>2, OnlyGoes DEF Steps
<1> QED BY <1>4, <1>5

\* An order that reads PAID was marked paid by some call.
LEMMA MarkPaidReadStep ==
  ASSUME IInv, NEW c \in Calls, MarkPaidRead(c)
  PROVE  IInv'
<1>1. call[c] # NoCall /\ call[c].step = "markPaid"
  BY DEF MarkPaidRead, At
<1>2. CallFact("markPaid", call[c].job)
  BY <1>1 DEF IInv, CallInv
<1>3. UNCHANGED Data /\ faults' \in 0 .. MaxFaults
  BY DEF MarkPaidRead, Data, IInv, PaymentsAgree, TypeOK
<1>4. CASE order = "PAID"
  <2>1. Goes(c, "succeed")
    BY <1>4 DEF MarkPaidRead
  <2>2. CallFact("succeed", call[c].job)
    BY <1>2, <1>4 DEF CallFact, IInv, PaidInv
  <2> QED BY <1>1, <1>3, <2>1, <2>2, OnlyGoes DEF Steps
<1>5. CASE order = "PENDING_PAYMENT"
  <2>1. Goes(c, "commitPaid")
    BY <1>5 DEF MarkPaidRead
  <2>2. CallFact("commitPaid", call[c].job)
    BY <1>2 DEF CallFact
  <2> QED BY <1>1, <1>3, <2>1, <2>2, OnlyGoes DEF Steps
<1>6. CASE order # "PAID" /\ order # "PENDING_PAYMENT"
  <2>1. Goes(c, "fail")
    BY <1>6 DEF MarkPaidRead
  <2>2. CallFact("fail", call[c].job)
    BY <1>2 DEF CallFact
  <2> QED BY <1>1, <1>3, <2>1, <2>2, OnlyGoes DEF Steps
<1> QED BY <1>4, <1>5, <1>6

\* An error of the transaction is a failure like any other.
LEMMA MarkPaidFailsStep ==
  ASSUME IInv, NEW c \in Calls, MarkPaidFails(c)
  PROVE  IInv'
<1>1. call[c] # NoCall /\ call[c].step = "commitPaid" /\ Goes(c, "fail")
  BY DEF MarkPaidFails, At
<1>2. CallFact("commitPaid", call[c].job)
  BY <1>1 DEF IInv, CallInv
<1>3. UNCHANGED Data /\ faults' \in 0 .. MaxFaults
  BY FaultsAssumption DEF MarkPaidFails, Data, IInv, PaymentsAgree, TypeOK
<1>4. CallFact("fail", call[c].job)
  BY <1>2 DEF CallFact
<1> QED BY <1>1, <1>3, <1>4, OnlyGoes DEF Steps

\* The posting is looked for after the row was written.
LEMMA PostLookupStep ==
  ASSUME IInv, NEW c \in Calls, PostLookup(c)
  PROVE  IInv'
<1>1. call[c] # NoCall /\ call[c].step = "post"
  BY DEF PostLookup, At
<1>2. CallFact("post", call[c].job)
  BY <1>1 DEF IInv, CallInv
<1>3. UNCHANGED Data /\ faults' \in 0 .. MaxFaults
  BY DEF PostLookup, Data, IInv, PaymentsAgree, TypeOK
<1>4. CallFact("finish", call[c].job) /\ CallFact("createPosting", call[c].job)
  BY <1>2 DEF CallFact
<1>5. Goes(c, "finish") \/ Goes(c, "createPosting")
  BY DEF PostLookup
<1>6. CASE Goes(c, "finish")
  BY <1>1, <1>3, <1>4, <1>6, OnlyGoes DEF Steps
<1>7. CASE Goes(c, "createPosting")
  BY <1>1, <1>3, <1>4, <1>7, OnlyGoes DEF Steps
<1> QED BY <1>5, <1>6, <1>7

\* A failed intent is written over a pending row only.
LEMMA HandlePaymentIntentFailedStep ==
  ASSUME IInv, NEW c \in Calls, HandlePaymentIntentFailed(c)
  PROVE  IInv'
<1>1. call[c] # NoCall /\ call[c].step = "handle" /\ call[c].job[1] = "payment_intent.payment_failed"
  BY DEF HandlePaymentIntentFailed, At
<1>2. CallFact("handle", call[c].job)
  BY <1>1 DEF IInv, CallInv
<1>3. UNCHANGED Data /\ faults' \in 0 .. MaxFaults
  BY DEF HandlePaymentIntentFailed, Data, IInv, PaymentsAgree, TypeOK
<1>4. CallFact("finish", call[c].job) /\ CallFact("failWrite", call[c].job)
  BY <1>1, <1>2 DEF CallFact
<1>5. Goes(c, "finish") \/ Goes(c, "failWrite")
  BY DEF HandlePaymentIntentFailed
<1>6. CASE Goes(c, "finish")
  BY <1>1, <1>3, <1>4, <1>6, OnlyGoes DEF Steps
<1>7. CASE Goes(c, "failWrite")
  BY <1>1, <1>3, <1>4, <1>7, OnlyGoes DEF Steps
<1> QED BY <1>5, <1>6, <1>7

-----------------------------------------------------------------------------
(* The steps that write                                                    *)

DataTypeOK ==
  /\ provider \in Providers
  /\ order \in OrderStatus
  /\ row \in PaymentRows
  /\ stripe \in [Intents -> {"none", "open", "declined", "captured", "differs"}]
  /\ sent \in SUBSET Events /\ acked \in SUBSET Intents
  /\ hook \in WebhookRows
  /\ earned \in Nat /\ posted \in Nat /\ faults \in 0 .. MaxFaults

\* A step of a call that writes and moves on.
LEMMA WritesAndGoes ==
  ASSUME IInv, DataTypeOK', DataInv', Grows, NEW c \in Calls, call[c] # NoCall,
         NEW s \in Steps, Goes(c, s), NEW j \in Jobs, j = call[c].job, CallFact(s, j)'
  PROVE  IInv'
<1>1. /\ call' \in [Calls -> CallStates]
      /\ call'[c].step = s /\ call'[c].job = j
      /\ \A d \in Calls : d # c => call'[d] = call[d]
  BY GoesEffect DEF IInv, PaymentsAgree
<1>2. TypeOK'
  BY <1>1 DEF TypeOK, DataTypeOK
<1>3. CallFact(call[c].step, call[c].job)'
  BY <1>1 DEF CallFact
<1>4. CallInv'
  BY <1>1, <1>3, CallsStay DEF IInv, PaymentsAgree
<1> QED BY <1>2, <1>4 DEF IInv, PaymentsAgree, DataInv

\* A step of a call that writes and ends it.
LEMMA WritesAndReturns ==
  ASSUME IInv, DataTypeOK', DataInv', Grows, NEW c \in Calls, Returns(c)
  PROVE  IInv'
<1>1. /\ call' \in [Calls -> CallStates]
      /\ call'[c] = NoCall
      /\ \A d \in Calls : d # c => call'[d] = call[d]
  BY ReturnsEffect DEF IInv, PaymentsAgree
<1>2. TypeOK'
  BY <1>1 DEF TypeOK, DataTypeOK
<1>3. CallInv'
  BY <1>1, CallsStay DEF IInv, PaymentsAgree
<1> QED BY <1>2, <1>3 DEF IInv, PaymentsAgree, DataInv

\* A step that starts a call.
LEMMA WritesAndStarts ==
  ASSUME IInv, DataTypeOK', DataInv', Grows, NEW c \in Calls,
         NEW s \in Steps, NEW j \in Jobs, Starts(c, s, j), CallFact(s, j)'
  PROVE  IInv'
<1>1. /\ call' \in [Calls -> CallStates]
      /\ call'[c].step = s /\ call'[c].job = j
      /\ \A d \in Calls : d # c => call'[d] = call[d]
  BY StartsEffect DEF IInv, PaymentsAgree
<1>2. TypeOK'
  BY <1>1 DEF TypeOK, DataTypeOK
<1>3. CallFact(call[c].step, call[c].job)'
  BY <1>1 DEF CallFact
<1>4. CallInv'
  BY <1>1, <1>3, CallsStay DEF IInv, PaymentsAgree
<1> QED BY <1>2, <1>4 DEF IInv, PaymentsAgree, DataInv

\* A step of Stripe or of people.
LEMMA OnlyWrites ==
  ASSUME IInv, DataTypeOK', DataInv', Grows, UNCHANGED call
  PROVE  IInv'
<1>1. TypeOK'
  BY DEF TypeOK, DataTypeOK, IInv, PaymentsAgree
<1>2. CallInv'
  <2> SUFFICES ASSUME NEW d \in Calls, call'[d] # NoCall
               PROVE  CallFact(call[d].step, call[d].job)'
    BY DEF CallInv
  <2>1. CallFact(call[d].step, call[d].job)
    BY DEF IInv, CallInv
  <2>2. call[d].step \in Steps /\ call[d].job \in Jobs
    BY CallRecord DEF IInv, PaymentsAgree
  <2>3. PICK s \in Steps, j \in Jobs : s = call[d].step /\ j = call[d].job
    BY <2>2
  <2>4. CallFact(s, j)'
    BY <2>1, <2>3, FactStays
  <2> QED BY <2>3, <2>4 DEF CallFact
<1> QED BY <1>1, <1>2 DEF IInv, PaymentsAgree, DataInv

\* What the invariant says of the data, for the proofs below.
LEMMA InvData ==
  ASSUME IInv
  PROVE  TypeOK /\ DataTypeOK /\ DataInv
BY DEF IInv, PaymentsAgree, TypeOK, DataTypeOK, DataInv

\* A row that is settled keeps every fact about payments; so may one that is created.
LEMMA RowWritten ==
  ASSUME IInv, UNCHANGED <<provider, order, stripe, sent, acked, hook, earned, posted, faults>>,
         NEW i \in Intents, NEW x \in PaymentStatus, row' = [row EXCEPT ![i] = x],
         x = "PENDING" => row[i] = "none",
         x = "SUCCEEDED" => earned > 0
  PROVE  DataTypeOK' /\ DataInv' /\ Grows
<1>1. TypeOK /\ DataTypeOK /\ DataInv
  BY InvData
<1>2. row \in [Intents -> PaymentStatus \cup {"none"}]
  BY <1>1 DEF DataTypeOK, PaymentRows
<1>3. \A k \in Intents : row'[k] = IF k = i THEN x ELSE row[k]
  BY <1>2
<1>4. row' \in PaymentRows
  BY <1>2 DEF PaymentRows
<1>5. DataTypeOK'
  BY <1>1, <1>4 DEF DataTypeOK
<1>6. \A k \in Intents : /\ row[k] # "none" => row'[k] # "none"
                         /\ Settled(k) => Settled(k)'
                         /\ row'[k] = "SUCCEEDED" => row[k] = "SUCCEEDED" \/ earned > 0
  BY <1>3 DEF Settled, PaymentStatus
<1>7. Grows
  BY <1>6 DEF Grows
<1>8. PaidMeansReceived' /\ SucceededMeansPaid' /\ PaidInv'
  BY <1>1, <1>6 DEF DataInv, PaidMeansReceived, SucceededMeansPaid, PaidInv, Received
<1>9. AckedIsRecorded' /\ HookInv'
  BY <1>1, <1>6 DEF DataInv, DataTypeOK, AckedIsRecorded, HookInv, Settled
<1>10. SentInv'
  BY <1>1, <1>6 DEF DataInv, SentInv
<1> QED BY <1>5, <1>7, <1>8, <1>9, <1>10 DEF DataInv

\* FAILED settles the row, whatever it was.
LEMMA WritePaymentFailedStep ==
  ASSUME IInv, NEW c \in Calls, WritePaymentFailed(c)
  PROVE  IInv'
<1>1. call[c] # NoCall /\ call[c].step = "failWrite" /\ Goes(c, "finish")
  BY DEF WritePaymentFailed, At
<1>2. PICK j \in Jobs : j = call[c].job /\ j[2] = Intent(c) /\ j[2] \in Intents
  BY <1>1, CallRecord, InvData DEF Intent
<1>3. CallFact("failWrite", j)
  BY <1>1, <1>2 DEF IInv, CallInv
<1>4. DataTypeOK' /\ DataInv' /\ Grows
  BY <1>2, RowWritten DEF WritePaymentFailed, PaymentStatus
<1>5. CallFact("failWrite", j)'
  BY <1>3, <1>4, FactStays DEF Steps
<1>6. CallFact("finish", j)'
  BY <1>5 DEF CallFact
<1> QED BY <1>1, <1>2, <1>4, <1>6, WritesAndGoes DEF Steps

\* A refused success leaves its row settled.
LEMMA RecordFailureStep ==
  ASSUME IInv, NEW c \in Calls, RecordFailure(c)
  PROVE  IInv'
<1>1. call[c] # NoCall /\ call[c].step = "fail" /\ Goes(c, "finish")
  BY DEF RecordFailure, At
<1>2. PICK j \in Jobs : j = call[c].job /\ j[2] = Intent(c) /\ j[2] \in Intents
  BY <1>1, CallRecord, InvData DEF Intent
<1>3. CallFact("fail", j)
  BY <1>1, <1>2 DEF IInv, CallInv
<1>4. DataTypeOK' /\ DataInv' /\ Grows
  BY <1>2, RowWritten DEF RecordFailure, PaymentStatus
<1>5. CallFact("fail", j)'
  BY <1>3, <1>4, FactStays DEF Steps
<1>6. row'[j[2]] = "FAILED"
  BY <1>2, InvData DEF RecordFailure, DataTypeOK, PaymentRows
<1>7. CallFact("finish", j)'
  BY <1>5, <1>6 DEF CallFact, Settled
<1> QED BY <1>1, <1>2, <1>4, <1>7, WritesAndGoes DEF Steps

\* SUCCEEDED is written after the order was marked paid.
LEMMA RecordSuccessStep ==
  ASSUME IInv, NEW c \in Calls, RecordSuccess(c)
  PROVE  IInv'
<1>1. call[c] # NoCall /\ call[c].step = "succeed" /\ Goes(c, "post")
  BY DEF RecordSuccess, At
<1>2. PICK j \in Jobs : j = call[c].job /\ j[2] = Intent(c) /\ j[2] \in Intents
  BY <1>1, CallRecord, InvData DEF Intent
<1>3. CallFact("succeed", j)
  BY <1>1, <1>2 DEF IInv, CallInv
<1>4. earned > 0
  BY <1>3 DEF CallFact
<1>5. DataTypeOK' /\ DataInv' /\ Grows
  BY <1>2, <1>4, RowWritten DEF RecordSuccess, PaymentStatus
<1>6. CallFact("succeed", j)'
  BY <1>3, <1>5, FactStays DEF Steps
<1>7. row'[j[2]] = "SUCCEEDED"
  BY <1>2, InvData DEF RecordSuccess, DataTypeOK, PaymentRows
<1>8. CallFact("post", j)'
  BY <1>6, <1>7 DEF CallFact, Settled
<1> QED BY <1>1, <1>2, <1>5, <1>8, WritesAndGoes DEF Steps

\* A second insert with the key changes nothing.
LEMMA CreateStripeIntentStep ==
  ASSUME IInv, NEW c \in Calls, CreateStripeIntent(c)
  PROVE  IInv'
<1>1. call[c] # NoCall /\ Returns(c) /\ Intent(c) \in Intents
  BY CallRecord, InvData DEF CreateStripeIntent, At
<1>2. PICK i \in Intents : i = Intent(c)
  BY <1>1
<1>3. CASE row[i] = "none"
  <2>1. row' = [row EXCEPT ![i] = "PENDING"]
    BY <1>2, <1>3 DEF CreateStripeIntent
  <2>2. DataTypeOK' /\ DataInv' /\ Grows
    BY <1>3, <2>1, RowWritten DEF CreateStripeIntent, PaymentStatus
  <2> QED BY <1>1, <2>2, WritesAndReturns
<1>4. CASE row[i] # "none"
  <2>1. row' = row
    BY <1>2, <1>4, InvData DEF CreateStripeIntent, DataTypeOK, PaymentRows
  <2>2. UNCHANGED Data /\ faults' \in 0 .. MaxFaults
    BY <2>1, InvData DEF CreateStripeIntent, Data, DataTypeOK
  <2>3. /\ call' \in [Calls -> CallStates]
        /\ call'[c] = NoCall
        /\ \A d \in Calls : d # c => call'[d] = call[d]
    BY <1>1, ReturnsEffect, InvData
  <2> QED BY <2>2, <2>3, OnlyCalls
<1> QED BY <1>3, <1>4

\* A new row is no payment yet.
LEMMA CreateDevPaymentStep ==
  ASSUME IInv, NEW i \in Intents, CreateDevPayment(i)
  PROVE  IInv'
<1>1. DataTypeOK' /\ DataInv' /\ Grows
  BY RowWritten DEF CreateDevPayment, PaymentStatus
<1> QED BY <1>1, OnlyWrites DEF CreateDevPayment

\* A confirmation with the development secret stands for received money.
LEMMA DevConfirmStep ==
  ASSUME IInv, NEW c \in Calls, NEW i \in Intents, DevConfirm(c, i)
  PROVE  IInv'
<1>1. Starts(c, "complete", <<"dev", i>>) /\ provider = "dev" /\ provider' = provider
  BY DEF DevConfirm
<1>2. <<"dev", i>> \in Jobs /\ "complete" \in Steps
  BY DEF Jobs, Steps
<1>3. DataTypeOK' /\ DataInv' /\ Grows /\ row'[i] # "none"
  <2>1. CASE row[i] = "none"
    <3>1. row' = [row EXCEPT ![i] = "PENDING"]
      BY <2>1 DEF DevConfirm
    <3>2. row'[i] = "PENDING"
      BY <3>1, InvData DEF DataTypeOK, PaymentRows
    <3> QED BY <2>1, <3>1, <3>2, RowWritten DEF DevConfirm, PaymentStatus
  <2>2. CASE row[i] # "none"
    <3>1. row' = row
      BY <2>2, InvData DEF DevConfirm, DataTypeOK, PaymentRows
    <3>2. DataTypeOK' /\ DataInv'
      BY <3>1, InvData
         DEF DevConfirm, DataTypeOK, DataInv, PaidMeansReceived, SucceededMeansPaid, AckedIsRecorded,
             SentInv, HookInv, PaidInv, Received, Settled
    <3>3. Grows
      BY <3>1 DEF DevConfirm, Grows, Settled
    <3> QED BY <2>2, <3>1, <3>2, <3>3
  <2> QED BY <2>1, <2>2
<1>4. CallFact("complete", <<"dev", i>>)'
  BY <1>1, <1>3 DEF CallFact, Paying, Received
<1> QED BY <1>1, <1>2, <1>3, <1>4, WritesAndStarts

\* The call that marks the order paid has received the money.
LEMMA MarkPaidCommitStep ==
  ASSUME IInv, NEW c \in Calls, MarkPaidCommit(c)
  PROVE  IInv'
<1>1. call[c] # NoCall /\ call[c].step = "commitPaid" /\ Goes(c, "succeed")
  BY DEF MarkPaidCommit, At
<1>2. PICK j \in Jobs : j = call[c].job /\ j[2] \in Intents
  BY <1>1, CallRecord, InvData DEF Intent
<1>3. CallFact("commitPaid", j)
  BY <1>1, <1>2 DEF IInv, CallInv
<1>4. earned' > 0 /\ earned' \in Nat
  BY InvData DEF MarkPaidCommit, DataTypeOK
<1>5. DataTypeOK'
  BY <1>4, InvData DEF MarkPaidCommit, DataTypeOK, OrderStatus
<1>6. Received(j[2])'
  BY <1>3 DEF MarkPaidCommit, CallFact, Received
<1>7. DataInv'
  BY <1>2, <1>4, <1>6, InvData
     DEF MarkPaidCommit, DataInv, PaidMeansReceived, SucceededMeansPaid, AckedIsRecorded, SentInv, HookInv, PaidInv, Settled
<1>8. Grows
  BY <1>4 DEF MarkPaidCommit, Grows, Settled
<1>9. CallFact("commitPaid", j)'
  BY <1>3, <1>8, FactStays DEF Steps
<1>10. CallFact("succeed", j)'
  BY <1>4, <1>9 DEF CallFact
<1> QED BY <1>1, <1>2, <1>5, <1>7, <1>8, <1>10, WritesAndGoes DEF Steps

\* Only a call whose order was marked paid posts.
LEMMA PostCreateStep ==
  ASSUME IInv, NEW c \in Calls, PostCreate(c)
  PROVE  IInv'
<1>1. call[c] # NoCall /\ call[c].step = "createPosting" /\ Goes(c, "finish")
  BY DEF PostCreate, At
<1>2. PICK j \in Jobs : j = call[c].job
  BY <1>1, CallRecord, InvData
<1>3. CallFact("createPosting", j)
  BY <1>1, <1>2 DEF IInv, CallInv
<1>4. earned > 0
  BY <1>3 DEF CallFact
<1>5. DataTypeOK'
  BY InvData DEF PostCreate, DataTypeOK
<1>6. DataInv'
  BY <1>4, InvData
     DEF PostCreate, DataInv, PaidMeansReceived, SucceededMeansPaid, AckedIsRecorded, SentInv, HookInv, PaidInv,
         Settled, Received
<1>7. Grows
  BY DEF PostCreate, Grows, Settled
<1>8. CallFact("createPosting", j)'
  BY <1>3, <1>7, FactStays DEF Steps
<1>9. CallFact("finish", j)'
  BY <1>8 DEF CallFact
<1> QED BY <1>1, <1>2, <1>5, <1>6, <1>7, <1>9, WritesAndGoes DEF Steps

\* A dispute changes the status of the order and nothing else.
LEMMA HandleStripeDisputeStep ==
  ASSUME IInv, NEW c \in Calls, HandleStripeDispute(c)
  PROVE  IInv'
<1>1. /\ call[c] # NoCall /\ call[c].step = "handle" /\ Goes(c, "finish")
      /\ call[c].job[1] = "charge.dispute.created"
  BY DEF HandleStripeDispute, At
<1>2. PICK j \in Jobs : j = call[c].job
  BY <1>1, CallRecord, InvData
<1>3. CallFact("handle", j)
  BY <1>1, <1>2 DEF IInv, CallInv
<1>4. DataTypeOK'
  BY InvData DEF HandleStripeDispute, DataTypeOK, OrderStatus
<1>5. DataInv'
  BY InvData
     DEF HandleStripeDispute, DataInv, PaidMeansReceived, SucceededMeansPaid, AckedIsRecorded, SentInv, HookInv,
         PaidInv, Settled, Received
<1>6. Grows
  BY DEF HandleStripeDispute, Grows, Settled
<1>7. CallFact("handle", j)'
  BY <1>3, <1>6, FactStays DEF Steps
<1>8. CallFact("finish", j)'
  BY <1>1, <1>2, <1>7 DEF CallFact
<1> QED BY <1>1, <1>2, <1>4, <1>5, <1>6, <1>8, WritesAndGoes DEF Steps

\* A row of PaymentWebhookEvent is written, and a success acknowledged, only where the
\* payment is settled or more work remains.
LEMMA HookWritten ==
  ASSUME IInv, UNCHANGED <<provider, order, row, stripe, sent, earned, posted>>, faults' \in 0 .. MaxFaults,
         NEW e \in Events, NEW x \in {"received", "processed", "ignored", "failed"},
         hook' = [hook EXCEPT ![e] = x],
         acked' = acked \/ Ack(e),
         (acked' # acked \/ x \in {"processed", "ignored"}) =>
           (e[1] = "payment_intent.succeeded" => Settled(e[2]))
  PROVE  DataTypeOK' /\ DataInv' /\ Grows
<1>1. TypeOK /\ DataTypeOK /\ DataInv
  BY InvData
<1>2. hook \in [Events -> {"none", "received", "processed", "ignored", "failed"}]
  BY <1>1 DEF DataTypeOK, WebhookRows
<1>3. hook' \in WebhookRows /\ \A f \in Events : hook'[f] = IF f = e THEN x ELSE hook[f]
  BY <1>2 DEF WebhookRows
<1>4. e[2] \in Intents
  BY DEF Events
<1>5. acked' \in SUBSET Intents
  BY <1>1, <1>4 DEF DataTypeOK, Ack
<1>6. DataTypeOK'
  BY <1>1, <1>3, <1>5 DEF DataTypeOK
<1>7. HookInv'
  <2> SUFFICES ASSUME NEW i \in Intents, hook'[Succeeded(i)] \in {"processed", "ignored"}
               PROVE  Settled(i)'
    BY DEF HookInv, Succeeded
  <2>1. Succeeded(i) \in Events /\ Succeeded(i)[1] = "payment_intent.succeeded" /\ Succeeded(i)[2] = i
    BY DEF Succeeded, Events, EventTypes
  <2>2. CASE Succeeded(i) = e
    BY <1>3, <2>1, <2>2 DEF Settled
  <2>3. CASE Succeeded(i) # e
    BY <1>1, <1>3, <2>1, <2>3 DEF Settled, DataInv, HookInv
  <2> QED BY <2>2, <2>3
<1>8. AckedIsRecorded'
  BY <1>1, <1>4 DEF DataInv, AckedIsRecorded, Ack, Settled
<1>9. PaidMeansReceived' /\ SucceededMeansPaid' /\ PaidInv' /\ SentInv'
  BY <1>1 DEF DataInv, PaidMeansReceived, SucceededMeansPaid, PaidInv, Received, SentInv
<1>10. Grows
  BY DEF Grows, Settled
<1> QED BY <1>6, <1>7, <1>8, <1>9, <1>10 DEF DataInv

\* Storing an event again means that more work remains.
LEMMA StoreEventStep ==
  ASSUME IInv, NEW c \in Calls, StoreEvent(c)
  PROVE  IInv'
<1>1. call[c] # NoCall /\ call[c].step = "store" /\ Goes(c, "handle")
  BY DEF StoreEvent, At
<1>2. PICK j \in Jobs : j = call[c].job
  BY <1>1, CallRecord, InvData
<1>3. CallFact("store", j)
  BY <1>1, <1>2 DEF IInv, CallInv
<1>4. DataTypeOK' /\ DataInv' /\ Grows
  <2>1. CASE j \in Events
    <3>1. hook' = [hook EXCEPT ![j] = "received"] /\ faults' \in 0 .. MaxFaults
      BY <1>2, InvData DEF StoreEvent, DataTypeOK
    <3> QED BY <2>1, <3>1, HookWritten DEF StoreEvent
  <2>2. CASE j \notin Events
    <3>1. hook' = hook
      BY <1>2, <2>2, InvData DEF StoreEvent, DataTypeOK, WebhookRows
    <3>2. DataTypeOK' /\ DataInv'
      BY <3>1, InvData
         DEF StoreEvent, DataTypeOK, DataInv, PaidMeansReceived, SucceededMeansPaid, AckedIsRecorded,
             SentInv, HookInv, PaidInv, Received, Settled
    <3>3. Grows
      BY DEF StoreEvent, Grows, Settled
    <3> QED BY <3>2, <3>3
  <2> QED BY <2>1, <2>2
<1>5. CallFact("store", j)'
  BY <1>3, <1>4, FactStays DEF Steps
<1>6. CallFact("handle", j)'
  BY <1>5 DEF CallFact
<1> QED BY <1>1, <1>2, <1>4, <1>6, WritesAndGoes DEF Steps

\* An event is finished, and a success acknowledged, only when its payment is settled.
LEMMA FinishStep ==
  ASSUME IInv, NEW c \in Calls, Finish(c)
  PROVE  IInv'
<1>1. call[c] # NoCall /\ Returns(c) /\ call[c].job \in Jobs
  BY CallRecord, InvData DEF Finish, At
<1>2. PICK e \in Jobs : e = call[c].job
  BY <1>1
<1>3. e[1] = "payment_intent.succeeded" => Settled(e[2])
  <2>1. CallFact(call[c].step, e)
    BY <1>1, <1>2 DEF IInv, CallInv
  <2>2. call[c].step = "finish" \/ e[1] \in {"payout.paid", "other"}
    BY <1>2 DEF Finish, At
  <2> QED BY <2>1, <2>2 DEF CallFact
<1>4. DataTypeOK' /\ DataInv' /\ Grows
  <2>1. CASE e \in Events
    <3>1. PICK x \in {"processed", "ignored"} : hook' = [hook EXCEPT ![e] = x]
      BY <1>2, <2>1 DEF Finish
    <3>2. Ack(e) /\ faults' \in 0 .. MaxFaults
      BY <1>2, <2>1, InvData DEF Finish, DataTypeOK
    <3> QED BY <1>3, <2>1, <3>1, <3>2, HookWritten DEF Finish
  <2>2. CASE e \notin Events
    <3>1. UNCHANGED <<hook, acked>>
      BY <1>2, <2>2 DEF Finish
    <3>2. DataTypeOK' /\ DataInv'
      BY <3>1, InvData
         DEF Finish, DataTypeOK, DataInv, PaidMeansReceived, SucceededMeansPaid, AckedIsRecorded,
             SentInv, HookInv, PaidInv, Received, Settled
    <3>3. Grows
      BY DEF Finish, Grows, Settled
    <3> QED BY <3>2, <3>3
  <2> QED BY <2>1, <2>2
<1> QED BY <1>1, <1>4, WritesAndReturns

\* A failed event is not acknowledged.
LEMMA ThrowStep ==
  ASSUME IInv, NEW c \in Calls, Throw(c)
  PROVE  IInv'
<1>1. call[c] # NoCall /\ Returns(c) /\ call[c].job \in Jobs
  BY CallRecord, InvData DEF Throw
<1>2. PICK e \in Jobs : e = call[c].job
  BY <1>1
<1>3. faults' \in 0 .. MaxFaults
  BY FaultsAssumption, InvData DEF Throw, DataTypeOK
<1>4. DataTypeOK' /\ DataInv' /\ Grows
  <2>1. CASE e \in Events
    <3>1. hook' = [hook EXCEPT ![e] = "failed"]
      BY <1>2, <2>1 DEF Throw
    <3> QED BY <1>3, <2>1, <3>1, HookWritten DEF Throw
  <2>2. CASE e \notin Events
    <3>1. hook' = hook
      BY <1>2, <2>2 DEF Throw
    <3>2. DataTypeOK' /\ DataInv'
      BY <1>3, <3>1, InvData
         DEF Throw, DataTypeOK, DataInv, PaidMeansReceived, SucceededMeansPaid, AckedIsRecorded,
             SentInv, HookInv, PaidInv, Received, Settled
    <3>3. Grows
      BY DEF Throw, Grows, Settled
    <3> QED BY <3>2, <3>3
  <2> QED BY <2>1, <2>2
<1> QED BY <1>1, <1>4, WritesAndReturns

\* A crash writes nothing.
LEMMA CrashStep ==
  ASSUME IInv, NEW c \in Calls, Crash(c)
  PROVE  IInv'
<1>1. UNCHANGED Data /\ faults' \in 0 .. MaxFaults
  BY FaultsAssumption, InvData DEF Crash, Data, DataTypeOK
<1>2. /\ call' \in [Calls -> CallStates]
      /\ call'[c] = NoCall
      /\ \A d \in Calls : d # c => call'[d] = call[d]
  BY ReturnsEffect, InvData DEF Crash
<1> QED BY <1>1, <1>2, OnlyCalls

\* A repeated event is answered at once only if it was finished before.
LEMMA DeliverStep ==
  ASSUME IInv, NEW c \in Calls, NEW e \in Events, Deliver(c, e)
  PROVE  IInv'
<1>1. CASE hook[e] \in {"processed", "ignored"}
  <2>1. Ack(e) /\ UNCHANGED call
    BY <1>1 DEF Deliver
  <2>2. e[2] \in Intents /\ (e[1] = "payment_intent.succeeded" => e = Succeeded(e[2]))
    BY DEF Events, Succeeded
  <2>3. e[1] = "payment_intent.succeeded" => Settled(e[2])
    BY <1>1, <2>2 DEF IInv, HookInv
  <2>4. DataTypeOK' /\ AckedIsRecorded'
    BY <2>1, <2>2, <2>3, InvData DEF Deliver, DataTypeOK, DataInv, Ack, AckedIsRecorded, Settled
  <2>5. DataInv'
    BY <2>4, InvData
       DEF Deliver, DataInv, PaidMeansReceived, SucceededMeansPaid, SentInv, HookInv, PaidInv, Received, Settled
  <2>6. Grows
    BY DEF Deliver, Grows, Settled
  <2> QED BY <2>1, <2>4, <2>5, <2>6, OnlyWrites
<1>2. CASE hook[e] \notin {"processed", "ignored"}
  <2>1. Starts(c, "store", e) /\ UNCHANGED acked /\ e \in sent
    BY <1>2 DEF Deliver
  <2>2. DataTypeOK' /\ DataInv'
    BY <2>1, InvData
       DEF Deliver, DataTypeOK, DataInv, PaidMeansReceived, SucceededMeansPaid, AckedIsRecorded,
           SentInv, HookInv, PaidInv, Received, Settled
  <2>3. Grows
    BY DEF Deliver, Grows, Settled
  <2>4. CallFact("store", e)'
    BY <2>1 DEF Deliver, CallFact
  <2> QED BY <2>1, <2>2, <2>3, <2>4, WritesAndStarts DEF Steps, Jobs
<1> QED BY <1>1, <1>2

-----------------------------------------------------------------------------
(* Stripe and people                                                       *)

\* Stripe changes what it holds of an intent that it has not captured, and sends events.
LEMMA StripeMoves ==
  ASSUME IInv, UNCHANGED <<provider, order, row, acked, hook, earned, posted, faults>>,
         NEW i \in Intents, NEW x \in {"none", "open", "declined", "captured", "differs"},
         stripe' = [stripe EXCEPT ![i] = x],
         stripe[i] \in {"captured", "differs"} => x = stripe[i],
         sent' \in SUBSET Events, sent \subseteq sent',
         \A k \in Intents : (Succeeded(k) \in sent' /\ Succeeded(k) \notin sent) =>
                             k = i /\ x \in {"captured", "differs"} /\ row[i] # "none"
  PROVE  DataTypeOK' /\ DataInv' /\ Grows
<1>1. TypeOK /\ DataTypeOK /\ DataInv
  BY InvData
<1>2. stripe \in [Intents -> {"none", "open", "declined", "captured", "differs"}]
  BY <1>1 DEF DataTypeOK
<1>3. \A k \in Intents : stripe'[k] = IF k = i THEN x ELSE stripe[k]
  BY <1>2
<1>4. stripe' \in [Intents -> {"none", "open", "declined", "captured", "differs"}]
  BY <1>2
<1>5. DataTypeOK'
  BY <1>1, <1>4 DEF DataTypeOK
<1>6. \A k \in Intents : /\ stripe[k] = "captured" => stripe'[k] = "captured"
                         /\ stripe[k] = "differs" => stripe'[k] = "differs"
  BY <1>3
<1>7. Grows
  BY <1>6 DEF Grows, Settled
<1>8. SentInv'
  <2> SUFFICES ASSUME NEW k \in Intents, Succeeded(k) \in sent'
               PROVE  stripe'[k] \in {"captured", "differs"} /\ row'[k] # "none"
    BY DEF SentInv, Succeeded
  <2>1. CASE Succeeded(k) \in sent
    BY <1>1, <1>6, <2>1 DEF DataInv, SentInv
  <2>2. CASE Succeeded(k) \notin sent
    BY <1>3, <2>2
  <2> QED BY <2>1, <2>2
<1>9. PaidMeansReceived'
  BY <1>1, <1>6 DEF DataInv, PaidMeansReceived, Received
<1>10. SucceededMeansPaid' /\ AckedIsRecorded' /\ HookInv' /\ PaidInv'
  BY <1>1 DEF DataInv, SucceededMeansPaid, AckedIsRecorded, HookInv, PaidInv, Settled
<1> QED BY <1>5, <1>7, <1>8, <1>9, <1>10 DEF DataInv

\* A new intent is open.
LEMMA CreatePaymentIntentStep ==
  ASSUME IInv, NEW c \in Calls, NEW i \in Intents, CreatePaymentIntent(c, i)
  PROVE  IInv'
<1>1. stripe[i] \in {"none", "open", "declined", "captured", "differs"} /\ sent \in SUBSET Events
  BY InvData DEF DataTypeOK
<1>2. PICK x \in {"none", "open", "declined", "captured", "differs"} :
        stripe' = [stripe EXCEPT ![i] = x] /\ (stripe[i] # "none" => x = stripe[i])
  BY <1>1 DEF CreatePaymentIntent
<1>3. DataTypeOK' /\ DataInv' /\ Grows
  BY <1>1, <1>2, StripeMoves DEF CreatePaymentIntent
<1>4. Starts(c, "create", Succeeded(i)) /\ Succeeded(i) \in Jobs
  BY DEF CreatePaymentIntent, Succeeded, Jobs, Events, EventTypes
<1>5. PICK j \in Jobs : j = Succeeded(i)
  BY <1>4
<1>6. CallFact("create", j)'
  BY <1>5 DEF CallFact, Succeeded
<1> QED BY <1>3, <1>4, <1>5, <1>6, WritesAndStarts DEF Steps

\* Stripe captures an intent once.
LEMMA CaptureStep ==
  ASSUME IInv, NEW i \in Intents, Capture(i)
  PROVE  IInv'
<1>1. PICK x \in {"captured", "differs"} : stripe' = [stripe EXCEPT ![i] = x]
  BY DEF Capture
<1>2. Succeeded(i) \in Events /\ sent \in SUBSET Events
  BY InvData DEF Succeeded, Events, EventTypes, DataTypeOK
<1>3. \A k \in Intents : (Succeeded(k) \in sent' /\ Succeeded(k) \notin sent) => k = i
  BY DEF Capture, Succeeded
<1>4. DataTypeOK' /\ DataInv' /\ Grows
  <2>1. sent' \in SUBSET Events /\ sent \subseteq sent'
    BY <1>2 DEF Capture
  <2>2. /\ UNCHANGED <<provider, order, row, acked, hook, earned, posted, faults>>
        /\ stripe[i] \notin {"captured", "differs"} /\ row[i] # "none"
    BY DEF Capture
  <2> QED BY <1>1, <1>3, <2>1, <2>2, StripeMoves
<1> QED BY <1>4, OnlyWrites DEF Capture

\* A declined attempt sends no success.
LEMMA DeclineStep ==
  ASSUME IInv, NEW i \in Intents, Decline(i)
  PROVE  IInv'
<1>1. <<"payment_intent.payment_failed", i>> \in Events /\ sent \in SUBSET Events
  BY InvData DEF Events, EventTypes, DataTypeOK
<1>2. \A k \in Intents : ~(Succeeded(k) \in sent' /\ Succeeded(k) \notin sent)
  BY DEF Decline, Succeeded
<1>3. /\ sent' \in SUBSET Events /\ sent \subseteq sent'
      /\ stripe' = [stripe EXCEPT ![i] = "declined"] /\ stripe[i] = "open"
      /\ UNCHANGED <<provider, order, row, acked, hook, earned, posted, faults>>
  BY <1>1 DEF Decline
<1>4. DataTypeOK' /\ DataInv' /\ Grows
  BY <1>2, <1>3, StripeMoves
<1> QED BY <1>4, OnlyWrites DEF Decline

\* The other events are no successes.
LEMMA SendOtherStep ==
  ASSUME IInv, NEW i \in Intents, NEW t \in EventTypes, SendOther(i, t)
  PROVE  IInv'
<1>1. <<t, i>> \in Events /\ sent \in SUBSET Events /\ t # "payment_intent.succeeded"
  BY InvData, OtherTypesAssumption DEF Events, DataTypeOK, SendOther
<1>2. \A k \in Intents : ~(Succeeded(k) \in sent' /\ Succeeded(k) \notin sent)
  BY <1>1 DEF SendOther, Succeeded
<1>3. stripe' = [stripe EXCEPT ![i] = "captured"] /\ stripe[i] = "captured"
  BY InvData DEF SendOther, DataTypeOK
<1>4. /\ sent' \in SUBSET Events /\ sent \subseteq sent'
      /\ UNCHANGED <<provider, order, row, acked, hook, earned, posted, faults>>
  BY <1>1 DEF SendOther
<1>5. DataTypeOK' /\ DataInv' /\ Grows
  BY <1>2, <1>3, <1>4, StripeMoves
<1> QED BY <1>5, OnlyWrites DEF SendOther

\* Nobody moves an order to PAID by hand.
LEMMA UpdateStatusStep ==
  ASSUME IInv, NEW to \in OrderStatus, UpdateStatus(to)
  PROVE  IInv'
<1>1. to = "PAID" => order = "PAID"
  BY MovesAssumption DEF UpdateStatus
<1>2. DataTypeOK'
  BY InvData DEF UpdateStatus, DataTypeOK
<1>3. DataInv'
  BY <1>1, InvData
     DEF UpdateStatus, DataInv, PaidMeansReceived, SucceededMeansPaid, AckedIsRecorded, SentInv, HookInv, PaidInv,
         Settled, Received
<1>4. Grows
  BY DEF UpdateStatus, Grows, Settled
<1> QED BY <1>2, <1>3, <1>4, OnlyWrites DEF UpdateStatus

-----------------------------------------------------------------------------

\* The invariant holds at first,
LEMMA InitInv == Init => IInv
<1> SUFFICES ASSUME Init PROVE IInv
  OBVIOUS
<1>1. TypeOK
  BY FaultsAssumption DEF Init, TypeOK, OrderStatus, PaymentRows, WebhookRows, CallStates
<1>2. PaidMeansReceived /\ SucceededMeansPaid /\ AckedIsRecorded /\ PaidInv
  BY DEF Init, PaidMeansReceived, SucceededMeansPaid, AckedIsRecorded, PaidInv
<1>3. CallInv /\ SentInv
  BY DEF Init, CallInv, SentInv
<1>4. HookInv
  BY DEF Init, HookInv, Succeeded, Events, EventTypes
<1> QED BY <1>1, <1>2, <1>3, <1>4 DEF IInv, PaymentsAgree

\* every step of a handler keeps it,
LEMMA HandlerStep ==
  ASSUME IInv, NEW c \in Calls, Handler(c)
  PROVE  IInv'
<1>1. CASE CreateStripeIntent(c) BY <1>1, CreateStripeIntentStep
<1>2. CASE StoreEvent(c) BY <1>2, StoreEventStep
<1>3. CASE Finish(c) BY <1>3, FinishStep
<1>4. CASE HandlePaymentIntentFailed(c) BY <1>4, HandlePaymentIntentFailedStep
<1>5. CASE WritePaymentFailed(c) BY <1>5, WritePaymentFailedStep
<1>6. CASE HandleStripeDispute(c) BY <1>6, HandleStripeDisputeStep
<1>7. CASE CompleteStripeSucceeded(c) BY <1>7, CompleteStripeSucceededStep
<1>8. CASE CompletePayment(c) BY <1>8, CompletePaymentStep
<1>9. CASE MarkPaidRead(c) BY <1>9, MarkPaidReadStep
<1>10. CASE MarkPaidCommit(c) BY <1>10, MarkPaidCommitStep
<1>11. CASE MarkPaidFails(c) BY <1>11, MarkPaidFailsStep
<1>12. CASE RecordFailure(c) BY <1>12, RecordFailureStep
<1>13. CASE RecordSuccess(c) BY <1>13, RecordSuccessStep
<1>14. CASE PostLookup(c) BY <1>14, PostLookupStep
<1>15. CASE PostCreate(c) BY <1>15, PostCreateStep
<1> QED BY <1>1, <1>2, <1>3, <1>4, <1>5, <1>6, <1>7, <1>8, <1>9, <1>10, <1>11, <1>12, <1>13, <1>14, <1>15
        DEF Handler

\* and so does a stutter
LEMMA StutterStep == IInv /\ UNCHANGED vars => IInv'
<1> SUFFICES ASSUME IInv, UNCHANGED vars PROVE IInv'
  OBVIOUS
<1>1. DataTypeOK' /\ DataInv'
  BY InvData
     DEF vars, DataTypeOK, DataInv, PaidMeansReceived, SucceededMeansPaid, AckedIsRecorded, SentInv, HookInv, PaidInv,
         Settled, Received
<1>2. Grows
  BY DEF vars, Grows, Settled
<1> QED BY <1>1, <1>2, OnlyWrites DEF vars

\* and every other step.
LEMMA NextInv == IInv /\ [Next]_vars => IInv'
<1> SUFFICES ASSUME IInv, Next PROVE IInv'
  BY StutterStep
<1>1. ASSUME NEW c \in Calls, PaymentRoutes(c) PROVE IInv'
  BY <1>1, CreatePaymentIntentStep, DevConfirmStep DEF PaymentRoutes
<1>2. ASSUME NEW c \in Calls, DispatchStripeWebhook(c) PROVE IInv'
  BY <1>2, DeliverStep DEF DispatchStripeWebhook
<1>3. ASSUME NEW c \in Calls, Handler(c) \/ Throw(c) \/ Crash(c) PROVE IInv'
  BY <1>3, HandlerStep, ThrowStep, CrashStep
<1>4. ASSUME NEW i \in Intents, CreateDevPayment(i) \/ Capture(i) \/ Decline(i) PROVE IInv'
  BY <1>4, CreateDevPaymentStep, CaptureStep, DeclineStep
<1>5. ASSUME NEW i \in Intents, NEW t \in EventTypes, SendOther(i, t) PROVE IInv'
  BY <1>5, SendOtherStep
<1>6. ASSUME NEW to \in OrderStatus, UpdateStatus(to) PROVE IInv'
  BY <1>6, UpdateStatusStep
<1> QED BY <1>1, <1>2, <1>3, <1>4, <1>5, <1>6 DEF Next

\* However often and in whatever order Stripe's events are delivered, to however many
\* calls at once, and wherever these stop: only received money marks the order paid, only
\* a paid order's payment is SUCCEEDED or posted, and nothing is acknowledged before it
\* is settled (processVerifiedStripeEvent, completeStripeSucceeded, completePayment).
THEOREM PaymentsSafe == Spec => []PaymentsAgree
<1>1. IInv => PaymentsAgree
  BY DEF IInv
<1> QED BY <1>1, InitInv, NextInv, PTL DEF Spec
=============================================================================
