--------------------------- MODULE RefundsProofs ----------------------------
(***************************************************************************)
(* RefundsAgree for any refunds, calls and faults, when Stripe sends refund *)
(* events only.                                                            *)
(*                                                                         *)
(* The amount of a refund is fixed when its row is created (CallInv,       *)
(* StripeInv): every call, every refund of Stripe and every posting of the *)
(* row has it, so it does not matter which of them comes first.  That an   *)
(* order is REFUNDED only when all was given back needs, besides, that     *)
(* Stripe never gives back more than the total (SumTheorems).              *)
(***************************************************************************)
EXTENDS Refunds, SumTheorems

Active(c) == call[c] # NoCall

Made(s) == stripe[s] # NoRefund

\* What is known of a call.
CallFact(c) ==
  LET k == call[c]
  IN  /\ k.step = "create" => refund[k.row] = NoRow
      /\ k.step # "create" => refund[k.row] # NoRow /\ k.amount = refund[k.row].amount
      /\ k.step \in {"confirm", "commit"} =>
           k.event \in Events /\ Made(k.event[2]) /\ stripe[k.event[2]].row = k.row

\* A call that creates a row is the only one that works on it.
CallInv ==
  \A c \in Calls : Active(c) =>
    /\ CallFact(c)
    /\ call[c].step = "create" => \A d \in Calls : (d # c /\ Active(d)) => call[d].row # call[c].row

\* A refund of Stripe is for a row, of its amount.
StripeInv ==
  \A s \in StripeIds : Made(s) =>
    refund[stripe[s].row] # NoRow /\ stripe[s].amount = refund[stripe[s].row].amount

\* A posting is for a row that Stripe has made a refund for.
PostedInv ==
  \A r \in RefundIds :
    /\ posted[r] > 0 => /\ refund[r] # NoRow /\ posted[r] = refund[r].amount
                        /\ \E s \in StripeIds : Made(s) /\ stripe[s].row = r
    /\ Status(r) = "COMPLETED" => posted[r] > 0

\* Stripe gives back no more than it took, and an order is REFUNDED by one refund of all.
SumInv ==
  /\ GivenBack <= Total
  /\ order = "REFUNDED" => \E s \in StripeIds : Made(s) /\ stripe[s].amount >= Total

IInv == TypeOK /\ CallInv /\ StripeInv /\ PostedInv /\ SumInv

-----------------------------------------------------------------------------
(* Calls                                                                   *)

\* Only call c has moved.
Only(c) == \A d \in Calls : d # c => call'[d] = call[d]

\* A call that is not free is a record.
LEMMA CallRecord ==
  ASSUME TypeOK, NEW c \in Calls, Active(c)
  PROVE  /\ call[c] \in CallRows
         /\ call[c].step \in Steps /\ call[c].row \in RefundIds /\ call[c].amount \in 1 .. Total
         /\ call[c].whole \in BOOLEAN /\ call[c].event \in Events \cup {NoRefund}
         /\ call[c].seen \in OrderStatus
  BY DEF TypeOK, CallStates, CallRows, Active

\* A call starts.
LEMMA StartsEffect ==
  ASSUME TypeOK, NEW c \in Calls, NEW s \in Steps, NEW r \in RefundIds, NEW a \in 1 .. Total,
         NEW w \in BOOLEAN, NEW e \in Events \cup {NoRefund}, Starts(c, s, r, a, w, e)
  PROVE  /\ call' \in [Calls -> CallStates] /\ Active(c)' /\ Only(c)
         /\ call'[c].step = s /\ call'[c].row = r /\ call'[c].amount = a /\ call'[c].event = e
<1>1. call \in [Calls -> CallStates] /\ order \in OrderStatus
  BY DEF TypeOK
<1>2. call'[c] = [step |-> s, row |-> r, amount |-> a, whole |-> w, event |-> e, seen |-> order]
  BY <1>1 DEF Starts
<1>3. call'[c] \in CallRows
  BY <1>1, <1>2 DEF CallRows
<1>4. Only(c)
  BY <1>1 DEF Starts, Only
<1>5. call' \in [Calls -> CallStates]
  BY <1>1, <1>2, <1>3 DEF Starts, CallStates
<1> QED BY <1>2, <1>3, <1>4, <1>5, NothingAssumption DEF Active

\* A call goes to its next step.
LEMMA GoesEffect ==
  ASSUME TypeOK, NEW c \in Calls, Active(c), NEW s \in Steps, Goes(c, s)
  PROVE  /\ call' \in [Calls -> CallStates] /\ Active(c)' /\ Only(c)
         /\ call'[c].step = s /\ call'[c].row = call[c].row
         /\ call'[c].amount = call[c].amount /\ call'[c].event = call[c].event
<1>1. call \in [Calls -> CallStates]
  BY DEF TypeOK
<1>2. call[c] \in CallRows
  BY CallRecord
<1>3. call'[c] = [call[c] EXCEPT !.step = s]
  BY <1>1 DEF Goes
<1>4. call'[c] \in CallRows
  BY <1>2, <1>3 DEF CallRows
<1>5. Only(c)
  BY <1>1 DEF Goes, Only
<1>6. call' \in [Calls -> CallStates]
  BY <1>1, <1>4 DEF Goes, CallStates
<1>7. /\ call'[c].step = s /\ call'[c].row = call[c].row
      /\ call'[c].amount = call[c].amount /\ call'[c].event = call[c].event
  BY <1>2, <1>3 DEF CallRows
<1> QED BY <1>4, <1>5, <1>6, <1>7, NothingAssumption DEF Active

\* A call returns.
LEMMA ReturnsEffect ==
  ASSUME TypeOK, NEW c \in Calls, Returns(c)
  PROVE  call' \in [Calls -> CallStates] /\ ~Active(c)' /\ Only(c)
  BY DEF TypeOK, Returns, Only, CallStates, Active

\* Rows stay, with their amounts, and only a call that creates makes a new one; Stripe's
\* refunds stay as well.
Kept(c) ==
  /\ \A r \in RefundIds :
       /\ refund[r] # NoRow => refund'[r] # NoRow /\ refund'[r].amount = refund[r].amount
       /\ refund[r] = NoRow => refund'[r] = NoRow \/ (At(c, "create") /\ r = call[c].row)
  /\ \A s \in StripeIds : Made(s) => stripe'[s] = stripe[s]

\* What calls know survives a step of call c that keeps rows and refunds.
LEMMA CallsKept ==
  ASSUME IInv, NEW c \in Calls, Only(c), Kept(c),
         Active(c)' =>
           /\ CallFact(c)'
           /\ call'[c].step # "create"
           /\ Active(c) => call'[c].row = call[c].row
           /\ ~Active(c) => \A d \in Calls : (Active(d) /\ call[d].step = "create") => call[d].row # call'[c].row
  PROVE  CallInv'
<1> USE DEF IInv
<1> SUFFICES ASSUME NEW d \in Calls, Active(d)'
             PROVE  /\ CallFact(d)'
                    /\ call'[d].step = "create" =>
                         \A e \in Calls : (e # d /\ Active(e)') => call'[e].row # call'[d].row
  BY DEF CallInv
<1>1. CASE d = c
  BY <1>1
<1>2. CASE d # c
  <2>1. Active(d) /\ call'[d] = call[d] /\ call[d].row \in RefundIds
    BY <1>2, CallRecord DEF Only, Active
  <2>2. CallFact(d)
    BY <2>1 DEF CallInv
  <2>3. call[d].step \in {"confirm", "commit"} =>
          stripe'[call[d].event[2]] # NoRefund /\ stripe'[call[d].event[2]] = stripe[call[d].event[2]]
    <3>1. call[d].step \in {"confirm", "commit"} => call[d].event[2] \in StripeIds
      BY <2>2 DEF CallFact, Events
    <3> QED BY <2>2, <3>1 DEF CallFact, Kept, Made
  <2>4. call[d].step = "create" => refund'[call[d].row] = NoRow
    BY <1>2, <2>1, <2>2 DEF CallFact, Kept, CallInv, At, Active
  <2>5. CallFact(d)'
    BY <2>1, <2>2, <2>3, <2>4 DEF CallFact, Kept, Made
  <2>6. ASSUME call'[d].step = "create", NEW e \in Calls, e # d, Active(e)'
        PROVE  call'[e].row # call'[d].row
    BY <1>2, <2>1, <2>6 DEF CallInv, Only, Active
  <2> QED BY <2>5, <2>6
<1> QED BY <1>1, <1>2

\* So do the rows and postings, when the provider, the ledger and the order are left alone.
LEMMA RestKept ==
  ASSUME IInv, NEW c \in Calls, Kept(c), UNCHANGED <<order, stripe, posted>>,
         \A r \in RefundIds : Status(r)' = "COMPLETED" => Status(r) = "COMPLETED"
  PROVE  StripeInv' /\ PostedInv' /\ SumInv'
<1> USE DEF IInv
<1>1. \A s \in StripeIds : Made(s) => stripe[s].row \in RefundIds
  BY DEF TypeOK, StripeRefunds, Made
<1>2. StripeInv'
  BY <1>1 DEF StripeInv, Kept, Made
<1>3. PostedInv'
  BY DEF PostedInv, Kept, Made
<1>4. GivenBack' = GivenBack
  BY DEF GivenBack
<1>5. SumInv'
  BY <1>4 DEF SumInv, Made
<1> QED BY <1>2, <1>3, <1>5

\* A step that moves a call only.
LEMMA QuietStep ==
  ASSUME IInv, NEW c \in Calls, Only(c), call' \in [Calls -> CallStates],
         UNCHANGED <<order, refund, stripe, posted>>, faults' \in SUBSET Faults,
         acked' \in SUBSET Events,
         Active(c)' =>
           /\ CallFact(c)'
           /\ call'[c].step # "create"
           /\ Active(c) => call'[c].row = call[c].row
           /\ ~Active(c) => \A d \in Calls : (Active(d) /\ call[d].step = "create") => call[d].row # call'[c].row
  PROVE  IInv'
<1> USE DEF IInv
<1>1. TypeOK'
  BY DEF TypeOK
<1>2. Kept(c)
  BY DEF Kept
<1>3. CallInv'
  BY <1>2, CallsKept
<1>4. StripeInv' /\ PostedInv' /\ SumInv'
  <2>1. \A r \in RefundIds : Status(r)' = Status(r)
    BY DEF Status
  <2> QED BY <1>2, <2>1, RestKept
<1> QED BY <1>1, <1>3, <1>4

\* A row that is there is a record.
LEMMA RowRecord ==
  ASSUME TypeOK, NEW r \in RefundIds, refund[r] # NoRow
  PROVE  refund[r] \in RefundRows /\ refund[r].amount \in 1 .. Total /\ refund[r].status \in RefundStatus
  BY DEF TypeOK, RefundRows

\* A write of another status than COMPLETED by a call that has its row.
LEMMA WriteStep ==
  ASSUME IInv, NEW c \in Calls, Active(c), call[c].step # "create",
         NEW s \in RefundStatus \ {"COMPLETED"}, Writes(call[c].row, s),
         Only(c), call' \in [Calls -> CallStates],
         UNCHANGED <<order, stripe, acked, posted, faults>>,
         Active(c)' =>
           /\ call'[c].step \notin {"create", "confirm", "commit"}
           /\ call'[c].row = call[c].row /\ call'[c].amount = call[c].amount
  PROVE  IInv'
<1> USE DEF IInv
<1> DEFINE r == call[c].row
<1>1. r \in RefundIds /\ refund[r] # NoRow /\ call[c].amount = refund[r].amount
  BY CallRecord DEF CallInv, CallFact
<1>2. refund[r] \in RefundRows
  BY <1>1, RowRecord
<1>3. refund' = [refund EXCEPT ![r].status = s]
  BY DEF Writes
<1> HIDE DEF r
<1>4. /\ refund'[r] = [refund[r] EXCEPT !.status = s]
      /\ \A q \in RefundIds : q # r => refund'[q] = refund[q]
  BY <1>1, <1>3 DEF TypeOK
<1>5. refund'[r] \in RefundRows /\ refund'[r].amount = refund[r].amount /\ refund'[r].status = s
  BY <1>2, <1>4 DEF RefundRows
<1>6. refund'[r] # NoRow
  BY <1>5, NothingAssumption
<1>7. refund' \in [RefundIds -> RefundRows \cup {NoRow}]
  BY <1>1, <1>3, <1>5 DEF TypeOK
<1>8. TypeOK'
  BY <1>7 DEF TypeOK
<1>9. Kept(c)
  BY <1>1, <1>4, <1>5, <1>6 DEF Kept
<1>10. Active(c)' => CallFact(c)'
  BY <1>1, <1>5, <1>6 DEF CallFact, r
<1>11. CallInv'
  BY <1>9, <1>10, CallsKept
<1>12. \A q \in RefundIds : Status(q)' = "COMPLETED" => Status(q) = "COMPLETED"
  BY <1>4, <1>5, <1>6 DEF Status
<1>13. StripeInv' /\ PostedInv' /\ SumInv'
  BY <1>9, <1>12, RestKept
<1> QED BY <1>8, <1>11, <1>13

-----------------------------------------------------------------------------
(* requestRefund, approveRefund, rejectRefund                              *)

\* A request leaves the rows alone; its call is the only one on its row.
LEMMA RequestRefundStep ==
  ASSUME IInv, NEW c \in Calls, NEW r \in RefundIds, NEW a \in Amounts, NEW w \in BOOLEAN,
         RequestRefund(c, r, a, w)
  PROVE  IInv'
<1> USE DEF IInv
<1>1. /\ call' \in [Calls -> CallStates] /\ Active(c)' /\ Only(c)
      /\ call'[c].step = "create" /\ call'[c].row = r
  BY StartsEffect, AmountsAssumption DEF RequestRefund, Steps
<1>2. UNCHANGED <<order, refund, stripe, acked, posted, faults>> /\ refund[r] = NoRow
  BY DEF RequestRefund
<1>3. TypeOK'
  BY <1>1, <1>2 DEF TypeOK
<1>4. CallInv'
  <2>1. \A d \in Calls : Active(d) => call[d].row # r
    BY DEF RequestRefund, Active
  <2>2. \A d \in Calls : (d # c /\ Active(d)') => CallFact(d)'
    BY <1>1, <1>2 DEF CallInv, CallFact, Only, Active, Made
  <2>3. CallFact(c)'
    BY <1>1, <1>2 DEF CallFact
  <2> QED BY <1>1, <2>1, <2>2, <2>3 DEF CallInv, Only, Active
<1>5. StripeInv' /\ PostedInv' /\ SumInv'
  <2>1. Kept(c) /\ \A q \in RefundIds : Status(q)' = Status(q)
    BY <1>2 DEF Kept, Status
  <2> QED BY <1>2, <2>1, RestKept
<1> QED BY <1>3, <1>4, <1>5

\* The row is inserted with the amount that its call was checked with.
LEMMA CreateStep ==
  ASSUME IInv, NEW c \in Calls, Create(c)
  PROVE  IInv'
<1> USE DEF IInv
<1> DEFINE r == call[c].row
           new == [status |-> "REQUESTED", amount |-> call[c].amount]
<1>1. Active(c) /\ call[c].step = "create" /\ r \in RefundIds /\ call[c].amount \in 1 .. Total
  BY CallRecord DEF Create, At, Active
<1>2. refund[r] = NoRow
  BY <1>1 DEF CallInv, CallFact
<1>3. /\ call' \in [Calls -> CallStates] /\ Only(c)
      /\ Active(c)' => call'[c].step = "approve" /\ call'[c].row = r /\ call'[c].amount = call[c].amount
  BY <1>1, GoesEffect, ReturnsEffect DEF Create, Steps
<1>4. refund' = [refund EXCEPT ![r] = new] /\ UNCHANGED <<order, stripe, acked, posted, faults>>
  BY DEF Create
<1>5. new \in RefundRows /\ new.amount = call[c].amount /\ new.status = "REQUESTED"
  BY <1>1 DEF RefundRows, RefundStatus
<1> HIDE DEF r, new
<1>6. refund'[r] = new /\ \A q \in RefundIds : q # r => refund'[q] = refund[q]
  BY <1>1, <1>4 DEF TypeOK
<1>7. new # NoRow
  BY <1>5, NothingAssumption
<1>8. TypeOK'
  BY <1>1, <1>3, <1>4, <1>5 DEF TypeOK
<1>9. Kept(c)
  BY <1>1, <1>2, <1>4, <1>6 DEF Kept, At, Active, r
<1>10. Active(c)' => CallFact(c)'
  BY <1>3, <1>5, <1>6, <1>7 DEF CallFact, r
<1>11. CallInv'
  BY <1>1, <1>3, <1>9, <1>10, CallsKept DEF r
<1>12. \A q \in RefundIds : Status(q)' = "COMPLETED" => Status(q) = "COMPLETED"
  BY <1>5, <1>6, <1>7 DEF Status
<1>13. StripeInv' /\ PostedInv' /\ SumInv'
  BY <1>4, <1>9, <1>12, RestKept
<1> QED BY <1>8, <1>11, <1>13

\* The requests on a row that is there.
LEMMA StartOnRow ==
  ASSUME IInv, NEW c \in Calls, NEW r \in RefundIds, refund[r] # NoRow,
         NEW s \in Steps \ {"create", "confirm", "commit"}, ~Active(c),
         Starts(c, s, r, refund[r].amount, FALSE, NoRefund),
         UNCHANGED <<order, refund, stripe, acked, posted, faults>>
  PROVE  IInv'
<1> USE DEF IInv
<1>1. refund[r].amount \in 1 .. Total
  BY RowRecord
<1>2. /\ call' \in [Calls -> CallStates] /\ Active(c)' /\ Only(c)
      /\ call'[c].step = s /\ call'[c].row = r /\ call'[c].amount = refund[r].amount
  <2>1. s \in Steps /\ NoRefund \in Events \cup {NoRefund}
    OBVIOUS
  <2> DEFINE a == refund[r].amount
  <2>2. a \in 1 .. Total /\ Starts(c, s, r, a, FALSE, NoRefund)
    BY <1>1
  <2> HIDE DEF a
  <2>3. /\ call' \in [Calls -> CallStates] /\ Active(c)' /\ Only(c)
        /\ call'[c].step = s /\ call'[c].row = r /\ call'[c].amount = a
    BY <2>1, <2>2, StartsEffect
  <2> QED BY <2>3 DEF a
<1>3. CallFact(c)'
  BY <1>2 DEF CallFact
<1>4. \A d \in Calls : (Active(d) /\ call[d].step = "create") => call[d].row # r
  BY DEF CallInv, CallFact
<1> QED BY <1>2, <1>3, <1>4, QuietStep DEF TypeOK

\* The requests of an administrator to approve a refund and to ask Stripe for it.
LEMMA StartOnStep ==
  ASSUME IInv, NEW c \in Calls, NEW r \in RefundIds, NEW s \in {"approve", "provider"}, StartOn(c, r, s)
  PROVE  IInv'
  BY StartOnRow DEF StartOn, MayStart, Free, Active, Steps

\* The two routes that reject a refund.
LEMMA RejectRefundStep ==
  ASSUME IInv, NEW c \in Calls, NEW r \in RefundIds, RejectRefund(c, r) \/ DecideRefund(c, r)
  PROVE  IInv'
<1>1. refund[r] # NoRow
  BY DEF RejectRefund, DecideRefund, Status
<1> QED BY <1>1, StartOnRow DEF RejectRefund, DecideRefund, MayStart, Free, Active, Steps

\* A call that reads its row and goes on or returns.
LEMMA ReadStep ==
  ASSUME IInv, NEW c \in Calls, Active(c), call[c].step # "create",
         NEW s \in Steps \ {"create", "confirm", "commit"}, Goes(c, s) \/ Returns(c),
         UNCHANGED <<order, refund, stripe, acked, posted, faults>>
  PROVE  IInv'
<1> USE DEF IInv
<1>1. /\ call' \in [Calls -> CallStates] /\ Only(c)
      /\ Active(c)' => call'[c].step = s /\ call'[c].row = call[c].row /\ call'[c].amount = call[c].amount
  BY GoesEffect, ReturnsEffect
<1>2. Active(c)' => CallFact(c)'
  BY <1>1 DEF CallInv, CallFact
<1> QED BY <1>1, <1>2, QuietStep DEF TypeOK

\* The check of approveRefund.
LEMMA ApproveRefundStep ==
  ASSUME IInv, NEW c \in Calls, ApproveRefund(c)
  PROVE  IInv'
<1>1. Goes(c, "approveWrite") \/ Returns(c)
  BY DEF ApproveRefund
<1> QED BY <1>1, ReadStep DEF ApproveRefund, At, Active, Steps

\* The check of requestProviderRefund.
LEMMA RequestProviderRefundStep ==
  ASSUME IInv, NEW c \in Calls, RequestProviderRefund(c)
  PROVE  IInv'
<1>1. Goes(c, "ask") \/ Returns(c)
  BY DEF RequestProviderRefund
<1> QED BY <1>1, ReadStep DEF RequestProviderRefund, At, Active, Steps

\* The writes of a status.
LEMMA WritesStep ==
  ASSUME IInv, NEW c \in Calls,
         \/ ApproveWrite(c) \/ RejectWrite(c) \/ StoreProviderRequested(c) \/ StoreProviderFailed(c)
  PROVE  IInv'
<1> USE DEF IInv
<1>1. /\ Active(c) /\ call[c].step # "create"
      /\ UNCHANGED <<order, stripe, acked, posted, faults>>
  BY DEF ApproveWrite, RejectWrite, StoreProviderRequested, StoreProviderFailed, At, Active
<1>2. \E s \in RefundStatus \ {"COMPLETED"} : Writes(call[c].row, s)
  BY DEF ApproveWrite, RejectWrite, StoreProviderRequested, StoreProviderFailed, RefundStatus
<1>3. Goes(c, "provider") \/ Returns(c)
  BY DEF ApproveWrite, RejectWrite, StoreProviderRequested, StoreProviderFailed
<1>4. /\ call' \in [Calls -> CallStates] /\ Only(c)
      /\ Active(c)' => /\ call'[c].step = "provider"
                       /\ call'[c].row = call[c].row /\ call'[c].amount = call[c].amount
  BY <1>1, <1>3, GoesEffect, ReturnsEffect DEF Steps
<1> QED BY <1>1, <1>2, <1>4, WriteStep

\* A crash forgets a call.
LEMMA CrashStep ==
  ASSUME IInv, NEW c \in Calls, Crash(c)
  PROVE  IInv'
<1> USE DEF IInv
<1>1. call' \in [Calls -> CallStates] /\ Only(c) /\ ~Active(c)'
  BY ReturnsEffect DEF Crash
<1>2. faults' \in SUBSET Faults
  BY DEF Crash, TypeOK
<1> QED BY <1>1, <1>2, QuietStep DEF Crash, TypeOK

-----------------------------------------------------------------------------
(* Stripe                                                                  *)

\* A refund that Stripe has made is a record.
LEMMA StripeRecord ==
  ASSUME TypeOK, NEW s \in StripeIds, Made(s)
  PROVE  stripe[s] \in StripeRefunds /\ stripe[s].row \in RefundIds /\ stripe[s].amount \in 1 .. Total
  BY DEF TypeOK, Made, StripeRefunds

\* A new refund adds its amount to what was given back.
LEMMA GivenBackGrows ==
  ASSUME TypeOK, NEW s \in StripeIds, ~Made(s), NEW k \in StripeRefunds,
         stripe' = [stripe EXCEPT ![s] = k]
  PROVE  GivenBack' = GivenBack + k.amount
<1> DEFINE S == {t \in StripeIds : Made(t)}
           f == [t \in StripeIds |-> stripe[t].amount]
           h == [t \in StripeIds |-> stripe'[t].amount]
<1>1. /\ stripe'[s] = k /\ k # NoRefund
      /\ \A t \in StripeIds : t # s => stripe'[t] = stripe[t]
  BY NothingAssumption DEF TypeOK
<1>2. {t \in StripeIds : stripe'[t] # NoRefund} = S \cup {s}
  BY <1>1 DEF Made
<1>3. IsFiniteSet(S) /\ s \notin S
  <2>1. IsFiniteSet(StripeIds) /\ S \subseteq StripeIds
    BY NothingAssumption
  <2> QED BY <2>1, FS_Subset DEF Made
<1>4. h[s] \in Nat /\ h[s] = k.amount
  BY <1>1, AmountsAssumption DEF StripeRefunds
<1>5. \A t \in S : f[t] \in Nat /\ h[t] = f[t]
  <2> SUFFICES ASSUME NEW t \in S PROVE f[t] \in Nat /\ h[t] = f[t]
    OBVIOUS
  <2>1. t \in StripeIds /\ Made(t) /\ t # s
    BY <1>3
  <2>2. stripe[t].amount \in 1 .. Total
    BY <2>1, StripeRecord
  <2> QED BY <1>1, <2>1, <2>2, AmountsAssumption
<1> HIDE DEF S, f, h
<1>6. SumFunctionOnSet(h, S \cup {s}) = SumFunctionOnSet(f, S) + h[s]
  <2>1. h[s] \in Nat
    BY <1>4
  <2> QED BY ONLY <1>3, <2>1, <1>5, SumOfOneMore, ZenonT(30)
<1>7. GivenBack = SumFunctionOnSet(f, S) /\ GivenBack' = SumFunctionOnSet(h, S \cup {s})
  BY <1>2 DEF GivenBack, S, f, h, Made
<1> QED BY <1>4, <1>6, <1>7

\* What was given back is a number, and covers every refund.
LEMMA GivenBackCovers ==
  ASSUME TypeOK
  PROVE  /\ GivenBack \in Nat
         /\ \A s \in StripeIds : Made(s) => stripe[s].amount <= GivenBack
<1> DEFINE S == {t \in StripeIds : Made(t)}
           f == [t \in StripeIds |-> stripe[t].amount]
           g == [t \in S |-> stripe[t].amount]
<1>1. IsFiniteSet(S)
  <2>1. IsFiniteSet(StripeIds) /\ S \subseteq StripeIds
    BY NothingAssumption
  <2> QED BY <2>1, FS_Subset
<1>2. \A t \in S : stripe[t].amount \in Nat
  BY StripeRecord, AmountsAssumption
<1>3. g \in [S -> Nat]
  BY <1>2
<1>4. SumFunctionOnSet(g, S) \in Nat /\ \A t \in S : g[t] <= SumFunctionOnSet(g, S)
  <2> HIDE DEF S, g
  <2> QED BY <1>1, <1>3, SumIsNat
<1>5. SumFunctionOnSet(f, S) = SumFunctionOnSet(g, S)
  <2>1. \A t \in S : f[t] = g[t]
    OBVIOUS
  <2> HIDE DEF S, f, g
  <2> QED BY ONLY <1>1, <2>1, SumAgrees, ZenonT(30)
<1>6. GivenBack = SumFunctionOnSet(f, S)
  BY DEF GivenBack, Made
<1> QED BY <1>4, <1>5, <1>6

\* Stripe makes a refund, or does not, and the call goes on.
LEMMA AskStripeStep ==
  ASSUME IInv, NEW c \in Calls, AskStripe(c)
  PROVE  IInv'
<1> USE DEF IInv
<1>1. /\ Active(c) /\ call[c].step = "ask"
      /\ UNCHANGED <<order, refund, acked, posted>>
  BY DEF AskStripe, At, Active
<1>2. faults' \in SUBSET Faults /\ (Goes(c, "asked") \/ Goes(c, "failed"))
  BY DEF AskStripe, TypeOK
<1>3. /\ call' \in [Calls -> CallStates] /\ Only(c) /\ Active(c)'
      /\ call'[c].step \in {"asked", "failed"} /\ call'[c].row = call[c].row
      /\ call'[c].amount = call[c].amount
  BY <1>1, <1>2, GoesEffect DEF Steps
<1>4. /\ call[c].row \in RefundIds /\ call[c].amount \in 1 .. Total
      /\ refund[call[c].row] # NoRow /\ call[c].amount = refund[call[c].row].amount
  BY <1>1, CallRecord DEF CallInv, CallFact
<1>5. CallFact(c)' /\ call'[c].step # "create"
  BY <1>1, <1>3, <1>4 DEF CallFact
<1>6. CASE UNCHANGED stripe
  BY <1>1, <1>2, <1>3, <1>5, <1>6, QuietStep DEF TypeOK
<1>7. CASE ~UNCHANGED stripe
  <2> DEFINE s == CHOOSE s \in StripeIds : stripe[s] = NoRefund
             k == [row |-> call[c].row, amount |-> call[c].amount]
  <2>1. /\ GivenBack + call[c].amount <= Total
        /\ s \in StripeIds /\ ~Made(s) /\ stripe' = [stripe EXCEPT ![s] = k]
    BY <1>7 DEF AskStripe, Made
  <2>2. k \in StripeRefunds /\ k.row = call[c].row /\ k.amount = call[c].amount
    BY <1>4 DEF StripeRefunds
  <2> HIDE DEF s, k
  <2>3. /\ stripe'[s] = k /\ k # NoRefund
        /\ \A t \in StripeIds : t # s => stripe'[t] = stripe[t]
        /\ stripe' \in [StripeIds -> StripeRefunds \cup {NoRefund}]
    BY <2>1, <2>2, NothingAssumption DEF TypeOK
  <2>4. TypeOK'
    BY <1>1, <1>2, <1>3, <2>3 DEF TypeOK
  <2>5. Kept(c)
    BY <1>1, <2>1, <2>3 DEF Kept, Made
  <2>6. CallInv'
    BY <1>1, <1>3, <1>5, <2>5, CallsKept
  <2>7. StripeInv'
    BY <1>1, <1>4, <2>2, <2>3 DEF StripeInv, Made
  <2>8. PostedInv'
    BY <1>1, <2>1, <2>3 DEF PostedInv, Made, Status
  <2>9. SumInv'
    <3>1. GivenBack' = GivenBack + k.amount
      BY <2>1, <2>2, GivenBackGrows
    <3>2. GivenBack' <= Total
      BY <2>1, <2>2, <3>1
    <3> QED BY <1>1, <2>1, <2>3, <3>2 DEF SumInv, Made
  <2> QED BY <2>4, <2>6, <2>7, <2>8, <2>9
<1> QED BY <1>6, <1>7

\* A refund event tells the amount of the refund, which is that of its row.
LEMMA EventStep ==
  ASSUME IInv, NEW c \in Calls, NEW e \in Events, "charge.refunded" \notin Types,
         HandleStripeRefundEvent(c, e)
  PROVE  IInv'
<1> USE DEF IInv
<1> DEFINE s == e[2]
           r == stripe[s].row
           a == stripe[s].amount
<1>1. s \in StripeIds /\ e[1] \in Types
  BY DEF Events
<1>2. Made(s) /\ ~Active(c) /\ UNCHANGED <<order, refund, stripe, acked, posted, faults>>
  BY DEF HandleStripeRefundEvent, Made, Free, Active
<1>3. r \in RefundIds /\ a \in 1 .. Total /\ refund[r] # NoRow /\ a = refund[r].amount
  BY <1>1, <1>2, StripeRecord DEF StripeInv
<1>4. Starts(c, "confirm", r, a, FALSE, e)
  <2>1. EventAmount(e) = a
    BY <1>1 DEF EventAmount
  <2> QED BY <2>1 DEF HandleStripeRefundEvent
<1> HIDE DEF r, a
<1>5. /\ call' \in [Calls -> CallStates] /\ Active(c)' /\ Only(c)
      /\ call'[c].step = "confirm" /\ call'[c].row = r /\ call'[c].amount = a /\ call'[c].event = e
  <2>1. "confirm" \in Steps /\ e \in Events \cup {NoRefund} /\ FALSE \in BOOLEAN
    BY DEF Steps
  <2>2. TypeOK /\ r \in RefundIds /\ a \in 1 .. Total
    BY <1>3
  <2> QED BY ONLY <1>4, <2>1, <2>2, c \in Calls, StartsEffect, ZenonT(30)
<1>6. CallFact(c)'
  BY <1>2, <1>3, <1>5 DEF CallFact, Made, r
<1>7. \A d \in Calls : (Active(d) /\ call[d].step = "create") => call[d].row # r
  BY <1>3 DEF CallInv, CallFact
<1> QED BY <1>2, <1>5, <1>6, <1>7, QuietStep DEF TypeOK

\* A confirmation of a row that can be confirmed goes on to its transaction.
LEMMA ConfirmStep ==
  ASSUME IInv, NEW c \in Calls, ConfirmProviderRefund(c)
  PROVE  IInv'
<1> USE DEF IInv
<1>1. /\ Active(c) /\ call[c].step = "confirm"
      /\ UNCHANGED <<order, refund, stripe, posted, faults>>
  BY DEF ConfirmProviderRefund, At, Active
<1>2. CallFact(c) /\ call[c] \in CallRows /\ call[c].event \in Events
  BY <1>1, CallRecord DEF CallInv, CallFact
<1>3. CASE Status(call[c].row) \in ProviderConfirmable
  <2>1. /\ call' = [call EXCEPT ![c].step = "commit", ![c].seen = order]
        /\ UNCHANGED acked
    BY <1>3 DEF ConfirmProviderRefund
  <2>2. call'[c] = [call[c] EXCEPT !.step = "commit", !.seen = order] /\ Only(c)
    BY <2>1 DEF TypeOK, Only
  <2>3. call'[c] \in CallRows
    BY <1>2, <2>2 DEF CallRows, Steps, TypeOK
  <2>4. /\ call'[c].step = "commit" /\ call'[c].row = call[c].row
        /\ call'[c].amount = call[c].amount /\ call'[c].event = call[c].event
    BY <1>2, <2>2 DEF CallRows
  <2>5. call' \in [Calls -> CallStates]
    BY <2>1, <2>3 DEF TypeOK, CallStates
  <2>6. CallFact(c)'
    BY <1>1, <1>2, <2>4 DEF CallFact, Made
  <2> QED BY <1>1, <2>1, <2>2, <2>4, <2>5, <2>6, QuietStep DEF TypeOK
<1>4. CASE Status(call[c].row) \notin ProviderConfirmable
  <2>1. Returns(c) /\ acked' = acked \cup {call[c].event}
    BY <1>4 DEF ConfirmProviderRefund
  <2>2. call' \in [Calls -> CallStates] /\ Only(c) /\ ~Active(c)'
    BY <2>1, ReturnsEffect
  <2>3. acked' \in SUBSET Events
    BY <1>2, <2>1 DEF TypeOK
  <2> QED BY <1>1, <2>2, <2>3, QuietStep DEF TypeOK
<1> QED BY <1>3, <1>4

\* The transaction completes the row, posts its amount once and writes the order.
LEMMA CommitStep ==
  ASSUME IInv, NEW c \in Calls, CommitRefund(c)
  PROVE  IInv'
<1> USE DEF IInv
<1> DEFINE r == call[c].row
           a == call[c].amount
           s == call[c].event[2]
           new == [status |-> "COMPLETED", amount |-> a]
<1>1. Active(c) /\ call[c].step = "commit"
  BY DEF CommitRefund, At, Active
<1>2. /\ refund' = [refund EXCEPT ![r] = new] /\ order' = OrderAfter(call[c].seen, a)
      /\ posted' = [posted EXCEPT ![r] = IF @ = 0 THEN a ELSE @]
      /\ acked' = acked \cup {call[c].event} /\ Returns(c) /\ UNCHANGED <<stripe, faults>>
  BY DEF CommitRefund, PostRefund
<1>3. /\ r \in RefundIds /\ a \in 1 .. Total /\ refund[r] # NoRow /\ a = refund[r].amount
      /\ call[c].event \in Events /\ s \in StripeIds /\ Made(s) /\ stripe[s].row = r
  BY <1>1, CallRecord DEF CallInv, CallFact, Events
<1>4. stripe[s].amount = a
  BY <1>3 DEF StripeInv
<1>5. new \in RefundRows /\ new.amount = a /\ new.status = "COMPLETED"
  BY <1>3 DEF RefundRows, RefundStatus
<1> HIDE DEF r, a, s, new
<1>6. new # NoRow
  BY <1>5, NothingAssumption
<1>7. call' \in [Calls -> CallStates] /\ Only(c) /\ ~Active(c)'
  BY <1>2, ReturnsEffect
<1>8. refund'[r] = new /\ \A q \in RefundIds : q # r => refund'[q] = refund[q]
  BY <1>2, <1>3 DEF TypeOK
<1>9. posted'[r] = a /\ \A q \in RefundIds : q # r => posted'[q] = posted[q]
  <2>1. posted[r] \in 0 .. Total /\ (posted[r] > 0 => posted[r] = a)
    BY <1>3 DEF TypeOK, PostedInv
  <2>2. posted[r] # 0 => posted[r] = a
    BY <2>1, AmountsAssumption
  <2> QED BY <1>2, <1>3, <2>2 DEF TypeOK
<1>10. TypeOK'
  <2>1. order' \in OrderStatus
    BY <1>2 DEF OrderAfter, OrderStatus, TypeOK
  <2>2. refund' \in [RefundIds -> RefundRows \cup {NoRow}]
    BY <1>2, <1>3, <1>5 DEF TypeOK
  <2>3. posted' \in [RefundIds -> 0 .. Total]
    <3>1. a \in 0 .. Total /\ posted[r] \in 0 .. Total
      BY <1>3, AmountsAssumption DEF TypeOK
    <3> QED BY <1>2, <1>3, <3>1 DEF TypeOK
  <2>4. acked' \in SUBSET Events
    BY <1>2, <1>3 DEF TypeOK
  <2> QED BY <1>2, <1>7, <2>1, <2>2, <2>3, <2>4 DEF TypeOK
<1>11. Kept(c)
  BY <1>2, <1>3, <1>5, <1>6, <1>8 DEF Kept
<1>12. CallInv'
  BY <1>7, <1>11, CallsKept
<1>13. StripeInv'
  <2>1. \A t \in StripeIds : Made(t) => stripe[t].row \in RefundIds
    BY StripeRecord
  <2> QED BY <1>2, <1>11, <2>1 DEF StripeInv, Kept, Made
<1>14. PostedInv'
  <2> SUFFICES ASSUME NEW q \in RefundIds
               PROVE  /\ posted'[q] > 0 =>
                            /\ refund'[q] # NoRow /\ posted'[q] = refund'[q].amount
                            /\ \E t \in StripeIds : stripe'[t] # NoRefund /\ stripe'[t].row = q
                      /\ Status(q)' = "COMPLETED" => posted'[q] > 0
    BY DEF PostedInv, Made
  <2>1. CASE q = r
    BY <1>2, <1>3, <1>5, <1>6, <1>8, <1>9, <2>1, AmountsAssumption DEF Made
  <2>2. CASE q # r
    BY <1>2, <1>8, <1>9, <2>2 DEF PostedInv, Made, Status
  <2> QED BY <2>1, <2>2
<1>15. SumInv'
  <2>1. GivenBack' = GivenBack
    BY <1>2 DEF GivenBack
  <2>2. order' = "REFUNDED" => order = "REFUNDED" \/ a >= Total
    BY <1>2 DEF OrderAfter
  <2> QED BY <1>2, <1>3, <1>4, <2>1, <2>2 DEF SumInv, Made
<1> QED BY <1>10, <1>12, <1>13, <1>14, <1>15

-----------------------------------------------------------------------------
(* The theorem                                                             *)

\* It holds before the first request.
LEMMA InitIInv == Init => IInv
<1> SUFFICES ASSUME Init PROVE IInv
  OBVIOUS
<1> USE AmountsAssumption
<1>1. TypeOK
  BY DEF Init, TypeOK, OrderStatus, CallStates
<1>2. CallInv /\ StripeInv
  BY DEF Init, CallInv, StripeInv, Active, Made
<1>3. PostedInv
  BY DEF Init, PostedInv, Status
<1>4. SumInv
  <2>1. {s \in StripeIds : stripe[s] # NoRefund} = {}
    BY DEF Init
  <2>2. GivenBack = 0
    BY <2>1, SumOfNone DEF GivenBack
  <2> QED BY <2>2 DEF SumInv, Init
<1> QED BY <1>1, <1>2, <1>3, <1>4 DEF IInv

\* Every step keeps it.
LEMMA NextIInv == ASSUME IInv, "charge.refunded" \notin Types, [Next]_vars PROVE IInv'
<1>1. CASE UNCHANGED vars
  BY <1>1 DEF vars, IInv, TypeOK, CallInv, CallFact, StripeInv, PostedInv, SumInv, Active,
                 Made, Status, GivenBack
<1>2. ASSUME NEW c \in Calls, RefundRoutes(c) PROVE IInv'
  BY <1>2, RequestRefundStep, StartOnStep, RejectRefundStep DEF RefundRoutes
<1>3. ASSUME NEW c \in Calls, RefundPayment(c) PROVE IInv'
  BY <1>3, RequestRefundStep DEF RefundPayment
<1>4. ASSUME NEW c \in Calls, Handler(c) PROVE IInv'
  BY <1>4, CreateStep, ApproveRefundStep, WritesStep, RequestProviderRefundStep, AskStripeStep,
     ConfirmStep, CommitStep DEF Handler
<1>5. ASSUME NEW c \in Calls, Crash(c) PROVE IInv'
  BY <1>5, CrashStep
<1>6. ASSUME NEW c \in Calls, NEW e \in Events, HandleStripeRefundEvent(c, e) PROVE IInv'
  BY <1>6, EventStep
<1> QED BY <1>1, <1>2, <1>3, <1>4, <1>5, <1>6 DEF Next

\* It says what RefundsAgree says.
LEMMA IInvAgrees == IInv => RefundsAgree
<1> SUFFICES ASSUME IInv PROVE RefundsAgree
  OBVIOUS
<1> USE DEF IInv
<1>1. PostedIsRefunded
  BY DEF PostedIsRefunded, PostedInv, StripeInv, Made
<1>2. CompletedIsPosted
  BY DEF CompletedIsPosted, PostedInv
<1>3. RefundedMeansAll
  <2> SUFFICES ASSUME order = "REFUNDED" PROVE GivenBack = Total
    BY DEF RefundedMeansAll
  <2>1. PICK s \in StripeIds : Made(s) /\ stripe[s].amount >= Total
    BY DEF SumInv
  <2>2. GivenBack \in Nat /\ stripe[s].amount <= GivenBack /\ stripe[s].amount \in 1 .. Total
    BY <2>1, GivenBackCovers, StripeRecord
  <2> QED BY <2>1, <2>2, AmountsAssumption DEF SumInv
<1> QED BY <1>1, <1>2, <1>3 DEF RefundsAgree

\* Postings, rows and the status of the order tell what Stripe gave back and no more, for any
\* amounts, calls, crashes and deliveries of refund.created and refund.updated.
\* (A charge.refunded event carries the amount of the charge, not that of the refund.)
THEOREM RefundsSafe ==
  ASSUME "charge.refunded" \notin Types
  PROVE  Spec => []RefundsAgree
<1>1. Init => IInv
  BY InitIInv
<1>2. IInv /\ [Next]_vars => IInv'
  BY NextIInv
<1>3. IInv => RefundsAgree
  BY IInvAgrees
<1> QED BY <1>1, <1>2, <1>3, PTL DEF Spec
=============================================================================
