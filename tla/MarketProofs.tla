---------------------------- MODULE MarketProofs ----------------------------
(***************************************************************************)
(* The theorems of the marketplace: requests for quotation (AwardHolds,    *)
(* ToldCanOpen, DecidedStaysDecided), imports (ImportedOnce), and the      *)
(* catalog, its search and its lists (ShownIsCatalog, PagesComplete), for  *)
(* any vendors, prices, products, files, queries and calls.                *)
(*                                                                         *)
(* What a call has read before an await stays true until it writes for one *)
(* of two reasons: the lock on the request's row (LockInv), or that calls  *)
(* which could change it do not run meanwhile (Apart, SkuInv).             *)
(***************************************************************************)
EXTENDS MCCatalog, Rfq, SumTheorems, TLAPS

-----------------------------------------------------------------------------
(* Requests for quotation                                                  *)

Active(c) == call[c] # NoCall

Decided == rfq.status \in {"AWARDED", "CLOSED"}

OneBuyer == mode \in {"alone", "vendors"}

BuyerSteps == {"awardRead", "awarding", "accepted", "reject", "rejected", "close"}

\* The calls that name an offer.
OnOffer == {"awardRead", "awarding", "accepted", "reject", "rejected"}

\* Two calls at once are both of the buyer's side or both of vendors.
Apart ==
  mode # "all" => \A c, d \in Calls : (c # d /\ Active(c) /\ Active(d)) =>
    \/ mode = "buyers" /\ call[c].step \in BuyerSteps /\ call[d].step \in BuyerSteps
    \/ mode = "vendors" /\ call[c].step \in VendorSteps /\ call[d].step \in VendorSteps

\* The lock is held by the call that awards, and by no other.
LockInv ==
  /\ locked # NoCall => At(locked, "awarding")
  /\ \A c \in Calls : At(c, "awarding") => locked = c

\* The offer a call or a notification is about is there, and so is the request.
OfferInv ==
  /\ \A c \in Calls : Active(c) =>
       /\ rfq.status # "none"
       /\ call[c].step \in OnOffer => offer[call[c].shop] # NoOffer
  /\ \A s \in Shops : offer[s] # NoOffer => rfq.status # "none"
  /\ \A s \in Shops : (\E e \in {"accepted", "rejected", "closed"} : <<e, s>> \in notified)
                        => offer[s] # NoOffer

\* What the steps of a call rely on.
CallFact(c) ==
  LET s == call[c].step
      o == offer[call[c].shop]
  IN  /\ s \in CreateSteps \cup VendorSteps \cup {"awarding"} => rfq.status \in OpenStatuses
      /\ s = "accepted" => Decided
      /\ OneBuyer =>
           /\ s = "awarding" => o = [status |-> "PENDING", total |-> call[c].total]
           /\ s = "reject" => o.status = "PENDING"
           /\ s = "accepted" => o.status = "ACCEPTED"

CallInv == mode # "all" => \A c \in Calls : Active(c) => CallFact(c)

Pending(s) == offer[s] # NoOffer /\ offer[s].status = "PENDING"

\* An order, or the news of an award, means a decision, and a decision is the last word
\* on every offer.
DecisionInv ==
  mode # "all" =>
    /\ Made # {} => Decided
    /\ Cardinality(Made) <= 1
    /\ Decided => \A s \in Shops : ~Pending(s)
    /\ \A s \in Shops : <<"accepted", s>> \in notified =>
         Decided /\ (OneBuyer => offer[s].status = "ACCEPTED")
    /\ OneBuyer => \A o \in Made :
         offer[order[o].shop] = [status |-> "ACCEPTED", total |-> order[o].total]

IInv == TypeOK /\ Apart /\ LockInv /\ OfferInv /\ CallInv /\ DecisionInv

-----------------------------------------------------------------------------
(* Calls                                                                   *)

\* Only call c has moved.
Only(c) == \A d \in Calls : d # c => call'[d] = call[d]

\* A call that is not free is a record.
LEMMA CallRecord ==
  ASSUME TypeOK, NEW c \in Calls, Active(c)
  PROVE  /\ call[c] \in CallRows
         /\ call[c].step \in Steps /\ call[c].shop \in Shops
         /\ call[c].total \in Prices /\ call[c].found \in SUBSET Shops
  BY DEF TypeOK, CallStates, CallRows, Active

LEMMA RowIsCall ==
  /\ \A x \in CallRows : x # NoCall
  /\ CallStates = {NoCall} \cup CallRows
  BY NothingAssumption DEF CallStates, CallRows

LEMMA AnyIsThere == AnyShop \in Shops /\ AnyPrice \in Prices
  BY RfqAssumption DEF AnyShop, AnyPrice

\* A request starts a call.
LEMMA BeginEffect ==
  ASSUME TypeOK, NEW c \in Calls, NEW s \in Steps, NEW p \in Shops, NEW t \in Prices,
         Begin(c, s, p, t)
  PROVE  /\ call' \in [Calls -> CallStates]
         /\ call'[c] \in CallRows /\ call'[c] # NoCall
         /\ call'[c].step = s /\ call'[c].shop = p /\ call'[c].total = t
         /\ Only(c)
<1>1. call \in [Calls -> CallStates]
  BY DEF TypeOK
<1>2. call'[c] = [step |-> s, shop |-> p, total |-> t, found |-> {}]
  BY <1>1 DEF Begin
<1>3. call'[c] \in CallRows
  BY <1>2 DEF CallRows
<1>4. Only(c)
  BY <1>1 DEF Begin, Only
<1>5. call' \in [Calls -> CallStates]
  BY <1>1, <1>2, <1>3, RowIsCall DEF Begin
<1> QED BY <1>2, <1>3, <1>4, <1>5, RowIsCall

\* A call goes to its next step.
LEMMA GoesEffect ==
  ASSUME TypeOK, NEW c \in Calls, Active(c), NEW s \in Steps, Goes(c, s)
  PROVE  /\ call' \in [Calls -> CallStates]
         /\ call'[c] \in CallRows /\ call'[c] # NoCall
         /\ call'[c].step = s /\ call'[c].shop = call[c].shop /\ call'[c].total = call[c].total
         /\ Only(c)
<1>1. call \in [Calls -> CallStates]
  BY DEF TypeOK
<1>2. call[c] \in CallRows
  BY CallRecord
<1>3. call'[c] = [call[c] EXCEPT !.step = s]
  BY <1>1 DEF Goes
<1>4. call'[c] \in CallRows
  BY <1>2, <1>3 DEF CallRows
<1>5. Only(c)
  BY <1>1 DEF Goes, Only
<1>6. call' \in [Calls -> CallStates]
  BY <1>1, <1>4, RowIsCall DEF Goes
<1>7. call'[c].step = s /\ call'[c].shop = call[c].shop /\ call'[c].total = call[c].total
  BY <1>2, <1>3 DEF CallRows
<1> QED BY <1>4, <1>5, <1>6, <1>7, RowIsCall

\* A call returns.
LEMMA ReturnsEffect ==
  ASSUME TypeOK, NEW c \in Calls, Returns(c)
  PROVE  call' \in [Calls -> CallStates] /\ call'[c] = NoCall /\ Only(c)
  BY RowIsCall DEF TypeOK, Returns, Only

-----------------------------------------------------------------------------
(* What most steps leave alone                                             *)

Fates == {"accepted", "rejected", "closed"}

\* A call that keeps its side leaves the calls apart.
LEMMA ApartKept ==
  ASSUME Apart, mode' = mode, NEW c \in Calls, Only(c),
         call'[c] # NoCall =>
           /\ Active(c)
           /\ call[c].step \in BuyerSteps => call'[c].step \in BuyerSteps
           /\ call[c].step \in VendorSteps => call'[c].step \in VendorSteps
  PROVE  Apart'
  BY DEF Apart, Only, Active

\* So does one that starts.
LEMMA ApartStarts ==
  ASSUME TypeOK, Apart, mode' = mode, NEW c \in Calls, NEW side, MayStart(c, side), Only(c),
         side = "buyer" => call'[c].step \in BuyerSteps,
         side = "vendor" => call'[c].step \in VendorSteps
  PROVE  Apart'
<1>1. \A d \in Calls : Active(d) => call[d].step \in Steps
  BY CallRecord
<1>2. CASE mode = "all"
  BY <1>2 DEF Apart
<1>3. CASE ~Busy(Steps)
  <2>1. \A d \in Calls : d # c => call'[d] = NoCall
    BY <1>1, <1>3 DEF Busy, Active, Only
  <2> QED BY <2>1 DEF Apart, Active
<1>4. CASE mode = "buyers" /\ side = "buyer" /\ ~Busy(CreateSteps \cup VendorSteps)
  <2>1. \A d \in Calls : Active(d) => call[d].step \in BuyerSteps
    BY <1>1, <1>4 DEF Busy, Active, Steps, CreateSteps, VendorSteps, BuyerSteps
  <2> QED BY <1>4, <2>1 DEF Apart, Active, Only
<1>5. CASE mode = "vendors" /\ side = "vendor" /\ ~Busy(Steps \ VendorSteps)
  <2>1. \A d \in Calls : Active(d) => call[d].step \in VendorSteps
    BY <1>1, <1>5 DEF Busy, Active
  <2> QED BY <1>5, <2>1 DEF Apart, Active, Only
<1> QED BY <1>2, <1>3, <1>4, <1>5 DEF MayStart

\* A step that tells nobody of his fate and leaves offers, orders and the status alone.
LEMMA QuietStep ==
  ASSUME IInv, NEW c \in Calls, Only(c), UNCHANGED <<mode, offer, order>>,
         rfq'.status = rfq.status,
         \A e \in Fates, s \in Shops : <<e, s>> \in notified' => <<e, s>> \in notified,
         Active(c)' => /\ rfq.status # "none"
                       /\ call'[c].step \in OnOffer => offer[call'[c].shop] # NoOffer
                       /\ mode # "all" => CallFact(c)'
  PROVE  OfferInv' /\ CallInv' /\ DecisionInv'
<1>1. OfferInv'
  BY DEF IInv, OfferInv, Only, Active, Fates
<1>2. CallInv'
  <2> SUFFICES ASSUME mode # "all", NEW d \in Calls, Active(d)'
               PROVE  CallFact(d)'
    BY DEF CallInv
  <2>1. CASE d = c
    BY <2>1
  <2>2. CASE d # c
    BY <2>2 DEF IInv, CallInv, CallFact, Only, Active, OneBuyer, Decided
  <2> QED BY <2>1, <2>2
<1>3. DecisionInv'
  <2>1. Made' = Made /\ Decided' = Decided /\ OneBuyer' = OneBuyer
    BY DEF Made, Decided, OneBuyer
  <2>2. \A s \in Shops : Pending(s)' = Pending(s)
    BY DEF Pending
  <2>3. \A s \in Shops : <<"accepted", s>> \in notified' => <<"accepted", s>> \in notified
    BY DEF Fates
  <2> QED BY <2>1, <2>2, <2>3 DEF IInv, DecisionInv
<1> QED BY <1>1, <1>2, <1>3

\* The lock stays with its holder when c neither takes it nor has it.
LEMMA LockKept ==
  ASSUME TypeOK, LockInv, locked' = locked, NEW c \in Calls, Only(c),
         ~At(c, "awarding"), ~At(c, "awarding")'
  PROVE  LockInv'
<1>1. locked # c
  BY NothingAssumption DEF LockInv
<1> QED BY <1>1 DEF LockInv, At, Only, TypeOK

-----------------------------------------------------------------------------
(* create                                                                  *)

LEMMA CreateStep ==
  ASSUME IInv, NEW c \in Calls, Create(c)
  PROVE  IInv'
<1> USE DEF IInv
<1>1. /\ call' \in [Calls -> CallStates] /\ call'[c] \in CallRows
      /\ call'[c].step = "match" /\ Only(c)
  BY BeginEffect, AnyIsThere DEF Create, Steps
<1>2. \A d \in Calls : ~Active(d)
  BY DEF Create, OfferInv
<1>3. \A s \in Shops : offer[s] = NoOffer
  BY DEF Create, OfferInv
<1>4. rfq' = [rfq EXCEPT !.status = "OPEN"] /\ rfq'.status = "OPEN" /\ ~Decided /\ ~Decided'
  BY DEF Create, TypeOK, RfqRows, Decided
<1>5. TypeOK'
  BY <1>1, <1>4 DEF TypeOK, Create, RfqRows, RfqStatus
<1>6. Apart'
  BY <1>1, <1>2 DEF Apart, Active, Only
<1>7. LockInv'
  BY <1>1, <1>2, LockKept DEF Create, At, Active
<1>8. OfferInv'
  BY <1>1, <1>2, <1>3, <1>4 DEF OfferInv, Active, Only, OnOffer, Create
<1>9. CallInv'
  BY <1>1, <1>2, <1>4 DEF CallInv, CallFact, Active, Only, CreateSteps, OpenStatuses
<1>10. DecisionInv'
  <2>1. Made' = Made /\ mode' = mode /\ UNCHANGED <<offer, order, notified>>
    BY DEF Made, Create
  <2> QED BY <1>4, <2>1 DEF DecisionInv
<1> QED BY <1>5, <1>6, <1>7, <1>8, <1>9, <1>10

LEMMA MatchVendorsStep ==
  ASSUME IInv, NEW c \in Calls, MatchVendors(c)
  PROVE  IInv'
<1> USE DEF IInv
<1>1. PICK S \in SUBSET Shops :
        /\ matched' = matched \cup S
        /\ call' = [call EXCEPT ![c].step = "status", ![c].found = S]
  BY DEF MatchVendors
<1>2. Active(c) /\ call[c].step = "match" /\ call[c] \in CallRows
  BY CallRecord DEF MatchVendors, At, Active
<1>3. call'[c] = [call[c] EXCEPT !.step = "status", !.found = S] /\ Only(c)
  BY <1>1 DEF TypeOK, Only
<1>4. call'[c] \in CallRows /\ call'[c].step = "status"
  BY <1>2, <1>3 DEF CallRows, Steps
<1>5. call' \in [Calls -> CallStates]
  BY <1>1, <1>4, RowIsCall DEF TypeOK
<1>6. TypeOK'
  BY <1>1, <1>5 DEF TypeOK, MatchVendors
<1>7. Apart'
  BY <1>2, <1>3, <1>4, ApartKept DEF MatchVendors, BuyerSteps, VendorSteps
<1>8. LockInv'
  BY <1>2, <1>3, <1>4, LockKept DEF MatchVendors, At
<1>9. mode # "all" => CallFact(c)'
  BY <1>2, <1>4 DEF CallInv, CallFact, CreateSteps, MatchVendors
<1>10. OfferInv' /\ CallInv' /\ DecisionInv'
  BY <1>2, <1>3, <1>4, <1>9, QuietStep DEF MatchVendors, OfferInv, OnOffer
<1> QED BY <1>6, <1>7, <1>8, <1>10

\* A write of an open status by a call that runs apart from decisions.
LEMMA OpenWrite ==
  ASSUME IInv, NEW c \in Calls, Active(c), call[c].step \in CreateSteps \cup VendorSteps,
         Only(c), Active(c)', call'[c].step \in CreateSteps \cup VendorSteps,
         UNCHANGED <<mode, offer, order, notified>>,
         rfq'.status \in OpenStatuses
  PROVE  OfferInv' /\ CallInv' /\ DecisionInv'
<1> USE DEF IInv
<1>1. rfq'.status # "none" /\ ~Decided'
  BY DEF OpenStatuses, Decided
<1>2. OfferInv'
  BY <1>1 DEF OfferInv, Only, Active, OnOffer, CreateSteps, VendorSteps
<1>3. mode # "all" => ~Decided
  BY DEF CallInv, CallFact, OpenStatuses, Decided
<1>4. CallInv'
  <2> SUFFICES ASSUME mode # "all", NEW d \in Calls, Active(d)'
               PROVE  CallFact(d)'
    BY DEF CallInv
  <2>1. CASE d = c
    BY <2>1 DEF CallFact, CreateSteps, VendorSteps
  <2>2. CASE d # c
    <3>1. Active(d) /\ call'[d] = call[d]
      BY <2>2 DEF Only, Active
    <3>2. call[d].step \in VendorSteps
      BY <2>2, <3>1 DEF Apart, BuyerSteps, CreateSteps, VendorSteps
    <3> QED BY <3>1, <3>2 DEF CallFact, VendorSteps
  <2> QED BY <2>1, <2>2
<1>5. DecisionInv'
  <2>1. Made' = Made
    BY DEF Made
  <2> QED BY <1>1, <1>3, <2>1 DEF DecisionInv
<1> QED BY <1>2, <1>4, <1>5

LEMMA WriteMatchedStep ==
  ASSUME IInv, NEW c \in Calls, WriteMatched(c)
  PROVE  IInv'
<1> USE DEF IInv
<1>1. Active(c) /\ call[c].step = "status"
  BY DEF WriteMatched, At, Active
<1>2. /\ call' \in [Calls -> CallStates] /\ Active(c)' /\ call'[c].step = "announce" /\ Only(c)
  BY <1>1, GoesEffect DEF WriteMatched, Steps, Active
<1>3. rfq' \in RfqRows /\ rfq'.status \in OpenStatuses
  BY DEF WriteMatched, TypeOK, RfqRows, RfqStatus, OpenStatuses
<1>4. TypeOK'
  BY <1>2, <1>3 DEF TypeOK, WriteMatched
<1>5. Apart'
  BY <1>1, <1>2, ApartKept DEF WriteMatched, BuyerSteps, VendorSteps
<1>6. LockInv'
  BY <1>1, <1>2, LockKept DEF WriteMatched, At
<1>7. OfferInv' /\ CallInv' /\ DecisionInv'
  BY <1>1, <1>2, <1>3, OpenWrite DEF WriteMatched, CreateSteps
<1> QED BY <1>4, <1>5, <1>6, <1>7

LEMMA RfqCreatedStep ==
  ASSUME IInv, NEW c \in Calls, RfqCreated(c)
  PROVE  IInv'
<1> USE DEF IInv
<1>1. Active(c) /\ call[c].step = "announce"
  BY DEF RfqCreated, At, Active
<1>2. call' \in [Calls -> CallStates] /\ call'[c] = NoCall /\ Only(c)
  BY ReturnsEffect DEF RfqCreated
<1>3. notified' \in SUBSET (Events \X Shops)
  BY DEF RfqCreated, TypeOK, Events
<1>4. \A e \in Fates, s \in Shops : <<e, s>> \in notified' => <<e, s>> \in notified
  BY DEF RfqCreated, Fates
<1>5. TypeOK'
  BY <1>2, <1>3 DEF TypeOK, RfqCreated
<1>6. Apart'
  BY <1>2, ApartKept DEF RfqCreated
<1>7. LockInv'
  BY <1>1, <1>2, LockKept DEF RfqCreated, At
<1>8. OfferInv' /\ CallInv' /\ DecisionInv'
  BY <1>2, <1>4, QuietStep DEF RfqCreated, Active
<1> QED BY <1>5, <1>6, <1>7, <1>8

LEMMA DeadlineStep ==
  ASSUME IInv, DeadlinePasses
  PROVE  IInv'
<1> USE DEF IInv
<1>1. rfq' \in RfqRows /\ rfq'.status = rfq.status
  BY DEF DeadlinePasses, TypeOK, RfqRows
<1>2. TypeOK'
  BY <1>1 DEF DeadlinePasses, TypeOK
<1>3. Apart' /\ LockInv'
  BY DEF DeadlinePasses, Apart, LockInv, Active, At
<1>4. OfferInv'
  BY <1>1 DEF DeadlinePasses, OfferInv, Active
<1>5. Decided' = Decided /\ OneBuyer' = OneBuyer /\ Made' = Made
  BY <1>1 DEF DeadlinePasses, Decided, OneBuyer, Made
<1>6. CallInv'
  BY <1>1, <1>5 DEF DeadlinePasses, CallInv, CallFact, Active
<1>7. DecisionInv'
  BY <1>5 DEF DeadlinePasses, DecisionInv, Pending
<1> QED BY <1>2, <1>3, <1>4, <1>6, <1>7

-----------------------------------------------------------------------------
(* createOffer                                                             *)

LEMMA CreateOfferStep ==
  ASSUME IInv, NEW c \in Calls, NEW s \in Shops, NEW p \in Prices, CreateOffer(c, s, p)
  PROVE  IInv'
<1> USE DEF IInv
<1>1. /\ call' \in [Calls -> CallStates] /\ Active(c)' /\ call'[c].step = "upsert" /\ Only(c)
  BY BeginEffect DEF CreateOffer, Steps, Active
<1>2. sent' \in [Shops -> 0 .. MaxRevisions]
  <2>1. sent[s] \in 0 .. MaxRevisions /\ sent[s] + 1 <= MaxRevisions
    BY RfqAssumption DEF CreateOffer, TypeOK, Revisions
  <2> QED BY <2>1, RfqAssumption DEF CreateOffer, TypeOK
<1>3. TypeOK'
  BY <1>1, <1>2 DEF TypeOK, CreateOffer
<1>4. Apart'
  BY <1>1, ApartStarts DEF CreateOffer, VendorSteps
<1>5. ~At(c, "awarding")
  BY DEF CreateOffer, MayStart, At
<1>6. LockInv'
  BY <1>1, <1>5, LockKept DEF CreateOffer, At
<1>7. CallFact(c)'
  BY <1>1 DEF CreateOffer, CallFact
<1>8. OfferInv' /\ CallInv' /\ DecisionInv'
  BY <1>1, <1>7, QuietStep DEF CreateOffer, OnOffer, OpenStatuses
<1> QED BY <1>3, <1>4, <1>6, <1>8

LEMMA UpsertOfferStep ==
  ASSUME IInv, NEW c \in Calls, UpsertOffer(c)
  PROVE  IInv'
<1> USE DEF IInv
<1>1. Active(c) /\ call[c].step = "upsert" /\ call[c].shop \in Shops /\ call[c].total \in Prices
  BY CallRecord DEF UpsertOffer, At, Active
<1>2. /\ call' \in [Calls -> CallStates] /\ Active(c)' /\ call'[c].step = "quote" /\ Only(c)
  BY <1>1, GoesEffect DEF UpsertOffer, Steps, Active
<1>3. [status |-> "PENDING", total |-> call[c].total] \in OfferRows
  BY <1>1 DEF OfferRows, RfqOfferStatus
<1>4. offer' \in [Shops -> OfferRows \cup {NoOffer}]
  BY <1>1, <1>3 DEF UpsertOffer, TypeOK
<1>5. \A s \in Shops : offer[s] # NoOffer => offer'[s] # NoOffer
  BY <1>1, <1>3, NothingAssumption DEF UpsertOffer, TypeOK
<1>6. TypeOK'
  BY <1>2, <1>4 DEF TypeOK, UpsertOffer
<1>7. Apart'
  BY <1>1, <1>2, ApartKept DEF UpsertOffer, BuyerSteps, VendorSteps
<1>8. LockInv'
  BY <1>1, <1>2, LockKept DEF UpsertOffer, At
<1>9. OfferInv'
  <2>1. rfq' = rfq /\ rfq.status # "none" /\ notified' = notified
    BY <1>1 DEF OfferInv, UpsertOffer
  <2>2. \A d \in Calls : Active(d) => call[d].shop \in Shops
    BY CallRecord
  <2> QED BY <1>2, <1>5, <2>1, <2>2 DEF OfferInv, Only, Active, OnOffer
<1>10. CallInv'
  <2> SUFFICES ASSUME mode # "all", NEW d \in Calls, Active(d)'
               PROVE  CallFact(d)'
    BY DEF CallInv, UpsertOffer
  <2>1. rfq' = rfq /\ rfq.status \in OpenStatuses
    BY <1>1 DEF UpsertOffer, CallInv, CallFact, VendorSteps
  <2>2. CASE d = c
    BY <1>2, <2>1, <2>2 DEF CallFact, VendorSteps
  <2>3. CASE d # c
    <3>1. Active(d) /\ call'[d] = call[d]
      BY <1>2, <2>3 DEF Only, Active
    <3>2. call[d].step \in VendorSteps
      BY <1>1, <2>3, <3>1 DEF Apart, BuyerSteps, VendorSteps
    <3> QED BY <2>1, <3>1, <3>2 DEF CallFact, VendorSteps
  <2> QED BY <2>2, <2>3
<1>11. DecisionInv'
  <2>1. mode # "all" => ~Decided
    BY <1>1 DEF CallInv, CallFact, VendorSteps, Decided, OpenStatuses
  <2>2. Made' = Made /\ Decided' = Decided /\ UNCHANGED <<mode, notified, order>>
    BY DEF UpsertOffer, Made, Decided
  <2> QED BY <2>1, <2>2 DEF DecisionInv
<1> QED BY <1>6, <1>7, <1>8, <1>9, <1>10, <1>11

LEMMA WriteQuotedStep ==
  ASSUME IInv, NEW c \in Calls, WriteQuoted(c)
  PROVE  IInv'
<1> USE DEF IInv
<1>1. Active(c) /\ call[c].step = "quote"
  BY DEF WriteQuoted, At, Active
<1>2. /\ call' \in [Calls -> CallStates] /\ Active(c)' /\ call'[c].step = "addMatch" /\ Only(c)
  BY <1>1, GoesEffect DEF WriteQuoted, Steps, Active
<1>3. rfq' \in RfqRows /\ rfq'.status \in OpenStatuses
  BY DEF WriteQuoted, TypeOK, RfqRows, RfqStatus, OpenStatuses
<1>4. TypeOK'
  BY <1>2, <1>3 DEF TypeOK, WriteQuoted
<1>5. Apart'
  BY <1>1, <1>2, ApartKept DEF WriteQuoted, BuyerSteps, VendorSteps
<1>6. LockInv'
  BY <1>1, <1>2, LockKept DEF WriteQuoted, At
<1>7. OfferInv' /\ CallInv' /\ DecisionInv'
  BY <1>1, <1>2, <1>3, OpenWrite DEF WriteQuoted, VendorSteps
<1> QED BY <1>4, <1>5, <1>6, <1>7

LEMMA EnsureMatchStep ==
  ASSUME IInv, NEW c \in Calls, EnsureMatch(c)
  PROVE  IInv'
<1> USE DEF IInv
<1>1. Active(c) /\ call[c].step = "addMatch" /\ call[c].shop \in Shops
  BY CallRecord DEF EnsureMatch, At, Active
<1>2. /\ call' \in [Calls -> CallStates] /\ Active(c)' /\ call'[c].step = "tell" /\ Only(c)
  BY <1>1, GoesEffect DEF EnsureMatch, Steps, Active
<1>3. TypeOK'
  BY <1>1, <1>2 DEF TypeOK, EnsureMatch
<1>4. Apart'
  BY <1>1, <1>2, ApartKept DEF EnsureMatch, BuyerSteps, VendorSteps
<1>5. LockInv'
  BY <1>1, <1>2, LockKept DEF EnsureMatch, At
<1>6. mode # "all" => CallFact(c)'
  BY <1>1, <1>2 DEF CallInv, CallFact, VendorSteps, EnsureMatch
<1>7. OfferInv' /\ CallInv' /\ DecisionInv'
  BY <1>1, <1>2, <1>6, QuietStep DEF EnsureMatch, OfferInv, OnOffer
<1> QED BY <1>3, <1>4, <1>5, <1>7

LEMMA RfqResponseCreatedStep ==
  ASSUME IInv, NEW c \in Calls, RfqResponseCreated(c)
  PROVE  IInv'
<1> USE DEF IInv
<1>1. Active(c) /\ call[c].step = "tell" /\ call[c].shop \in Shops
  BY CallRecord DEF RfqResponseCreated, At, Active
<1>2. call' \in [Calls -> CallStates] /\ call'[c] = NoCall /\ Only(c)
  BY ReturnsEffect DEF RfqResponseCreated
<1>3. notified' \in SUBSET (Events \X Shops)
  BY <1>1 DEF RfqResponseCreated, TypeOK, Events
<1>4. \A e \in Fates, s \in Shops : <<e, s>> \in notified' => <<e, s>> \in notified
  BY DEF RfqResponseCreated, Fates
<1>5. TypeOK'
  BY <1>2, <1>3 DEF TypeOK, RfqResponseCreated
<1>6. Apart'
  BY <1>2, ApartKept DEF RfqResponseCreated
<1>7. LockInv'
  BY <1>1, <1>2, LockKept DEF RfqResponseCreated, At
<1>8. OfferInv' /\ CallInv' /\ DecisionInv'
  BY <1>2, <1>4, QuietStep DEF RfqResponseCreated, Active
<1> QED BY <1>5, <1>6, <1>7, <1>8

-----------------------------------------------------------------------------
(* award                                                                   *)

LEMMA AcceptResponseStep ==
  ASSUME IInv, NEW c \in Calls, NEW s \in Shops, AcceptResponse(c, s)
  PROVE  IInv'
<1> USE DEF IInv
<1>1. /\ call' \in [Calls -> CallStates] /\ Active(c)' /\ call'[c].step = "awardRead"
      /\ call'[c].shop = s /\ Only(c)
  BY BeginEffect, AnyIsThere DEF AcceptResponse, Steps, Active
<1>2. TypeOK'
  BY <1>1 DEF TypeOK, AcceptResponse
<1>3. Apart'
  BY <1>1, ApartStarts DEF AcceptResponse, BuyerSteps
<1>4. ~At(c, "awarding")
  BY DEF AcceptResponse, MayStart, At
<1>5. LockInv'
  BY <1>1, <1>4, LockKept DEF AcceptResponse, At
<1>6. CallFact(c)'
  BY <1>1 DEF CallFact, CreateSteps, VendorSteps
<1>7. OfferInv' /\ CallInv' /\ DecisionInv'
  BY <1>1, <1>6, QuietStep DEF AcceptResponse
<1> QED BY <1>2, <1>3, <1>5, <1>7

LEMMA AwardReadStep ==
  ASSUME IInv, NEW c \in Calls, AwardRead(c)
  PROVE  IInv'
<1> USE DEF IInv
<1>1. Active(c) /\ call[c].step = "awardRead" /\ call[c] \in CallRows /\ call[c].shop \in Shops
  BY CallRecord DEF AwardRead, At, Active
<1>2. CASE ~(rfq.status \in OpenStatuses /\ offer[call[c].shop].status = "PENDING")
  <2>1. Returns(c) /\ UNCHANGED <<mode, rfq, offer, matched, order, notified, sent, locked>>
    BY <1>2 DEF AwardRead
  <2>2. call' \in [Calls -> CallStates] /\ call'[c] = NoCall /\ Only(c)
    BY <2>1, ReturnsEffect
  <2>3. TypeOK'
    BY <2>1, <2>2 DEF TypeOK
  <2>4. Apart'
    BY <2>1, <2>2, ApartKept
  <2>5. LockInv'
    BY <1>1, <2>1, <2>2, LockKept DEF At
  <2>6. OfferInv' /\ CallInv' /\ DecisionInv'
    BY <2>1, <2>2, QuietStep DEF Active
  <2> QED BY <2>3, <2>4, <2>5, <2>6
<1>3. CASE rfq.status \in OpenStatuses /\ offer[call[c].shop].status = "PENDING"
  <2>1. /\ locked = NoCall /\ locked' = c
        /\ call' = [call EXCEPT ![c].step = "awarding", ![c].total = offer[call[c].shop].total]
        /\ UNCHANGED <<mode, rfq, offer, matched, order, notified, sent>>
    BY <1>3 DEF AwardRead, Unlocked
  <2>2. offer[call[c].shop] \in OfferRows
    BY <1>1 DEF OfferInv, OnOffer, TypeOK
  <2>3. offer[call[c].shop] = [status |-> "PENDING", total |-> offer[call[c].shop].total]
        /\ offer[call[c].shop].total \in Prices
    BY <1>3, <2>2 DEF OfferRows
  <2>4. call'[c] = [call[c] EXCEPT !.step = "awarding", !.total = offer[call[c].shop].total] /\ Only(c)
    BY <2>1 DEF TypeOK, Only
  <2>5. /\ call'[c] \in CallRows /\ call'[c].step = "awarding" /\ call'[c].shop = call[c].shop
        /\ call'[c].total = offer[call[c].shop].total
    BY <1>1, <2>3, <2>4 DEF CallRows, Steps
  <2>6. call' \in [Calls -> CallStates] /\ call'[c] # NoCall
    BY <2>1, <2>5, RowIsCall DEF TypeOK
  <2>7. TypeOK'
    BY <2>1, <2>6 DEF TypeOK
  <2>8. Apart'
    BY <1>1, <2>1, <2>4, <2>5, ApartKept DEF BuyerSteps, VendorSteps
  <2>9. LockInv'
    BY <2>1, <2>4, <2>5, <2>6, NothingAssumption DEF LockInv, At, Only
  <2>10. CallFact(c)'
    BY <1>3, <2>1, <2>3, <2>5 DEF CallFact
  <2>11. OfferInv' /\ CallInv' /\ DecisionInv'
    BY <1>1, <2>1, <2>4, <2>5, <2>10, QuietStep DEF OfferInv, OnOffer
  <2> QED BY <2>7, <2>8, <2>9, <2>11
<1> QED BY <1>2, <1>3

LEMMA AwardCommitStep ==
  ASSUME IInv, NEW c \in Calls, AwardCommit(c)
  PROVE  IInv'
<1> USE DEF IInv
<1>1. Active(c) /\ call[c].step = "awarding" /\ call[c].shop \in Shops /\ call[c].total \in Prices
  BY CallRecord DEF AwardCommit, At, Active
<1> DEFINE s == call[c].shop
           w == CHOOSE o \in Orders : order[o] = NoOrder
<1>2. w \in Orders /\ order[w] = NoOrder
  BY DEF AwardCommit
<1>3. /\ offer' = AwardedOffers(s)
      /\ rfq' = [rfq EXCEPT !.status = "AWARDED", !.awarded = s]
      /\ order' = [order EXCEPT ![w] = [shop |-> s, total |-> call[c].total]]
      /\ locked' = NoCall
      /\ UNCHANGED <<mode, matched, notified, sent>>
  BY DEF AwardCommit, OrderOf
<1>4. /\ call' \in [Calls -> CallStates] /\ Active(c)' /\ call'[c].step = "accepted"
      /\ call'[c].shop = s /\ Only(c)
  BY <1>1, GoesEffect DEF AwardCommit, Steps, Active
<1>5. offer[s] \in OfferRows
  BY <1>1 DEF OfferInv, OnOffer, TypeOK
<1>6. \A t \in Shops :
        /\ t = s => offer'[t] = [offer[t] EXCEPT !.status = "ACCEPTED"]
        /\ (t # s /\ Pending(t)) => offer'[t] = [offer[t] EXCEPT !.status = "REJECTED"]
        /\ (t # s /\ ~Pending(t)) => offer'[t] = offer[t]
  BY <1>1, <1>3 DEF AwardedOffers, Pending
<1>7. \A t \in Shops :
        /\ offer'[t] \in OfferRows \cup {NoOffer}
        /\ offer[t] # NoOffer => offer'[t] \in OfferRows /\ offer'[t].status # "PENDING"
        /\ offer[t] = NoOffer => offer'[t] = NoOffer
  <2> SUFFICES ASSUME NEW t \in Shops
               PROVE  /\ offer'[t] \in OfferRows \cup {NoOffer}
                      /\ offer[t] # NoOffer => offer'[t] \in OfferRows /\ offer'[t].status # "PENDING"
                      /\ offer[t] = NoOffer => offer'[t] = NoOffer
    OBVIOUS
  <2>1. offer[t] # NoOffer => offer[t] \in OfferRows
    BY DEF TypeOK
  <2>2. CASE t = s
    BY <1>5, <1>6, <2>2, NothingAssumption DEF OfferRows, RfqOfferStatus
  <2>3. CASE t # s /\ Pending(t)
    BY <1>6, <2>1, <2>3 DEF OfferRows, RfqOfferStatus, Pending
  <2>4. CASE t # s /\ ~Pending(t)
    BY <1>6, <2>1, <2>4 DEF Pending
  <2> QED BY <2>2, <2>3, <2>4
<1>8. \A t \in Shops : offer[t] # NoOffer => offer'[t] # NoOffer
  BY <1>7, NothingAssumption
<1>9. rfq' \in RfqRows /\ rfq'.status = "AWARDED"
  BY <1>1, <1>3 DEF TypeOK, RfqRows, RfqStatus
<1>10. [shop |-> s, total |-> call[c].total] \in OrderRows
  BY <1>1 DEF OrderRows
<1>11. TypeOK'
  <2>1. offer' \in [Shops -> OfferRows \cup {NoOffer}]
    BY <1>3, <1>7 DEF AwardedOffers
  <2>2. order' \in [Orders -> OrderRows \cup {NoOrder}]
    BY <1>2, <1>3, <1>10 DEF TypeOK
  <2> QED BY <1>3, <1>4, <1>9, <2>1, <2>2 DEF TypeOK
<1>12. Apart'
  BY <1>1, <1>3, <1>4, ApartKept DEF BuyerSteps, VendorSteps
<1>13. LockInv'
  BY <1>1, <1>3, <1>4, NothingAssumption DEF LockInv, At, Only, Active
<1>14. OfferInv'
  <2>1. \A d \in Calls : Active(d) => call[d].shop \in Shops
    BY CallRecord
  <2> QED BY <1>1, <1>3, <1>4, <1>8, <1>9, <2>1 DEF OfferInv, Only, Active, OnOffer
<1>15. mode # "all" => rfq.status \in OpenStatuses /\ ~Decided /\ Made = {}
  BY <1>1 DEF CallInv, CallFact, DecisionInv, Decided, OpenStatuses
<1>16. Decided'
  BY <1>9 DEF Decided
<1>17. OneBuyer => offer'[s] = [status |-> "ACCEPTED", total |-> call[c].total]
  <2>1. OneBuyer => offer[s] = [status |-> "PENDING", total |-> call[c].total]
    BY <1>1 DEF CallInv, CallFact, OneBuyer
  <2>2. offer'[s] = [offer[s] EXCEPT !.status = "ACCEPTED"]
    BY <1>1, <1>6
  <2> HIDE DEF s
  <2> QED BY <2>1, <2>2
<1>18. CallInv'
  <2> SUFFICES ASSUME mode # "all", NEW d \in Calls, Active(d)'
               PROVE  CallFact(d)'
    BY <1>3 DEF CallInv
  <2>1. CASE d = c
    BY <1>3, <1>4, <1>16, <1>17, <2>1 DEF CallFact, CreateSteps, VendorSteps, OneBuyer
  <2>2. CASE d # c
    <3>1. Active(d) /\ call'[d] = call[d]
      BY <1>4, <2>2 DEF Only, Active
    <3>2. mode = "buyers" /\ call[d].step \in BuyerSteps
      BY <1>1, <2>2, <3>1 DEF Apart, VendorSteps
    <3>3. call[d].step # "awarding"
      BY <1>1, <2>2, <3>1 DEF LockInv, At, Active
    <3> QED BY <1>3, <1>16, <3>1, <3>2, <3>3
          DEF CallFact, CreateSteps, VendorSteps, BuyerSteps, OneBuyer
  <2> QED BY <2>1, <2>2
<1>19. DecisionInv'
  <2> SUFFICES ASSUME mode # "all"
               PROVE  DecisionInv'
    BY <1>3 DEF DecisionInv
  <2>1. Made' = {w}
    <3>1. order'[w] # NoOrder
      BY <1>2, <1>3, <1>10, NothingAssumption DEF TypeOK
    <3>2. \A o \in Orders : o # w => order'[o] = order[o]
      BY <1>2, <1>3 DEF TypeOK
    <3> QED BY <1>2, <1>15, <3>1, <3>2 DEF Made
  <2>2. Cardinality(Made') <= 1
    <3>1. Cardinality({w}) = 1
      BY FS_Singleton, Zenon
    <3>2. Cardinality(Made') = 1
      BY <2>1, <3>1, Zenon
    <3> QED BY <3>2
  <2>3. \A t \in Shops : ~Pending(t)'
    BY <1>7 DEF Pending
  <2>4. \A t \in Shops : <<"accepted", t>> \notin notified'
    BY <1>3, <1>15 DEF DecisionInv
  <2>5. OneBuyer => offer'[order'[w].shop] = [status |-> "ACCEPTED", total |-> order'[w].total]
    <3>1. order'[w] = [shop |-> s, total |-> call[c].total]
      BY <1>2, <1>3 DEF TypeOK
    <3> QED BY <1>17, <3>1
  <2> QED BY <1>3, <1>16, <2>1, <2>2, <2>3, <2>4, <2>5 DEF DecisionInv, OneBuyer
<1> QED BY <1>11, <1>12, <1>13, <1>14, <1>18, <1>19

LEMMA RfqResponseAcceptedStep ==
  ASSUME IInv, NEW c \in Calls, RfqResponseAccepted(c)
  PROVE  IInv'
<1> USE DEF IInv
<1>1. Active(c) /\ call[c].step = "accepted" /\ call[c].shop \in Shops
  BY CallRecord DEF RfqResponseAccepted, At, Active
<1>2. call' \in [Calls -> CallStates] /\ call'[c] = NoCall /\ Only(c)
  BY ReturnsEffect DEF RfqResponseAccepted
<1>3. /\ notified' = notified \cup {<<"accepted", call[c].shop>>}
      /\ UNCHANGED <<mode, rfq, offer, matched, order, sent, locked>>
  BY DEF RfqResponseAccepted
<1>4. TypeOK'
  BY <1>1, <1>2, <1>3 DEF TypeOK, Events
<1>5. Apart'
  BY <1>2, <1>3, ApartKept
<1>6. LockInv'
  BY <1>1, <1>2, <1>3, LockKept DEF At
<1>7. OfferInv'
  BY <1>1, <1>2, <1>3 DEF OfferInv, Only, Active, OnOffer
<1>8. CallInv'
  BY <1>2, <1>3 DEF CallInv, CallFact, Only, Active, Decided, OneBuyer
<1>9. DecisionInv'
  <2>1. mode # "all" => Decided /\ (OneBuyer => offer[call[c].shop].status = "ACCEPTED")
    BY <1>1 DEF CallInv, CallFact
  <2>2. Made' = Made /\ Decided' = Decided /\ OneBuyer' = OneBuyer
    BY <1>3 DEF Made, Decided, OneBuyer
  <2>3. \A t \in Shops : <<"accepted", t>> \in notified' =>
          <<"accepted", t>> \in notified \/ t = call[c].shop
    BY <1>3
  <2> QED BY <1>3, <2>1, <2>2, <2>3 DEF DecisionInv, Pending
<1> QED BY <1>4, <1>5, <1>6, <1>7, <1>8, <1>9

-----------------------------------------------------------------------------
(* Rejecting and closing                                                   *)

LEMMA RejectResponseStep ==
  ASSUME IInv, NEW c \in Calls, NEW s \in Shops, RejectResponse(c, s)
  PROVE  IInv'
<1> USE DEF IInv
<1>1. /\ call' \in [Calls -> CallStates] /\ Active(c)' /\ call'[c].step = "reject"
      /\ call'[c].shop = s /\ Only(c)
  BY BeginEffect, AnyIsThere DEF RejectResponse, Steps, Active
<1>2. TypeOK'
  BY <1>1 DEF TypeOK, RejectResponse
<1>3. Apart'
  BY <1>1, ApartStarts DEF RejectResponse, BuyerSteps
<1>4. ~At(c, "awarding")
  BY DEF RejectResponse, MayStart, At
<1>5. LockInv'
  BY <1>1, <1>4, LockKept DEF RejectResponse, At
<1>6. CallFact(c)'
  BY <1>1 DEF CallFact, CreateSteps, VendorSteps, RejectResponse
<1>7. OfferInv' /\ CallInv' /\ DecisionInv'
  BY <1>1, <1>6, QuietStep DEF RejectResponse, OfferInv
<1> QED BY <1>2, <1>3, <1>5, <1>7

\* Offers that are there stay, a pending one may be rejected, another one only where
\* buyers act at once.
LEMMA OffersRejected ==
  ASSUME IInv, NEW c \in Calls, Active(c), call[c].step \in {"reject", "close"},
         Only(c), call'[c] # NoCall => call'[c].step = "rejected",
         UNCHANGED <<mode, order>>,
         rfq'.status = rfq.status \/ (rfq'.status = "CLOSED" /\ locked = NoCall),
         \A t \in Shops : <<"accepted", t>> \in notified' => <<"accepted", t>> \in notified,
         \A t \in Shops :
           /\ offer[t] = NoOffer => offer'[t] = NoOffer
           /\ Pending(t)' => Pending(t)
           /\ (OneBuyer /\ offer[t].status # "PENDING") => offer'[t] = offer[t],
         rfq'.status = "CLOSED" => rfq.status = "CLOSED" \/ \A t \in Shops : ~Pending(t)'
  PROVE  CallInv' /\ DecisionInv'
<1> USE DEF IInv
<1>1. CallInv'
  <2> SUFFICES ASSUME mode # "all", NEW d \in Calls, Active(d)'
               PROVE  CallFact(d)'
    BY DEF CallInv
  <2>1. CASE d = c
    BY <2>1 DEF CallFact, CreateSteps, VendorSteps, Active
  <2>2. CASE d # c
    <3>1. Active(d) /\ call'[d] = call[d]
      BY <2>2 DEF Only, Active
    <3>2. mode = "buyers" /\ call[d].step \in BuyerSteps
      BY <2>2, <3>1 DEF Apart, VendorSteps
    <3>3. call[d].step = "awarding" => rfq'.status = rfq.status
      BY <3>1, NothingAssumption DEF LockInv, At, Active
    <3>4. CallFact(d)
      BY <3>1 DEF CallInv
    <3> QED BY <3>1, <3>2, <3>3, <3>4
          DEF CallFact, CreateSteps, VendorSteps, BuyerSteps, OneBuyer, Decided
  <2> QED BY <2>1, <2>2
<1>2. DecisionInv'
  <2> SUFFICES ASSUME mode # "all"
               PROVE  DecisionInv'
    BY DEF DecisionInv
  <2>1. Made' = Made /\ OneBuyer' = OneBuyer
    BY DEF Made, OneBuyer
  <2>2. Decided => Decided'
    BY DEF Decided
  <2>3. Decided' => \A t \in Shops : ~Pending(t)'
    BY DEF Decided, DecisionInv
  <2>4. \A t \in Shops : <<"accepted", t>> \in notified' =>
          Decided' /\ (OneBuyer => offer'[t].status = "ACCEPTED")
    BY <2>2 DEF DecisionInv
  <2>5. OneBuyer => \A o \in Made :
          offer'[order[o].shop] = [status |-> "ACCEPTED", total |-> order[o].total]
    <3> SUFFICES ASSUME OneBuyer, NEW o \in Made
                 PROVE  offer'[order[o].shop] = [status |-> "ACCEPTED", total |-> order[o].total]
      OBVIOUS
    <3>1. order[o] \in OrderRows
      BY DEF Made, TypeOK
    <3>2. order[o].shop \in Shops
      BY <3>1 DEF OrderRows
    <3>3. offer[order[o].shop] = [status |-> "ACCEPTED", total |-> order[o].total]
      BY DEF DecisionInv
    <3>4. offer[order[o].shop].status = "ACCEPTED"
      BY <3>3
    <3> QED BY <3>2, <3>3, <3>4
  <2> QED BY <2>1, <2>2, <2>3, <2>4, <2>5 DEF DecisionInv
<1> QED BY <1>1, <1>2

LEMMA WriteRejectedStep ==
  ASSUME IInv, NEW c \in Calls, WriteRejected(c)
  PROVE  IInv'
<1> USE DEF IInv
<1>1. Active(c) /\ call[c].step = "reject" /\ call[c].shop \in Shops
  BY CallRecord DEF WriteRejected, At, Active
<1>2. /\ call' \in [Calls -> CallStates] /\ Active(c)' /\ call'[c].step = "rejected"
      /\ call'[c].shop = call[c].shop /\ Only(c)
  BY <1>1, GoesEffect DEF WriteRejected, Steps, Active
<1>3. offer[call[c].shop] \in OfferRows
  BY <1>1 DEF OfferInv, OnOffer, TypeOK
<1>4. /\ offer'[call[c].shop] = [offer[call[c].shop] EXCEPT !.status = "REJECTED"]
      /\ \A t \in Shops : t # call[c].shop => offer'[t] = offer[t]
  BY <1>1 DEF WriteRejected, TypeOK
<1>5. offer'[call[c].shop] \in OfferRows /\ offer'[call[c].shop].status = "REJECTED"
  BY <1>3, <1>4 DEF OfferRows, RfqOfferStatus
<1>6. offer' \in [Shops -> OfferRows \cup {NoOffer}]
  BY <1>1, <1>5 DEF WriteRejected, TypeOK
<1>7. \A t \in Shops : offer[t] # NoOffer <=> offer'[t] # NoOffer
  BY <1>3, <1>4, <1>5, NothingAssumption
<1>8. TypeOK'
  BY <1>2, <1>6 DEF TypeOK, WriteRejected
<1>9. Apart'
  BY <1>1, <1>2, ApartKept DEF WriteRejected, BuyerSteps, VendorSteps
<1>10. LockInv'
  BY <1>1, <1>2, LockKept DEF WriteRejected, At
<1>11. OfferInv'
  <2>1. \A d \in Calls : Active(d) => call[d].shop \in Shops
    BY CallRecord
  <2> QED BY <1>1, <1>2, <1>7, <2>1 DEF OfferInv, Only, Active, OnOffer, WriteRejected
<1>12. OneBuyer => offer[call[c].shop].status = "PENDING"
  BY <1>1 DEF CallInv, CallFact, OneBuyer
<1>13. \A t \in Shops :
         /\ offer[t] = NoOffer => offer'[t] = NoOffer
         /\ Pending(t)' => Pending(t)
         /\ (OneBuyer /\ offer[t].status # "PENDING") => offer'[t] = offer[t]
  BY <1>4, <1>5, <1>7, <1>12 DEF Pending
<1>14. CallInv' /\ DecisionInv'
  BY <1>1, <1>2, <1>13, OffersRejected DEF WriteRejected
<1> QED BY <1>8, <1>9, <1>10, <1>11, <1>14

LEMMA RfqResponseRejectedStep ==
  ASSUME IInv, NEW c \in Calls, RfqResponseRejected(c)
  PROVE  IInv'
<1> USE DEF IInv
<1>1. Active(c) /\ call[c].step = "rejected" /\ call[c].shop \in Shops
  BY CallRecord DEF RfqResponseRejected, At, Active
<1>2. call' \in [Calls -> CallStates] /\ call'[c] = NoCall /\ Only(c)
  BY ReturnsEffect DEF RfqResponseRejected
<1>3. /\ notified' = notified \cup {<<"rejected", call[c].shop>>}
      /\ UNCHANGED <<mode, rfq, offer, matched, order, sent, locked>>
  BY DEF RfqResponseRejected
<1>4. TypeOK'
  BY <1>1, <1>2, <1>3 DEF TypeOK, Events
<1>5. Apart'
  BY <1>2, <1>3, ApartKept
<1>6. LockInv'
  BY <1>1, <1>2, <1>3, LockKept DEF At
<1>7. OfferInv'
  BY <1>1, <1>2, <1>3 DEF OfferInv, Only, Active, OnOffer
<1>8. CallInv'
  BY <1>2, <1>3 DEF CallInv, CallFact, Only, Active, Decided, OneBuyer
<1>9. DecisionInv'
  <2>1. Made' = Made /\ Decided' = Decided /\ OneBuyer' = OneBuyer
    BY <1>3 DEF Made, Decided, OneBuyer
  <2>2. \A t \in Shops : <<"accepted", t>> \in notified' => <<"accepted", t>> \in notified
    BY <1>3
  <2> QED BY <1>3, <2>1, <2>2 DEF DecisionInv, Pending
<1> QED BY <1>4, <1>5, <1>6, <1>7, <1>8, <1>9

LEMMA CloseRfqStep ==
  ASSUME IInv, NEW c \in Calls, CloseRfq(c)
  PROVE  IInv'
<1> USE DEF IInv
<1>1. call' \in [Calls -> CallStates] /\ Active(c)' /\ call'[c].step = "close" /\ Only(c)
  BY BeginEffect, AnyIsThere DEF CloseRfq, Steps, Active
<1>2. TypeOK'
  BY <1>1 DEF TypeOK, CloseRfq
<1>3. Apart'
  BY <1>1, ApartStarts DEF CloseRfq, BuyerSteps
<1>4. ~At(c, "awarding")
  BY DEF CloseRfq, MayStart, At
<1>5. LockInv'
  BY <1>1, <1>4, LockKept DEF CloseRfq, At
<1>6. CallFact(c)'
  BY <1>1 DEF CallFact, CreateSteps, VendorSteps
<1>7. OfferInv' /\ CallInv' /\ DecisionInv'
  BY <1>1, <1>6, QuietStep DEF CloseRfq, OnOffer, Closable, OpenStatuses
<1> QED BY <1>2, <1>3, <1>5, <1>7

LEMMA CloseCommitStep ==
  ASSUME IInv, NEW c \in Calls, CloseCommit(c)
  PROVE  IInv'
<1> USE DEF IInv
<1>1. Active(c) /\ call[c].step = "close" /\ locked = NoCall
  BY DEF CloseCommit, At, Active, Unlocked
<1>2. call' \in [Calls -> CallStates] /\ call'[c] = NoCall /\ Only(c)
  BY ReturnsEffect DEF CloseCommit
<1>3. \A t \in Shops :
        /\ Pending(t) => offer'[t] = [offer[t] EXCEPT !.status = "REJECTED"]
        /\ ~Pending(t) => offer'[t] = offer[t]
  BY DEF CloseCommit, Pending
<1>4. \A t \in Shops : Pending(t) => offer'[t] \in OfferRows /\ offer'[t].status = "REJECTED"
  <2>1. \A t \in Shops : Pending(t) => offer[t] \in OfferRows
    BY DEF Pending, TypeOK
  <2> QED BY <1>3, <2>1 DEF OfferRows, RfqOfferStatus
<1>5. offer' \in [Shops -> OfferRows \cup {NoOffer}]
  <2>1. \A t \in Shops : offer'[t] \in OfferRows \cup {NoOffer}
    BY <1>3, <1>4 DEF TypeOK
  <2> QED BY <2>1 DEF CloseCommit
<1>6. \A t \in Shops : ~Pending(t)' /\ (offer[t] # NoOffer <=> offer'[t] # NoOffer)
  BY <1>3, <1>4, NothingAssumption DEF Pending
<1>7. rfq' \in RfqRows /\ rfq'.status = "CLOSED"
  BY DEF CloseCommit, TypeOK, RfqRows, RfqStatus
<1>8. notified' = notified \cup ({"closed"} \X {s \in Shops : offer[s] # NoOffer})
  BY DEF CloseCommit
<1>9. TypeOK'
  <2>1. notified' \in SUBSET (Events \X Shops)
    BY <1>8 DEF TypeOK, Events
  <2> QED BY <1>2, <1>5, <1>7, <2>1 DEF TypeOK, CloseCommit
<1>10. Apart'
  BY <1>2, ApartKept DEF CloseCommit
<1>11. LockInv'
  BY <1>1, <1>2, LockKept DEF CloseCommit, At
<1>12. OfferInv'
  <2>1. \A d \in Calls : Active(d) => call[d].shop \in Shops
    BY CallRecord
  <2> QED BY <1>2, <1>6, <1>7, <1>8, <2>1 DEF OfferInv, Only, Active
<1>13. \A t \in Shops : <<"accepted", t>> \in notified' => <<"accepted", t>> \in notified
  BY <1>8
<1>14. \A t \in Shops :
         /\ offer[t] = NoOffer => offer'[t] = NoOffer
         /\ Pending(t)' => Pending(t)
         /\ (OneBuyer /\ offer[t].status # "PENDING") => offer'[t] = offer[t]
  BY <1>3, <1>6 DEF Pending
<1>15. CallInv' /\ DecisionInv'
  BY <1>1, <1>2, <1>6, <1>7, <1>13, <1>14, OffersRejected DEF CloseCommit
<1> QED BY <1>9, <1>10, <1>11, <1>12, <1>15

-----------------------------------------------------------------------------
LEMMA InitIInv == Init => IInv
<1> SUFFICES ASSUME Init PROVE IInv
  OBVIOUS
<1>1. TypeOK
  BY RfqAssumption, RowIsCall
     DEF Init, TypeOK, RfqRows, RfqStatus
<1>2. Made = {}
  BY DEF Init, Made
<1>3. Cardinality(Made) = 0
  BY <1>2, FS_EmptySet
<1>4. Apart /\ LockInv /\ OfferInv /\ CallInv
  BY DEF Init, Apart, LockInv, OfferInv, CallInv, Active, At
<1>5. DecisionInv
  BY <1>2, <1>3 DEF Init, DecisionInv, Decided
<1> QED BY <1>1, <1>4, <1>5 DEF IInv

LEMMA NextIInv == IInv /\ [Next]_vars => IInv'
<1> SUFFICES ASSUME IInv, [Next]_vars PROVE IInv'
  OBVIOUS
<1>1. CASE DeadlinePasses
  BY <1>1, DeadlineStep
<1>2. ASSUME NEW c \in Calls, RfqRoutes(c) PROVE IInv'
  BY <1>2, CreateStep, CreateOfferStep, AcceptResponseStep, RejectResponseStep, CloseRfqStep
     DEF RfqRoutes
<1>3. ASSUME NEW c \in Calls, Handler(c) PROVE IInv'
  BY <1>3, MatchVendorsStep, WriteMatchedStep, RfqCreatedStep, UpsertOfferStep, WriteQuotedStep,
     EnsureMatchStep, RfqResponseCreatedStep, AwardReadStep, AwardCommitStep,
     RfqResponseAcceptedStep, WriteRejectedStep, RfqResponseRejectedStep, CloseCommitStep
     DEF Handler
<1>4. CASE UNCHANGED vars
  BY <1>4 DEF vars, IInv, TypeOK, Apart, LockInv, OfferInv, CallInv, CallFact, DecisionInv,
              Active, At, Decided, OneBuyer, Pending, Made
<1> QED BY <1>1, <1>2, <1>3, <1>4 DEF Next

\* The inductive invariant says what the properties say.
LEMMA IInvImplies == IInv => AwardHolds /\ ToldCanOpen
<1> SUFFICES ASSUME IInv PROVE AwardHolds /\ ToldCanOpen
  OBVIOUS
<1>1. OneOrderPerRfq /\ OrderIsAcceptedOffer
  BY DEF IInv, DecisionInv, OneOrderPerRfq, OrderIsAcceptedOffer, OneBuyer
<1>2. DecidedHasNoPending
  BY DEF IInv, DecisionInv, DecidedHasNoPending, Decided, Pending, BuyerRfqs, MerchantRfqs
<1>3. ToldCanOpen
  BY DEF IInv, DecisionInv, OfferInv, ToldCanOpen, OneBuyer, AssertCanView, ListForUser, MerchantRfqs
<1> QED BY <1>1, <1>2, <1>3 DEF AwardHolds, IInv

LEMMA Invariance == Spec => []IInv
  BY InitIInv, NextIInv, PTL DEF Spec

\* However many awards, rejections and closings of one request run at once, they lead to
\* one order, of the accepted offer, and leave nothing pending (RfqService.award).
THEOREM AwardIsSafe == Spec => []AwardHolds
  BY Invariance, IInvImplies, PTL

\* A vendor who is told of the fate of his offer can open the request and finds it in
\* his lists (assertCanView, listForUser and the lists of the vendor's pages).
THEOREM ToldVendorsCanOpen == Spec => []ToldCanOpen
  BY Invariance, IInvImplies, PTL

\* An awarded or closed request is not reopened while vendors do not send offers.
THEOREM DecisionsLast == Spec => DecidedStaysDecided
<1>1. IInv /\ [Next]_vars =>
        [mode # "all" =>
           /\ rfq.status = "CLOSED" => rfq'.status = "CLOSED"
           /\ rfq.status = "AWARDED" => rfq'.status \in {"AWARDED", "CLOSED"}]_vars
  <2> SUFFICES ASSUME IInv, Next, mode # "all", Decided
               PROVE  rfq'.status = rfq.status \/ rfq'.status = "CLOSED"
    BY DEF Decided
  <2> USE DEF IInv
  <2>1. CASE DeadlinePasses
    BY <2>1 DEF DeadlinePasses, TypeOK, RfqRows
  <2>2. ASSUME NEW c \in Calls, RfqRoutes(c) PROVE rfq' = rfq
    BY <2>2 DEF RfqRoutes, Create, CreateOffer, AcceptResponse, RejectResponse, CloseRfq, Decided
  <2>3. ASSUME NEW c \in Calls, Handler(c), ~CloseCommit(c) PROVE rfq' = rfq
    <3>1. Active(c) => call[c].step \notin CreateSteps \cup VendorSteps \cup {"awarding"}
      BY DEF CallInv, CallFact, Decided, OpenStatuses
    <3> QED BY <2>3, <3>1 DEF Handler, At, Active, CreateSteps, VendorSteps, MatchVendors,
          WriteMatched, RfqCreated, UpsertOffer, WriteQuoted, EnsureMatch, RfqResponseCreated,
          AwardRead, AwardCommit, RfqResponseAccepted, WriteRejected, RfqResponseRejected
  <2>4. ASSUME NEW c \in Calls, CloseCommit(c) PROVE rfq'.status = "CLOSED"
    BY <2>4 DEF CloseCommit, TypeOK, RfqRows
  <2> QED BY <2>1, <2>2, <2>3, <2>4 DEF Next
<1> QED BY <1>1, Invariance, PTL DEF Spec, DecidedStaysDecided

\* A finite set of numbers has a greatest one.
LEMMA FiniteGreatest ==
  ASSUME NEW S, IsFiniteSet(S), S \subseteq Nat, S # {}
  PROVE  \E n \in S : \A m \in S : m <= n
<1> DEFINE B == {T \in SUBSET S : T # {} => \E n \in T : \A m \in T : m <= n}
<1>1. ASSUME NEW T \in SUBSET S, \A U \in SUBSET T : U # T => U \in B
      PROVE  T \in B
  <2> SUFFICES ASSUME T # {} PROVE \E n \in T : \A m \in T : m <= n
    OBVIOUS
  <2>1. PICK x \in T : TRUE
    OBVIOUS
  <2>2. CASE T = {x}
    BY <2>2
  <2>3. CASE T # {x}
    <3>1. T \ {x} \in SUBSET T /\ T \ {x} # T /\ T \ {x} # {}
      BY <2>1, <2>3
    <3>2. PICK n \in T \ {x} : \A m \in T \ {x} : m <= n
      BY <1>1, <3>1
    <3>3. x \in Nat /\ n \in Nat /\ T \subseteq Nat
      BY <2>1, <3>2
    <3>4. CASE x <= n
      BY <3>2, <3>4
    <3>5. CASE n <= x
      <4>1. \A m \in T : m <= x
        BY <3>2, <3>3, <3>5
      <4> QED BY <4>1
    <3> QED BY <3>3, <3>4, <3>5
  <2> QED BY <2>2, <2>3
<1>2. B \in SUBSET (SUBSET S)
  OBVIOUS
<1>3. \A T \in SUBSET S : T \in B
  <2> HIDE DEF B
  <2> QED BY <1>1, <1>2, SubsetInduction
<1> QED BY <1>3

-----------------------------------------------------------------------------
(* Ranks, and the first of a set                                           *)

IsOrder(S, before) ==
  /\ \A x \in S : <<x, x>> \notin before
  /\ \A x, y, z \in S : <<x, y>> \in before /\ <<y, z>> \in before => <<x, z>> \in before
  /\ \A x, y \in S : x # y => <<x, y>> \in before \/ <<y, x>> \in before

LEMMA RankRange ==
  ASSUME NEW S, IsFiniteSet(S), NEW before, IsOrder(S, before), NEW x \in S
  PROVE  Rank(S, before, x) \in 0..Cardinality(S) - 1
<1> DEFINE T == {y \in S : <<y, x>> \in before}
<1>1. T \in SUBSET (S \ {x})
  BY DEF IsOrder
<1>2. IsFiniteSet(S \ {x}) /\ Cardinality(S \ {x}) = Cardinality(S) - 1
  BY FS_RemoveElement
<1>3. IsFiniteSet(T) /\ Cardinality(T) <= Cardinality(S) - 1
  <2>1. IsFiniteSet(S \ {x})
    BY <1>2
  <2>2. IsFiniteSet(T) /\ Cardinality(T) <= Cardinality(S \ {x})
    BY <1>1, <2>1, FS_Subset, Zenon
  <2> QED BY <1>2, <2>2
<1>4. Cardinality(T) \in Nat /\ Cardinality(S) \in Nat
  BY <1>3, FS_CardinalityType
<1> QED BY <1>3, <1>4 DEF Rank

LEMMA RankLess ==
  ASSUME NEW S, IsFiniteSet(S), NEW before, IsOrder(S, before),
         NEW x \in S, NEW y \in S, <<x, y>> \in before
  PROVE  Rank(S, before, x) < Rank(S, before, y)
<1> DEFINE T == {z \in S : <<z, x>> \in before}
           U == {z \in S : <<z, y>> \in before}
<1>1. T \in SUBSET (U \ {x}) /\ x \in U /\ U \in SUBSET S
  BY DEF IsOrder
<1>2. IsFiniteSet(U)
  BY <1>1, FS_Subset
<1> HIDE DEF T, U
<1>3. IsFiniteSet(U \ {x}) /\ Cardinality(U \ {x}) = Cardinality(U) - 1
  BY <1>1, <1>2, FS_RemoveElement
<1>4. IsFiniteSet(T) /\ Cardinality(T) <= Cardinality(U) - 1
  BY <1>1, <1>3, FS_Subset
<1>5. Cardinality(T) \in Nat /\ Cardinality(U) \in Nat
  BY <1>2, <1>4, FS_CardinalityType
<1>6. Cardinality(T) < Cardinality(U)
  BY <1>4, <1>5
<1> QED BY <1>6 DEF Rank, T, U

LEMMA RankOne ==
  ASSUME NEW S, IsFiniteSet(S), NEW before, IsOrder(S, before),
         NEW x \in S, NEW y \in S, Rank(S, before, x) = Rank(S, before, y)
  PROVE  x = y
<1>1. Rank(S, before, x) \in Nat /\ Rank(S, before, y) \in Nat /\ Cardinality(S) \in Nat
  BY RankRange, FS_CardinalityType
<1>2. CASE <<x, y>> \in before
  BY <1>1, <1>2, RankLess
<1>3. CASE <<y, x>> \in before
  BY <1>1, <1>3, RankLess
<1> QED BY <1>2, <1>3 DEF IsOrder

\* Every place is taken, by one element.
LEMMA RankTaken ==
  ASSUME NEW S, IsFiniteSet(S), NEW before, IsOrder(S, before), NEW i \in 1..Cardinality(S)
  PROVE  \E x \in S : Rank(S, before, x) = i - 1
<1> DEFINE n == Cardinality(S)
           f == [x \in S |-> Rank(S, before, x) + 1]
<1>0. n \in Nat
  BY FS_CardinalityType
<1>1. \A x \in S : f[x] \in 1..n
  <2> TAKE x \in S
  <2>1. Rank(S, before, x) \in 0..n - 1
    BY RankRange
  <2> QED BY <1>0, <2>1
<1>2. ASSUME NEW x \in S, NEW y \in S, f[x] = f[y] PROVE x = y
  <2>1. Rank(S, before, x) \in 0..n - 1 /\ Rank(S, before, y) \in 0..n - 1
    BY RankRange
  <2>2. Rank(S, before, x) = Rank(S, before, y)
    BY <1>0, <1>2, <2>1
  <2> QED BY <2>2, RankOne
<1>3. f \in [S -> 1..n]
  BY <1>1
<1>4. f \in Injection(S, 1..n)
  BY <1>2, <1>3 DEF Injection, IsInjective
<1>5. IsFiniteSet(1..n) /\ Cardinality(1..n) = n
  BY <1>0, FS_Interval
<1>6. f \in Surjection(S, 1..n)
  BY <1>4, <1>5, FS_Injection
<1>7. PICK x \in S : f[x] = i
  BY <1>6 DEF Surjection
<1>8. Rank(S, before, x) \in 0..n - 1 /\ f[x] = Rank(S, before, x) + 1
  BY RankRange
<1> HIDE DEF f
<1>9. Rank(S, before, x) = i - 1
  BY <1>0, <1>7, <1>8
<1> QED BY <1>9

\* The elements in order: each has one place, and comes before those behind it.
LEMMA InOrderIs ==
  ASSUME NEW S, IsFiniteSet(S), NEW before, IsOrder(S, before)
  PROVE  /\ Cardinality(S) \in Nat
         /\ InOrder(S, before) \in [1..Cardinality(S) -> S]
         /\ \A x \in S : \E i \in 1..Cardinality(S) : InOrder(S, before)[i] = x
         /\ \A i, j \in 1..Cardinality(S) : i < j => <<InOrder(S, before)[i], InOrder(S, before)[j]>> \in before
<1> DEFINE n == Cardinality(S)
           f == InOrder(S, before)
<1>0. n \in Nat
  BY FS_CardinalityType
<1>1. \A i \in 1..n : f[i] \in S /\ Rank(S, before, f[i]) = i - 1
  BY RankTaken DEF InOrder
<1>2. f \in [1..n -> S]
  BY <1>1 DEF InOrder
<1> HIDE DEF f
<1>3. ASSUME NEW x \in S PROVE \E i \in 1..n : f[i] = x
  <2>1. Rank(S, before, x) \in 0..n - 1
    BY RankRange
  <2>2. PICK i \in 1..n : Rank(S, before, x) = i - 1
    BY <1>0, <2>1
  <2>3. f[i] = x
    BY <1>1, <2>2, RankOne
  <2> QED BY <2>3
<1>4. ASSUME NEW i \in 1..n, NEW j \in 1..n, i < j PROVE <<f[i], f[j]>> \in before
  <2>1. f[i] \in S /\ f[j] \in S /\ Rank(S, before, f[i]) = i - 1 /\ Rank(S, before, f[j]) = j - 1
    BY <1>1
  <2>2. f[i] # f[j] /\ ~(Rank(S, before, f[j]) < Rank(S, before, f[i]))
    BY <1>0, <1>4, <2>1
  <2>3. <<f[j], f[i]>> \notin before
    BY <2>1, <2>2, RankLess
  <2> QED BY <2>1, <2>2, <2>3 DEF IsOrder
<1> QED BY <1>0, <1>2, <1>3, <1>4 DEF f

\* The greatest k of a set of numbers.
Greatest(S, k) == {p \in S : Cardinality({q \in S : q > p}) < k}

LEMMA GreatestAre ==
  ASSUME NEW S, IsFiniteSet(S), S \subseteq Nat, NEW k \in Nat \ {0}
  PROVE  /\ Greatest(S, k) \subseteq S /\ IsFiniteSet(Greatest(S, k)) /\ Cardinality(Greatest(S, k)) \in Nat
         /\ \A p \in Greatest(S, k), q \in S : q > p => q \in Greatest(S, k)
         /\ Cardinality(Greatest(S, k)) <= k
         /\ Greatest(S, k) = S \/ Cardinality(Greatest(S, k)) = k
         /\ Cardinality(S) <= k => Greatest(S, k) = S
<1> DEFINE T == Greatest(S, k)
           Above(p) == {q \in S : q > p}
<1>0. \A p \in S : p \in Nat /\ Above(p) \in SUBSET S /\ (p \in T <=> Cardinality(Above(p)) < k)
  BY DEF Greatest
<1>1. \A p \in S : IsFiniteSet(Above(p)) /\ Cardinality(Above(p)) \in Nat
  BY <1>0, FS_Subset, FS_CardinalityType
<1>2. T \in SUBSET S /\ IsFiniteSet(T) /\ Cardinality(T) \in Nat
  <2>1. T \in SUBSET S
    BY DEF Greatest
  <2> QED BY <2>1, FS_Subset, FS_CardinalityType
<1>3. ASSUME NEW p \in T, NEW q \in S, q > p PROVE q \in T
  <2>1. p \in S /\ p \in Nat /\ q \in Nat
    BY <1>0, <1>2
  <2>2. \A z \in S : z > q => z > p
    BY <1>0, <1>3, <2>1
  <2>6. Above(q) \in SUBSET Above(p)
    BY <2>2
  <2>3. Cardinality(Above(q)) <= Cardinality(Above(p))
    BY <1>1, <2>1, <2>6, FS_Subset
  <2>4. Cardinality(Above(p)) < k
    BY <1>0, <2>1
  <2>5. Cardinality(Above(q)) < k
    BY <1>1, <2>1, <2>3, <2>4
  <2> QED BY <1>0, <2>5
<1>4. Cardinality(T) <= k
  <2>1. CASE T = {}
    BY <2>1, FS_EmptySet
  <2>2. CASE T # {}
    <3>1. PICK m \in T : \A q \in T : m <= q
      BY <1>0, <1>2, <2>2, NatLeast
    <3>2. Above(m) = T \ {m}
      <4>1. \A q \in S : q > m => q \in T
        BY <1>3
      <4>2. \A q \in T : q \in S /\ q \in Nat /\ m \in Nat /\ m <= q
        BY <1>0, <1>2, <3>1
      <4>3. m \in T /\ m \in Nat
        BY <4>2
      <4>4. \A q \in S : q > m => q # m
        BY <1>0, <4>3
      <4>5. \A q \in T : q # m => q > m
        BY <4>2
      <4> HIDE DEF T
      <4> QED BY <4>1, <4>2, <4>4, <4>5
    <3>3. Cardinality(T \ {m}) = Cardinality(T) - 1
      BY <1>2, FS_RemoveElement
    <3>4. Cardinality(Above(m)) < k
      BY <1>0, <1>2
    <3> QED BY <1>2, <3>2, <3>3, <3>4
  <2> QED BY <2>1, <2>2
<1>5. ASSUME T # S PROVE Cardinality(T) = k
  <2>1. S \ T \in SUBSET S /\ S \ T # {} /\ S \ T \subseteq Nat
    BY <1>2, <1>5
  <2>2. IsFiniteSet(S \ T)
    BY <2>1, FS_Subset
  <2>3. PICK r \in S \ T : \A q \in S \ T : q <= r
    BY <2>1, <2>2, FiniteGreatest
  <2>4. Above(r) = T
    <3>1. \A q \in S : q > r => q \in T
      <4> SUFFICES ASSUME NEW q \in S, q > r, q \notin T PROVE FALSE
        OBVIOUS
      <4>1. q <= r /\ q \in Nat /\ r \in Nat
        BY <1>0, <2>3
      <4> QED BY <4>1
    <3>2. \A q \in T : q \in S /\ q > r
      <4> SUFFICES ASSUME NEW q \in T PROVE q > r
        BY <1>2
      <4>1. q \in Nat /\ r \in Nat /\ q # r /\ ~(r > q)
        BY <1>0, <1>2, <1>3, <2>3
      <4> QED BY <4>1
    <3> HIDE DEF T
    <3> QED BY <3>1, <3>2
  <2>5. ~(Cardinality(Above(r)) < k)
    BY <1>0, <2>3
  <2> QED BY <1>2, <1>4, <2>4, <2>5
<1>6. ASSUME Cardinality(S) <= k PROVE T = S
  <2>1. ASSUME NEW p \in S PROVE p \in T
    <3>1. Above(p) \in SUBSET (S \ {p})
      BY <1>0
    <3>2. IsFiniteSet(S \ {p}) /\ Cardinality(S \ {p}) = Cardinality(S) - 1
      BY FS_RemoveElement
    <3>3. Cardinality(Above(p)) <= Cardinality(S) - 1
      BY <3>1, <3>2, FS_Subset
    <3>4. Cardinality(S) \in Nat /\ Cardinality(Above(p)) \in Nat
      BY <1>1, FS_CardinalityType
    <3>5. Cardinality(Above(p)) < k
      BY <1>6, <3>3, <3>4
    <3> QED BY <1>0, <3>5
  <2> QED BY <1>2, <2>1
<1> QED BY <1>2, <1>3, <1>4, <1>5, <1>6

LEMMA MinIs ==
  ASSUME NEW S, S \subseteq Nat, S # {}
  PROVE  Min(S) \in S /\ \A x \in S : Min(S) <= x
<1>1. \E n \in S : \A m \in S : n <= m
  BY NatLeast
<1> QED BY <1>1 DEF Min

LEMMA MaxIs ==
  ASSUME NEW S, IsFiniteSet(S), S \subseteq Nat, S # {}
  PROVE  Max(S) \in S /\ \A x \in S : x <= Max(S)
<1>1. \E n \in S : \A m \in S : n >= m
  BY FiniteGreatest
<1> QED BY <1>1 DEF Max

-----------------------------------------------------------------------------
(* Import: the rows of a file                                              *)

\* Rows that may get a product at all: the first of their SKU.
FirstRows == ValidRows({})

RunRows == [step : {"idle", "mark", "rows", "end"}, left : SUBSET FirstRows]

ImportTypeInv ==
  /\ offline \in BOOLEAN /\ raced \in BOOLEAN
  /\ made \in [RowNumbers -> Nat]
  /\ taken \subseteq Skus
  /\ confirming \in [Clients -> {"idle", "write", "add", "run"}]
  /\ run \in [Runners -> RunRows]
  /\ importJob \in [state : {"none", "waiting", "delayed", "active", "completed", "failed"}, tries : Nat]
  /\ troubles \in Nat /\ forgotten \in Nat
  /\ rowsLost \subseteq RowNumbers /\ importStatus \in ImportStatus

\* A run has nothing left to do before and after its rows, and only rows that may get a
\* product have one.
RowsInv ==
  /\ \A r \in Runners : run[r].step \in {"idle", "end"} => run[r].left = {}
  /\ \A q \in RowNumbers : made[q] > 0 => q \in FirstRows

\* The row has its product, or its creation has failed.
RowDone(q) == made[q] > 0 \/ q \in rowsLost

\* What a run does not have left is done.
LeftInv ==
  /\ CompletedIsWhole
  /\ \A r \in Runners : run[r].step \in {"mark", "rows"} =>
       \A q \in ValidRows(taken) : q \in run[r].left \/ RowDone(q)

\* Where nobody interferes, what a run read of the SKUs in use is still so.
SkuInv == ~raced =>
  /\ \A r, q \in Runners : InRun(r) /\ InRun(q) => r = q
  /\ \A r \in Runners : \A q \in run[r].left : Rows[q].sku # 0 =>
       made[q] = 0 /\ Rows[q].sku \notin taken
  /\ \A q \in RowNumbers : Rows[q].sku # 0 =>
       made[q] <= 1 /\ (Rows[q].sku \in taken => made[q] = 0)

\* With the queue, and without trouble, there is one run, and before it a row is made no
\* oftener than the queue has forgotten the job.
QueueInv == ~offline /\ troubles = 0 =>
  /\ \A c \in Clients : confirming[c] # "run" /\ ~InRun(c)
  /\ importJob.state \in {"none", "waiting", "active", "completed"}
  /\ importJob.state # "active" => ~InRun("worker")
  /\ importJob.state \in {"none", "waiting"} => \A q \in RowNumbers : made[q] <= forgotten
  /\ \A q \in run["worker"].left : made[q] <= forgotten
  /\ RowsOnce

ImportInv == ImportTypeInv /\ RowsInv /\ LeftInv /\ SkuInv /\ QueueInv

\* Two such rows of one SKU are one row.
LEMMA FirstOfSku ==
  ASSUME NEW q \in FirstRows, NEW x \in FirstRows, Rows[q].sku # 0, Rows[x].sku = Rows[q].sku
  PROVE  q = x
BY ImportAssumption DEF FirstRows, ValidRows, RowNumbers

\* Fewer rows are valid when more SKUs are in use.
LEMMA ValidRowsShrink ==
  ASSUME NEW S, NEW T, S \subseteq T
  PROVE  ValidRows(T) \subseteq ValidRows(S) /\ ValidRows(T) \subseteq FirstRows
BY DEF ValidRows, FirstRows

LEMMA FirstRowsAreRows == FirstRows \subseteq RowNumbers /\ RowNumbers \subseteq Nat
BY ImportAssumption DEF FirstRows, ValidRows, RowNumbers

\* The next row is one that is left.
LEMMA NextRowLeft ==
  ASSUME ImportTypeInv, NEW r \in Runners, run[r].left # {}
  PROVE  NextRow(r) \in run[r].left /\ NextRow(r) \in FirstRows /\ NextRow(r) \in RowNumbers
<1>1. run[r].left \subseteq FirstRows
  BY DEF ImportTypeInv, RunRows
<1>2. \E n \in run[r].left : \A m \in run[r].left : n <= m
  BY <1>1, FirstRowsAreRows, NatLeast
<1> QED BY <1>1, <1>2, FirstRowsAreRows DEF NextRow, Min

-----------------------------------------------------------------------------
(* What the actions do to a run, for the proofs of the parts               *)

\* A step that leaves the runs and the products alone.
Aside ==
  UNCHANGED <<made, taken, run, raced, rowsLost>>

\* A run has read the file and the SKUs in use.
HasParsed(r) ==
  /\ Parses(r)
  /\ UNCHANGED <<importStatus, made, taken, rowsLost>>

\* A run is over.
IsOver(r) ==
  /\ run' = [run EXCEPT ![r] = Idle]
  /\ UNCHANGED <<made, taken, raced, rowsLost>>

\* Every step is one of a few as the runs see it.
LEMMA ImportSteps ==
  ASSUME ImportTypeInv, ImportNext
  PROVE  \/ Aside /\ importStatus' # "completed"
         \/ Aside /\ importStatus' = importStatus
         \/ \E r \in Runners : \/ HasParsed(r) \/ MarkProcessing(r) \/ CreateRow(r) \/ RowFails(r)
                               \/ Completes(r) \/ (IsOver(r) /\ importStatus' = importStatus)
         \/ \E k \in Skus : CreateWithSku(k)
<1>1. CASE UploadImport \/ PreviewImport \/ FileMissing \/ ForgetJob
  BY <1>1 DEF UploadImport, PreviewImport, FileMissing, ForgetJob, Aside
<1>2. ASSUME NEW c \in Clients,
             ConfirmImport(c) \/ ConfirmWrites(c) \/ EnqueueImport(c) \/ FileMissingInline(c) \/ ConfirmStops(c)
      PROVE  Aside /\ (importStatus' # "completed" \/ importStatus' = importStatus)
  BY <1>2 DEF ConfirmImport, ConfirmWrites, EnqueueImport, FileMissingInline, ConfirmStops, Aside
<1>3. ASSUME NEW c \in Clients, StartInline(c)
      PROVE  HasParsed(c) /\ c \in Runners
  BY <1>3 DEF StartInline, HasParsed, Runners
<1>4. CASE TakeImport
  <2>1. HasParsed("worker") /\ "worker" \in Runners
    BY <1>4 DEF TakeImport, HasParsed, Runners
  <2> QED BY <2>1
<1>5. ASSUME NEW r \in Runners, Ends(r) \/ Interrupted(r)
      PROVE  IsOver(r) /\ importStatus' = importStatus
  BY <1>5 DEF Ends, Interrupted, EndRun, IsOver
<1> QED BY <1>1, <1>2, <1>3, <1>4, <1>5 DEF ImportNext, ImportRun

LEMMA ImportStarts == ImportInit => ImportInv
<1> SUFFICES ASSUME ImportInit PROVE ImportInv
  OBVIOUS
<1> USE DEF ImportInit, Idle
<1>1. ImportTypeInv
  BY DEF ImportTypeInv, RunRows, ImportStatus
<1>2. RowsInv
  BY DEF RowsInv
<1>3. LeftInv
  BY DEF LeftInv, CompletedIsWhole
<1>4. SkuInv
  BY DEF SkuInv, InRun
<1>5. QueueInv
  BY DEF QueueInv, InRun, RowsOnce, Runners
<1> QED BY <1>1, <1>2, <1>3, <1>4, <1>5 DEF ImportInv

\* What a run reads is among the rows that may get a product.
LEMMA ReadRows == ValidRows(Existing) \in SUBSET FirstRows
BY ValidRowsShrink

LEMMA ParsesType ==
  ASSUME ImportTypeInv, NEW r \in Runners, Parses(r)
  PROVE  run' \in [Runners -> RunRows] /\ raced' \in BOOLEAN
<1>1. run' = [run EXCEPT ![r] = run'[r]] /\ run'[r] \in RunRows
  BY ReadRows DEF Parses, ImportTypeInv, RunRows
<1> QED BY <1>1 DEF ImportTypeInv, Parses

LEMMA RetriedState == Retried \in {"delayed", "failed"}
BY DEF Retried

LEMMA IdleRow == Idle \in RunRows
BY DEF Idle, RunRows

LEMMA ImportTypeStep ==
  ASSUME ImportTypeInv, ImportNext
  PROVE  ImportTypeInv'
<1> USE DEF ImportStatus
<1>1. CASE UploadImport \/ PreviewImport
  BY <1>1 DEF ImportTypeInv, UploadImport, PreviewImport
<1>2. ASSUME NEW c \in Clients, ConfirmImport(c) \/ ConfirmWrites(c) \/ EnqueueImport(c) \/ FileMissingInline(c)
      PROVE  ImportTypeInv'
  BY <1>2 DEF ImportTypeInv, ConfirmImport, ConfirmWrites, EnqueueImport, FileMissingInline, Added
<1>3. ASSUME NEW c \in Clients, StartInline(c)
      PROVE  ImportTypeInv'
  <2>1. run' \in [Runners -> RunRows] /\ raced' \in BOOLEAN
    BY <1>3, ParsesType DEF StartInline, Runners
  <2> QED BY <1>3, <2>1 DEF StartInline, ImportTypeInv
<1>4. CASE TakeImport
  <2>1. run' \in [Runners -> RunRows] /\ raced' \in BOOLEAN
    BY <1>4, ParsesType DEF TakeImport, Runners
  <2> QED BY <1>4, <2>1 DEF TakeImport, ImportTypeInv
<1>5. CASE FileMissing
  BY <1>5, RetriedState DEF FileMissing, ImportTypeInv
<1>6. ASSUME NEW r \in Runners, MarkProcessing(r)
      PROVE  ImportTypeInv'
  BY <1>6 DEF MarkProcessing, ImportTypeInv, RunRows
<1>7. ASSUME NEW r \in Runners, CreateRow(r)
      PROVE  ImportTypeInv'
  <2>1. NextRow(r) \in RowNumbers
    BY <1>7, NextRowLeft DEF CreateRow
  <2>2. made' \in [RowNumbers -> Nat]
    BY <1>7, <2>1 DEF CreateRow, ImportTypeInv
  <2>3. run' \in [Runners -> RunRows]
    BY <1>7 DEF CreateRow, ImportTypeInv, RunRows
  <2> QED BY <1>7, <2>2, <2>3 DEF CreateRow, ImportTypeInv
<1>8. ASSUME NEW r \in Runners, RowFails(r)
      PROVE  ImportTypeInv'
  <2>1. NextRow(r) \in RowNumbers
    BY <1>8, NextRowLeft DEF RowFails
  <2>2. run' \in [Runners -> RunRows]
    BY <1>8 DEF RowFails, ImportTypeInv, RunRows
  <2> QED BY <1>8, <2>1, <2>2 DEF RowFails, ImportTypeInv
<1>9. ASSUME NEW r \in Runners, Completes(r) \/ Ends(r)
      PROVE  ImportTypeInv'
  BY <1>9, IdleRow DEF Completes, Ends, EndRun, ImportTypeInv
<1>10. ASSUME NEW r \in Runners, Interrupted(r)
       PROVE  ImportTypeInv'
  BY <1>10, IdleRow, RetriedState DEF Interrupted, ImportTypeInv
<1>11. ASSUME NEW k \in Skus, CreateWithSku(k)
       PROVE  ImportTypeInv'
  BY <1>11 DEF CreateWithSku, ImportTypeInv
<1>12. ASSUME NEW c \in Clients, ConfirmStops(c)
       PROVE  ImportTypeInv'
  BY <1>12 DEF ConfirmStops, ImportTypeInv
<1>13. CASE ForgetJob
  BY <1>13 DEF ForgetJob, ImportTypeInv
<1> QED BY <1>1, <1>2, <1>3, <1>4, <1>5, <1>6, <1>7, <1>8, <1>9, <1>10, <1>11, <1>12, <1>13 DEF ImportNext, ImportRun

-----------------------------------------------------------------------------
\* The rows a step of run r leaves alone, and those it does not.
LEMMA CreateRowDoes ==
  ASSUME ImportTypeInv, NEW r \in Runners, CreateRow(r)
  PROVE  /\ NextRow(r) \in run[r].left /\ NextRow(r) \in FirstRows /\ NextRow(r) \in RowNumbers
         /\ run'[r].left = run[r].left \ {NextRow(r)} /\ run'[r].step = "rows"
         /\ \A s \in Runners : s # r => run'[s] = run[s]
         /\ made'[NextRow(r)] = made[NextRow(r)] + 1
         /\ \A q \in RowNumbers : q # NextRow(r) => made'[q] = made[q]
         /\ \A q \in RowNumbers : made[q] \in Nat
<1>1. NextRow(r) \in run[r].left /\ NextRow(r) \in FirstRows /\ NextRow(r) \in RowNumbers
  BY NextRowLeft DEF CreateRow
<1>2. run'[r].left = run[r].left \ {NextRow(r)} /\ run'[r].step = run[r].step
  BY DEF CreateRow, ImportTypeInv, RunRows
<1> QED BY <1>1, <1>2 DEF CreateRow, ImportTypeInv

LEMMA RowFailsDoes ==
  ASSUME ImportTypeInv, NEW r \in Runners, RowFails(r)
  PROVE  /\ NextRow(r) \in run[r].left /\ run[r].step = "rows"
         /\ run'[r].left = run[r].left \ {NextRow(r)} /\ run'[r].step = "rows"
         /\ \A s \in Runners : s # r => run'[s] = run[s]
<1>1. NextRow(r) \in run[r].left
  BY NextRowLeft DEF RowFails
<1> QED BY <1>1 DEF RowFails, ImportTypeInv, RunRows

LEMMA MarkDoes ==
  ASSUME ImportTypeInv, NEW r \in Runners, MarkProcessing(r)
  PROVE  /\ run[r].step = "mark" /\ run'[r].step = "rows" /\ run'[r].left = run[r].left
         /\ \A s \in Runners : s # r => run'[s] = run[s]
BY DEF MarkProcessing, ImportTypeInv, RunRows

\* A run that begins is complete already, or has every row of a SKU not in use.
LEMMA ParsesDoes ==
  ASSUME ImportTypeInv, NEW r \in Runners, Parses(r)
  PROVE  /\ \/ run'[r].step = "end" /\ run'[r].left = {} 
            \/ run'[r].step = "mark" /\ run'[r].left = ValidRows(Existing)
         /\ \A s \in Runners : s # r => run'[s] = run[s]
BY DEF Parses, ImportTypeInv

LEMMA RowsStep ==
  ASSUME ImportTypeInv, RowsInv, ImportNext
  PROVE  RowsInv'
<1>1. CASE Aside
  BY <1>1 DEF Aside, RowsInv
<1>2. ASSUME NEW r \in Runners, HasParsed(r)
      PROVE  RowsInv'
  BY <1>2, ParsesDoes DEF HasParsed, RowsInv
<1>3. ASSUME NEW r \in Runners, MarkProcessing(r)
      PROVE  RowsInv'
  BY <1>3, MarkDoes DEF MarkProcessing, RowsInv
<1>4. ASSUME NEW r \in Runners, CreateRow(r)
      PROVE  RowsInv'
  BY <1>4, CreateRowDoes DEF RowsInv
<1>5. ASSUME NEW r \in Runners, RowFails(r)
      PROVE  RowsInv'
  BY <1>5, RowFailsDoes DEF RowFails, RowsInv
<1>6. ASSUME NEW r \in Runners, IsOver(r)
      PROVE  RowsInv'
  BY <1>6 DEF IsOver, RowsInv, Idle, ImportTypeInv
<1>7. ASSUME NEW r \in Runners, Completes(r)
      PROVE  IsOver(r)
  BY <1>7 DEF Completes, EndRun, IsOver
<1>8. ASSUME NEW k \in Skus, CreateWithSku(k)
      PROVE  RowsInv'
  BY <1>8 DEF CreateWithSku, RowsInv
<1> QED BY <1>1, <1>2, <1>3, <1>4, <1>5, <1>6, <1>7, <1>8, ImportSteps

\* A valid row that no product of the file has taken the SKU of is among those a run reads.
LEMMA ReadIsWhole ==
  ASSUME ImportTypeInv, RowsInv, NEW q \in ValidRows(taken), made[q] = 0
  PROVE  q \in ValidRows(Existing)
<1>1. q \in FirstRows /\ q \in RowNumbers
  BY ValidRowsShrink, FirstRowsAreRows
<1>2. CASE Rows[q].sku = 0
  BY <1>2 DEF ValidRows
<1>3. CASE Rows[q].sku # 0
  <2>1. ASSUME NEW x \in RowNumbers, made[x] > 0, Rows[x].sku = Rows[q].sku
        PROVE  FALSE
    <3>1. x \in FirstRows
      BY <2>1 DEF RowsInv
    <3>2. x = q
      BY <1>1, <1>3, <2>1, <3>1, FirstOfSku
    <3> QED BY <2>1, <3>2
  <2>2. Rows[q].sku \notin Existing
    BY <1>3, <2>1 DEF Existing, ValidRows
  <2> QED BY <1>3, <2>2 DEF ValidRows
<1> QED BY <1>2, <1>3

LEMMA LeftStep ==
  ASSUME ImportTypeInv, RowsInv, LeftInv, ImportNext
  PROVE  LeftInv'
<1> USE DEF RowDone
<1>0. ValidRows(taken) \subseteq RowNumbers
  BY ValidRowsShrink, FirstRowsAreRows
<1>1. CASE Aside /\ (importStatus' # "completed" \/ importStatus' = importStatus)
  BY <1>1 DEF Aside, LeftInv, CompletedIsWhole, ValidRows
<1>2. ASSUME NEW r \in Runners, HasParsed(r)
      PROVE  LeftInv'
  <2>1. \A q \in ValidRows(taken) : made[q] = 0 => q \in ValidRows(Existing)
    BY ReadIsWhole
  <2>2. \A q \in ValidRows(taken) : made[q] = 0 \/ made[q] > 0
    BY <1>0 DEF ImportTypeInv
  <2>3. ValidRows(taken)' = ValidRows(taken) /\ made' = made /\ rowsLost' = rowsLost /\ importStatus' = importStatus
    BY <1>2 DEF HasParsed, ValidRows
  <2>4. Parses(r)
    BY <1>2 DEF HasParsed
  <2> QED BY <2>1, <2>2, <2>3, <2>4, ParsesDoes DEF LeftInv, CompletedIsWhole
<1>3. ASSUME NEW r \in Runners, MarkProcessing(r)
      PROVE  LeftInv'
  <2>1. ValidRows(taken)' = ValidRows(taken) /\ made' = made /\ rowsLost' = rowsLost /\ importStatus' = "processing"
    BY <1>3 DEF MarkProcessing, ValidRows
  <2> QED BY <1>3, <2>1, MarkDoes DEF LeftInv, CompletedIsWhole
<1>4. ASSUME NEW r \in Runners, CreateRow(r)
      PROVE  LeftInv'
  <2>1. ValidRows(taken)' = ValidRows(taken) /\ rowsLost' = rowsLost /\ importStatus' = importStatus
        /\ run[r].step = "rows"
    BY <1>4 DEF CreateRow, ValidRows
  <2>2. \A q \in RowNumbers : made[q] > 0 \/ q = NextRow(r) => made'[q] > 0
    BY <1>4, CreateRowDoes
  <2> QED BY <1>0, <1>4, <2>1, <2>2, CreateRowDoes DEF LeftInv, CompletedIsWhole
<1>5. ASSUME NEW r \in Runners, RowFails(r)
      PROVE  LeftInv'
  <2>1. ValidRows(taken)' = ValidRows(taken) /\ made' = made /\ importStatus' = importStatus
        /\ rowsLost' = rowsLost \cup {NextRow(r)}
    BY <1>5 DEF RowFails, ValidRows
  <2> QED BY <1>5, <2>1, RowFailsDoes DEF LeftInv, CompletedIsWhole
<1>6. ASSUME NEW r \in Runners, IsOver(r), importStatus' = importStatus \/ Completes(r)
      PROVE  LeftInv'
  <2>1. ValidRows(taken)' = ValidRows(taken) /\ made' = made /\ rowsLost' = rowsLost
    BY <1>6 DEF IsOver, ValidRows
  <2>2. \A s \in Runners : run'[s].step \in {"mark", "rows"} => run'[s] = run[s]
    BY <1>6 DEF IsOver, Idle, ImportTypeInv
  <2>3. Completes(r) => \A q \in ValidRows(taken) : RowDone(q)
    BY DEF Completes, LeftInv
  <2> QED BY <1>6, <2>1, <2>2, <2>3 DEF LeftInv, CompletedIsWhole
<1>7. ASSUME NEW r \in Runners, Completes(r)
      PROVE  IsOver(r)
  BY <1>7 DEF Completes, EndRun, IsOver
<1>8. ASSUME NEW k \in Skus, CreateWithSku(k)
      PROVE  LeftInv'
  <2>1. taken \subseteq taken'
    BY <1>8 DEF CreateWithSku
  <2>2. ValidRows(taken') \subseteq ValidRows(taken)
    BY <2>1, ValidRowsShrink
  <2> QED BY <1>8, <2>2 DEF CreateWithSku, LeftInv, CompletedIsWhole
<1> QED BY <1>1, <1>2, <1>3, <1>4, <1>5, <1>6, <1>7, <1>8, ImportSteps

-----------------------------------------------------------------------------
\* A run that is under way when another begins is noted.
LEMMA ParsesAlone ==
  ASSUME ImportTypeInv, RowsInv, NEW r \in Runners, Parses(r), ~raced'
  PROVE  ~raced /\ \A s \in Runners : s # r => ~InRun(s) /\ run'[s].left = {}
<1>1. ~raced /\ \A s \in Runners : s # r => ~InRun(s)
  BY DEF Parses
<1>2. \A s \in Runners : s # r => run'[s].left = {}
  BY <1>1, ParsesDoes DEF InRun, Idle
<1> QED BY <1>1, <1>2

\* No row a run reads has a SKU in use.
LEMMA ReadIsFree ==
  ASSUME ImportTypeInv, NEW q \in ValidRows(Existing), Rows[q].sku # 0
  PROVE  made[q] = 0 /\ Rows[q].sku \notin taken
<1>1. Rows[q].sku \notin Existing /\ q \in RowNumbers
  BY DEF ValidRows
<1>2. ~(made[q] > 0) /\ Rows[q].sku \notin taken
  BY <1>1 DEF Existing
<1> QED BY <1>1, <1>2 DEF ImportTypeInv

\* A run that only goes on, or ends, leaves at most what it had.
LEMMA RunGoesOn ==
  ASSUME SkuInv, UNCHANGED <<made, taken, raced>>,
         \A s \in Runners : run'[s].left \subseteq run[s].left /\ (InRun(s)' => InRun(s))
  PROVE  SkuInv'
BY DEF SkuInv

LEMMA SkuStep ==
  ASSUME ImportTypeInv, RowsInv, SkuInv, ImportNext
  PROVE  SkuInv'
<1>1. CASE Aside
  BY <1>1 DEF Aside, SkuInv, InRun
<1>2. ASSUME NEW r \in Runners, HasParsed(r)
      PROVE  SkuInv'
  <2> SUFFICES ASSUME ~raced' PROVE SkuInv'
    BY DEF SkuInv
  <2>1. Parses(r) /\ made' = made /\ taken' = taken
    BY <1>2 DEF HasParsed
  <2>2. ~raced /\ \A s \in Runners : s # r => ~InRun(s) /\ run'[s].left = {}
    BY <2>1, ParsesAlone
  <2>3. \A s \in Runners : s # r => ~InRun(s)'
    BY <2>1, <2>2, ParsesDoes DEF InRun
  <2>4. \A q \in run'[r].left : Rows[q].sku # 0 => made[q] = 0 /\ Rows[q].sku \notin taken
    BY <2>1, ParsesDoes, ReadIsFree
  <2> QED BY <2>1, <2>2, <2>3, <2>4 DEF SkuInv
<1>3. ASSUME NEW r \in Runners, MarkProcessing(r)
      PROVE  SkuInv'
  <2>1. \A s \in Runners : run'[s].left \subseteq run[s].left /\ (InRun(s)' => InRun(s))
    BY <1>3, MarkDoes DEF InRun, Idle
  <2> QED BY <1>3, <2>1, RunGoesOn DEF MarkProcessing
<1>4. ASSUME NEW r \in Runners, CreateRow(r)
      PROVE  SkuInv'
  <2> SUFFICES ASSUME ~raced PROVE SkuInv'
    BY <1>4 DEF CreateRow, SkuInv
  <2> DEFINE n == NextRow(r)
  <2>1. /\ n \in run[r].left /\ n \in FirstRows /\ n \in RowNumbers
        /\ run'[r].left = run[r].left \ {n}
        /\ \A s \in Runners : s # r => run'[s] = run[s]
        /\ made'[n] = made[n] + 1
        /\ \A q \in RowNumbers : q # n => made'[q] = made[q]
    BY <1>4, CreateRowDoes
  <2>2. taken' = taken /\ run[r].step = "rows"
    BY <1>4 DEF CreateRow
  <2> HIDE DEF n
  <2>3. InRun(r) /\ \A s \in Runners : InRun(s)' => InRun(s)
    BY <2>1, <2>2 DEF InRun, Idle
  <2>4. \A s \in Runners : s # r => run[s].left = {}
    BY <2>3 DEF SkuInv, InRun, Idle
  <2>5. \A s \in Runners : \A q \in run'[s].left : q # n /\ q \in run[s].left /\ q \in RowNumbers
    BY <2>1, <2>4, FirstRowsAreRows DEF ImportTypeInv, RunRows
  <2>6. Rows[n].sku # 0 => made[n] = 0 /\ Rows[n].sku \notin taken
    BY <2>1 DEF SkuInv
  <2>7. \A r1, q \in Runners : InRun(r1)' /\ InRun(q)' => r1 = q
    BY <2>3 DEF SkuInv
  <2>8. \A s \in Runners : \A q \in run'[s].left : Rows[q].sku # 0 => made'[q] = 0 /\ Rows[q].sku \notin taken'
    BY <2>1, <2>2, <2>5 DEF SkuInv
  <2>9. \A q \in RowNumbers : Rows[q].sku # 0 =>
          made'[q] <= 1 /\ (Rows[q].sku \in taken' => made'[q] = 0)
    BY <2>1, <2>2, <2>6 DEF SkuInv
  <2> QED BY <2>7, <2>8, <2>9 DEF SkuInv
<1>5. ASSUME NEW r \in Runners, RowFails(r)
      PROVE  SkuInv'
  <2>1. \A s \in Runners : run'[s].left \subseteq run[s].left /\ (InRun(s)' => InRun(s))
    BY <1>5, RowFailsDoes DEF InRun, Idle
  <2> QED BY <1>5, <2>1, RunGoesOn DEF RowFails
<1>6. ASSUME NEW r \in Runners, IsOver(r)
      PROVE  SkuInv'
  <2>1. \A s \in Runners : run'[s].left \subseteq run[s].left /\ (InRun(s)' => InRun(s))
    BY <1>6 DEF IsOver, InRun, Idle, ImportTypeInv
  <2> QED BY <1>6, <2>1, RunGoesOn DEF IsOver
<1>7. ASSUME NEW r \in Runners, Completes(r)
      PROVE  IsOver(r)
  BY <1>7 DEF Completes, EndRun, IsOver
<1>8. ASSUME NEW k \in Skus, CreateWithSku(k)
      PROVE  SkuInv'
  <2> SUFFICES ASSUME ~raced' PROVE SkuInv'
    BY DEF SkuInv
  <2>1. ~raced /\ \A s \in Runners : \A q \in run[s].left : Rows[q].sku # k
    BY <1>8 DEF CreateWithSku
  <2>2. \A q \in RowNumbers : Rows[q].sku = k => made[q] = 0
    BY <1>8 DEF CreateWithSku, Existing, ImportTypeInv
  <2>3. taken' = taken \cup {k} /\ made' = made /\ run' = run
    BY <1>8 DEF CreateWithSku
  <2> QED BY <2>1, <2>2, <2>3 DEF SkuInv, InRun
<1> QED BY <1>1, <1>2, <1>3, <1>4, <1>5, <1>6, <1>7, <1>8, ImportSteps

-----------------------------------------------------------------------------
\* A step that meets trouble, or where there is no queue, has nothing to show.
LEMMA TroubleCounts ==
  ASSUME ImportTypeInv, troubles' = troubles + 1
  PROVE  troubles' # 0
BY DEF ImportTypeInv

LEMMA QueueStep ==
  ASSUME ImportTypeInv, RowsInv, QueueInv, ImportNext
  PROVE  QueueInv'
<1> SUFFICES ASSUME ~offline', troubles' = 0 PROVE QueueInv'
  BY DEF QueueInv
<1>0. ~offline /\ offline' = offline
  BY DEF ImportNext, ImportRun, UploadImport, PreviewImport, ConfirmImport, ConfirmWrites, EnqueueImport,
         StartInline, FileMissingInline, TakeImport, FileMissing, MarkProcessing, CreateRow, Completes, Ends,
         RowFails, Interrupted, CreateWithSku, ConfirmStops, ForgetJob
<1>t. ASSUME troubles' = troubles + 1 PROVE FALSE
  BY <1>t, TroubleCounts
<1>u. ASSUME troubles' = troubles
      PROVE  /\ \A c \in Clients : confirming[c] # "run" /\ ~InRun(c)
             /\ importJob.state \in {"none", "waiting", "active", "completed"}
             /\ importJob.state # "active" => ~InRun("worker")
             /\ importJob.state \in {"none", "waiting"} => \A q \in RowNumbers : made[q] <= forgotten
             /\ \A q \in run["worker"].left : made[q] <= forgotten
             /\ \A q \in RowNumbers : made[q] <= forgotten + 1
  BY <1>u, <1>0 DEF QueueInv, RowsOnce
<1>1. CASE UploadImport \/ PreviewImport
  BY <1>0, <1>u, <1>1 DEF UploadImport, PreviewImport, QueueInv, RowsOnce, InRun
<1>2. ASSUME NEW c \in Clients, ConfirmImport(c) \/ ConfirmWrites(c)
      PROVE  QueueInv'
  BY <1>0, <1>u, <1>2 DEF ConfirmImport, ConfirmWrites, QueueInv, RowsOnce, InRun, ImportTypeInv
<1>3. ASSUME NEW c \in Clients, EnqueueImport(c)
      PROVE  QueueInv'
  <2>1. /\ \A d \in Clients : confirming'[d] # "run"
        /\ importJob' = Added
        /\ UNCHANGED <<run, made, troubles, forgotten>>
    BY <1>0, <1>u, <1>3 DEF EnqueueImport, ImportTypeInv
  <2>2. /\ importJob'.state \in {"none", "waiting", "active", "completed"}
        /\ importJob'.state # "active" => importJob.state # "active"
        /\ importJob'.state \in {"none", "waiting"} => importJob.state \in {"none", "waiting"}
    BY <2>1, <1>u DEF Added
  <2> QED BY <1>0, <1>u, <2>1, <2>2 DEF QueueInv, RowsOnce, InRun
<1>4. ASSUME NEW c \in Clients, StartInline(c) \/ FileMissingInline(c)
      PROVE  FALSE
  BY <1>t, <1>u, <1>4 DEF StartInline, FileMissingInline
<1>5. CASE TakeImport
  <2>1. /\ importJob.state \in {"waiting", "delayed"}
        /\ importJob'.state = "active"
        /\ Parses("worker") /\ "worker" \in Runners
        /\ UNCHANGED <<made, confirming, troubles, forgotten>>
    BY <1>5 DEF TakeImport, ImportTypeInv, Runners
  <2>2. \A q \in RowNumbers : made[q] <= forgotten
    BY <1>u, <2>1
  <2>3. run'["worker"].left \subseteq RowNumbers
    BY <2>1, ParsesDoes, ReadRows, FirstRowsAreRows
  <2>4. \A c \in Clients : ~InRun(c)'
    BY <1>u, <2>1, ParsesDoes, ImportAssumption DEF InRun, Runners
  <2> QED BY <1>0, <1>u, <2>1, <2>2, <2>3, <2>4 DEF QueueInv, RowsOnce
<1>6. ASSUME FileMissing \/ (\E r \in Runners : RowFails(r) \/ Interrupted(r)) \/ \E c \in Clients : ConfirmStops(c)
      PROVE  FALSE
  BY <1>t, <1>6 DEF FileMissing, RowFails, Interrupted, ConfirmStops
<1>7. ASSUME NEW r \in Runners, MarkProcessing(r) \/ CreateRow(r) \/ Completes(r) \/ Ends(r)
      PROVE  r = "worker" /\ importJob.state = "active"
  <2>1. InRun(r) /\ troubles' = troubles
    BY <1>7 DEF MarkProcessing, CreateRow, Completes, Ends, InRun, Idle
  <2> QED BY <1>u, <2>1 DEF Runners
<1>8. ASSUME NEW r \in Runners, MarkProcessing(r)
      PROVE  QueueInv'
  <2>1. r = "worker" /\ importJob.state = "active" /\ UNCHANGED <<made, confirming, troubles, importJob, forgotten>>
    BY <1>7, <1>8 DEF MarkProcessing
  <2>2. run'["worker"].left = run["worker"].left /\ \A c \in Clients : run'[c] = run[c]
    <3>1. run'[r].left = run[r].left /\ \A s \in Runners : s # r => run'[s] = run[s]
      BY <1>8, MarkDoes
    <3> QED BY <2>1, <3>1, ImportAssumption DEF Runners
  <2> QED BY <1>0, <1>u, <2>1, <2>2 DEF QueueInv, RowsOnce, InRun
<1>9. ASSUME NEW r \in Runners, CreateRow(r)
      PROVE  QueueInv'
  <2> DEFINE n == NextRow(r)
  <2>1. r = "worker" /\ importJob.state = "active" /\ UNCHANGED <<confirming, troubles, importJob, forgotten>>
    BY <1>7, <1>9 DEF CreateRow
  <2>2. /\ n \in run[r].left /\ n \in RowNumbers
        /\ run'[r].left = run[r].left \ {n}
        /\ \A s \in Runners : s # r => run'[s] = run[s]
        /\ made'[n] = made[n] + 1
        /\ \A q \in RowNumbers : q # n => made'[q] = made[q]
    BY <1>9, CreateRowDoes
  <2> HIDE DEF n
  <2>3. run[r].left \subseteq RowNumbers
    BY FirstRowsAreRows DEF ImportTypeInv, RunRows
  <2>4. \A q \in run'["worker"].left : made'[q] <= forgotten
    BY <1>u, <2>1, <2>2, <2>3
  <2>5. \A q \in RowNumbers : made'[q] <= forgotten + 1
    <3>1. made[n] \in Nat /\ forgotten \in Nat /\ made[n] <= forgotten
      BY <1>u, <2>1, <2>2 DEF ImportTypeInv
    <3>2. made'[n] <= forgotten + 1
      BY <2>2, <3>1
    <3> QED BY <1>u, <2>1, <2>2, <3>2
  <2>6. \A c \in Clients : ~InRun(c)'
    BY <1>u, <2>1, <2>2, ImportAssumption DEF InRun, Runners
  <2> QED BY <1>0, <1>u, <2>1, <2>4, <2>5, <2>6 DEF QueueInv, RowsOnce
<1>10. ASSUME NEW r \in Runners, Completes(r) \/ Ends(r)
       PROVE  QueueInv'
  <2>1. r = "worker" /\ UNCHANGED <<made, confirming, troubles, forgotten>> /\ EndRun(r, "completed")
    BY <1>7, <1>10 DEF Completes, Ends
  <2>2. importJob'.state = "completed" /\ run'["worker"] = Idle /\ \A c \in Clients : run'[c] = run[c]
    BY <2>1, ImportAssumption DEF EndRun, ImportTypeInv, Runners
  <2> QED BY <1>0, <1>u, <2>1, <2>2 DEF QueueInv, RowsOnce, InRun, Idle
<1>11. ASSUME NEW k \in Skus, CreateWithSku(k)
       PROVE  QueueInv'
  BY <1>0, <1>u, <1>11 DEF CreateWithSku, QueueInv, RowsOnce, InRun
<1>12. CASE ForgetJob
  <2>1. /\ importJob' = [state |-> "none", tries |-> 0] /\ forgotten' = forgotten + 1
        /\ importJob.state # "active" /\ UNCHANGED <<made, confirming, run, troubles>>
    BY <1>12 DEF ForgetJob
  <2>2. forgotten \in Nat /\ made \in [RowNumbers -> Nat]
    BY DEF ImportTypeInv
  <2>3. \A q \in RowNumbers : made'[q] <= forgotten' /\ made'[q] <= forgotten' + 1
    BY <1>u, <2>1, <2>2
  <2>4. run["worker"].left \subseteq RowNumbers
    BY FirstRowsAreRows DEF ImportTypeInv, RunRows, Runners
  <2> QED BY <1>0, <1>u, <2>1, <2>3, <2>4 DEF QueueInv, RowsOnce, InRun
<1> QED BY <1>1, <1>2, <1>3, <1>4, <1>5, <1>6, <1>8, <1>9, <1>10, <1>11, <1>12 DEF ImportNext, ImportRun

LEMMA ImportStep == ImportInv /\ [ImportNext]_importVars => ImportInv'
<1>1. ASSUME ImportInv, ImportNext PROVE ImportInv'
  <2>1. ImportTypeInv /\ RowsInv /\ LeftInv /\ SkuInv /\ QueueInv
    BY <1>1 DEF ImportInv
  <2>2. ImportTypeInv' /\ RowsInv' /\ LeftInv' /\ SkuInv' /\ QueueInv'
    BY <1>1, <2>1, ImportTypeStep, RowsStep, LeftStep, SkuStep, QueueStep
  <2> QED BY <2>2 DEF ImportInv
<1>2. ASSUME ImportInv, UNCHANGED importVars PROVE ImportInv'
  <2> USE <1>2 DEF importVars, ImportInv
  <2>1. ImportTypeInv' /\ RowsInv'
    BY DEF ImportTypeInv, RowsInv
  <2>2. LeftInv'
    BY DEF LeftInv, CompletedIsWhole, ValidRows, RowDone
  <2>3. SkuInv'
    BY DEF SkuInv, InRun
  <2>4. QueueInv'
    BY DEF QueueInv, RowsOnce, InRun
  <2> QED BY <2>1, <2>2, <2>3, <2>4 DEF ImportInv
<1> QED BY <1>1, <1>2

\* The products of a SKU: the merchant's own, or the one of its first row.
LEMMA SkuOnceFollows == ImportInv => SkuOnce
<1> SUFFICES ASSUME ImportInv, ~raced, NEW k \in Skus PROVE ProductsWithSku(k) <= 1
  BY DEF SkuOnce
<1> DEFINE S == {r \in RowNumbers : Rows[r].sku = k}
<1>1. ImportTypeInv /\ RowsInv /\ k # 0 /\ k \in Nat
  BY ImportAssumption DEF ImportInv, Skus, RowNumbers
<1>2. IsFiniteSet(S)
  BY ImportAssumption, FS_Subset DEF RowNumbers
<1>3. \A q \in S : made[q] \in Nat /\ made[q] <= 1 /\ (k \in taken => made[q] = 0)
  BY <1>1 DEF ImportInv, SkuInv, ImportTypeInv
<1>4. \A q, x \in S : made[q] > 0 /\ made[x] > 0 => q = x
  BY <1>1, FirstOfSku DEF RowsInv
<1>5. S \subseteq RowNumbers /\ ProductsWithSku(k) = Cardinality(taken \cap {k}) + SumFunctionOnSet(made, S)
  BY DEF ProductsWithSku
<1> HIDE DEF S
<1>6. CASE \A q \in S : made[q] = 0
  <2>1. SumFunctionOnSet(made, S) = 0
    BY <1>2, <1>6, SumOfZeroes
  <2>2. Cardinality(taken \cap {k}) \in {0, 1}
    <3>1. taken \cap {k} = {} \/ taken \cap {k} = {k}
      OBVIOUS
    <3>2. Cardinality({}) = 0 /\ Cardinality({k}) = 1
      BY FS_EmptySet, FS_Singleton
    <3> QED BY <3>1, <3>2
  <2> QED BY <1>5, <2>1, <2>2
<1>7. CASE \E q \in S : made[q] # 0
  <2>1. PICK q \in S : made[q] # 0
    BY <1>7
  <2>2. made[q] = 1 /\ k \notin taken
    BY <1>3, <2>1
  <2>3. \A x \in S : x # q => made[x] = 0
    BY <1>3, <1>4, <2>1
  <2>4. SumFunctionOnSet(made, S) = made[q]
    BY <1>2, <1>3, <2>3, SumOfOneTerm
  <2>5. taken \cap {k} = {} /\ Cardinality({}) = 0
    BY <2>2, FS_EmptySet
  <2> QED BY <1>5, <2>2, <2>4, <2>5
<1> QED BY <1>6, <1>7

\* The runs of an import, queued or inline, interrupted and tried again, keep the invariant
\* of its rows (processImportJob, confirmImport, enqueueImport).
THEOREM ImportInvariant == ImportSpec => []ImportInv
BY ImportStarts, ImportStep, PTL DEF ImportSpec

\* A SKU is given to one product, an import nothing interrupts makes each row once, and one
\* that is complete has all its valid rows: for any file, requests, previews and faults.
THEOREM ImportAlwaysOnce == ImportSpec => []ImportedOnce
<1>1. ImportInv => ImportedOnce
  BY SkuOnceFollows DEF ImportInv, LeftInv, QueueInv, RowsOnce, ImportedOnce
<1> QED BY <1>1, ImportInvariant, PTL

LEMMA ImportTypes == ImportInv => ImportTypeOK
<1> SUFFICES ASSUME ImportInv PROVE ImportTypeOK
  OBVIOUS
<1>1. FirstRows \subseteq RowNumbers
  BY DEF FirstRows, ValidRows
<1>2. run \in [Runners -> [step : {"idle", "mark", "rows", "end"}, left : SUBSET RowNumbers]]
  <2>1. RunRows \subseteq [step : {"idle", "mark", "rows", "end"}, left : SUBSET RowNumbers]
    BY <1>1 DEF RunRows
  <2> QED BY <2>1 DEF ImportInv, ImportTypeInv
<1> QED BY <1>2 DEF ImportInv, ImportTypeInv, ImportTypeOK

-----------------------------------------------------------------------------
(* Lists of the administration                                             *)

Shown == UNION {shown[i] : i \in DOMAIN shown}

ListTypeInv ==
  /\ status \in [1..R -> Statuses \cup {"none"}]
  /\ list \in Lists /\ asked \in {"OPEN", "none", "else"}
  /\ cursor \in 0..R
  /\ shown \in Seq(SUBSET (1..R))
  /\ must \subseteq Matching
  /\ slips \in Nat
  /\ at \in {"start", "more", "end"}

\* Rows of the list that a client has gone past.
Missed(c) == {r \in must \ Shown : r > c}

\* The client has seen the rows from its cursor on, but for those that slips stand for.
ListInv ==
  /\ ListTypeInv
  /\ at = "start" => cursor = 0 /\ shown = <<>> /\ must = {}
  /\ at = "more" => cursor # 0 /\ cursor \in Shown /\ \A r \in Shown : r >= cursor
  /\ at = "end" => cursor = 0
  /\ at # "start" => Cardinality(Missed(cursor)) <= slips
  /\ \A i, j \in DOMAIN shown : i # j => shown[i] \cap shown[j] = {}

LEMMA FilterIsStatus == asked \in {"OPEN", "none", "else"} => "none" \notin ListFilter
BY DEF ListFilter, ByText, ByStatus, Statuses

LEMMA FiniteRows ==
  ASSUME NEW S \in SUBSET (1..R)
  PROVE  IsFiniteSet(S) /\ Cardinality(S) \in Nat /\ S \subseteq Nat
<1>1. R \in Nat
  BY ListingsAssumption
<1>2. IsFiniteSet(1..R)
  BY <1>1, FS_Interval
<1>3. IsFiniteSet(S) /\ Cardinality(S) \in Nat
  BY <1>2, FS_Subset, FS_CardinalityType
<1> QED BY <1>1, <1>3

\* What a turn has of the rows of the list: the next ones in order, all of those left where
\* there is no next cursor; and at most one is skipped, where the cursor's row has left.
LEMMA PageHas ==
  ASSUME ListInv, at # "end"
  PROVE  LET turn == FindMany
             below == {r \in Matching : cursor = 0 \/ r < cursor}
         IN  /\ turn \subseteq below /\ turn \in SUBSET (1..R)
             /\ ListCursor(turn) \in 0..R
             /\ ListCursor(turn) # 0 => ListCursor(turn) \in turn /\ \A r \in turn : r >= ListCursor(turn)
             /\ \E skipped \in SUBSET (1..R) :
                  /\ Cardinality(skipped) <= (IF cursor = 0 \/ cursor \in Matching THEN 0 ELSE 1)
                  /\ {r \in below : r > ListCursor(turn)} \subseteq turn \cup skipped
<1> DEFINE below == {r \in Matching : cursor = 0 \/ r < cursor}
           from == {r \in Matching : cursor = 0 \/ r <= cursor}
           rest == IF cursor = 0 \/ from = {} THEN from ELSE from \ {Max(from)}
           turn == FindMany
           next == ListCursor(turn)
<1>1. Matching \in SUBSET (1..R) /\ from \in SUBSET (1..R) /\ cursor \in 0..R /\ Take \in Nat \ {0} /\ R \in Nat
  BY ListingsAssumption DEF ListInv, ListTypeInv, Matching, Present
<1>2. turn = Greatest(rest, Take)
  BY DEF FindMany, Greatest
<1>3. from # {} => Max(from) \in from /\ \A x \in from : x <= Max(from)
  BY <1>1, FiniteRows, MaxIs
<1>16. /\ \A r \in Matching : (r < cursor => r <= cursor) /\ (r <= cursor /\ r # cursor => r < cursor)
       /\ ~(cursor < cursor)
  BY <1>1
<1>4. \E skipped \in SUBSET (1..R) :
        /\ Cardinality(skipped) <= (IF cursor = 0 \/ cursor \in Matching THEN 0 ELSE 1)
        /\ rest \subseteq below /\ below \subseteq rest \cup skipped
  <2>1. CASE cursor = 0 \/ from = {}
    <3>1. rest = from /\ below \subseteq rest /\ rest \subseteq below
      <4>1. rest = from
        BY <2>1
      <4>2. below \subseteq from /\ (cursor = 0 => from \subseteq below)
        BY <1>16
      <4> HIDE DEF rest, below, from
      <4> QED BY <2>1, <4>1, <4>2
    <3>2. {} \in SUBSET (1..R) /\ Cardinality({}) = 0
      BY FS_EmptySet
    <3> HIDE DEF rest, below
    <3> QED BY <3>1, <3>2
  <2>2. CASE cursor # 0 /\ cursor \in Matching
    <3>1. cursor \in from
      BY <1>1, <2>2
    <3>2. Max(from) = cursor
      BY <1>1, <1>3, <2>2, <3>1
    <3>3. rest = from \ {cursor}
      BY <2>2, <3>1, <3>2
    <3>4. rest = below
      <4>1. below = from \ {cursor}
        BY <1>16, <2>2
      <4> QED BY <3>3, <4>1
    <3>5. {} \in SUBSET (1..R) /\ Cardinality({}) = 0
      BY FS_EmptySet
    <3> HIDE DEF rest, below
    <3> QED BY <3>4, <3>5
  <2>3. CASE cursor # 0 /\ cursor \notin Matching /\ from # {}
    <3>1. from = below /\ rest = from \ {Max(from)} /\ Max(from) \in 1..R
      <4>1. from = below
        BY <1>16, <2>3
      <4>2. rest = from \ {Max(from)}
        BY <2>3
      <4>3. Max(from) \in 1..R
        BY <1>1, <1>3, <2>3
      <4> QED BY <4>1, <4>2, <4>3
    <3>2. Cardinality({Max(from)}) = 1
      BY FS_Singleton
    <3>3. {Max(from)} \in SUBSET (1..R)
      BY <3>1
    <3> HIDE DEF rest, below, from
    <3> QED BY <2>3, <3>1, <3>2, <3>3
  <2> QED BY <2>1, <2>2, <2>3
<1>5. PICK skipped \in SUBSET (1..R) :
        /\ Cardinality(skipped) <= (IF cursor = 0 \/ cursor \in Matching THEN 0 ELSE 1)
        /\ rest \subseteq below /\ below \subseteq rest \cup skipped
  BY <1>4
<1>6. rest \in SUBSET (1..R)
  BY <1>1
<1> HIDE DEF rest
<1>7. IsFiniteSet(rest) /\ rest \subseteq Nat
  BY <1>6, FiniteRows
<1>8. /\ turn \subseteq rest /\ Cardinality(turn) \in Nat
      /\ \A p \in turn, q \in rest : q > p => q \in turn
      /\ turn = rest \/ Cardinality(turn) = Take
  BY <1>1, <1>2, <1>7, GreatestAre
<1>9. turn \in SUBSET (1..R) /\ turn \subseteq Nat
  BY <1>6, <1>7, <1>8
<1>10. Cardinality(turn) = Take => turn # {}
  BY <1>1, FS_EmptySet
<1> HIDE DEF turn
<1>11. next # 0 => next \in turn /\ \A r \in turn : r >= next
  <2> SUFFICES ASSUME next # 0 PROVE next \in turn /\ \A r \in turn : r >= next
    OBVIOUS
  <2>1. Cardinality(turn) = Take /\ next = Min(turn)
    BY DEF ListCursor
  <2>2. next \in turn /\ \A r \in turn : next <= r
    <3>1. turn \subseteq Nat /\ turn # {}
      BY <1>9, <1>10, <2>1
    <3>2. Min(turn) \in turn /\ \A r \in turn : Min(turn) <= r
      BY <3>1, MinIs
    <3> HIDE DEF next
    <3> QED BY <2>1, <3>2
  <2>3. \A r \in turn : r \in Nat
    BY <1>9
  <2> QED BY <2>2, <2>3
<1>12. next = 0 => turn = rest
  <2> SUFFICES ASSUME next = 0, Cardinality(turn) = Take PROVE FALSE
    BY <1>8
  <2>1. next = Min(turn)
    BY DEF ListCursor
  <2>2. Min(turn) \in turn
    BY <1>9, <1>10, MinIs
  <2>3. 0 \notin 1..R
    BY <1>1
  <2> QED BY <1>9, <2>1, <2>2, <2>3
<1> HIDE DEF next
<1>13. next \in 0..R
  <2>1. next # 0 => next \in 1..R
    BY <1>9, <1>11
  <2> QED BY <1>1, <2>1
<1>14. {r \in below : r > next} \subseteq turn \cup skipped
  <2> SUFFICES ASSUME NEW r \in below, r > next, r \notin skipped PROVE r \in turn
    OBVIOUS
  <2>1. r \in rest
    BY <1>5
  <2> QED BY <1>8, <1>11, <1>12, <2>1
<1>15. turn \subseteq below
  BY <1>5, <1>8
<1> QED BY <1>5, <1>9, <1>11, <1>13, <1>14, <1>15 DEF turn, next

\* Turns leave the rows a client was shown, and add none to those it must see.
LEMMA ListTurn ==
  ASSUME ListInv, NEW r \in 1..R, NEW s \in Statuses, Turn(r, s)
  PROVE  ListInv'
<1>1. /\ status' = [status EXCEPT ![r] = s]
      /\ must' = {q \in must : status'[q] \in ListFilter}
      /\ UNCHANGED <<list, asked, cursor, shown, slips, at>>
  BY DEF Turn
<1>2. ListFilter' = ListFilter /\ "none" \notin ListFilter
  BY <1>1, FilterIsStatus DEF ListFilter, ByText, ByStatus, ListInv, ListTypeInv
<1>3. status' \in [1..R -> Statuses \cup {"none"}]
  BY <1>1 DEF ListInv, ListTypeInv
<1>4. must' \subseteq Matching' /\ must' \subseteq must /\ must \in SUBSET (1..R)
  BY <1>1, <1>2 DEF Matching, Present, ListInv, ListTypeInv
<1>5. ListTypeInv'
  BY <1>1, <1>3, <1>4 DEF ListInv, ListTypeInv
<1>6. at # "start" => Cardinality(Missed(cursor))' <= slips
  <2>1. Missed(cursor)' \in SUBSET Missed(cursor) /\ Missed(cursor) \in SUBSET (1..R)
    BY <1>1, <1>4 DEF Missed, Shown
  <2>2. Cardinality(Missed(cursor)') <= Cardinality(Missed(cursor)) /\ Cardinality(Missed(cursor)) \in Nat
        /\ Cardinality(Missed(cursor)') \in Nat
    BY <2>1, FiniteRows, FS_Subset, FS_CardinalityType
  <2> QED BY <2>2 DEF ListInv, ListTypeInv
<1>7. Shown' = Shown
  BY <1>1 DEF Shown
<1> QED BY <1>1, <1>4, <1>5, <1>6, <1>7 DEF ListInv

LEMMA ListRead ==
  ASSUME ListInv, NEW l, ReadList(l)
  PROVE  ListInv'
<1> DEFINE turn == FindMany
           below == {r \in Matching : cursor = 0 \/ r < cursor}
           next == ListCursor(turn)
<1>1. /\ at # "end"
      /\ shown' = Append(shown, turn)
      /\ must' = IF at = "start" THEN Matching ELSE must
      /\ slips' = IF cursor = 0 \/ cursor \in Matching THEN slips ELSE slips + 1
      /\ cursor' = next
      /\ at' = IF next = 0 THEN "end" ELSE "more"
      /\ UNCHANGED <<list, asked, status, turns>>
  BY DEF ReadList
<1>2. /\ turn \subseteq below /\ turn \in SUBSET (1..R)
      /\ next \in 0..R
      /\ next # 0 => next \in turn /\ \A r \in turn : r >= next
      /\ \E skipped \in SUBSET (1..R) :
           /\ Cardinality(skipped) <= (IF cursor = 0 \/ cursor \in Matching THEN 0 ELSE 1)
           /\ {r \in below : r > next} \subseteq turn \cup skipped
  BY <1>1, PageHas
<1>3. PICK skipped \in SUBSET (1..R) :
           /\ Cardinality(skipped) <= (IF cursor = 0 \/ cursor \in Matching THEN 0 ELSE 1)
           /\ {r \in below : r > next} \subseteq turn \cup skipped
  BY <1>2
<1> HIDE DEF turn, next
<1>4. Matching' = Matching /\ Matching \in SUBSET (1..R) /\ must \subseteq Matching
  BY <1>1 DEF Matching, Present, ListFilter, ByText, ByStatus, ListInv, ListTypeInv
<1>5. shown \in Seq(SUBSET (1..R)) /\ cursor \in 0..R /\ slips \in Nat /\ R \in Nat
  BY ListingsAssumption DEF ListInv, ListTypeInv
<1>6. ListTypeInv'
  BY <1>1, <1>2, <1>4, <1>5 DEF ListInv, ListTypeInv
<1>7. /\ Len(shown) \in Nat /\ DOMAIN shown = 1..Len(shown)
      /\ DOMAIN shown' = 1..Len(shown) + 1 /\ shown'[Len(shown) + 1] = turn
      /\ \A i \in DOMAIN shown : shown'[i] = shown[i]
  BY <1>1, <1>2, <1>5
<1>8. Shown' = Shown \cup turn
  BY <1>7 DEF Shown
<1>9. Shown \subseteq 1..R
  BY <1>5 DEF Shown
<1>10. \A r \in Shown : \A q \in turn : q < r
  <2>1. CASE at = "start"
    BY <2>1 DEF Shown, ListInv
  <2>2. CASE at = "more"
    <3>1. cursor # 0 /\ \A r \in Shown : r >= cursor
      BY <2>2 DEF ListInv
    <3>2. \A q \in turn : q < cursor /\ q \in Nat
      BY <1>2, <3>1
    <3>3. \A r \in Shown : r \in Nat
      BY <1>9
    <3> QED BY <1>5, <3>1, <3>2, <3>3
  <2> QED BY <1>1, <2>1, <2>2 DEF ListInv, ListTypeInv
<1>11. \A i, j \in DOMAIN shown' : i # j => shown'[i] \cap shown'[j] = {}
  <2>1. \A i \in DOMAIN shown : shown[i] \cap turn = {}
    <3> SUFFICES ASSUME NEW i \in DOMAIN shown, NEW q \in shown[i], q \in turn PROVE FALSE
      OBVIOUS
    <3>1. q \in Shown /\ q \in Nat
      BY <1>2 DEF Shown
    <3> QED BY <1>10, <3>1
  <2>2. \A i, j \in DOMAIN shown : i # j => shown[i] \cap shown[j] = {}
    BY DEF ListInv
  <2> QED BY <1>7, <2>1, <2>2
<1>12. at' = "more" => cursor' # 0 /\ cursor' \in Shown' /\ \A r \in Shown' : r >= cursor'
  <2> SUFFICES ASSUME next # 0 PROVE next \in Shown' /\ \A r \in Shown' : r >= next
    BY <1>1
  <2>1. next \in turn /\ next \in Nat /\ \A r \in turn : r >= next
    BY <1>2
  <2>2. \A r \in Shown : next < r /\ r \in Nat
    BY <1>9, <1>10, <2>1
  <2>3. \A r \in Shown : r >= next
    BY <2>1, <2>2
  <2> QED BY <1>8, <2>1, <2>3
<1>13. Cardinality(Missed(cursor))' <= slips'
  <2> DEFINE old == IF at = "start" THEN {} ELSE Missed(cursor)
             new == Missed(cursor)'
  <2>1. old \in SUBSET (1..R) /\ new \in SUBSET (1..R)
    BY <1>1, <1>4 DEF Missed
  <2>2. new \subseteq old \cup skipped
    <3> SUFFICES ASSUME NEW r \in new, r \notin skipped PROVE r \in old
      OBVIOUS
    <3>1. r \in must' /\ r \notin Shown /\ r \notin turn /\ r > next /\ r \in Matching /\ r \in 1..R
      BY <1>1, <1>4, <1>8 DEF Missed
    <3>2. r \notin below
      BY <1>3, <3>1
    <3>3. cursor # 0 /\ ~(r < cursor)
      BY <3>1, <3>2
    <3>4. at = "more"
      BY <1>1, <3>3 DEF ListInv, ListTypeInv
    <3>5. r # cursor
      BY <3>1, <3>4 DEF ListInv
    <3>6. r > cursor
      BY <1>5, <3>1, <3>3, <3>5
    <3>7. r \in must
      BY <1>1, <3>1, <3>4
    <3> QED BY <3>1, <3>4, <3>6, <3>7 DEF Missed
  <2>3. Cardinality(old) <= slips
    BY <1>5, FS_EmptySet DEF ListInv
  <2> HIDE DEF old, new
  <2>4. /\ Cardinality(old) \in Nat /\ Cardinality(skipped) \in Nat /\ Cardinality(new) \in Nat
        /\ IsFiniteSet(old) /\ IsFiniteSet(skipped)
    BY <2>1, FiniteRows
  <2>5. Cardinality(old \cup skipped) = Cardinality(old) + Cardinality(skipped) - Cardinality(old \cap skipped)
        /\ IsFiniteSet(old \cup skipped) /\ IsFiniteSet(old \cap skipped)
    BY <2>4, FS_Union, FS_Intersection
  <2>6. Cardinality(old \cap skipped) \in Nat /\ Cardinality(old \cup skipped) \in Nat
    BY <2>5, FS_CardinalityType
  <2>7. Cardinality(new) <= Cardinality(old \cup skipped)
    BY <2>2, <2>5, FS_Subset
  <2>8. Cardinality(new) <= slips'
    BY <1>1, <1>3, <1>5, <2>3, <2>4, <2>5, <2>6, <2>7
  <2> QED BY <2>8 DEF new
<1>14. (at' = "start" => FALSE) /\ (at' = "end" => cursor' = 0)
  BY <1>1
<1> QED BY <1>6, <1>11, <1>12, <1>13, <1>14 DEF ListInv

LEMMA ListStep == ListInv /\ [ListingsNext]_listVars => ListInv'
<1> SUFFICES ASSUME ListInv, [ListingsNext]_listVars PROVE ListInv'
  OBVIOUS
<1>1. ASSUME NEW l, ReadList(l) PROVE ListInv'
  BY <1>1, ListRead
<1>2. ASSUME NEW r \in 1..R, NEW s \in Statuses, ResolveDispute(r, s) \/ Decide(r, s) PROVE ListInv'
  BY <1>2, ListTurn DEF ResolveDispute, Decide
<1>3. ASSUME NEW r \in 1..R, Add(r) PROVE ListInv'
  BY <1>3, ListTurn DEF Add, Statuses
<1>4. CASE UNCHANGED listVars
  <2>1. Matching' = Matching /\ Shown' = Shown
    BY <1>4 DEF listVars, Matching, Present, ListFilter, ByText, ByStatus, Shown
  <2> QED BY <1>4, <2>1 DEF listVars, ListInv, ListTypeInv, Missed
<1> QED BY <1>1, <1>2, <1>3, <1>4 DEF ListingsNext, ListUsers, ListShops, ListOrders, ListDisputes, ListPayouts,
           ListAudit

LEMMA ListStarts == ListingsInit => ListInv
<1> SUFFICES ASSUME ListingsInit PROVE ListInv
  OBVIOUS
<1>1. ListTypeInv
  <2>1. R \in Nat
    BY ListingsAssumption
  <2>2. status \in [1..R -> Statuses \cup {"none"}] /\ cursor \in 0..R
    BY <2>1 DEF ListingsInit
  <2> QED BY <2>2 DEF ListTypeInv, ListingsInit
<1> QED BY <1>1 DEF ListingsInit, ListInv

LEMMA ListedOnceFollows == ListInv => RowsListedOnce
<1> SUFFICES ASSUME ListInv, at = "end"
    PROVE  Cardinality(must \ UNION {shown[i] : i \in DOMAIN shown}) <= slips
  BY DEF RowsListedOnce, ListInv
<1>1. must \in SUBSET (1..R)
  BY DEF ListInv, ListTypeInv, Matching, Present
<1>2. Missed(cursor) = must \ Shown
  <2>1. cursor = 0
    BY DEF ListInv
  <2>2. \A r \in must : r > 0
    BY <1>1
  <2> QED BY <2>1, <2>2 DEF Missed
<1> QED BY <1>2 DEF ListInv, Shown

-----------------------------------------------------------------------------
(* Catalog: types and what the steps do                                    *)

Kinds == {"index", "remove"}

Effects ==
  [do : {"invalidate", "schedule", "emit", "put", "demote"}, product : Products, action : Kinds]

Documents == ProductPrices \cup {0}

Pages == [page : SUBSET (Products \X ProductPrices), old : BOOLEAN, kept : BOOLEAN]

RequestInv == request \in [Callers -> [todo : Seq(Effects), doc : [Products -> Documents]]]

QueueTypeInv ==
  /\ jobs \in [waiting : Seq(Jobs), delayed : SUBSET Jobs]
  /\ active \in [Workers -> {NoJob} \cup [job : {<<j>> : j \in Jobs}, put : Documents]]

CopiesInv ==
  /\ index \in [Products -> Documents]
  /\ cache \in Pages /\ reader \in Pages
  /\ cache.kept => cache.page # {}
  /\ reader.kept => reader.page # {}

WalkTypeInv ==
  walk \in [cursor : 0..N + 1, seen : Seq(SUBSET Products), must : SUBSET Products,
            step : {"idle", "more", "done"}]

CatalogTypeInv ==
  /\ focus \in CatalogModes /\ shop \in ShopStatus
  /\ row \in [Products -> ProductRows]
  /\ excused \subseteq Products
  /\ RequestInv /\ QueueTypeInv /\ CopiesInv /\ WalkTypeInv

\* What a request still does.
Items(c) == {request[c].todo[i] : i \in DOMAIN request[c].todo}

LEMMA ItemsAre ==
  ASSUME RequestInv, NEW c \in Callers
  PROVE  /\ Items(c) \subseteq Effects
         /\ request[c].todo = <<>> <=> Items(c) = {}
         /\ request[c].todo # <<>> => First(c) \in Items(c)
<1>1. PICK t : t = request[c].todo
  OBVIOUS
<1>2. t \in Seq(Effects)
  BY <1>1 DEF RequestInv
<1>3. Items(c) = {t[i] : i \in DOMAIN t} /\ First(c) = t[1]
  BY <1>1 DEF Items, First
<1>4. DOMAIN t = 1..Len(t) /\ Len(t) \in Nat /\ (t # <<>> => 1 \in 1..Len(t)) /\ \A i \in 1..Len(t) : t[i] \in Effects
  BY <1>2
<1>5. Items(c) \subseteq Effects /\ (t # <<>> => First(c) \in Items(c)) /\ (t = <<>> => Items(c) = {})
  BY <1>3, <1>4
<1> QED BY <1>1, <1>5

\* Going on drops the first item.
LEMMA ProceedDoes ==
  ASSUME RequestInv, NEW c \in Callers, Proceed(c), request[c].todo # <<>>
  PROVE  /\ RequestInv'
         /\ \A d \in Callers : d # c => request'[d] = request[d]
         /\ Items(c)' \subseteq Items(c)
         /\ Items(c) \subseteq Items(c)' \cup {First(c)}
         /\ Items(c)' # {} => request'[c].doc = request[c].doc
<1> DEFINE t == request[c].todo
<1>0. t \in Seq(Effects) /\ t # <<>> /\ Len(t) \in Nat /\ Len(t) >= 1
  BY DEF RequestInv
<1>1. request'[c] = IF Len(t) = 1 THEN NoRequest ELSE [request[c] EXCEPT !.todo = Tail(t)]
  <2>1. DOMAIN request = Callers
    BY DEF RequestInv
  <2>2. request' = [request EXCEPT ![c] = IF Len(request[c].todo) = 1 THEN NoRequest
                                          ELSE [request[c] EXCEPT !.todo = Tail(request[c].todo)]]
    BY DEF Proceed
  <2> QED BY <2>1, <2>2
<1>2. NoRequest \in [todo : Seq(Effects), doc : [Products -> Documents]]
  BY DEF NoRequest, Documents
<1>3. request[c] \in [todo : Seq(Effects), doc : [Products -> Documents]]
  BY DEF RequestInv
<1>4. Tail(t) \in Seq(Effects) /\ Len(Tail(t)) = Len(t) - 1 /\ \A i \in 1..Len(t) - 1 : Tail(t)[i] = t[i + 1]
  BY <1>0
<1>5. RequestInv'
  <2>1. request'[c] \in [todo : Seq(Effects), doc : [Products -> Documents]]
    BY <1>1, <1>2, <1>3, <1>4
  <2> QED BY <2>1 DEF Proceed, RequestInv
<1>6. CASE Len(t) = 1
  <2>1. Items(c) = {First(c)} /\ Items(c)' = {}
    BY <1>0, <1>1, <1>6 DEF Items, First, NoRequest
  <2> QED BY <1>5, <2>1 DEF Proceed, RequestInv
<1>7. CASE Len(t) # 1
  <2>1. request'[c].todo = Tail(t) /\ request'[c].doc = request[c].doc
    BY <1>1, <1>3, <1>7
  <2>2. ASSUME NEW i \in DOMAIN Tail(t) PROVE Tail(t)[i] \in Items(c)
    <3>1. i + 1 \in DOMAIN t /\ Tail(t)[i] = t[i + 1]
      BY <1>0, <1>4
    <3> QED BY <3>1 DEF Items
  <2>3. ASSUME NEW i \in DOMAIN t, i # 1 PROVE \E j \in DOMAIN Tail(t) : t[i] = Tail(t)[j]
    <3>1. i - 1 \in DOMAIN Tail(t) /\ Tail(t)[i - 1] = t[i]
      BY <1>0, <1>4, <2>3
    <3> QED BY <3>1
  <2>4. Items(c)' = {Tail(t)[i] : i \in DOMAIN Tail(t)}
    BY <2>1 DEF Items
  <2> HIDE DEF t
  <2>5. Items(c)' \subseteq Items(c)
    BY <2>2, <2>4
  <2>6. Items(c) \subseteq Items(c)' \cup {First(c)}
    BY <2>3, <2>4 DEF Items, First, t
  <2> QED BY <1>5, <2>1, <2>5, <2>6 DEF Proceed, RequestInv
<1> QED BY <1>6, <1>7

-----------------------------------------------------------------------------
\* A write of the rows of S, with what the request does next: it schedules what it writes,
\* and removes no document of a product that is ACTIVE.
Fits(rows, S, todo) ==
  /\ rows \in [Products -> ProductRows] /\ S \in SUBSET Products
  /\ \A p \in Products \ S : rows[p] = row[p]
  /\ todo \in Seq(Effects)
  /\ \A i \in DOMAIN todo :
       /\ todo[i].do \in {"invalidate", "schedule", "emit"} /\ todo[i].product \in S
       /\ todo[i].do # "invalidate" /\ todo[i].action = "remove" => rows[todo[i].product].status # "ACTIVE"
  /\ \A p \in S :
       \/ ~Exists(p) /\ rows[p].status # "ACTIVE"
       \/ \E i \in DOMAIN todo : /\ todo[i].do = "schedule" /\ todo[i].product = p
                                 /\ todo[i].action = "index" \/ rows[p].status # "ACTIVE"

\* The cached page is known to be outdated, or about to be deleted.
TellsCache(todo) == LeavesCache \/ (UNCHANGED cache /\ todo # <<>> /\ todo[1].do = "invalidate")

RouteWrites(c) ==
  /\ request[c].todo = <<>>
  /\ \E rows, S, todo : Fits(rows, S, todo) /\ Writes(c, rows, S, todo) /\ TellsCache(todo)

LEMMA UsedAreProducts == Used \subseteq Products
BY CatalogAssumption DEF Used, Products

LEMMA OneEffect ==
  ASSUME NEW p \in Products, NEW do \in {"schedule", "emit", "invalidate"}, NEW kind \in Kinds
  PROVE  /\ Effect(do, p, kind) \in Effects /\ Effect(do, p, kind).do = do
         /\ Effect(do, p, kind).product = p /\ Effect(do, p, kind).action = kind
BY DEF Effect, Effects

\* One product is written.
LEMMA OneFits ==
  ASSUME NEW p \in Products, NEW rows \in [Products -> ProductRows], NEW todo \in Seq(Effects),
         \A q \in Products \ {p} : rows[q] = row[q],
         \A i \in DOMAIN todo :
           /\ todo[i].do \in {"invalidate", "schedule", "emit"} /\ todo[i].product = p
           /\ todo[i].do # "invalidate" /\ todo[i].action = "remove" => rows[p].status # "ACTIVE",
         \/ ~Exists(p) /\ rows[p].status # "ACTIVE"
         \/ \E i \in DOMAIN todo : todo[i].do = "schedule" /\ (todo[i].action = "index" \/ rows[p].status # "ACTIVE")
  PROVE  Fits(rows, {p}, todo)
BY DEF Fits

LEMMA RowsOf ==
  ASSUME CatalogTypeInv, NEW p \in Products, NEW new \in ProductRows
  PROVE  /\ [row EXCEPT ![p] = new] \in [Products -> ProductRows]
         /\ [row EXCEPT ![p] = new][p] = new
         /\ \A q \in Products \ {p} : [row EXCEPT ![p] = new][q] = row[q]
BY DEF CatalogTypeInv

LEMMA NewRow ==
  ASSUME NEW s \in ProductStatus, NEW x \in ProductPrices
  PROVE  [status |-> s, price |-> x] \in ProductRows /\ [status |-> s, price |-> x].status = s
BY DEF ProductRows

LEMMA CreateWrites ==
  ASSUME CatalogTypeInv, NEW c \in Callers, NEW p \in Products, NEW s \in ProductStatus, NEW x \in ProductPrices,
         CreateProduct(c, p, s, x) \/ MerchantCreate(c, p, s, x)
  PROVE  RouteWrites(c)
<1> DEFINE new == [status |-> s, price |-> x]
           rows == [row EXCEPT ![p] = new]
<1>1. request[c].todo = <<>> /\ ~Exists(p)
  BY DEF CreateProduct, MerchantCreate, BeginRequest, NextProduct
<1>2. new \in ProductRows /\ new.status = s
  BY NewRow
<1>3. rows \in [Products -> ProductRows] /\ rows[p] = new /\ \A q \in Products \ {p} : rows[q] = row[q]
  BY <1>2, RowsOf
<1> HIDE DEF new
<1>4. CASE CreateProduct(c, p, s, x)
  <2>1. PICK a, b, d : a = Effect("invalidate", p, "index") /\ b = Effect("schedule", p, "index") /\ d = Effect("emit", p, "index")
    OBVIOUS
  <2>2. /\ a \in Effects /\ a.do = "invalidate" /\ a.product = p
        /\ b \in Effects /\ b.do = "schedule" /\ b.product = p /\ b.action = "index"
        /\ d \in Effects /\ d.do = "emit" /\ d.product = p /\ d.action = "index"
    BY <2>1, OneEffect DEF Kinds
  <2>3. PICK todo : todo = IF s = "ACTIVE" THEN <<a, b, d>> ELSE <<a>>
    OBVIOUS
  <2>4. Writes(c, rows, {p}, todo) /\ UNCHANGED cache
    BY <1>4, <2>1, <2>3 DEF CreateProduct, Created, new
  <2> HIDE DEF rows
  <2>5. todo \in Seq(Effects) /\ todo # <<>> /\ todo[1] = a
    BY <2>2, <2>3
  <2>6. \A i \in DOMAIN todo : todo[i] \in {a, b, d}
    BY <2>3
  <2>7. s = "ACTIVE" => 2 \in DOMAIN todo /\ todo[2] = b
    BY <2>3
  <2>8. \A i \in DOMAIN todo :
          /\ todo[i].do \in {"invalidate", "schedule", "emit"} /\ todo[i].product = p
          /\ todo[i].do # "invalidate" /\ todo[i].action = "remove" => rows[p].status # "ACTIVE"
    BY <2>2, <2>6
  <2>9. \/ ~Exists(p) /\ rows[p].status # "ACTIVE"
        \/ \E i \in DOMAIN todo : todo[i].do = "schedule" /\ (todo[i].action = "index" \/ rows[p].status # "ACTIVE")
    BY <1>1, <1>2, <1>3, <2>2, <2>7
  <2>10. Fits(rows, {p}, todo)
    BY <1>3, <2>5, <2>8, <2>9, OneFits
  <2>11. TellsCache(todo)
    BY <2>2, <2>4, <2>5 DEF TellsCache
  <2> QED BY <1>1, <2>4, <2>10, <2>11 DEF RouteWrites
<1>5. CASE MerchantCreate(c, p, s, x)
  <2>1. PICK b : b = Effect("schedule", p, "index")
    OBVIOUS
  <2>2. b \in Effects /\ b.do = "schedule" /\ b.product = p /\ b.action = "index"
    BY <2>1, OneEffect DEF Kinds
  <2>3. PICK todo : todo = IF s = "ACTIVE" THEN <<b>> ELSE <<>>
    OBVIOUS
  <2>4. Writes(c, rows, {p}, todo) /\ TellsCache(todo)
    BY <1>5, <2>1, <2>3 DEF MerchantCreate, Created, TellsCache, new
  <2> HIDE DEF rows
  <2>5. todo \in Seq(Effects) /\ \A i \in DOMAIN todo : todo[i] = b
    BY <2>2, <2>3
  <2>7. s = "ACTIVE" => 1 \in DOMAIN todo /\ todo[1] = b
    BY <2>3
  <2>9. \/ ~Exists(p) /\ rows[p].status # "ACTIVE"
        \/ \E i \in DOMAIN todo : todo[i].do = "schedule" /\ (todo[i].action = "index" \/ rows[p].status # "ACTIVE")
    BY <1>1, <1>2, <1>3, <2>2, <2>7
  <2>10. Fits(rows, {p}, todo)
    BY <1>3, <2>2, <2>5, <2>9, OneFits
  <2> QED BY <1>1, <2>4, <2>10 DEF RouteWrites
<1> QED BY <1>4, <1>5

LEMMA UpdateWrites ==
  ASSUME CatalogTypeInv, NEW c \in Callers, NEW p \in Products, NEW s \in ProductStatus, NEW x \in ProductPrices,
         UpdateProduct(c, p, s, x) \/ MerchantUpdate(c, p, s, x)
  PROVE  RouteWrites(c)
<1> DEFINE new == [status |-> s, price |-> x]
           rows == [row EXCEPT ![p] = new]
           kind == IF s = "ACTIVE" THEN "index" ELSE "remove"
<1>1. request[c].todo = <<>>
  BY DEF UpdateProduct, MerchantUpdate, BeginRequest
<1>2. new \in ProductRows /\ new.status = s
  BY NewRow
<1>3. rows \in [Products -> ProductRows] /\ rows[p] = new /\ \A q \in Products \ {p} : rows[q] = row[q]
  BY <1>2, RowsOf
<1> HIDE DEF new
<1>4. kind \in Kinds /\ (kind = "remove" => new.status # "ACTIVE") /\ (kind = "index" \/ new.status # "ACTIVE")
  BY <1>2 DEF Kinds
<1>5. CASE UpdateProduct(c, p, s, x)
  <2>1. PICK a, b, d : a = Effect("invalidate", p, "index") /\ b = Effect("schedule", p, kind) /\ d = Effect("emit", p, kind)
    OBVIOUS
  <2>2. /\ a \in Effects /\ a.do = "invalidate" /\ a.product = p
        /\ b \in Effects /\ b.do = "schedule" /\ b.product = p /\ b.action = kind
        /\ d \in Effects /\ d.do = "emit" /\ d.product = p /\ d.action = kind
    BY <1>4, <2>1, OneEffect DEF Kinds
  <2>3. PICK todo : todo = <<a, b, d>>
    OBVIOUS
  <2>4. Writes(c, rows, {p}, todo) /\ UNCHANGED cache
    BY <1>5, <2>1, <2>3 DEF UpdateProduct, IndexOrRemove, new
  <2> HIDE DEF rows, kind
  <2>5. todo \in Seq(Effects) /\ todo # <<>> /\ todo[1] = a /\ 2 \in DOMAIN todo /\ todo[2] = b
    BY <2>2, <2>3
  <2>6. \A i \in DOMAIN todo : todo[i] \in {a, b, d}
    BY <2>3
  <2>8. \A i \in DOMAIN todo :
          /\ todo[i].do \in {"invalidate", "schedule", "emit"} /\ todo[i].product = p
          /\ todo[i].do # "invalidate" /\ todo[i].action = "remove" => rows[p].status # "ACTIVE"
    BY <1>3, <1>4, <2>2, <2>6
  <2>9. \E i \in DOMAIN todo : todo[i].do = "schedule" /\ (todo[i].action = "index" \/ rows[p].status # "ACTIVE")
    BY <1>3, <1>4, <2>2, <2>5
  <2>10. Fits(rows, {p}, todo)
    BY <1>3, <2>5, <2>8, <2>9, OneFits
  <2>11. TellsCache(todo)
    BY <2>2, <2>4, <2>5 DEF TellsCache
  <2> QED BY <1>1, <2>4, <2>10, <2>11 DEF RouteWrites
<1>6. CASE MerchantUpdate(c, p, s, x)
  <2>1. PICK b : b = Effect("schedule", p, kind)
    OBVIOUS
  <2>2. b \in Effects /\ b.do = "schedule" /\ b.product = p /\ b.action = kind
    BY <1>4, <2>1, OneEffect
  <2>3. PICK todo : todo = <<b>>
    OBVIOUS
  <2>4. Writes(c, rows, {p}, todo) /\ TellsCache(todo)
    BY <1>6, <2>1, <2>3 DEF MerchantUpdate, IndexOrRemove, TellsCache, new
  <2> HIDE DEF rows, kind
  <2>5. todo \in Seq(Effects) /\ 1 \in DOMAIN todo /\ \A i \in DOMAIN todo : todo[i] = b
    BY <2>2, <2>3
  <2>8. \A i \in DOMAIN todo :
          /\ todo[i].do \in {"invalidate", "schedule", "emit"} /\ todo[i].product = p
          /\ todo[i].do # "invalidate" /\ todo[i].action = "remove" => rows[p].status # "ACTIVE"
    BY <1>3, <1>4, <2>2, <2>5
  <2>9. \E i \in DOMAIN todo : todo[i].do = "schedule" /\ (todo[i].action = "index" \/ rows[p].status # "ACTIVE")
    BY <1>3, <1>4, <2>2, <2>5
  <2>10. Fits(rows, {p}, todo)
    BY <1>3, <2>5, <2>8, <2>9, OneFits
  <2> QED BY <1>1, <2>4, <2>10 DEF RouteWrites
<1> QED BY <1>5, <1>6

LEMMA ArchiveWrites ==
  ASSUME CatalogTypeInv, NEW c \in Callers, NEW p \in Products,
         DeleteProduct(c, p) \/ Archive(c, p)
  PROVE  RouteWrites(c)
<1> DEFINE new == [row[p] EXCEPT !.status = "ARCHIVED"]
           rows == [row EXCEPT ![p] = new]
           kind == "remove"
<1>1. request[c].todo = <<>>
  BY DEF DeleteProduct, Archive, BeginRequest
<1>2. new \in ProductRows /\ new.status = "ARCHIVED" /\ rows = [row EXCEPT ![p].status = "ARCHIVED"]
  BY DEF CatalogTypeInv, ProductRows, ProductStatus
<1>3. rows \in [Products -> ProductRows] /\ rows[p] = new /\ \A q \in Products \ {p} : rows[q] = row[q]
  BY <1>2, RowsOf
<1> HIDE DEF new
<1>4. kind \in Kinds /\ new.status # "ACTIVE"
  BY <1>2 DEF Kinds
<1>5. CASE DeleteProduct(c, p)
  <2>1. PICK a, b, d : a = Effect("invalidate", p, "index") /\ b = Effect("schedule", p, kind) /\ d = Effect("emit", p, kind)
    OBVIOUS
  <2>2. /\ a \in Effects /\ a.do = "invalidate" /\ a.product = p
        /\ b \in Effects /\ b.do = "schedule" /\ b.product = p /\ b.action = kind
        /\ d \in Effects /\ d.do = "emit" /\ d.product = p /\ d.action = kind
    BY <1>4, <2>1, OneEffect DEF Kinds
  <2>3. PICK todo : todo = <<a, b, d>>
    OBVIOUS
  <2>4. Writes(c, rows, {p}, todo) /\ UNCHANGED cache
    BY <1>2, <1>5, <2>1, <2>3 DEF DeleteProduct
  <2> HIDE DEF rows, kind
  <2>5. todo \in Seq(Effects) /\ todo # <<>> /\ todo[1] = a /\ 2 \in DOMAIN todo /\ todo[2] = b
    BY <2>2, <2>3
  <2>6. \A i \in DOMAIN todo : todo[i] \in {a, b, d}
    BY <2>3
  <2>8. \A i \in DOMAIN todo :
          /\ todo[i].do \in {"invalidate", "schedule", "emit"} /\ todo[i].product = p
          /\ todo[i].do # "invalidate" /\ todo[i].action = "remove" => rows[p].status # "ACTIVE"
    BY <1>3, <1>4, <2>2, <2>6
  <2>9. \E i \in DOMAIN todo : todo[i].do = "schedule" /\ (todo[i].action = "index" \/ rows[p].status # "ACTIVE")
    BY <1>3, <1>4, <2>2, <2>5
  <2>10. Fits(rows, {p}, todo)
    BY <1>3, <2>5, <2>8, <2>9, OneFits
  <2>11. TellsCache(todo)
    BY <2>2, <2>4, <2>5 DEF TellsCache
  <2> QED BY <1>1, <2>4, <2>10, <2>11 DEF RouteWrites
<1>6. CASE Archive(c, p)
  <2>1. PICK b : b = Effect("schedule", p, kind)
    OBVIOUS
  <2>2. b \in Effects /\ b.do = "schedule" /\ b.product = p /\ b.action = kind
    BY <1>4, <2>1, OneEffect
  <2>3. PICK todo : todo = <<b>>
    OBVIOUS
  <2>4. Writes(c, rows, {p}, todo) /\ TellsCache(todo)
    BY <1>2, <1>6, <2>1, <2>3 DEF Archive, TellsCache
  <2> HIDE DEF rows, kind
  <2>5. todo \in Seq(Effects) /\ 1 \in DOMAIN todo /\ \A i \in DOMAIN todo : todo[i] = b
    BY <2>2, <2>3
  <2>8. \A i \in DOMAIN todo :
          /\ todo[i].do \in {"invalidate", "schedule", "emit"} /\ todo[i].product = p
          /\ todo[i].do # "invalidate" /\ todo[i].action = "remove" => rows[p].status # "ACTIVE"
    BY <1>3, <1>4, <2>2, <2>5
  <2>9. \E i \in DOMAIN todo : todo[i].do = "schedule" /\ (todo[i].action = "index" \/ rows[p].status # "ACTIVE")
    BY <1>3, <1>4, <2>2, <2>5
  <2>10. Fits(rows, {p}, todo)
    BY <1>3, <2>5, <2>8, <2>9, OneFits
  <2> QED BY <1>1, <2>4, <2>10 DEF RouteWrites
<1> QED BY <1>5, <1>6

LEMMA DuplicateWrites ==
  ASSUME CatalogTypeInv, NEW c \in Callers, NEW p \in Products, NEW q \in Products, Duplicate(c, p, q)
  PROVE  RouteWrites(c)
<1> DEFINE new == [status |-> "DRAFT", price |-> row[p].price]
           rows == [row EXCEPT ![q] = new]
<1>1. request[c].todo = <<>> /\ ~Exists(q)
  BY DEF Duplicate, BeginRequest, NextProduct
<1>2. new \in ProductRows /\ new.status = "DRAFT"
  BY DEF CatalogTypeInv, ProductRows, ProductStatus
<1>3. rows \in [Products -> ProductRows] /\ rows[q] = new /\ \A r \in Products \ {q} : rows[r] = row[r]
  BY <1>2, RowsOf
<1>4. PICK todo : todo = <<>>
  OBVIOUS
<1>5. Writes(c, rows, {q}, todo) /\ TellsCache(todo)
  BY <1>4 DEF Duplicate, TellsCache
<1> HIDE DEF rows, new
<1>6. todo \in Seq(Effects) /\ DOMAIN todo = {}
  BY <1>4
<1>7. Fits(rows, {q}, todo)
  BY <1>1, <1>2, <1>3, <1>6, OneFits
<1> QED BY <1>1, <1>5, <1>7 DEF RouteWrites

LEMMA RoutesWrite ==
  ASSUME CatalogTypeInv, NEW c \in Callers, CatalogRoutes(c) \/ MerchantRoutes(c)
  PROVE  \/ RouteWrites(c) \/ ReindexAllProducts(c)
         \/ \E S \in SUBSET Products, s \in ProductStatus \cup {"same"}, x \in ProductPrices \cup {NoPrice}, t \in BOOLEAN :
              BulkUpdate(c, S, s, x, t)
<1>1. \A s \in ProductStatus : Published(s) \in ProductStatus
  BY DEF Published, ProductStatus
<1> QED BY <1>1, UsedAreProducts, CreateWrites, UpdateWrites, ArchiveWrites, DuplicateWrites
        DEF CatalogRoutes, MerchantRoutes

-----------------------------------------------------------------------------
(* Catalog: every step keeps the types                                     *)

LEMMA ForEachIs ==
  ASSUME NEW S \in SUBSET Products, NEW do \in {"schedule", "put"}, NEW kind \in Kinds
  PROVE  /\ ForEach(S, do, kind) \in Seq(Effects)
         /\ \A i \in DOMAIN ForEach(S, do, kind) :
              /\ ForEach(S, do, kind)[i].do = do /\ ForEach(S, do, kind)[i].action = kind
              /\ ForEach(S, do, kind)[i].product \in S
         /\ \A p \in S : \E i \in DOMAIN ForEach(S, do, kind) : ForEach(S, do, kind)[i].product = p
<1> DEFINE n == Cardinality(S)
           f == InOrder(S, Earlier)
           g == ForEach(S, do, kind)
<1>1. IsFiniteSet(S)
  <2>1. IsFiniteSet(Products)
    BY CatalogAssumption, FS_Interval DEF Products
  <2> QED BY <2>1, FS_Subset
<1>2. IsOrder(S, Earlier)
  <2>1. \A x, y \in S : x \in Nat /\ y \in Nat /\ (<<x, y>> \in Earlier <=> x < y)
    BY CatalogAssumption DEF Earlier, Products
  <2> QED BY <2>1 DEF IsOrder
<1>3. n \in Nat /\ f \in [1..n -> S] /\ \A x \in S : \E i \in 1..n : f[i] = x
  BY <1>1, <1>2, InOrderIs
<1>4. g = [i \in 1..n |-> Effect(do, f[i], kind)]
  BY DEF ForEach
<1> HIDE DEF f, n, g
<1>5. \A i \in 1..n : /\ Effect(do, f[i], kind) \in Effects /\ Effect(do, f[i], kind).do = do
                      /\ Effect(do, f[i], kind).product = f[i] /\ Effect(do, f[i], kind).action = kind
  BY <1>3 DEF Effect, Effects
<1>6. g \in Seq(Effects) /\ DOMAIN g = 1..n
  BY <1>3, <1>4, <1>5
<1>7. \A i \in DOMAIN g : g[i].do = do /\ g[i].action = kind /\ g[i].product = f[i]
  BY <1>4, <1>5, <1>6
<1> QED BY <1>3, <1>6, <1>7 DEF g

LEMMA SearchableIs ==
  ASSUME CatalogTypeInv, NEW p \in Products
  PROVE  Searchable(p) \in Documents
BY DEF CatalogTypeInv, ProductRows, Searchable, Documents

LEMMA PublicPageIs ==
  ASSUME CatalogTypeInv
  PROVE  PublicPage \in SUBSET (Products \X ProductPrices)
BY DEF CatalogTypeInv, ProductRows, PublicPage

LEMMA LeavesCacheType ==
  ASSUME CopiesInv, LeavesCache
  PROVE  cache' \in Pages /\ cache'.page = cache.page /\ cache'.kept = cache.kept /\ cache'.old = cache.kept
BY DEF CopiesInv, LeavesCache, Pages

LEMMA ReaderOldType ==
  ASSUME CopiesInv, reader' = [reader EXCEPT !.old = @ \/ reader.kept]
  PROVE  reader' \in Pages /\ reader'.page = reader.page /\ reader'.kept = reader.kept /\ (reader.kept => reader'.old)
BY DEF CopiesInv, Pages

LEMMA MustType ==
  ASSUME WalkTypeInv, NEW M \in SUBSET Products, walk' = [walk EXCEPT !.must = M]
  PROVE  WalkTypeInv' /\ walk'.cursor = walk.cursor /\ walk'.seen = walk.seen /\ walk'.step = walk.step /\ walk'.must = M
BY DEF WalkTypeInv

\* A request is given its items.
LEMMA RequestType ==
  ASSUME RequestInv, NEW c \in Callers, NEW t \in Seq(Effects), NEW doc \in [Products -> Documents],
         request' = [request EXCEPT ![c] = [todo |-> t, doc |-> doc]]
  PROVE  /\ RequestInv'
         /\ request'[c].todo = t /\ request'[c].doc = doc
         /\ \A d \in Callers : d # c => request'[d] = request[d]
BY DEF RequestInv

LEMMA NoRequestIs == NoRequest.todo = <<>> /\ NoRequest.doc \in [Products -> Documents]
                     /\ NoRequest = [todo |-> NoRequest.todo, doc |-> NoRequest.doc]
BY DEF NoRequest, Documents

\* What a write of the rows S by request c does, as the index sees it.
WriteDoes(c, S) ==
  /\ request[c].todo = <<>> /\ S \in SUBSET Products
  /\ \A d \in Callers : d # c => request'[d] = request[d]
  /\ \A p \in Products \ S : Searchable(p)' = Searchable(p)
  /\ excused \subseteq excused' /\ \A p \in S : p \in excused' \/ ~Overtakes(c, p)
  /\ UNCHANGED <<focus, index, jobs, active>>
  /\ \A e \in Items(c)' :
       /\ e.do \in {"invalidate", "schedule", "emit"} /\ e.product \in S
       /\ e.do # "invalidate" /\ e.action = "remove" => row'[e.product].status # "ACTIVE"
       /\ ~Redis /\ e.do = "schedule" /\ e.action = "index" => request'[c].doc[e.product] = Searchable(e.product)'
  /\ \A p \in S \ excused' :
       \/ ~Exists(p) /\ row'[p].status # "ACTIVE"
       \/ \E e \in Items(c)' : /\ e.do = "schedule" /\ e.product = p
                               /\ e.action = "index" \/ row'[p].status # "ACTIVE"

\* And what it does besides.
WriteKeeps(c) ==
  /\ CatalogTypeInv'
  /\ walk' = [walk EXCEPT !.must = {p \in @ : row'[p].status = "ACTIVE"}]
  /\ reader' = [reader EXCEPT !.old = @ \/ reader.kept]
  /\ LeavesCache \/ (UNCHANGED cache /\ Does(c, "invalidate")')

LEMMA RouteWriteDoes ==
  ASSUME CatalogTypeInv, NEW c \in Callers, RouteWrites(c)
  PROVE  (\E S \in SUBSET Products : WriteDoes(c, S)) /\ WriteKeeps(c)
<1>1. PICK rows, S, todo : Fits(rows, S, todo) /\ Writes(c, rows, S, todo) /\ TellsCache(todo)
  BY DEF RouteWrites
<1>2. PICK doc : doc = [p \in Products |-> IF rows[p].status = "ACTIVE" THEN rows[p].price ELSE 0]
  OBVIOUS
<1>3. /\ row' = rows /\ request' = [request EXCEPT ![c] = [todo |-> todo, doc |-> doc]]
      /\ excused' = excused \cup {p \in S : Overtakes(c, p)}
      /\ reader' = [reader EXCEPT !.old = @ \/ reader.kept]
      /\ walk' = [walk EXCEPT !.must = {p \in @ : rows[p].status = "ACTIVE"}]
      /\ UNCHANGED <<focus, shop, index, jobs, active>>
  BY <1>1, <1>2 DEF Writes
<1>4. rows \in [Products -> ProductRows] /\ S \in SUBSET Products /\ todo \in Seq(Effects)
  BY <1>1 DEF Fits
<1>5. doc \in [Products -> Documents]
  BY <1>2, <1>4 DEF Documents, ProductRows
<1>6. /\ RequestInv' /\ request'[c].todo = todo /\ request'[c].doc = doc
      /\ \A d \in Callers : d # c => request'[d] = request[d]
  BY <1>3, <1>4, <1>5, RequestType DEF CatalogTypeInv
<1>7. Items(c)' = {todo[i] : i \in DOMAIN todo}
  BY <1>6 DEF Items
<1>8. \A p \in Products : doc[p] = Searchable(p)'
  BY <1>2, <1>3 DEF Searchable
<1>9. request[c].todo = <<>>
  BY DEF RouteWrites
<1>10. WriteDoes(c, S)
  <2>1. \A e \in Items(c)' :
          /\ e.do \in {"invalidate", "schedule", "emit"} /\ e.product \in S
          /\ e.do # "invalidate" /\ e.action = "remove" => rows[e.product].status # "ACTIVE"
    BY <1>1, <1>7 DEF Fits
  <2>2. \A p \in S : \/ ~Exists(p) /\ rows[p].status # "ACTIVE"
                     \/ \E e \in Items(c)' : /\ e.do = "schedule" /\ e.product = p
                                             /\ e.action = "index" \/ rows[p].status # "ACTIVE"
    BY <1>1, <1>7 DEF Fits
  <2>3. \A p \in Products \ S : rows[p] = row[p]
    BY <1>1 DEF Fits
  <2>4. \A e \in Items(c)' : request'[c].doc[e.product] = Searchable(e.product)'
    BY <1>4, <1>6, <1>8, <2>1
  <2>5. \A p \in Products \ S : Searchable(p)' = Searchable(p)
    BY <1>3, <2>3 DEF Searchable
  <2> QED BY <1>3, <1>4, <1>6, <1>9, <2>1, <2>2, <2>4, <2>5 DEF WriteDoes
<1>11. WriteKeeps(c)
  <2>1. QueueTypeInv'
    BY <1>3 DEF CatalogTypeInv, QueueTypeInv
  <2>2. cache' \in Pages /\ cache'.page = cache.page /\ cache'.kept = cache.kept
    BY <1>1, LeavesCacheType DEF TellsCache, CatalogTypeInv, CopiesInv
  <2>3. CopiesInv'
    BY <1>3, <2>2, ReaderOldType DEF CatalogTypeInv, CopiesInv
  <2>4. WalkTypeInv'
    <3>1. {p \in walk.must : rows[p].status = "ACTIVE"} \in SUBSET Products
      BY DEF CatalogTypeInv, WalkTypeInv
    <3> QED BY <1>3, <3>1, MustType DEF CatalogTypeInv
  <2>5. excused' \subseteq Products
    BY <1>3, <1>4 DEF CatalogTypeInv
  <2>6. CatalogTypeInv'
    BY <1>3, <1>4, <1>6, <2>1, <2>3, <2>4, <2>5 DEF CatalogTypeInv
  <2>7. LeavesCache \/ (UNCHANGED cache /\ Does(c, "invalidate")')
    BY <1>1, <1>6 DEF TellsCache, Does, First
  <2> QED BY <1>3, <2>6, <2>7 DEF WriteKeeps
<1> QED BY <1>4, <1>10, <1>11

LEMMA BulkWriteDoes ==
  ASSUME CatalogTypeInv, NEW c \in Callers, NEW S \in SUBSET Products, NEW s \in ProductStatus \cup {"same"},
         NEW x \in ProductPrices \cup {NoPrice}, NEW touched, BulkUpdate(c, S, s, x, touched)
  PROVE  (\E T \in SUBSET Products : WriteDoes(c, T)) /\ WriteKeeps(c)
<1> DEFINE kind == IF s = "ARCHIVED" THEN "remove" ELSE "index"
           none == s # "ARCHIVED" /\ (~Redis \/ ~(s = "ACTIVE" \/ x # NoPrice \/ touched))
           T == IF none THEN <<>> ELSE ForEach(S, "schedule", kind)
<1>1. PICK rows : rows = [p \in Products |-> IF p \in S THEN Patched(row[p], s, x) ELSE row[p]]
  OBVIOUS
<1>2. PICK todo : todo = T
  OBVIOUS
<1>3. /\ row' = rows /\ request' = [request EXCEPT ![c] = [NoRequest EXCEPT !.todo = todo]]
      /\ excused' = excused \cup {p \in S : IF none THEN Searchable(p)' # Searchable(p) ELSE Overtakes(c, p)}
      /\ reader' = [reader EXCEPT !.old = @ \/ reader.kept]
      /\ walk' = [walk EXCEPT !.must = {p \in @ : rows[p].status = "ACTIVE"}]
      /\ LeavesCache
      /\ UNCHANGED <<focus, shop, index, jobs, active>>
  BY <1>1, <1>2 DEF BulkUpdate
<1>4. /\ rows \in [Products -> ProductRows] /\ \A p \in Products \ S : rows[p] = row[p]
      /\ \A p \in S : s = "ARCHIVED" => rows[p].status = "ARCHIVED"
  <2>1. ASSUME NEW p \in S
        PROVE  Patched(row[p], s, x) \in ProductRows /\ (s = "ARCHIVED" => Patched(row[p], s, x).status = "ARCHIVED")
    <3>1. row[p] \in ProductRows
      BY DEF CatalogTypeInv
    <3> QED BY <3>1 DEF Patched, ProductRows
  <2>2. \A p \in Products : row[p] \in ProductRows
    BY DEF CatalogTypeInv
  <2> QED BY <1>1, <2>1, <2>2
<1>5. kind \in Kinds
  BY DEF Kinds
<1>6. /\ todo \in Seq(Effects)
      /\ \A i \in DOMAIN todo : ~none /\ todo[i].do = "schedule" /\ todo[i].action = kind /\ todo[i].product \in S
      /\ ~none => \A p \in S : \E i \in DOMAIN todo : todo[i].product = p
  <2>1. (none => todo = <<>>) /\ (~none => todo = ForEach(S, "schedule", kind))
    BY <1>2
  <2> HIDE DEF none, kind, T
  <2>2. CASE none
    <3>1. todo = <<>> /\ DOMAIN todo = {}
      BY <2>1, <2>2
    <3> QED BY <2>2, <3>1
  <2>3. CASE ~none
    <3>0. PICK k \in Kinds : k = kind
      BY <1>5
    <3>1. PICK f : f = ForEach(S, "schedule", k)
      OBVIOUS
    <3>2. /\ f \in Seq(Effects)
          /\ \A i \in DOMAIN f : f[i].do = "schedule" /\ f[i].action = k /\ f[i].product \in S
          /\ \A p \in S : \E i \in DOMAIN f : f[i].product = p
      BY <3>1, ForEachIs
    <3>3. todo = f
      BY <2>1, <2>3, <3>0, <3>1
    <3> QED BY <2>3, <3>0, <3>2, <3>3
  <2> QED BY <2>2, <2>3
<1>7. [NoRequest EXCEPT !.todo = todo] = [todo |-> todo, doc |-> NoRequest.doc] /\ NoRequest.doc \in [Products -> Documents]
  BY DEF NoRequest, Documents
<1>8. /\ RequestInv' /\ request'[c].todo = todo
      /\ \A d \in Callers : d # c => request'[d] = request[d]
  <2>1. PICK doc \in [Products -> Documents] : [NoRequest EXCEPT !.todo = todo] = [todo |-> todo, doc |-> doc]
    BY <1>7
  <2>2. request' = [request EXCEPT ![c] = [todo |-> todo, doc |-> doc]]
    BY <1>3, <2>1
  <2> QED BY <1>6, <2>2, RequestType DEF CatalogTypeInv
<1>9. Items(c)' = {todo[i] : i \in DOMAIN todo}
  BY <1>8 DEF Items
<1>10. request[c].todo = <<>>
  BY DEF BulkUpdate, BeginRequest
<1>13. \A p \in Products \ S : Searchable(p)' = Searchable(p)
  BY <1>3, <1>4 DEF Searchable
<1>14. \A d \in Callers : d # c => request'[d] = request[d]
  BY <1>8
<1>15. excused \subseteq excused' /\ row' = rows /\ UNCHANGED <<focus, index, jobs, active>>
  BY <1>3
<1>11. \E W \in SUBSET Products : WriteDoes(c, W)
  <2>1. CASE none
    <3>1. Items(c)' = {}
      BY <1>6, <1>9, <2>1
    <3>2. PICK W : W = {p \in S : Searchable(p)' # Searchable(p)}
      OBVIOUS
    <3>3. W \subseteq excused' /\ W \in SUBSET Products
      BY <1>3, <2>1, <3>2
    <3>4. \A p \in Products \ W : Searchable(p)' = Searchable(p)
      BY <1>13, <3>2
    <3> HIDE DEF none, kind, T
    <3>5. WriteDoes(c, W)
      BY <1>10, <1>14, <1>15, <3>1, <3>3, <3>4 DEF WriteDoes
    <3> QED BY <3>3, <3>5
  <2>2. CASE ~none
    <3>1. \A e \in Items(c)' : e.do = "schedule" /\ e.product \in S /\ e.action = kind
      BY <1>6, <1>9
    <3>2. \A e \in Items(c)' : /\ e.action = "remove" => rows[e.product].status # "ACTIVE"
                               /\ Redis \/ e.action # "index"
      BY <1>4, <2>2, <3>1
    <3>3. kind = "index" \/ \A p \in S : rows[p].status # "ACTIVE"
      BY <1>4
    <3>4. \A p \in S : \E e \in Items(c)' : e.do = "schedule" /\ e.product = p /\ (e.action = "index" \/ rows[p].status # "ACTIVE")
      BY <1>6, <1>9, <2>2, <3>3
    <3>5. \A p \in S : p \in excused' \/ ~Overtakes(c, p)
      BY <1>3, <2>2
    <3> HIDE DEF none, kind, T
    <3>6. \A e \in Items(c)' :
            /\ e.do \in {"invalidate", "schedule", "emit"} /\ e.product \in S
            /\ e.do # "invalidate" /\ e.action = "remove" => row'[e.product].status # "ACTIVE"
            /\ ~Redis /\ e.do = "schedule" /\ e.action = "index" => request'[c].doc[e.product] = Searchable(e.product)'
      BY <1>15, <3>1, <3>2
    <3>7. \A p \in S \ excused' :
            \/ ~Exists(p) /\ row'[p].status # "ACTIVE"
            \/ \E e \in Items(c)' : e.do = "schedule" /\ e.product = p /\ (e.action = "index" \/ row'[p].status # "ACTIVE")
      BY <1>15, <3>4
    <3>8. WriteDoes(c, S)
      BY <1>10, <1>13, <1>14, <1>15, <3>5, <3>6, <3>7 DEF WriteDoes
    <3> QED BY <3>8
  <2> QED BY <2>1, <2>2
<1>12. WriteKeeps(c)
  <2>1. QueueTypeInv'
    BY <1>3 DEF CatalogTypeInv, QueueTypeInv
  <2>2. cache' \in Pages /\ cache'.page = cache.page /\ cache'.kept = cache.kept
    BY <1>3, LeavesCacheType DEF CatalogTypeInv
  <2>3. CopiesInv'
    BY <1>3, <2>2, ReaderOldType DEF CatalogTypeInv, CopiesInv
  <2>4. WalkTypeInv'
    <3>1. {p \in walk.must : rows[p].status = "ACTIVE"} \in SUBSET Products
      BY DEF CatalogTypeInv, WalkTypeInv
    <3> QED BY <1>3, <3>1, MustType DEF CatalogTypeInv
  <2>5. excused' \subseteq Products
    BY <1>3 DEF CatalogTypeInv
  <2>6. CatalogTypeInv'
    BY <1>3, <1>4, <1>8, <2>1, <2>3, <2>4, <2>5 DEF CatalogTypeInv
  <2> QED BY <1>3, <2>6 DEF WriteKeeps
<1> QED BY <1>11, <1>12

-----------------------------------------------------------------------------
(* Catalog: why the index follows the products                             *)

\* What a request still does to the document of a product.
Tasks(c, p) == {e \in Items(c) : e.product = p /\ e.do \in {"schedule", "emit", "put"}}

Awaits(p, kind) == \E c \in Callers : \E e \in Tasks(c, p) : e.do # "put" /\ e.action = kind

IsJob(j, p, kind) == j.product = p /\ j.action = kind

\* The product will be indexed as it is, after the place i of the queue.
Later(p, i) ==
  \/ Awaits(p, "index")
  \/ \E j \in jobs.delayed : IsJob(j, p, "index")
  \/ \E k \in DOMAIN jobs.waiting : k > i /\ IsJob(jobs.waiting[k], p, "index")

\* The document will be put right: by an index job or, where there is to be none, by any.
Comes(p) ==
  \/ Later(p, 0)
  \/ Searchable(p) = 0 /\ (Awaits(p, "remove") \/ \E k \in DOMAIN jobs.waiting : jobs.waiting[k].product = p)

\* A worker has in hand what the document of the product should be, or something else.
Right(p) == \E w \in Workers : InHand(w, p) /\ active[w].put = Searchable(p)

Wrong(p) == \E w \in Workers : InHand(w, p) /\ active[w].put # Searchable(p)

QueueTells(p) ==
  /\ index[p] # Searchable(p) => Comes(p) \/ Right(p)
  /\ Wrong(p) => Comes(p)
  /\ \A i \in DOMAIN jobs.waiting :
       IsJob(jobs.waiting[i], p, "remove") /\ Searchable(p) # 0 => Later(p, i)
  /\ Awaits(p, "remove") => Searchable(p) = 0
  /\ \A j \in jobs.delayed : j.product = p => j.action = "index"

InlineTells(p) ==
  /\ index[p] # Searchable(p) => \E c \in Callers : \E e \in Tasks(c, p) : e.do = "schedule"
  /\ \A c \in Callers : \A e \in Tasks(c, p) : e.do = "schedule" =>
       Searchable(p) = IF e.action = "remove" THEN 0 ELSE request[c].doc[p]

PutsTrue(p) == \A c \in Callers : \A e \in Tasks(c, p) : e.do = "put" => request[c].doc[p] = Searchable(p)

Follows(p) ==
  /\ PutsTrue(p)
  /\ Redis => QueueTells(p)
  /\ ~Redis => InlineTells(p)

\* The queue is not used without Redis.
QueueUsed == ~Redis => jobs.waiting = <<>> /\ jobs.delayed = {} /\ active = [w \in Workers |-> NoJob]

IndexInv == QueueUsed /\ \A p \in Products \ excused : Follows(p)

\* A page that was read and not outdated is the page of now.
PageInv == PageIsFresh /\ (reader.kept /\ ~reader.old => reader.page = PublicPage)

WalkSeen == UNION {walk.seen[i] : i \in DOMAIN walk.seen}

\* The merchant has seen what must be seen from the cursor on.
WalkInv ==
  /\ \A p \in walk.must : row[p].status = "ACTIVE"
  /\ \A i, j \in DOMAIN walk.seen : i # j => walk.seen[i] \cap walk.seen[j] = {}
  /\ walk.step = "idle" => walk.seen = <<>> /\ walk.cursor = N + 1
  /\ walk.step = "more" => /\ \A p \in WalkSeen : p >= walk.cursor
                           /\ \A p \in walk.must \ WalkSeen : p < walk.cursor
  /\ walk.step = "done" => walk.must \subseteq WalkSeen

CatalogInv == CatalogTypeInv /\ IndexInv /\ PageInv /\ WalkInv

-----------------------------------------------------------------------------
(* Catalog: every step keeps the types                                     *)

LEMMA ReindexDoes ==
  ASSUME CatalogTypeInv, NEW c \in Callers, ReindexAllProducts(c)
  PROVE  /\ CatalogTypeInv' /\ request[c].todo = <<>>
         /\ \A d \in Callers : d # c => request'[d] = request[d]
         /\ \A e \in Items(c)' : e.do = "put" /\ e.action = "index"
         /\ \A p \in Products : request'[c].doc[p] = Searchable(p)
<1> DEFINE S == {p \in Products : row[p].status = "ACTIVE"}
<1>1. PICK doc : doc = [p \in Products |-> Searchable(p)]
  OBVIOUS
<1>2. PICK todo : todo = ForEach(S, "put", "index")
  OBVIOUS
<1>3. request' = [request EXCEPT ![c] = [todo |-> todo, doc |-> doc]]
  BY <1>1, <1>2 DEF ReindexAllProducts
<1>4. S \in SUBSET Products
  OBVIOUS
<1> HIDE DEF S
<1>5. todo \in Seq(Effects) /\ \A i \in DOMAIN todo : todo[i].do = "put" /\ todo[i].action = "index"
  BY <1>2, <1>4, ForEachIs DEF Kinds
<1>6. doc \in [Products -> Documents] /\ \A p \in Products : doc[p] = Searchable(p)
  BY <1>1, SearchableIs
<1>7. /\ RequestInv' /\ request'[c].todo = todo /\ request'[c].doc = doc
      /\ \A d \in Callers : d # c => request'[d] = request[d]
  <2>1. RequestInv
    BY DEF CatalogTypeInv
  <2>2. todo \in Seq(Effects)
    BY <1>5
  <2>3. doc \in [Products -> Documents]
    BY <1>6
  <2> QED BY <1>3, <2>1, <2>2, <2>3, RequestType
<1>8. Items(c)' = {todo[i] : i \in DOMAIN todo}
  BY <1>7 DEF Items
<1>9. CatalogTypeInv'
  BY <1>7 DEF ReindexAllProducts, CatalogTypeInv, QueueTypeInv, CopiesInv, WalkTypeInv
<1>10. request[c].todo = <<>>
  BY DEF ReindexAllProducts, BeginRequest
<1> QED BY <1>5, <1>6, <1>7, <1>8, <1>9, <1>10

\* A status of the shop: the index has nothing to do with it.
LEMMA ShopDoes ==
  ASSUME CatalogTypeInv, NEW c \in Callers, NEW s \in ShopStatus, UpdateStatus(c, s) \/ UpdateShopStatus(c, s)
  PROVE  /\ CatalogTypeInv' /\ request[c].todo = <<>>
         /\ \A d \in Callers : d # c => request'[d] = request[d]
         /\ \A e \in Items(c)' : e.do = "demote"
<1>1. request[c].todo = <<>> /\ Items(c) = {}
  BY DEF UpdateStatus, UpdateShopStatus, BeginRequest, Items
<1>2. /\ RequestInv' /\ \A d \in Callers : d # c => request'[d] = request[d]
      /\ \A e \in Items(c)' : e.do = "demote"
  <2>1. CASE UpdateStatus(c, s)
    <3>1. PICK todo : todo = IF s # "ACTIVE" THEN <<Effect("demote", 1, "remove")>> ELSE <<>>
      OBVIOUS
    <3>2. PICK e : e = Effect("demote", 1, "remove")
      OBVIOUS
    <3>3. e \in Effects /\ e.do = "demote"
      <4>1. 1 \in Products
        BY CatalogAssumption DEF Products
      <4> QED BY <3>2, <4>1 DEF Effect, Effects, Kinds
    <3>4. todo \in Seq(Effects) /\ \A i \in DOMAIN todo : todo[i] = e
      <4>1. todo = IF s # "ACTIVE" THEN <<e>> ELSE <<>>
        BY <3>1, <3>2
      <4> QED BY <3>3, <4>1
    <3>5. PICK doc \in [Products -> Documents] : [request[c] EXCEPT !.todo = todo] = [todo |-> todo, doc |-> doc]
      BY DEF CatalogTypeInv, RequestInv
    <3>6. request' = [request EXCEPT ![c] = [todo |-> todo, doc |-> doc]]
      <4>1. request' = [request EXCEPT ![c].todo = todo]
        BY <2>1, <3>1 DEF UpdateStatus
      <4> QED BY <3>5, <4>1
    <3>7. /\ RequestInv' /\ request'[c].todo = todo
          /\ \A d \in Callers : d # c => request'[d] = request[d]
      BY <3>4, <3>6, RequestType DEF CatalogTypeInv
    <3> QED BY <3>3, <3>4, <3>7 DEF Items
  <2>2. CASE UpdateShopStatus(c, s)
    <3>1. request' = request
      BY <2>2 DEF UpdateShopStatus
    <3> QED BY <1>1, <3>1 DEF CatalogTypeInv, RequestInv, Items
  <2> QED BY <2>1, <2>2
<1>3. shop' = s /\ UNCHANGED <<focus, row, index, jobs, active, walk, excused>> /\ LeavesCache
      /\ reader' = [reader EXCEPT !.old = @ \/ reader.kept]
  BY DEF UpdateStatus, UpdateShopStatus
<1>4. CopiesInv'
  BY <1>3, LeavesCacheType, ReaderOldType DEF CatalogTypeInv, CopiesInv
<1>5. CatalogTypeInv'
  BY <1>2, <1>3, <1>4 DEF CatalogTypeInv, QueueTypeInv, WalkTypeInv
<1> QED BY <1>1, <1>2, <1>5

\* One item of a request is done.
ItemDone(c) ==
  \/ Invalidate(c) \/ InvalidateFails(c) \/ ScheduleSearchIndex(c) \/ OnProductEvent(c)
  \/ IndexProduct(c) \/ Demote(c)

LEMMA ItemDoneDoes ==
  ASSUME CatalogTypeInv, NEW c \in Callers, ItemDone(c)
  PROVE  /\ request[c].todo # <<>> /\ First(c) \in Items(c) /\ First(c) \in Effects
         /\ RequestInv'
         /\ \A d \in Callers : d # c => request'[d] = request[d]
         /\ Items(c)' \subseteq Items(c)
         /\ Items(c) \subseteq Items(c)' \cup {First(c)}
         /\ Items(c)' # {} => request'[c].doc = request[c].doc
<1>1. Proceed(c) /\ request[c].todo # <<>>
  BY DEF ItemDone, Invalidate, InvalidateFails, ScheduleSearchIndex, OnProductEvent, IndexProduct, Demote, Does
<1>2. RequestInv
  BY DEF CatalogTypeInv
<1>3. First(c) \in Items(c) /\ First(c) \in Effects
  BY <1>1, <1>2, ItemsAre
<1> QED BY <1>1, <1>2, <1>3, ProceedDoes

LEMMA EnqueuedIs ==
  ASSUME CatalogTypeInv, NEW e \in Effects, jobs' = Enqueued(e)
  PROVE  /\ active' = active => QueueTypeInv'
         /\ jobs'.delayed = jobs.delayed /\ jobs'.waiting \in Seq(Jobs)
         /\ Len(jobs'.waiting) = Len(jobs.waiting) + 1
         /\ \A i \in 1..Len(jobs.waiting) : jobs'.waiting[i] = jobs.waiting[i]
         /\ jobs'.waiting[Len(jobs.waiting) + 1].product = e.product
         /\ jobs'.waiting[Len(jobs.waiting) + 1].action = e.action
<1> DEFINE j == [action |-> e.action, product |-> e.product, tries |-> 0]
<1>1. j \in Jobs /\ j.product = e.product /\ j.action = e.action
  BY DEF Effects, Jobs, Kinds
<1>2. jobs \in [waiting : Seq(Jobs), delayed : SUBSET Jobs]
  BY DEF CatalogTypeInv, QueueTypeInv
<1>3. jobs' = [jobs EXCEPT !.waiting = Append(jobs.waiting, j)]
  BY DEF Enqueued
<1> HIDE DEF j
<1>4. jobs' \in [waiting : Seq(Jobs), delayed : SUBSET Jobs] /\ jobs'.waiting = Append(jobs.waiting, j)
      /\ jobs'.delayed = jobs.delayed
  <2>1. PICK w : w = Append(jobs.waiting, j)
    OBVIOUS
  <2>2. w \in Seq(Jobs)
    BY <1>1, <1>2, <2>1
  <2>3. jobs' = [jobs EXCEPT !.waiting = w]
    BY <1>3, <2>1
  <2> QED BY <1>2, <2>1, <2>2, <2>3
<1>5. active' = active => QueueTypeInv'
  BY <1>4 DEF CatalogTypeInv, QueueTypeInv
<1> QED BY <1>1, <1>2, <1>4, <1>5

LEMMA ItemDoneType ==
  ASSUME CatalogTypeInv, NEW c \in Callers, ItemDone(c)
  PROVE  CatalogTypeInv'
<1>1. First(c) \in Effects /\ First(c) \in Items(c) /\ RequestInv'
  BY ItemDoneDoes
<1>2. /\ First(c).product \in Products
      /\ request[c].doc[First(c).product] \in Documents
  <2>1. First(c).product \in Products
    BY <1>1 DEF Effects
  <2> QED BY <2>1 DEF CatalogTypeInv, RequestInv
<1>3. CASE Invalidate(c)
  <2>1. CopiesInv'
    BY <1>3 DEF Invalidate, NoPage, CatalogTypeInv, CopiesInv, Pages
  <2> QED BY <1>1, <1>3, <2>1 DEF Invalidate, CatalogTypeInv, QueueTypeInv, WalkTypeInv
<1>4. CASE InvalidateFails(c)
  <2>1. CopiesInv'
    BY <1>4 DEF InvalidateFails, CatalogTypeInv, CopiesInv, Pages
  <2> QED BY <1>1, <1>4, <2>1 DEF InvalidateFails, CatalogTypeInv, QueueTypeInv, WalkTypeInv
<1>5. CASE ScheduleSearchIndex(c)
  <2>1. active' = active /\ (jobs' = jobs \/ jobs' = Enqueued(First(c)))
    BY <1>5 DEF ScheduleSearchIndex
  <2>2. QueueTypeInv'
    BY <1>1, <2>1, EnqueuedIs DEF CatalogTypeInv, QueueTypeInv
  <2>3. index' \in [Products -> Documents]
    BY <1>2, <1>5 DEF ScheduleSearchIndex, CatalogTypeInv, CopiesInv, Documents
  <2>4. CopiesInv'
    BY <1>5, <2>3 DEF ScheduleSearchIndex, CatalogTypeInv, CopiesInv
  <2> QED BY <1>1, <1>5, <2>2, <2>4 DEF ScheduleSearchIndex, CatalogTypeInv, WalkTypeInv
<1>6. CASE OnProductEvent(c)
  <2>1. active' = active /\ (jobs' = jobs \/ jobs' = Enqueued(First(c)))
    BY <1>6 DEF OnProductEvent
  <2>2. QueueTypeInv'
    BY <1>1, <2>1, EnqueuedIs DEF CatalogTypeInv, QueueTypeInv
  <2> QED BY <1>1, <1>6, <2>2 DEF OnProductEvent, CatalogTypeInv, CopiesInv, WalkTypeInv
<1>7. CASE IndexProduct(c)
  <2>3. index' \in [Products -> Documents]
    BY <1>2, <1>7 DEF IndexProduct, CatalogTypeInv, CopiesInv, Documents
  <2>4. CopiesInv'
    BY <1>7, <2>3 DEF IndexProduct, CatalogTypeInv, CopiesInv
  <2> QED BY <1>1, <1>7, <2>4 DEF IndexProduct, CatalogTypeInv, QueueTypeInv, WalkTypeInv
<1>8. CASE Demote(c)
  <2> DEFINE S == {p \in Products : row[p].status = "ACTIVE"}
  <2>1. /\ row' = [p \in Products |-> IF p \in S THEN [row[p] EXCEPT !.status = "DRAFT"] ELSE row[p]]
        /\ excused' = excused \cup S
        /\ walk' = [walk EXCEPT !.must = {}]
        /\ reader' = [reader EXCEPT !.old = @ \/ reader.kept]
        /\ LeavesCache /\ UNCHANGED <<focus, shop, index, jobs, active>>
    BY <1>8 DEF Demote
  <2>2. row' \in [Products -> ProductRows]
    <3>1. \A p \in Products : row[p] \in ProductRows /\ [row[p] EXCEPT !.status = "DRAFT"] \in ProductRows
      BY DEF CatalogTypeInv, ProductRows, ProductStatus
    <3> QED BY <2>1, <3>1
  <2>3. WalkTypeInv'
    <3>1. {} \in SUBSET Products /\ WalkTypeInv
      BY DEF CatalogTypeInv
    <3> QED BY <2>1, <3>1, MustType
  <2>4. CopiesInv'
    BY <2>1, LeavesCacheType, ReaderOldType DEF CatalogTypeInv, CopiesInv
  <2>5. excused' \subseteq Products /\ QueueTypeInv' /\ focus' = focus /\ shop' = shop
    BY <2>1 DEF CatalogTypeInv, QueueTypeInv
  <2> QED BY <1>1, <2>2, <2>3, <2>4, <2>5 DEF CatalogTypeInv
<1> QED BY <1>3, <1>4, <1>5, <1>6, <1>7, <1>8 DEF ItemDone

LEMMA BreaksDoes ==
  ASSUME CatalogTypeInv, NEW c \in Callers, Breaks(c)
  PROVE  /\ CatalogTypeInv'
         /\ \A d \in Callers : d # c => request'[d] = request[d]
         /\ Items(c)' = {}
         /\ \A e \in Items(c) : e.product \in excused'
         /\ cache'.page = cache.page /\ cache'.kept = cache.kept
         /\ ~cache'.old /\ cache.kept => ~cache.old /\ ~Does(c, "invalidate")
<1>1. request' = [request EXCEPT ![c] = [todo |-> NoRequest.todo, doc |-> NoRequest.doc]]
  BY NoRequestIs DEF Breaks
<1>2. NoRequest.todo \in Seq(Effects) /\ NoRequest.doc \in [Products -> Documents]
  BY NoRequestIs
<1>3. /\ RequestInv' /\ request'[c].todo = NoRequest.todo
      /\ \A d \in Callers : d # c => request'[d] = request[d]
  BY <1>1, <1>2, RequestType DEF CatalogTypeInv
<1>4. Items(c)' = {}
  BY <1>3, NoRequestIs DEF Items
<1>5. excused' = excused \cup {e.product : e \in Items(c)}
  BY DEF Breaks, Items
<1>6. Items(c) \subseteq Effects /\ (request[c].todo # <<>> => First(c) \in Items(c))
  BY ItemsAre DEF CatalogTypeInv
<1>7. /\ cache'.page = cache.page /\ cache'.kept = cache.kept
      /\ cache' \in Pages
      /\ cache'.old = (cache.old \/ (cache.kept /\ \E e \in Items(c) : e.do = "invalidate"))
  BY DEF Breaks, Items, CatalogTypeInv, CopiesInv, Pages
<1>8. ~cache'.old /\ cache.kept => ~cache.old /\ ~Does(c, "invalidate")
  BY <1>6, <1>7 DEF Does
<1>9. CatalogTypeInv'
  <2>1. excused' \subseteq Products
    BY <1>5, <1>6 DEF CatalogTypeInv, Effects
  <2>2. CopiesInv'
    BY <1>7 DEF Breaks, CatalogTypeInv, CopiesInv
  <2> QED BY <1>3, <2>1, <2>2 DEF Breaks, CatalogTypeInv, QueueTypeInv, WalkTypeInv
<1> QED BY <1>3, <1>4, <1>5, <1>7, <1>8, <1>9

LEMMA WorkerType ==
  ASSUME CatalogTypeInv, SearchWorker
  PROVE  CatalogTypeInv'
<1>0. jobs \in [waiting : Seq(Jobs), delayed : SUBSET Jobs]
  BY DEF CatalogTypeInv, QueueTypeInv
<1>5. active \in [Workers -> {NoJob} \cup [job : {<<j>> : j \in Jobs}, put : Documents]]
  BY DEF CatalogTypeInv, QueueTypeInv
<1>6. \A w \in Workers : active[w] # NoJob => active[w].job[1] \in Jobs /\ active[w].put \in Documents
  BY <1>5
<1>1. ASSUME NEW w \in Workers, TakeJob(w) PROVE CatalogTypeInv'
  <2>1. PICK j : j = Head(jobs.waiting)
    OBVIOUS
  <2>2. j \in Jobs /\ Tail(jobs.waiting) \in Seq(Jobs)
    BY <1>0, <1>1, <2>1 DEF TakeJob
  <2>3. PICK put : put = IF j.action = "remove" THEN 0 ELSE Searchable(j.product)
    OBVIOUS
  <2>4. put \in Documents /\ j.product \in Products
    BY <2>2, <2>3, SearchableIs DEF Jobs, Documents
  <2>5. /\ active' = [active EXCEPT ![w] = [job |-> <<j>>, put |-> put]]
        /\ jobs' = [jobs EXCEPT !.waiting = Tail(jobs.waiting)]
        /\ excused' \subseteq excused \cup {j.product}
    BY <1>1, <2>1, <2>3 DEF TakeJob, DocumentOf
  <2>7. PICK r \in Seq(Jobs) : r = Tail(jobs.waiting)
    BY <2>2
  <2>8. jobs' = [jobs EXCEPT !.waiting = r]
    BY <2>5, <2>7
  <2>9. jobs' \in [waiting : Seq(Jobs), delayed : SUBSET Jobs]
    BY <1>0, <2>8
  <2>6. QueueTypeInv' /\ excused' \subseteq Products
    BY <1>5, <2>2, <2>4, <2>5, <2>9 DEF QueueTypeInv, CatalogTypeInv
  <2> QED BY <1>1, <2>6 DEF TakeJob, CatalogTypeInv, RequestInv, CopiesInv, WalkTypeInv
<1>2. ASSUME NEW w \in Workers, FinishJob(w) PROVE CatalogTypeInv'
  <2>1. active[w].job[1] \in Jobs /\ active[w].put \in Documents
    BY <1>2, <1>6 DEF FinishJob
  <2>2. index' \in [Products -> Documents]
    BY <1>2, <2>1 DEF FinishJob, CatalogTypeInv, CopiesInv, Jobs
  <2>3. QueueTypeInv'
    BY <1>2, <1>5 DEF FinishJob, CatalogTypeInv, QueueTypeInv
  <2> QED BY <1>2, <2>2, <2>3 DEF FinishJob, CatalogTypeInv, RequestInv, CopiesInv, WalkTypeInv
<1>3. ASSUME NEW w \in Workers, JobFails(w) PROVE CatalogTypeInv'
  <2>1. PICK j : j = active[w].job[1]
    OBVIOUS
  <2>2. j \in Jobs
    BY <1>3, <1>6, <2>1 DEF JobFails
  <2>3. [j EXCEPT !.tries = @ + 1] \in Jobs /\ j.product \in Products
    BY <2>2 DEF Jobs
  <2>4. active' = [active EXCEPT ![w] = NoJob] /\ excused' \in {excused, excused \cup {j.product}}
        /\ jobs' \in {jobs, [jobs EXCEPT !.delayed = @ \cup {[j EXCEPT !.tries = @ + 1]}]}
    BY <1>3, <2>1 DEF JobFails
  <2>5. QueueTypeInv' /\ excused' \subseteq Products
    BY <1>0, <1>5, <2>3, <2>4 DEF CatalogTypeInv, QueueTypeInv
  <2> QED BY <1>3, <2>5 DEF JobFails, CatalogTypeInv, RequestInv, CopiesInv, WalkTypeInv
<1>4. ASSUME NEW j \in jobs.delayed, Promote(j) PROVE CatalogTypeInv'
  <2>1. j \in Jobs /\ Append(jobs.waiting, j) \in Seq(Jobs) /\ jobs.delayed \ {j} \in SUBSET Jobs
    BY <1>0
  <2>2. jobs' = [waiting |-> Append(jobs.waiting, j), delayed |-> jobs.delayed \ {j}] /\ active' = active
    BY <1>4 DEF Promote
  <2>3. jobs' \in [waiting : Seq(Jobs), delayed : SUBSET Jobs]
    BY <2>1, <2>2
  <2>4. QueueTypeInv'
    BY <2>2, <2>3 DEF CatalogTypeInv, QueueTypeInv
  <2> QED BY <1>4, <2>4 DEF Promote, CatalogTypeInv, RequestInv, CopiesInv, WalkTypeInv
<1> QED BY <1>1, <1>2, <1>3, <1>4 DEF SearchWorker

LEMMA PageType ==
  ASSUME CatalogTypeInv, ReadPage \/ KeepPage \/ Expire
  PROVE  CatalogTypeInv'
<1>1. CopiesInv'
  <2>1. CASE ReadPage
    <3>1. PICK P : P = PublicPage
      OBVIOUS
    <3>2. P \in SUBSET (Products \X ProductPrices) /\ P # {}
      BY <2>1, <3>1, PublicPageIs DEF ReadPage
    <3>3. reader' = [page |-> P, old |-> FALSE, kept |-> TRUE] /\ UNCHANGED <<index, cache>>
      BY <2>1, <3>1 DEF ReadPage
    <3> QED BY <3>2, <3>3 DEF CatalogTypeInv, CopiesInv, Pages
  <2>2. NoPage \in Pages /\ ~NoPage.kept
    BY DEF NoPage, Pages
  <2>3. CASE KeepPage
    BY <2>2, <2>3 DEF KeepPage, CatalogTypeInv, CopiesInv
  <2>4. CASE Expire
    BY <2>2, <2>4 DEF Expire, CatalogTypeInv, CopiesInv
  <2> QED BY <2>1, <2>3, <2>4
<1> QED BY <1>1 DEF ReadPage, KeepPage, Expire, CatalogTypeInv, RequestInv, QueueTypeInv, WalkTypeInv

-----------------------------------------------------------------------------
(* Catalog: every step keeps the index following                           *)

\* What concerns a product is as it was.
SameTasks(p) ==
  /\ \A c \in Callers : Tasks(c, p)' = Tasks(c, p)
  /\ \A c \in Callers : Tasks(c, p) # {} => request'[c].doc[p] = request[c].doc[p]

SameProduct(p) == Searchable(p)' = Searchable(p) /\ index'[p] = index[p] /\ focus' = focus

LEMMA SameSearchable == ASSUME NEW p, row'[p] = row[p] PROVE Searchable(p)' = Searchable(p)
BY DEF Searchable

\* What the workers hold, for a product whose document should be what it was.
LEMMA HandsSame ==
  ASSUME UNCHANGED active, NEW p, Searchable(p)' = Searchable(p)
  PROVE  (Right(p)' <=> Right(p)) /\ (Wrong(p)' <=> Wrong(p))
<1>1. \A w : InHand(w, p)' <=> InHand(w, p)
  BY DEF InHand, NoJob
<1> QED BY <1>1 DEF Right, Wrong

LEMMA SameFollows ==
  ASSUME NEW p \in Products, SameTasks(p), SameProduct(p), UNCHANGED <<jobs, active>>, Follows(p)
  PROVE  Follows(p)'
<1>1. Searchable(p)' = Searchable(p) /\ (Redis' <=> Redis)
  BY DEF SameProduct, Redis
<1>2. /\ \A kind : Awaits(p, kind)' <=> Awaits(p, kind)
      /\ \A i : Later(p, i)' <=> Later(p, i)
      /\ (Right(p)' <=> Right(p)) /\ (Wrong(p)' <=> Wrong(p))
  <2>1. \A kind : Awaits(p, kind)' <=> Awaits(p, kind)
    BY DEF SameTasks, Awaits
  <2> QED BY <1>1, <2>1, HandsSame DEF Later
<1>3. Comes(p)' <=> Comes(p)
  BY <1>1, <1>2 DEF Comes
<1>4. QueueTells(p) => QueueTells(p)'
  BY <1>1, <1>2, <1>3 DEF QueueTells, SameProduct
<1>5. InlineTells(p) => InlineTells(p)'
  BY <1>1 DEF InlineTells, SameProduct, SameTasks
<1>6. PutsTrue(p) => PutsTrue(p)'
  BY <1>1 DEF PutsTrue, SameTasks
<1> QED BY <1>1, <1>4, <1>5, <1>6 DEF Follows

LEMMA NoItems == ASSUME RequestInv, NEW c \in Callers, request[c].todo = <<>> PROVE \A p : Tasks(c, p) = {}
BY DEF Items, Tasks

\* A write of the products S.
LEMMA WriteFollows ==
  ASSUME CatalogTypeInv, CatalogTypeInv', NEW c \in Callers, NEW S \in SUBSET Products, WriteDoes(c, S),
         NEW p \in Products, p \notin excused', Follows(p), QueueUsed
  PROVE  Follows(p)'
<1>1. /\ \A d \in Callers : d # c => Tasks(d, p)' = Tasks(d, p) /\ request'[d] = request[d]
      /\ \A q : Tasks(c, q) = {}
  BY NoItems DEF WriteDoes, Tasks, Items, CatalogTypeInv
<1>4. \A e \in Tasks(c, p)' : e.action \in Kinds
  <2>1. Items(c)' \subseteq Effects
    <3>1. request'[c].todo \in Seq(Effects)
      BY DEF CatalogTypeInv, RequestInv
    <3> QED BY <3>1 DEF Items
  <2> QED BY <2>1 DEF Tasks, Effects
<1>2. CASE p \notin S
  <2>1. Tasks(c, p)' = {}
    BY <1>2 DEF WriteDoes, Tasks
  <2>2. SameTasks(p)
    BY <1>1, <2>1 DEF SameTasks
  <2> QED BY <1>2, <2>2, SameFollows DEF WriteDoes, SameProduct
<1>3. CASE p \in S
  <2>0. /\ UNCHANGED <<focus, index, jobs, active>>
        /\ \A e \in Tasks(c, p)' :
             /\ e.do \in {"schedule", "emit"} /\ e.product = p
             /\ e.action = "remove" => Searchable(p)' = 0
             /\ ~Redis /\ e.do = "schedule" /\ e.action = "index" => request'[c].doc[p] = Searchable(p)'
        /\ \/ Searchable(p) = 0 /\ Searchable(p)' = 0
           \/ \E e \in Tasks(c, p)' : e.do = "schedule" /\ (e.action = "index" \/ Searchable(p)' = 0)
    <3>1. ~Exists(p) => Searchable(p) = 0
      BY DEF Exists, Searchable
    <3>2. row'[p].status # "ACTIVE" => Searchable(p)' = 0
      BY DEF Searchable
    <3>3. \A e \in Items(c)' : e.product = p /\ e.do \in {"schedule", "emit"} => e \in Tasks(c, p)'
      BY DEF Tasks
    <3>4. \A e \in Tasks(c, p)' : e \in Items(c)' /\ e.product = p /\ e.do \in {"schedule", "emit", "put"}
      BY DEF Tasks
    <3>5. ASSUME NEW e \in Tasks(c, p)'
          PROVE  /\ e.do \in {"schedule", "emit"} /\ e.product = p
                 /\ e.action = "remove" => Searchable(p)' = 0
                 /\ ~Redis /\ e.do = "schedule" /\ e.action = "index" => request'[c].doc[p] = Searchable(p)'
      BY <3>2, <3>4 DEF WriteDoes
    <3>6. \/ Searchable(p) = 0 /\ Searchable(p)' = 0
          \/ \E e \in Tasks(c, p)' : e.do = "schedule" /\ (e.action = "index" \/ Searchable(p)' = 0)
      BY <1>3, <3>1, <3>2, <3>3 DEF WriteDoes
    <3>7. UNCHANGED <<focus, index, jobs, active>>
      BY DEF WriteDoes
    <3> QED BY <3>5, <3>6, <3>7
  <2>1. ~Overtakes(c, p)
    BY <1>3 DEF WriteDoes
  <2>2. \A d \in Callers : d # c => \A e \in Tasks(d, p) :
          e.do # "put" /\ (e.do \in {"schedule", "emit"} => Redis /\ e.action # "remove")
    <3> SUFFICES ASSUME NEW d \in Callers, d # c, NEW e \in Tasks(d, p)
                 PROVE  e.do # "put" /\ (e.do \in {"schedule", "emit"} => Redis /\ e.action # "remove")
      OBVIOUS
    <3>1. PICK i \in DOMAIN request[d].todo : e = request[d].todo[i]
      BY DEF Tasks, Items
    <3>2. e.product = p
      BY DEF Tasks
    <3> QED BY <2>1, <3>1, <3>2 DEF Overtakes
  <2>3. PutsTrue(p)'
    BY <1>1, <2>0, <2>2 DEF PutsTrue
  <2>4. ASSUME Redis PROVE QueueTells(p)'
    <3>1. QueueTells(p)
      BY <2>4 DEF Follows
    <3>2. \A kind : Awaits(p, kind) => Awaits(p, kind)'
      BY <1>1 DEF Awaits
    <3>3. \A i : Later(p, i) => Later(p, i)'
      BY <2>0, <3>2 DEF Later
    <3>5. Awaits(p, "remove")' => Searchable(p)' = 0
      <4> SUFFICES ASSUME Awaits(p, "remove")' PROVE Searchable(p)' = 0
        OBVIOUS
      <4>0. PICK d \in Callers : \E e \in Tasks(d, p)' : e.do # "put" /\ e.action = "remove"
        BY DEF Awaits
      <4>1. PICK e \in Tasks(d, p)' : e.do # "put" /\ e.action = "remove"
        BY <4>0
      <4>2. CASE d = c
        BY <2>0, <4>1, <4>2
      <4>3. CASE d # c
        <5>1. e \in Tasks(d, p) /\ e.do \in {"schedule", "emit"}
          BY <1>1, <4>1, <4>3 DEF Tasks
        <5> QED BY <2>2, <4>1, <4>3, <5>1
      <4> QED BY <4>2, <4>3
    <3>6. \A j \in jobs'.delayed : j.product = p => j.action = "index"
      BY <2>0, <3>1 DEF QueueTells
    <3>7. CASE Searchable(p) = 0 /\ Searchable(p)' = 0
      <4>0. (Right(p)' <=> Right(p)) /\ (Wrong(p)' <=> Wrong(p))
        BY <2>0, <3>7, HandsSame
      <4>1. Comes(p) => Comes(p)'
        BY <2>0, <3>2, <3>3, <3>7 DEF Comes
      <4>2. index'[p] # Searchable(p)' => Comes(p)' \/ Right(p)'
        BY <2>0, <3>1, <3>7, <4>0, <4>1 DEF QueueTells
      <4>3. Wrong(p)' => Comes(p)'
        BY <3>1, <4>0, <4>1 DEF QueueTells
      <4> QED BY <3>5, <3>6, <3>7, <4>2, <4>3 DEF QueueTells
    <3>8. CASE \E e \in Tasks(c, p)' : e.do = "schedule" /\ (e.action = "index" \/ Searchable(p)' = 0)
      <4>1. PICK e \in Tasks(c, p)' : e.do = "schedule" /\ (e.action = "index" \/ Searchable(p)' = 0)
        BY <3>8
      <4>2. e.action = "index" \/ e.action = "remove"
        BY <1>4, <4>1 DEF Kinds
      <4>3. CASE e.action = "index"
        <5>1. Awaits(p, "index")'
          BY <4>1, <4>3 DEF Awaits
        <5>2. \A i : Later(p, i)'
          BY <5>1 DEF Later
        <5>3. Comes(p)'
          BY <5>2 DEF Comes
        <5> QED BY <3>5, <3>6, <5>2, <5>3 DEF QueueTells
      <4>4. CASE e.action = "remove"
        <5>1. Awaits(p, "remove")' /\ Searchable(p)' = 0
          BY <2>0, <4>1, <4>4 DEF Awaits
        <5>2. Comes(p)'
          BY <5>1 DEF Comes
        <5> QED BY <3>5, <3>6, <5>1, <5>2 DEF QueueTells
      <4> QED BY <4>2, <4>3, <4>4
    <3> QED BY <2>0, <3>7, <3>8
  <2>5. ASSUME ~Redis PROVE InlineTells(p)'
    <3>1. InlineTells(p)
      BY <2>5 DEF Follows
    <3>2. \A d \in Callers : d # c => Tasks(d, p) = {}
      BY <2>2, <2>5 DEF Tasks
    <3>3. \A d \in Callers : d # c => Tasks(d, p)' = {}
      BY <1>1, <3>2
    <3>4. index'[p] # Searchable(p)' => \E d \in Callers : \E e \in Tasks(d, p)' : e.do = "schedule"
      <4>1. CASE Searchable(p) = 0 /\ Searchable(p)' = 0
        <5>1. index[p] # Searchable(p) => FALSE
          BY <1>1, <3>1, <3>2 DEF InlineTells
        <5> QED BY <2>0, <4>1, <5>1
      <4>2. CASE \E e \in Tasks(c, p)' : e.do = "schedule"
        BY <4>2
      <4> QED BY <2>0, <4>1, <4>2
    <3>5. \A d \in Callers : \A e \in Tasks(d, p)' : e.do = "schedule" =>
            Searchable(p)' = IF e.action = "remove" THEN 0 ELSE request'[d].doc[p]
      <4> SUFFICES ASSUME NEW d \in Callers, NEW e \in Tasks(d, p)', e.do = "schedule"
                   PROVE  Searchable(p)' = IF e.action = "remove" THEN 0 ELSE request'[d].doc[p]
        OBVIOUS
      <4>1. d = c
        BY <3>3
      <4>2. e.action \in Kinds
        BY <1>4, <4>1
      <4> QED BY <2>0, <2>5, <4>1, <4>2 DEF Kinds
    <3> QED BY <3>4, <3>5 DEF InlineTells
  <2>6. Redis' <=> Redis
    BY <2>0 DEF Redis
  <2> QED BY <2>3, <2>4, <2>5, <2>6 DEF Follows
<1> QED BY <1>2, <1>3

\* A request that goes on has what it had, but for its first item.
GoesOn(c, p) ==
  /\ \A d \in Callers : d # c => Tasks(d, p)' = Tasks(d, p)
  /\ Tasks(c, p)' \subseteq Tasks(c, p)
  /\ Tasks(c, p) \subseteq Tasks(c, p)' \cup {First(c)}
  /\ \A d \in Callers : Tasks(d, p)' # {} => request'[d].doc[p] = request[d].doc[p]

LEMMA ItemDoneGoesOn ==
  ASSUME CatalogTypeInv, NEW c \in Callers, ItemDone(c), NEW p
  PROVE  GoesOn(c, p)
<1>1. /\ \A d \in Callers : d # c => request'[d] = request[d]
      /\ Items(c)' \subseteq Items(c)
      /\ Items(c) \subseteq Items(c)' \cup {First(c)}
      /\ Items(c)' # {} => request'[c].doc = request[c].doc
  BY ItemDoneDoes
<1>2. \A d \in Callers : d # c => Items(d)' = Items(d)
  BY <1>1 DEF Items
<1>3. Tasks(c, p)' # {} => Items(c)' # {}
  BY DEF Tasks
<1>4. \A d \in Callers : Tasks(d, p)' # {} => request'[d].doc[p] = request[d].doc[p]
  <2> TAKE d \in Callers
  <2>1. CASE d = c
    BY <1>1, <1>3, <2>1
  <2>2. CASE d # c
    BY <1>1, <2>2
  <2> QED BY <2>1, <2>2
<1> QED BY <1>1, <1>2, <1>4 DEF GoesOn, Tasks

LEMMA GoesOnSame ==
  ASSUME NEW c \in Callers, NEW p, GoesOn(c, p), First(c) \notin Tasks(c, p)
  PROVE  SameTasks(p)
<1>1. Tasks(c, p)' = Tasks(c, p)
  BY DEF GoesOn
<1>2. \A d \in Callers : Tasks(d, p)' = Tasks(d, p)
  BY <1>1 DEF GoesOn
<1> QED BY <1>2 DEF GoesOn, SameTasks

LEMMA GoesOnPuts ==
  ASSUME NEW c \in Callers, NEW p, GoesOn(c, p), row'[p] = row[p], PutsTrue(p)
  PROVE  PutsTrue(p)'
<1>1. Searchable(p)' = Searchable(p)
  BY SameSearchable
<1> SUFFICES ASSUME NEW d \in Callers, NEW e \in Tasks(d, p)', e.do = "put"
             PROVE  request'[d].doc[p] = Searchable(p)'
  BY DEF PutsTrue
<1>2. e \in Tasks(d, p) /\ request'[d].doc[p] = request[d].doc[p]
  BY DEF GoesOn
<1> QED BY <1>1, <1>2 DEF PutsTrue

\* Inline, where the item of a "schedule" or a "put" leaves the document as it should be.
LEMMA GoesOnInline ==
  ASSUME NEW c \in Callers, NEW p, GoesOn(c, p), row'[p] = row[p], InlineTells(p),
         \/ index'[p] = Searchable(p)
         \/ index'[p] = index[p] /\ ~(First(c) \in Tasks(c, p) /\ First(c).do = "schedule")
  PROVE  InlineTells(p)'
<1>1. Searchable(p)' = Searchable(p)
  BY SameSearchable
<1>2. \A d \in Callers : \A e \in Tasks(d, p)' : e \in Tasks(d, p) /\ request'[d].doc[p] = request[d].doc[p]
  BY DEF GoesOn
<1>3. index'[p] # Searchable(p) => \E d \in Callers : \E e \in Tasks(d, p)' : e.do = "schedule"
  <2> SUFFICES ASSUME index'[p] # Searchable(p) PROVE \E d \in Callers : \E e \in Tasks(d, p)' : e.do = "schedule"
    OBVIOUS
  <2>1. PICK d \in Callers : \E e \in Tasks(d, p) : e.do = "schedule"
    BY DEF InlineTells
  <2>2. PICK e \in Tasks(d, p) : e.do = "schedule"
    BY <2>1
  <2>3. e \in Tasks(d, p)'
    BY <2>2 DEF GoesOn
  <2> QED BY <2>2, <2>3
<1>4. \A d \in Callers : \A e \in Tasks(d, p)' : e.do = "schedule" =>
        Searchable(p) = IF e.action = "remove" THEN 0 ELSE request'[d].doc[p]
  BY <1>2 DEF InlineTells
<1> QED BY <1>1, <1>3, <1>4 DEF InlineTells

\* With the queue, an item becomes a job at its end.
LEMMA EnqueueFollows ==
  ASSUME CatalogTypeInv, NEW c \in Callers, NEW p \in Products, GoesOn(c, p),
         First(c) \in Effects, First(c) \in Items(c), First(c).do \in {"schedule", "emit"},
         jobs' = Enqueued(First(c)), UNCHANGED active, SameProduct(p), QueueTells(p)
  PROVE  QueueTells(p)'
<1> DEFINE e == First(c)
           n == Len(jobs.waiting)
<1>1. /\ jobs'.delayed = jobs.delayed /\ DOMAIN jobs'.waiting = 1..n + 1 /\ DOMAIN jobs.waiting = 1..n /\ n \in Nat
      /\ \A i \in 1..n : jobs'.waiting[i] = jobs.waiting[i]
      /\ jobs'.waiting[n + 1].product = e.product /\ jobs'.waiting[n + 1].action = e.action
  <2>1. jobs.waiting \in Seq(Jobs)
    BY DEF CatalogTypeInv, QueueTypeInv
  <2>2. /\ jobs'.delayed = jobs.delayed /\ jobs'.waiting \in Seq(Jobs) /\ Len(jobs'.waiting) = n + 1
        /\ \A i \in 1..n : jobs'.waiting[i] = jobs.waiting[i]
        /\ jobs'.waiting[n + 1].product = e.product /\ jobs'.waiting[n + 1].action = e.action
    BY EnqueuedIs
  <2> QED BY <2>1, <2>2
<1>2. Searchable(p)' = Searchable(p) /\ index'[p] = index[p]
  BY DEF SameProduct
<1>3. (Right(p)' <=> Right(p)) /\ (Wrong(p)' <=> Wrong(p))
  BY <1>2, HandsSame
<1>4. e.product = p => e \in Tasks(c, p) /\ Awaits(p, e.action)
  BY DEF Tasks, Awaits
<1>5. \A kind : Awaits(p, kind)' => Awaits(p, kind)
  BY DEF Awaits, GoesOn
<1>6. ASSUME NEW kind, Awaits(p, kind) PROVE Awaits(p, kind)' \/ IsJob(e, p, kind)
  <2>1. PICK d \in Callers : \E t \in Tasks(d, p) : t.do # "put" /\ t.action = kind
    BY <1>6 DEF Awaits
  <2>2. PICK t \in Tasks(d, p) : t.do # "put" /\ t.action = kind
    BY <2>1
  <2>3. t \in Tasks(d, p)' \/ (d = c /\ t = e)
    BY DEF GoesOn
  <2>4. t.product = p
    BY DEF Tasks
  <2> QED BY <2>2, <2>3, <2>4 DEF Awaits, IsJob
<1> HIDE DEF n, e
<1>7. ASSUME NEW i \in 0..n, Later(p, i) PROVE Later(p, i)'
  <2>1. CASE Awaits(p, "index")
    <3>1. CASE IsJob(e, p, "index")
      <4>1. n + 1 \in DOMAIN jobs'.waiting /\ n + 1 > i /\ IsJob(jobs'.waiting[n + 1], p, "index")
        BY <1>1, <3>1 DEF IsJob
      <4> QED BY <4>1 DEF Later, IsJob
    <3> QED BY <1>6, <2>1, <3>1 DEF Later
  <2>2. CASE \E j \in jobs.delayed : IsJob(j, p, "index")
    BY <1>1, <2>2 DEF Later, IsJob
  <2>3. CASE \E k \in DOMAIN jobs.waiting : k > i /\ IsJob(jobs.waiting[k], p, "index")
    <3>1. PICK k \in 1..n : k > i /\ IsJob(jobs.waiting[k], p, "index")
      BY <1>1, <2>3
    <3>2. k \in DOMAIN jobs'.waiting /\ IsJob(jobs'.waiting[k], p, "index")
      BY <1>1, <3>1
    <3> QED BY <3>1, <3>2 DEF Later, IsJob
  <2> QED BY <1>7, <2>1, <2>2, <2>3 DEF Later
<1>8. Comes(p) => Comes(p)'
  <2>1. Later(p, 0) => Later(p, 0)'
    BY <1>1, <1>7
  <2>2. Awaits(p, "remove") => Awaits(p, "remove")' \/ \E k \in DOMAIN jobs'.waiting : jobs'.waiting[k].product = p
    <3>1. n + 1 \in DOMAIN jobs'.waiting
      BY <1>1
    <3> QED BY <1>1, <1>6, <3>1 DEF IsJob
  <2>3. (\E k \in DOMAIN jobs.waiting : jobs.waiting[k].product = p)
          => \E k \in DOMAIN jobs'.waiting : jobs'.waiting[k].product = p
    <3> SUFFICES ASSUME NEW k \in 1..n, jobs.waiting[k].product = p
                 PROVE  \E m \in DOMAIN jobs'.waiting : jobs'.waiting[m].product = p
      BY <1>1
    <3>1. k \in DOMAIN jobs'.waiting /\ jobs'.waiting[k].product = p
      BY <1>1
    <3> QED BY <3>1
  <2> QED BY <1>2, <2>1, <2>2, <2>3 DEF Comes
<1>9. ASSUME NEW i \in DOMAIN jobs'.waiting, IsJob(jobs'.waiting[i], p, "remove"), Searchable(p) # 0
      PROVE  Later(p, i)'
  <2>1. CASE i \in 1..n
    <3>1. IsJob(jobs.waiting[i], p, "remove") /\ i \in DOMAIN jobs.waiting
      BY <1>1, <1>9, <2>1
    <3>2. Later(p, i)
      BY <1>9, <3>1 DEF QueueTells
    <3> QED BY <1>1, <1>7, <2>1, <3>2
  <2>2. CASE i = n + 1
    <3>1. IsJob(e, p, "remove")
      BY <1>1, <1>9, <2>2 DEF IsJob
    <3>2. Awaits(p, "remove")
      BY <1>4, <3>1 DEF IsJob
    <3> QED BY <1>9, <3>2 DEF QueueTells
  <2> QED BY <1>1, <2>1, <2>2
<1>10. /\ index'[p] # Searchable(p)' => Comes(p)' \/ Right(p)'
       /\ Wrong(p)' => Comes(p)'
       /\ Awaits(p, "remove")' => Searchable(p)' = 0
       /\ \A j \in jobs'.delayed : j.product = p => j.action = "index"
  BY <1>1, <1>2, <1>3, <1>5, <1>8 DEF QueueTells
<1>11. \A i \in DOMAIN jobs'.waiting : IsJob(jobs'.waiting[i], p, "remove") /\ Searchable(p)' # 0 => Later(p, i)'
  BY <1>2, <1>9
<1> QED BY <1>10, <1>11 DEF QueueTells, IsJob

\* With the queue, a put of reindexAllProducts leaves the document as it should be.
LEMMA PutFollows ==
  ASSUME NEW c \in Callers, NEW p, GoesOn(c, p), First(c).do = "put", row'[p] = row[p],
         index'[p] \in {index[p], Searchable(p)}, UNCHANGED <<jobs, active>>, QueueTells(p)
  PROVE  QueueTells(p)'
<1>1. Searchable(p)' = Searchable(p)
  BY SameSearchable
<1>2. \A kind : Awaits(p, kind)' <=> Awaits(p, kind)
  <2>1. \A kind : Awaits(p, kind)' => Awaits(p, kind)
    BY DEF Awaits, GoesOn
  <2>2. ASSUME NEW kind, Awaits(p, kind) PROVE Awaits(p, kind)'
    <3>1. PICK d \in Callers : \E t \in Tasks(d, p) : t.do # "put" /\ t.action = kind
      BY <2>2 DEF Awaits
    <3>2. PICK t \in Tasks(d, p) : t.do # "put" /\ t.action = kind
      BY <3>1
    <3>3. t \in Tasks(d, p)'
      BY <3>2 DEF GoesOn
    <3> QED BY <3>2, <3>3 DEF Awaits
  <2> QED BY <2>1, <2>2
<1>3. (\A i : Later(p, i)' <=> Later(p, i)) /\ (Right(p)' <=> Right(p)) /\ (Wrong(p)' <=> Wrong(p))
  BY <1>1, <1>2, HandsSame DEF Later
<1>4. Comes(p)' <=> Comes(p)
  BY <1>1, <1>2, <1>3 DEF Comes
<1> QED BY <1>1, <1>2, <1>3, <1>4 DEF QueueTells

LEMMA ItemDoneFollows ==
  ASSUME CatalogTypeInv, NEW c \in Callers, ItemDone(c), QueueUsed,
         NEW p \in Products, p \notin excused', Follows(p)
  PROVE  Follows(p)'
<1> DEFINE e == First(c)
<1>1. /\ e \in Items(c) /\ e \in Effects /\ e.product \in Products
      /\ GoesOn(c, p)
      /\ index \in [Products -> Documents]
  BY ItemDoneDoes, ItemDoneGoesOn DEF Effects, CatalogTypeInv, CopiesInv
<1>2. e.product = p /\ e.do \in {"schedule", "emit", "put"} => e \in Tasks(c, p)
  BY <1>1 DEF Tasks
<1>3. focus' = focus /\ (Redis' <=> Redis)
  BY DEF ItemDone, Invalidate, InvalidateFails, ScheduleSearchIndex, OnProductEvent, IndexProduct, Demote, Redis
<1>4. CASE Invalidate(c) \/ InvalidateFails(c)
  <2>1. e.do = "invalidate" /\ UNCHANGED <<row, index, jobs, active>>
    BY <1>4 DEF Invalidate, InvalidateFails, Does
  <2>2. SameTasks(p)
    BY <1>1, <2>1, GoesOnSame DEF Tasks
  <2> QED BY <1>3, <2>1, <2>2, SameFollows, SameSearchable DEF SameProduct
<1>5. CASE Demote(c)
  <2>1. e.do = "demote" /\ UNCHANGED <<index, jobs, active>> /\ row'[p] = row[p]
    BY <1>5 DEF Demote, Does
  <2>2. SameTasks(p)
    BY <1>1, <2>1, GoesOnSame DEF Tasks
  <2> QED BY <1>3, <2>1, <2>2, SameFollows, SameSearchable DEF SameProduct
<1>6. CASE ScheduleSearchIndex(c)
  <2>1. e.do = "schedule" /\ UNCHANGED <<row, active>>
    BY <1>6 DEF ScheduleSearchIndex, Does
  <2>2. PutsTrue(p)'
    BY <1>1, <2>1, GoesOnPuts DEF Follows
  <2>3. CASE Redis
    <3>1. jobs' = Enqueued(e) /\ index' = index
      BY <1>6, <2>3 DEF ScheduleSearchIndex
    <3>2. QueueTells(p)'
      BY <1>1, <1>3, <2>1, <2>3, <3>1, EnqueueFollows, SameSearchable DEF SameProduct, Follows
    <3> QED BY <1>3, <2>2, <2>3, <3>2 DEF Follows
  <2>4. CASE ~Redis
    <3>1. index' = [index EXCEPT ![e.product] = IF e.action = "remove" THEN 0 ELSE request[c].doc[e.product]]
      BY <1>6, <2>4 DEF ScheduleSearchIndex
    <3>2. InlineTells(p)
      BY <2>4 DEF Follows
    <3>3. CASE e.product = p
      <4>1. index'[p] = Searchable(p)
        BY <1>1, <1>2, <2>1, <3>1, <3>2, <3>3 DEF InlineTells
      <4>2. InlineTells(p)'
        BY <1>1, <2>1, <3>2, <4>1, GoesOnInline
      <4> QED BY <1>3, <2>2, <2>4, <4>2 DEF Follows
    <3>4. CASE e.product # p
      <4>1. index'[p] = index[p] /\ e \notin Tasks(c, p)
        BY <1>1, <3>1, <3>4 DEF Tasks
      <4>2. InlineTells(p)'
        BY <1>1, <2>1, <3>2, <4>1, GoesOnInline
      <4> QED BY <1>3, <2>2, <2>4, <4>2 DEF Follows
    <3> QED BY <3>3, <3>4
  <2> QED BY <2>3, <2>4
<1>7. CASE OnProductEvent(c)
  <2>1. e.do = "emit" /\ UNCHANGED <<row, index, active>>
    BY <1>7 DEF OnProductEvent, Does
  <2>2. PutsTrue(p)'
    BY <1>1, <2>1, GoesOnPuts DEF Follows
  <2>3. CASE Redis
    <3>1. jobs' = Enqueued(e)
      BY <1>7, <2>3 DEF OnProductEvent
    <3>2. QueueTells(p)'
      BY <1>1, <1>3, <2>1, <2>3, <3>1, EnqueueFollows, SameSearchable DEF SameProduct, Follows
    <3> QED BY <1>3, <2>2, <2>3, <3>2 DEF Follows
  <2>4. CASE ~Redis
    <3>1. InlineTells(p)'
      BY <1>1, <2>1, <2>4, GoesOnInline DEF Follows
    <3> QED BY <1>3, <2>2, <2>4, <3>1 DEF Follows
  <2> QED BY <2>3, <2>4
<1>8. CASE IndexProduct(c)
  <2>1. /\ e.do = "put" /\ UNCHANGED <<row, jobs, active>>
        /\ index' = [index EXCEPT ![e.product] = request[c].doc[e.product]]
    BY <1>8 DEF IndexProduct, Does
  <2>2. PutsTrue(p)'
    BY <1>1, <2>1, GoesOnPuts DEF Follows
  <2>3. index'[p] \in {index[p], Searchable(p)}
    <3>1. CASE e.product = p
      BY <1>1, <1>2, <2>1, <3>1 DEF Follows, PutsTrue
    <3>2. CASE e.product # p
      BY <1>1, <2>1, <3>2
    <3> QED BY <3>1, <3>2
  <2>4. CASE Redis
    <3>1. QueueTells(p)'
      BY <1>1, <2>1, <2>3, <2>4, PutFollows DEF Follows
    <3> QED BY <1>3, <2>2, <2>4, <3>1 DEF Follows
  <2>5. CASE ~Redis
    <3>1. InlineTells(p)'
      BY <1>1, <2>1, <2>3, <2>5, GoesOnInline DEF Follows
    <3> QED BY <1>3, <2>2, <2>5, <3>1 DEF Follows
  <2> QED BY <2>4, <2>5
<1> QED BY <1>4, <1>5, <1>6, <1>7, <1>8 DEF ItemDone

LEMMA BreaksFollows ==
  ASSUME CatalogTypeInv, NEW c \in Callers, Breaks(c), NEW p \in Products, p \notin excused', Follows(p)
  PROVE  Follows(p)'
<1>1. /\ \A d \in Callers : d # c => request'[d] = request[d]
      /\ Items(c)' = {} /\ \A e \in Items(c) : e.product \in excused'
  BY BreaksDoes
<1>2. Tasks(c, p) = {} /\ Tasks(c, p)' = {} /\ \A d \in Callers : d # c => Tasks(d, p)' = Tasks(d, p)
  BY <1>1 DEF Tasks, Items
<1>3. SameTasks(p)
  BY <1>1, <1>2 DEF SameTasks
<1>4. UNCHANGED <<focus, row, index, jobs, active>>
  BY DEF Breaks
<1> QED BY <1>3, <1>4, SameFollows, SameSearchable DEF SameProduct

LEMMA ReindexFollows ==
  ASSUME CatalogTypeInv, NEW c \in Callers, ReindexAllProducts(c), NEW p \in Products, Follows(p)
  PROVE  Follows(p)'
<1>1. /\ request[c].todo = <<>>
      /\ \A d \in Callers : d # c => request'[d] = request[d]
      /\ \A e \in Items(c)' : e.do = "put" /\ e.action = "index"
      /\ \A q \in Products : request'[c].doc[q] = Searchable(q)
  BY ReindexDoes
<1>2. UNCHANGED <<focus, row, index, jobs, active>>
  BY DEF ReindexAllProducts
<1>3. /\ Tasks(c, p) = {}
      /\ \A e \in Tasks(c, p)' : e.do = "put" /\ e.action = "index"
      /\ \A d \in Callers : d # c => Tasks(d, p)' = Tasks(d, p)
  BY <1>1, NoItems DEF Tasks, Items, CatalogTypeInv
<1>4. Searchable(p)' = Searchable(p) /\ (Redis' <=> Redis)
  BY <1>2, SameSearchable DEF Redis
<1>5. PutsTrue(p)'
  BY <1>1, <1>3, <1>4 DEF Follows, PutsTrue
<1>6. \A kind : Awaits(p, kind)' <=> Awaits(p, kind)
  BY <1>3 DEF Awaits
<1>7. (\A i : Later(p, i)' <=> Later(p, i)) /\ (Right(p)' <=> Right(p)) /\ (Wrong(p)' <=> Wrong(p))
  BY <1>2, <1>4, <1>6, HandsSame DEF Later
<1>8. Comes(p)' <=> Comes(p)
  BY <1>2, <1>4, <1>6, <1>7 DEF Comes
<1>9. QueueTells(p) => QueueTells(p)'
  BY <1>2, <1>4, <1>6, <1>7, <1>8 DEF QueueTells
<1>10. InlineTells(p) => InlineTells(p)'
  BY <1>1, <1>2, <1>3, <1>4 DEF InlineTells
<1> QED BY <1>4, <1>5, <1>9, <1>10 DEF Follows

LEMMA ShopFollows ==
  ASSUME CatalogTypeInv, NEW c \in Callers, NEW s \in ShopStatus, UpdateStatus(c, s) \/ UpdateShopStatus(c, s),
         NEW p \in Products, Follows(p)
  PROVE  Follows(p)'
<1>1. /\ request[c].todo = <<>>
      /\ \A d \in Callers : d # c => request'[d] = request[d]
      /\ \A e \in Items(c)' : e.do = "demote"
  BY ShopDoes
<1>2. Tasks(c, p) = {} /\ Tasks(c, p)' = {} /\ \A d \in Callers : d # c => Tasks(d, p)' = Tasks(d, p)
  BY <1>1, NoItems DEF Tasks, Items, CatalogTypeInv
<1>3. SameTasks(p)
  BY <1>1, <1>2 DEF SameTasks
<1>4. UNCHANGED <<focus, row, index, jobs, active>>
  BY DEF UpdateStatus, UpdateShopStatus
<1> QED BY <1>3, <1>4, SameFollows, SameSearchable DEF SameProduct

\* What is left of a queue without its first job.
LEMMA TakenQueue ==
  ASSUME CatalogTypeInv, NEW w \in Workers, TakeJob(w)
  PROVE  /\ jobs.waiting[1] \in Jobs /\ Len(jobs.waiting) \in Nat \ {0} /\ jobs'.delayed = jobs.delayed
         /\ DOMAIN jobs.waiting = 1..Len(jobs.waiting) /\ DOMAIN jobs'.waiting = 1..Len(jobs.waiting) - 1
         /\ \A i \in 1..Len(jobs.waiting) - 1 : jobs'.waiting[i] = jobs.waiting[i + 1]
         /\ \A v \in Workers \ {w} : active'[v] = active[v]
         /\ active'[w].job[1] = jobs.waiting[1] /\ active'[w] # NoJob /\ active[w] = NoJob
         /\ active'[w].put = IF jobs.waiting[1].action = "remove" THEN 0 ELSE Searchable(jobs.waiting[1].product)
<1>1. PICK q : q = jobs.waiting
  OBVIOUS
<1>2. q \in Seq(Jobs) /\ q # <<>>
  BY <1>1 DEF CatalogTypeInv, QueueTypeInv, TakeJob
<1>3. jobs \in [waiting : Seq(Jobs), delayed : SUBSET Jobs]
  BY DEF CatalogTypeInv, QueueTypeInv
<1>4. PICK t : t = Tail(q)
  OBVIOUS
<1>5. PICK j : j = q[1]
  OBVIOUS
<1>6. /\ j \in Jobs /\ t \in Seq(Jobs) /\ Len(q) \in Nat \ {0} /\ Head(q) = j
      /\ DOMAIN q = 1..Len(q) /\ DOMAIN t = 1..Len(q) - 1 /\ \A i \in 1..Len(q) - 1 : t[i] = q[i + 1]
  BY <1>2, <1>4, <1>5
<1>7. PICK put : put = IF j.action = "remove" THEN 0 ELSE Searchable(j.product)
  OBVIOUS
<1>8. jobs' = [jobs EXCEPT !.waiting = t] /\ active[w] = NoJob
      /\ active' = [active EXCEPT ![w] = [job |-> <<j>>, put |-> put]]
  BY <1>1, <1>4, <1>6, <1>7 DEF TakeJob, DocumentOf
<1>9. jobs'.waiting = t /\ jobs'.delayed = jobs.delayed
  BY <1>3, <1>8
<1>10. DOMAIN active = Workers
  BY DEF CatalogTypeInv, QueueTypeInv
<1>11. active'[w] = [job |-> <<j>>, put |-> put] /\ \A v \in Workers \ {w} : active'[v] = active[v]
  BY <1>8, <1>10
<1>12. active'[w].job[1] = j /\ active'[w] # NoJob /\ active'[w].put = put
  <2>1. <<j>>[1] = j /\ <<j>> # <<>>
    OBVIOUS
  <2>2. NoJob.job = <<>>
    BY DEF NoJob
  <2> QED BY <1>11, <2>1, <2>2
<1> QED BY <1>1, <1>5, <1>6, <1>7, <1>8, <1>9, <1>11, <1>12

LEMMA TakeFollows ==
  ASSUME CatalogTypeInv, NEW w \in Workers, TakeJob(w), NEW p \in Products, p \notin excused', QueueTells(p)
  PROVE  QueueTells(p)'
<1> DEFINE n == Len(jobs.waiting)
           j == jobs.waiting[1]
<1>1. /\ j \in Jobs /\ n \in Nat \ {0} /\ jobs'.delayed = jobs.delayed
      /\ DOMAIN jobs.waiting = 1..n /\ DOMAIN jobs'.waiting = 1..n - 1
      /\ \A i \in 1..n - 1 : jobs'.waiting[i] = jobs.waiting[i + 1]
      /\ \A v \in Workers \ {w} : active'[v] = active[v]
      /\ active'[w].job[1] = j /\ active'[w] # NoJob /\ active[w] = NoJob
      /\ active'[w].put = IF j.action = "remove" THEN 0 ELSE Searchable(j.product)
  BY TakenQueue
<1>2. UNCHANGED <<row, index, request>>
  BY DEF TakeJob
<1>3. /\ Searchable(p)' = Searchable(p)
      /\ \A kind : Awaits(p, kind)' <=> Awaits(p, kind)
  BY <1>2, SameSearchable DEF Awaits, Tasks, Items
<1>4. /\ (InHand(w, p)' <=> j.product = p) /\ ~InHand(w, p)
      /\ \A v \in Workers \ {w} : InHand(v, p)' <=> InHand(v, p)
  BY <1>1 DEF InHand, NoJob
\* Another worker at the product has the same to put, or the product is excused.
<1>13. j.product = p => \A v \in Workers : InHand(v, p) => active[v].put = active'[w].put
  <2>1. Head(jobs.waiting) = j
    BY DEF CatalogTypeInv, QueueTypeInv, TakeJob
  <2>2. excused' = excused \cup {q \in {j.product} : \E v \in Workers : InHand(v, q) /\ active[v].put # active'[w].put}
    BY <1>1, <2>1 DEF TakeJob, DocumentOf
  <2> QED BY <2>2
<1>14. Right(p) => Right(p)' \/ (j.product = p /\ active'[w].put = Searchable(p))
  BY <1>1, <1>3, <1>4 DEF Right
<1>15. Wrong(p)' => Wrong(p) \/ (j.product = p /\ active'[w].put # Searchable(p))
  BY <1>1, <1>3, <1>4 DEF Wrong
<1> HIDE DEF n, j
<1>5. ASSUME NEW i \in 1..n, Later(p, i) PROVE Later(p, i - 1)'
  <2>1. CASE \E k \in DOMAIN jobs.waiting : k > i /\ IsJob(jobs.waiting[k], p, "index")
    <3>1. PICK k \in 1..n : k > i /\ IsJob(jobs.waiting[k], p, "index")
      BY <1>1, <2>1
    <3>2. k - 1 \in 1..n - 1 /\ k - 1 > i - 1 /\ jobs'.waiting[k - 1] = jobs.waiting[k]
      BY <1>1, <3>1
    <3> QED BY <1>1, <3>1, <3>2 DEF Later, IsJob
  <2> QED BY <1>1, <1>3, <1>5, <2>1 DEF Later, IsJob
<1>6. j = jobs.waiting[1]
  BY DEF j
<1>7. ASSUME ~IsJob(j, p, "index"), Later(p, 0) PROVE Later(p, 0)'
  <2>1. Later(p, 1)
    <3>1. CASE \E k \in DOMAIN jobs.waiting : k > 0 /\ IsJob(jobs.waiting[k], p, "index")
      <4>1. PICK k \in 1..n : IsJob(jobs.waiting[k], p, "index")
        BY <1>1, <3>1
      <4>2. k > 1
        BY <1>1, <1>6, <1>7, <4>1
      <4> QED BY <1>1, <4>1, <4>2 DEF Later
    <3> QED BY <1>7, <3>1 DEF Later
  <2> QED BY <1>1, <1>5, <2>1
<1>8. ASSUME j.product # p, Comes(p) PROVE Comes(p)'
  <2>1. Later(p, 0) => Later(p, 0)'
    BY <1>7, <1>8 DEF IsJob
  <2>2. (\E k \in DOMAIN jobs.waiting : jobs.waiting[k].product = p)
          => \E k \in DOMAIN jobs'.waiting : jobs'.waiting[k].product = p
    <3> SUFFICES ASSUME NEW k \in 1..n, jobs.waiting[k].product = p
                 PROVE  \E m \in DOMAIN jobs'.waiting : jobs'.waiting[m].product = p
      BY <1>1
    <3>1. k - 1 \in 1..n - 1 /\ jobs'.waiting[k - 1] = jobs.waiting[k]
      BY <1>1, <1>6, <1>8
    <3> QED BY <1>1, <3>1
  <2> QED BY <1>3, <1>8, <2>1, <2>2 DEF Comes
<1>9. /\ index'[p] # Searchable(p)' => Comes(p)' \/ Right(p)'
      /\ Wrong(p)' => Comes(p)'
  <2>1. CASE j.product # p
    BY <1>2, <1>3, <1>8, <1>14, <1>15, <2>1 DEF QueueTells
  <2>2. CASE j.product = p /\ active'[w].put = Searchable(p)
    <3>1. Right(p)'
      BY <1>3, <1>4, <2>2 DEF Right
    <3>2. ~Wrong(p)'
      BY <1>13, <1>15, <2>2 DEF Wrong
    <3> QED BY <3>1, <3>2
  <2>3. CASE j.product = p /\ active'[w].put # Searchable(p)
    <3>1. j.action = "remove" /\ Searchable(p) # 0
      BY <1>1, <2>3
    <3>2. IsJob(jobs.waiting[1], p, "remove") /\ 1 \in DOMAIN jobs.waiting
      BY <1>1, <1>6, <2>3, <3>1 DEF IsJob
    <3>3. Later(p, 1)
      BY <3>1, <3>2 DEF QueueTells
    <3>4. Later(p, 0)'
      BY <1>1, <1>5, <3>3
    <3>5. Comes(p)'
      BY <3>4 DEF Comes
    <3> QED BY <3>5
  <2> QED BY <2>1, <2>2, <2>3
<1>10. ASSUME NEW i \in DOMAIN jobs'.waiting, IsJob(jobs'.waiting[i], p, "remove"), Searchable(p) # 0
       PROVE  Later(p, i)'
  <2>1. i + 1 \in 1..n /\ IsJob(jobs.waiting[i + 1], p, "remove")
    BY <1>1, <1>10
  <2>2. Later(p, i + 1)
    BY <1>1, <1>10, <2>1 DEF QueueTells
  <2>3. Later(p, (i + 1) - 1)'
    BY <1>5, <2>1, <2>2
  <2>4. (i + 1) - 1 = i
    BY <2>1, <1>1
  <2> QED BY <2>3, <2>4
<1>11. \A i \in DOMAIN jobs'.waiting : IsJob(jobs'.waiting[i], p, "remove") /\ Searchable(p)' # 0 => Later(p, i)'
  BY <1>3, <1>10
<1>12. /\ Awaits(p, "remove")' => Searchable(p)' = 0
       /\ \A k \in jobs'.delayed : k.product = p => k.action = "index"
  BY <1>1, <1>3 DEF QueueTells
<1> QED BY <1>9, <1>11, <1>12 DEF QueueTells, IsJob

\* A worker puts its job down.
LEMMA HandsLess ==
  ASSUME CatalogTypeInv, NEW w \in Workers, active' = [active EXCEPT ![w] = NoJob], NEW p, Searchable(p)' = Searchable(p)
  PROVE  /\ Wrong(p)' => Wrong(p)
         /\ Right(p) => Right(p)' \/ (InHand(w, p) /\ active[w].put = Searchable(p))
<1>1. active'[w] = NoJob /\ \A v \in Workers \ {w} : active'[v] = active[v]
  BY DEF CatalogTypeInv, QueueTypeInv
<1>2. ~InHand(w, p)' /\ \A v \in Workers \ {w} : InHand(v, p)' <=> InHand(v, p)
  BY <1>1 DEF InHand, NoJob
<1> QED BY <1>1, <1>2 DEF Right, Wrong

LEMMA FinishFollows ==
  ASSUME CatalogTypeInv, NEW w \in Workers, FinishJob(w), NEW p \in Products, QueueTells(p)
  PROVE  QueueTells(p)'
<1>1. /\ UNCHANGED <<row, request, jobs>> /\ active' = [active EXCEPT ![w] = NoJob] /\ active[w] # NoJob
      /\ index' = [index EXCEPT ![active[w].job[1].product] = active[w].put]
  BY DEF FinishJob
<1>2. /\ Searchable(p)' = Searchable(p)
      /\ \A kind : Awaits(p, kind)' <=> Awaits(p, kind)
  BY <1>1, SameSearchable DEF Awaits, Tasks, Items
<1>3. \A i : Later(p, i)' <=> Later(p, i)
  BY <1>1, <1>2 DEF Later
<1>4. Comes(p)' <=> Comes(p)
  BY <1>1, <1>2, <1>3 DEF Comes
<1>5. (Wrong(p)' => Wrong(p)) /\ (Right(p) => Right(p)' \/ (InHand(w, p) /\ active[w].put = Searchable(p)))
  BY <1>1, <1>2, HandsLess
<1>6. index'[p] # Searchable(p) => Comes(p) \/ Right(p)'
  <2>1. index \in [Products -> Documents]
    BY DEF CatalogTypeInv, CopiesInv
  <2>2. CASE active[w].job[1].product = p
    <3>1. index'[p] = active[w].put /\ InHand(w, p)
      BY <1>1, <2>1, <2>2 DEF InHand
    <3> QED BY <3>1 DEF QueueTells, Wrong
  <2>3. CASE active[w].job[1].product # p
    <3>1. index'[p] = index[p] /\ ~InHand(w, p)
      BY <1>1, <2>1, <2>3 DEF InHand
    <3> QED BY <1>5, <3>1 DEF QueueTells
  <2> QED BY <2>2, <2>3
<1> QED BY <1>1, <1>2, <1>3, <1>4, <1>5, <1>6 DEF QueueTells

LEMMA FailFollows ==
  ASSUME CatalogTypeInv, NEW w \in Workers, JobFails(w), NEW p \in Products, p \notin excused', QueueTells(p)
  PROVE  QueueTells(p)'
<1> DEFINE j == active[w].job[1]
           r == [j EXCEPT !.tries = @ + 1]
<1>1. /\ UNCHANGED <<row, request, index>> /\ active' = [active EXCEPT ![w] = NoJob] /\ active[w] # NoJob
      /\ \/ /\ jobs' = [jobs EXCEPT !.delayed = @ \cup {r}]
            /\ j.action # "remove" \/ j.product \in excused'
         \/ jobs' = jobs /\ j.product \in excused'
  BY DEF JobFails
<1>12. active \in [Workers -> {NoJob} \cup [job : {<<k>> : k \in Jobs}, put : Documents]]
  BY DEF CatalogTypeInv, QueueTypeInv
<1>2. j \in Jobs /\ jobs \in [waiting : Seq(Jobs), delayed : SUBSET Jobs]
  BY <1>1, <1>12 DEF CatalogTypeInv, QueueTypeInv
<1>3. r.product = j.product /\ r.action = j.action /\ j.action \in {"index", "remove"}
  BY <1>2 DEF Jobs
<1> HIDE DEF j, r
<1>4. /\ jobs'.waiting = jobs.waiting
      /\ jobs'.delayed \in {jobs.delayed, jobs.delayed \cup {r}}
      /\ InHand(w, p) => r \in jobs'.delayed /\ IsJob(r, p, "index")
  <2>1. CASE jobs' = jobs /\ j.product \in excused'
    <3>1. ~InHand(w, p)
      BY <2>1 DEF InHand, j
    <3> QED BY <2>1, <3>1
  <2>2. CASE jobs' = [jobs EXCEPT !.delayed = @ \cup {r}] /\ (j.action # "remove" \/ j.product \in excused')
    <3>1. jobs'.waiting = jobs.waiting /\ jobs'.delayed = jobs.delayed \cup {r}
      BY <1>2, <2>2
    <3>2. InHand(w, p) => j.product = p /\ j.action = "index"
      BY <1>3, <2>2 DEF InHand, j
    <3> QED BY <1>3, <3>1, <3>2 DEF IsJob
  <2> QED BY <1>1, <2>1, <2>2
<1>5. /\ Searchable(p)' = Searchable(p)
      /\ \A kind : Awaits(p, kind)' <=> Awaits(p, kind)
  BY <1>1, SameSearchable DEF Awaits, Tasks, Items
<1>6. \A i : Later(p, i) => Later(p, i)'
  BY <1>4, <1>5 DEF Later, IsJob
<1>7. Comes(p) => Comes(p)'
  BY <1>4, <1>5, <1>6 DEF Comes
<1>8. InHand(w, p) => Comes(p)'
  BY <1>4 DEF Comes, Later, IsJob
<1>9. (Wrong(p)' => Wrong(p)) /\ (Right(p) => Right(p)' \/ InHand(w, p))
  BY <1>1, <1>5, HandsLess
<1>10. \A k \in jobs'.delayed : k.product = p => k.action = "index"
  <2> SUFFICES ASSUME NEW k \in jobs'.delayed, k.product = p PROVE k.action = "index"
    OBVIOUS
  <2>1. CASE k \in jobs.delayed
    BY <2>1 DEF QueueTells
  <2>2. CASE k = r
    <3>1. j.product = p /\ k.action = j.action
      BY <1>3, <2>2
    <3>2. InHand(w, p)
      BY <1>1, <3>1 DEF InHand, j
    <3> QED BY <1>4, <2>2, <3>2 DEF IsJob
  <2> QED BY <1>4, <2>1, <2>2
<1>11. \A i \in DOMAIN jobs'.waiting : IsJob(jobs'.waiting[i], p, "remove") /\ Searchable(p)' # 0 => Later(p, i)'
  BY <1>4, <1>5, <1>6 DEF QueueTells, IsJob
<1> QED BY <1>1, <1>5, <1>7, <1>8, <1>9, <1>10, <1>11 DEF QueueTells, IsJob

LEMMA PromoteFollows ==
  ASSUME CatalogTypeInv, NEW j \in jobs.delayed, Promote(j), NEW p \in Products, QueueTells(p)
  PROVE  QueueTells(p)'
<1> DEFINE n == Len(jobs.waiting)
<1>1. /\ UNCHANGED <<row, request, index, active>>
      /\ jobs' = [waiting |-> Append(jobs.waiting, j), delayed |-> jobs.delayed \ {j}]
  BY DEF Promote
<1>2. jobs.waiting \in Seq(Jobs) /\ j \in Jobs
  BY DEF CatalogTypeInv, QueueTypeInv
<1>3. /\ jobs'.delayed = jobs.delayed \ {j} /\ DOMAIN jobs'.waiting = 1..n + 1 /\ DOMAIN jobs.waiting = 1..n /\ n \in Nat
      /\ \A i \in 1..n : jobs'.waiting[i] = jobs.waiting[i]
      /\ jobs'.waiting[n + 1] = j
  BY <1>1, <1>2
<1> HIDE DEF n
<1>4. /\ Searchable(p)' = Searchable(p)
      /\ \A kind : Awaits(p, kind)' <=> Awaits(p, kind)
  BY <1>1, SameSearchable DEF Awaits, Tasks, Items
<1>5. (Right(p)' <=> Right(p)) /\ (Wrong(p)' <=> Wrong(p))
  BY <1>1, <1>4, HandsSame
<1>6. ASSUME NEW i \in 0..n, Later(p, i) PROVE Later(p, i)'
  <2>1. CASE Awaits(p, "index")
    BY <1>4, <2>1 DEF Later
  <2>2. CASE \E k \in jobs.delayed : IsJob(k, p, "index")
    <3>1. PICK k \in jobs.delayed : IsJob(k, p, "index")
      BY <2>2
    <3>2. CASE k = j
      <4>1. n + 1 \in DOMAIN jobs'.waiting /\ n + 1 > i /\ IsJob(jobs'.waiting[n + 1], p, "index")
        BY <1>3, <3>1, <3>2
      <4> QED BY <4>1 DEF Later, IsJob
    <3>3. CASE k # j
      <4>1. k \in jobs'.delayed
        BY <1>3, <3>3
      <4> QED BY <3>1, <4>1 DEF Later, IsJob
    <3> QED BY <3>2, <3>3
  <2>3. CASE \E k \in DOMAIN jobs.waiting : k > i /\ IsJob(jobs.waiting[k], p, "index")
    <3>1. PICK k \in 1..n : k > i /\ IsJob(jobs.waiting[k], p, "index")
      BY <1>3, <2>3
    <3>2. k \in DOMAIN jobs'.waiting /\ IsJob(jobs'.waiting[k], p, "index")
      BY <1>3, <3>1
    <3> QED BY <3>1, <3>2 DEF Later, IsJob
  <2> QED BY <1>6, <2>1, <2>2, <2>3 DEF Later
<1>7. Comes(p) => Comes(p)'
  <2>1. Later(p, 0) => Later(p, 0)'
    BY <1>3, <1>6
  <2>2. (\E k \in DOMAIN jobs.waiting : jobs.waiting[k].product = p)
          => \E k \in DOMAIN jobs'.waiting : jobs'.waiting[k].product = p
    <3> SUFFICES ASSUME NEW k \in 1..n, jobs.waiting[k].product = p
                 PROVE  \E m \in DOMAIN jobs'.waiting : jobs'.waiting[m].product = p
      BY <1>3
    <3>1. k \in DOMAIN jobs'.waiting /\ jobs'.waiting[k].product = p
      BY <1>3
    <3> QED BY <3>1
  <2> QED BY <1>4, <2>1, <2>2 DEF Comes
<1>8. ASSUME NEW i \in DOMAIN jobs'.waiting, IsJob(jobs'.waiting[i], p, "remove"), Searchable(p) # 0
      PROVE  Later(p, i)'
  <2>1. i # n + 1
    BY <1>3, <1>8 DEF QueueTells, IsJob
  <2>2. i \in 1..n
    BY <1>3, <2>1
  <2>3. Later(p, i)
    BY <1>3, <1>8, <2>2 DEF QueueTells
  <2> QED BY <1>3, <1>6, <2>2, <2>3
<1>9. \A i \in DOMAIN jobs'.waiting : IsJob(jobs'.waiting[i], p, "remove") /\ Searchable(p)' # 0 => Later(p, i)'
  BY <1>4, <1>8
<1>10. /\ index'[p] # Searchable(p)' => Comes(p)' \/ Right(p)'
       /\ Wrong(p)' => Comes(p)'
       /\ Awaits(p, "remove")' => Searchable(p)' = 0
       /\ \A k \in jobs'.delayed : k.product = p => k.action = "index"
  BY <1>1, <1>3, <1>4, <1>5, <1>7 DEF QueueTells
<1> QED BY <1>9, <1>10 DEF QueueTells, IsJob

LEMMA WorkerFollows ==
  ASSUME CatalogTypeInv, SearchWorker, QueueUsed, NEW p \in Products, p \notin excused', Follows(p)
  PROVE  Follows(p)'
<1>1. Redis
  BY DEF QueueUsed, SearchWorker, TakeJob, FinishJob, JobFails
<1>2. UNCHANGED <<focus, row, request>>
  BY DEF SearchWorker, TakeJob, FinishJob, JobFails, Promote
<1>3. QueueTells(p)'
  BY <1>1, TakeFollows, FinishFollows, FailFollows, PromoteFollows DEF SearchWorker, Follows
<1>4. PutsTrue(p)' /\ Redis'
  <2>1. Searchable(p)' = Searchable(p)
    BY <1>2, SameSearchable
  <2> QED BY <1>1, <1>2, <2>1 DEF Follows, PutsTrue, Tasks, Items, Redis
<1> QED BY <1>3, <1>4 DEF Follows

-----------------------------------------------------------------------------
(* Catalog: the cached page                                                *)

\* A write: the pages are outdated, or the cached one is about to be deleted.
LEMMA WritePage ==
  ASSUME CatalogTypeInv, NEW c \in Callers,
         reader' = [reader EXCEPT !.old = @ \/ reader.kept],
         LeavesCache \/ (UNCHANGED cache /\ Does(c, "invalidate")')
  PROVE  PageInv'
<1>1. reader'.kept => reader'.old
  BY ReaderOldType DEF CatalogTypeInv
<1>2. LeavesCache => (cache'.kept => cache'.old)
  BY LeavesCacheType DEF CatalogTypeInv
<1> QED BY <1>1, <1>2 DEF PageInv, PageIsFresh

\* What neither the rows nor the pages are touched by.
LEMMA SamePage ==
  ASSUME PageInv, UNCHANGED <<shop, row, cache, reader>>,
         \A c \in Callers : Does(c, "invalidate") => Does(c, "invalidate")'
  PROVE  PageInv'
<1>1. PublicPage' = PublicPage
  BY DEF PublicPage
<1> QED BY <1>1 DEF PageInv, PageIsFresh

LEMMA ItemDonePage ==
  ASSUME CatalogTypeInv, NEW c \in Callers, ItemDone(c), PageInv
  PROVE  PageInv'
<1>1. \A d \in Callers : d # c => (Does(d, "invalidate")' <=> Does(d, "invalidate"))
  BY ItemDoneDoes DEF Does, First
<1>2. CASE Invalidate(c)
  <2>1. ~cache'.kept /\ UNCHANGED <<shop, row, reader>>
    BY <1>2 DEF Invalidate, NoPage
  <2>2. PublicPage' = PublicPage
    BY <2>1 DEF PublicPage
  <2> QED BY <2>1, <2>2 DEF PageInv, PageIsFresh
<1>3. CASE InvalidateFails(c)
  <2>1. cache' = [cache EXCEPT !.old = cache.kept] /\ UNCHANGED <<shop, row, reader>>
    BY <1>3 DEF InvalidateFails
  <2>2. cache'.kept => cache'.old
    BY <2>1, LeavesCacheType DEF LeavesCache, CatalogTypeInv
  <2>3. PublicPage' = PublicPage
    BY <2>1 DEF PublicPage
  <2> QED BY <2>1, <2>2, <2>3 DEF PageInv, PageIsFresh
<1>4. CASE ScheduleSearchIndex(c) \/ OnProductEvent(c) \/ IndexProduct(c)
  <2>1. ~Does(c, "invalidate") /\ UNCHANGED <<shop, row, cache, reader>>
    BY <1>4 DEF ScheduleSearchIndex, OnProductEvent, IndexProduct, Does
  <2> QED BY <1>1, <2>1, SamePage
<1>5. CASE Demote(c)
  BY <1>5, WritePage DEF Demote
<1> QED BY <1>2, <1>3, <1>4, <1>5 DEF ItemDone

LEMMA BreaksPage ==
  ASSUME CatalogTypeInv, NEW c \in Callers, Breaks(c), PageInv
  PROVE  PageInv'
<1>1. /\ \A d \in Callers : d # c => request'[d] = request[d]
      /\ cache'.page = cache.page /\ cache'.kept = cache.kept
      /\ ~cache'.old /\ cache.kept => ~cache.old /\ ~Does(c, "invalidate")
  BY BreaksDoes
<1>2. \A d \in Callers : d # c => (Does(d, "invalidate")' <=> Does(d, "invalidate"))
  BY <1>1 DEF Does, First
<1>3. UNCHANGED <<shop, row, reader>>
  BY DEF Breaks
<1>4. PublicPage' = PublicPage
  BY <1>3 DEF PublicPage
<1> QED BY <1>1, <1>2, <1>3, <1>4 DEF PageInv, PageIsFresh

LEMMA ReadersPage ==
  ASSUME CatalogTypeInv, ReadPage \/ KeepPage \/ Expire, PageInv
  PROVE  PageInv'
<1>1. UNCHANGED <<shop, row, request>>
  BY DEF ReadPage, KeepPage, Expire
<1>2. PublicPage' = PublicPage /\ \A c \in Callers : Does(c, "invalidate")' <=> Does(c, "invalidate")
  BY <1>1 DEF PublicPage, Does, First
<1>3. CASE ReadPage
  <2>1. cache' = cache /\ reader'.page = PublicPage
    BY <1>3 DEF ReadPage
  <2> QED BY <1>2, <2>1 DEF PageInv, PageIsFresh
<1>4. CASE KeepPage
  <2>1. cache' = reader /\ ~reader'.kept
    BY <1>4 DEF KeepPage, NoPage
  <2> QED BY <1>2, <2>1 DEF PageInv, PageIsFresh
<1>5. CASE Expire
  <2>1. ~cache'.kept /\ reader' = reader
    BY <1>5 DEF Expire, NoPage
  <2> QED BY <1>2, <2>1 DEF PageInv, PageIsFresh
<1> QED BY <1>3, <1>4, <1>5

\* A request begins: it was not about to delete the page.
LEMMA BeginsPage ==
  ASSUME CatalogTypeInv, NEW c \in Callers, request[c].todo = <<>>,
         \A d \in Callers : d # c => request'[d] = request[d],
         UNCHANGED <<shop, row, cache, reader>>, PageInv
  PROVE  PageInv'
<1>1. \A d \in Callers : Does(d, "invalidate") => Does(d, "invalidate")'
  BY DEF Does, First
<1> QED BY <1>1, SamePage

-----------------------------------------------------------------------------
(* Catalog: the list of the merchant                                       *)

\* A write of the rows drops from what must be seen what is no longer ACTIVE.
LEMMA WriteWalk ==
  ASSUME CatalogTypeInv, WalkInv, walk' = [walk EXCEPT !.must = {p \in @ : row'[p].status = "ACTIVE"}]
  PROVE  WalkInv'
<1>1. {p \in walk.must : row'[p].status = "ACTIVE"} \in SUBSET Products
  BY DEF CatalogTypeInv, WalkTypeInv
<1>2. /\ walk'.must = {p \in walk.must : row'[p].status = "ACTIVE"}
      /\ walk'.cursor = walk.cursor /\ walk'.seen = walk.seen /\ walk'.step = walk.step
  BY <1>1, MustType DEF CatalogTypeInv
<1>3. WalkSeen' = WalkSeen
  BY <1>2 DEF WalkSeen
<1> QED BY <1>2, <1>3 DEF WalkInv

LEMMA SameWalk == ASSUME WalkInv, UNCHANGED <<row, walk>> PROVE WalkInv'
BY DEF WalkInv, WalkSeen

LEMMA DemoteWalk ==
  ASSUME CatalogTypeInv, WalkInv, walk' = [walk EXCEPT !.must = {}]
  PROVE  WalkInv'
<1>1. /\ walk'.must = {}
      /\ walk'.cursor = walk.cursor /\ walk'.seen = walk.seen /\ walk'.step = walk.step
  BY MustType DEF CatalogTypeInv
<1>2. WalkSeen' = WalkSeen
  BY <1>1 DEF WalkSeen
<1> QED BY <1>1, <1>2 DEF WalkInv

LEMMA FiniteProducts ==
  ASSUME NEW S \in SUBSET Products
  PROVE  IsFiniteSet(S) /\ Cardinality(S) \in Nat /\ S \subseteq Nat
<1>1. IsFiniteSet(Products) /\ Products \subseteq Nat
  <2>1. N \in Nat
    BY CatalogAssumption
  <2>2. IsFiniteSet(1..N)
    BY <2>1, FS_Interval
  <2> QED BY <2>1, <2>2 DEF Products
<1> QED BY <1>1, FS_Subset, FS_CardinalityType

\* A page of the list: the next ones in order, all that are left where there is no next cursor.
LEMMA WalkPage ==
  ASSUME CatalogTypeInv, NEW S \in SUBSET Products
  PROVE  LET turn == PageOf(S) IN
         /\ turn \subseteq S
         /\ ~(Cardinality(S) > PageSize) => turn = S
         /\ Cardinality(S) > PageSize =>
              /\ NextCursor(S) \in turn /\ \A q \in turn : q >= NextCursor(S)
              /\ \A q \in S \ turn : q < NextCursor(S)
<1> DEFINE turn == PageOf(S)
<1>0. PageSize \in Nat \ {0}
  BY CatalogAssumption
<1>1. IsFiniteSet(S) /\ Cardinality(S) \in Nat /\ S \subseteq Nat
  BY FiniteProducts
<1>2. turn = Greatest(S, PageSize)
  BY DEF PageOf, Greatest
<1>3. /\ turn \subseteq S /\ Cardinality(turn) \in Nat
      /\ \A p \in turn, q \in S : q > p => q \in turn
      /\ turn = S \/ Cardinality(turn) = PageSize
      /\ Cardinality(S) <= PageSize => turn = S
  <2>1. /\ Greatest(S, PageSize) \subseteq S /\ Cardinality(Greatest(S, PageSize)) \in Nat
        /\ \A p \in Greatest(S, PageSize), q \in S : q > p => q \in Greatest(S, PageSize)
        /\ Greatest(S, PageSize) = S \/ Cardinality(Greatest(S, PageSize)) = PageSize
        /\ Cardinality(S) <= PageSize => Greatest(S, PageSize) = S
    BY <1>0, <1>1, GreatestAre
  <2> QED BY <1>2, <2>1
<1>4. turn \subseteq Nat
  BY <1>1, <1>3
<1>5. Cardinality(S) > PageSize => turn # {}
  BY <1>0, <1>1, <1>3, FS_EmptySet
<1>6. NextCursor(S) = Min(turn)
  BY DEF NextCursor
<1> HIDE DEF turn
<1>7. ASSUME Cardinality(S) > PageSize
      PROVE  /\ NextCursor(S) \in turn /\ \A q \in turn : q >= NextCursor(S)
             /\ \A q \in S \ turn : q < NextCursor(S)
  <2>1. Min(turn) \in turn /\ \A q \in turn : Min(turn) <= q
    BY <1>4, <1>5, <1>7, MinIs
  <2>2. \A q \in turn : q \in Nat
    BY <1>4
  <2>3. ASSUME NEW q \in S \ turn PROVE q < Min(turn)
    <3>1. ~(q > Min(turn)) /\ q # Min(turn) /\ q \in Nat /\ Min(turn) \in Nat
      BY <1>1, <1>3, <2>1, <2>2
    <3> QED BY <3>1
  <2> QED BY <1>6, <2>1, <2>2, <2>3
<1>8. ~(Cardinality(S) > PageSize) => turn = S
  BY <1>0, <1>1, <1>3
<1> QED BY <1>3, <1>7, <1>8 DEF turn

LEMMA ListPageWalk ==
  ASSUME CatalogTypeInv, WalkInv, ListPage
  PROVE  WalkTypeInv' /\ WalkInv'
<1> DEFINE S == Listed(walk.cursor)
           turn == PageOf(S)
           more == Cardinality(S) > PageSize
<1>0. S = {p \in Products : row[p].status = "ACTIVE" /\ p < walk.cursor}
  BY DEF Listed
<1>1. S \in SUBSET Products
  BY <1>0
<1>2. /\ turn \subseteq S
      /\ ~more => turn = S
      /\ more => /\ NextCursor(S) \in turn /\ \A q \in turn : q >= NextCursor(S)
                 /\ \A q \in S \ turn : q < NextCursor(S)
  BY <1>1, WalkPage
<1>3. /\ walk.step \in {"idle", "more"} /\ row' = row
      /\ walk' = [cursor |-> IF more THEN NextCursor(S) ELSE 0, seen |-> Append(walk.seen, turn),
                  must |-> IF walk.step = "idle" THEN S ELSE walk.must, step |-> IF more THEN "more" ELSE "done"]
  BY DEF ListPage
<1>4. /\ walk'.cursor = IF more THEN NextCursor(S) ELSE 0
      /\ walk'.seen = Append(walk.seen, turn)
      /\ walk'.must = IF walk.step = "idle" THEN S ELSE walk.must
      /\ walk'.step = IF more THEN "more" ELSE "done"
  BY <1>3
<1>5. walk.seen \in Seq(SUBSET Products) /\ walk.cursor \in 0..N + 1 /\ walk.must \subseteq Products /\ N \in Nat
  BY CatalogAssumption DEF CatalogTypeInv, WalkTypeInv
<1>6. \A p \in S : p \in Products /\ p \in Nat /\ row[p].status = "ACTIVE" /\ p < walk.cursor
  BY <1>0, <1>5 DEF Products
<1>7. \A p \in Products : row[p].status = "ACTIVE" /\ p < walk.cursor => p \in S
  BY <1>0
<1> HIDE DEF S, turn, more
<1>8. WalkTypeInv'
  <2>1. turn \in SUBSET Products /\ Append(walk.seen, turn) \in Seq(SUBSET Products)
    BY <1>1, <1>2, <1>5
  <2>2. more => NextCursor(S) \in 0..N + 1
    BY <1>2, <1>5, <1>6 DEF Products
  <2>3. walk'.cursor \in 0..N + 1
    BY <1>4, <1>5, <2>2
  <2>4. walk'.must \in SUBSET Products
    BY <1>1, <1>4, <1>5
  <2>5. walk' = [cursor |-> walk'.cursor, seen |-> walk'.seen, must |-> walk'.must, step |-> walk'.step]
    BY <1>3
  <2>6. walk'.step \in {"idle", "more", "done"} /\ walk'.seen \in Seq(SUBSET Products)
    BY <1>4, <2>1
  <2> QED BY <2>3, <2>4, <2>5, <2>6 DEF WalkTypeInv
<1>9. /\ Len(walk.seen) \in Nat /\ DOMAIN walk.seen = 1..Len(walk.seen)
      /\ DOMAIN walk'.seen = 1..Len(walk.seen) + 1 /\ walk'.seen[Len(walk.seen) + 1] = turn
      /\ \A i \in DOMAIN walk.seen : walk'.seen[i] = walk.seen[i]
  BY <1>1, <1>2, <1>4, <1>5
<1>10. WalkSeen' = WalkSeen \cup turn
  BY <1>9 DEF WalkSeen
<1>11. WalkSeen \subseteq Products /\ \A p \in WalkSeen : p \in Nat
  BY <1>5 DEF WalkSeen, Products
<1>12. \A p \in WalkSeen : \A q \in turn : q < p
  <2>1. CASE walk.step = "idle"
    <3>1. walk.seen = <<>>
      BY <2>1 DEF WalkInv
    <3> QED BY <3>1 DEF WalkSeen
  <2>2. CASE walk.step = "more"
    <3>1. \A p \in WalkSeen : p >= walk.cursor
      BY <2>2 DEF WalkInv
    <3>2. \A q \in turn : q < walk.cursor /\ q \in Nat
      BY <1>2, <1>6
    <3> QED BY <1>5, <1>11, <3>1, <3>2
  <2> QED BY <1>3, <2>1, <2>2
<1>13. \A i, j \in DOMAIN walk'.seen : i # j => walk'.seen[i] \cap walk'.seen[j] = {}
  <2>1. \A i \in DOMAIN walk.seen : walk.seen[i] \cap turn = {}
    <3> SUFFICES ASSUME NEW i \in DOMAIN walk.seen, NEW q \in walk.seen[i], q \in turn PROVE FALSE
      OBVIOUS
    <3>1. q \in WalkSeen
      BY DEF WalkSeen
    <3>2. q < q /\ q \in Nat
      BY <1>11, <1>12, <3>1
    <3> QED BY <3>2
  <2>2. \A i, j \in DOMAIN walk.seen : i # j => walk.seen[i] \cap walk.seen[j] = {}
    BY DEF WalkInv
  <2> QED BY <1>9, <2>1, <2>2
<1>14. \A p \in walk'.must : row'[p].status = "ACTIVE"
  BY <1>3, <1>4, <1>6 DEF WalkInv
\* What must be seen and was not yet is on this page or behind it.
<1>15. \A p \in walk'.must \ WalkSeen' : p \in S \ turn
  <2> SUFFICES ASSUME NEW p \in walk'.must, p \notin WalkSeen, p \notin turn PROVE p \in S
    BY <1>10
  <2>1. CASE walk.step = "idle"
    BY <1>4, <2>1
  <2>2. CASE walk.step = "more"
    <3>1. p \in walk.must /\ p \in Products
      BY <1>4, <1>5, <2>2
    <3>2. p < walk.cursor /\ row[p].status = "ACTIVE"
      BY <2>2, <3>1 DEF WalkInv
    <3> QED BY <1>7, <3>1, <3>2
  <2> QED BY <1>3, <2>1, <2>2
<1>16. walk'.step = "more" => /\ \A p \in WalkSeen' : p >= walk'.cursor
                              /\ \A p \in walk'.must \ WalkSeen' : p < walk'.cursor
  <2> SUFFICES ASSUME more PROVE /\ \A p \in WalkSeen' : p >= walk'.cursor
                                 /\ \A p \in walk'.must \ WalkSeen' : p < walk'.cursor
    BY <1>4
  <2>1. walk'.cursor \in turn /\ walk'.cursor \in Nat /\ \A q \in turn : q >= walk'.cursor
    BY <1>2, <1>4, <1>6
  <2>2. \A p \in WalkSeen : p >= walk'.cursor
    BY <1>11, <1>12, <2>1
  <2>3. \A p \in S \ turn : p < walk'.cursor
    BY <1>2, <1>4
  <2> QED BY <1>10, <1>15, <2>1, <2>2, <2>3
<1>17. walk'.step = "done" => walk'.must \subseteq WalkSeen'
  BY <1>2, <1>4, <1>15
<1>18. walk'.step # "idle"
  BY <1>4
<1> QED BY <1>8, <1>13, <1>14, <1>16, <1>17, <1>18 DEF WalkInv

-----------------------------------------------------------------------------
(* Catalog: the invariant                                                  *)

LEMMA WriteKeepsAll ==
  ASSUME CatalogInv, NEW c \in Callers, NEW S \in SUBSET Products, WriteDoes(c, S), WriteKeeps(c)
  PROVE  CatalogInv'
<1>1. CatalogTypeInv /\ CatalogTypeInv' /\ PageInv /\ WalkInv /\ QueueUsed
  BY DEF CatalogInv, WriteKeeps, IndexInv
<1>2. excused \subseteq excused' /\ UNCHANGED <<focus, index, jobs, active>>
  BY DEF WriteDoes
<1>3. \A p \in Products \ excused' : Follows(p)'
  BY <1>1, <1>2, WriteFollows DEF CatalogInv, IndexInv
<1>4. QueueUsed'
  BY <1>1, <1>2 DEF QueueUsed, Redis, NoJob
<1>5. PageInv'
  BY <1>1, WritePage DEF WriteKeeps
<1>6. WalkInv'
  BY <1>1, WriteWalk DEF WriteKeeps
<1>7. IndexInv'
  BY <1>3, <1>4 DEF IndexInv, Products
<1> QED BY <1>1, <1>5, <1>6, <1>7 DEF CatalogInv

LEMMA CatalogStep == CatalogInv /\ [CatalogNext]_catalogVars => CatalogInv'
<1> SUFFICES ASSUME CatalogInv, [CatalogNext]_catalogVars PROVE CatalogInv'
  OBVIOUS
<1>1. CatalogTypeInv /\ IndexInv /\ PageInv /\ WalkInv /\ QueueUsed
  BY DEF CatalogInv, IndexInv
<1>0. \A p \in Products \ excused : Follows(p)
  BY <1>1 DEF IndexInv
<1>2. ASSUME NEW c \in Callers, RouteWrites(c) PROVE CatalogInv'
  BY <1>1, <1>2, RouteWriteDoes, WriteKeepsAll
<1>3. ASSUME NEW c \in Callers, NEW S \in SUBSET Products, NEW s \in ProductStatus \cup {"same"},
             NEW x \in ProductPrices \cup {NoPrice}, NEW t \in BOOLEAN, BulkUpdate(c, S, s, x, t)
      PROVE  CatalogInv'
  BY <1>1, <1>3, BulkWriteDoes, WriteKeepsAll
<1>4. ASSUME NEW c \in Callers, ReindexAllProducts(c) PROVE CatalogInv'
  <2>1. /\ CatalogTypeInv' /\ request[c].todo = <<>> /\ \A d \in Callers : d # c => request'[d] = request[d]
    BY <1>1, <1>4, ReindexDoes
  <2>2. UNCHANGED <<focus, shop, row, cache, reader, jobs, active, walk, excused>>
    BY <1>4 DEF ReindexAllProducts
  <2>3. \A p \in Products \ excused : Follows(p)'
    BY <1>0, <1>1, <1>4, ReindexFollows
  <2>4. IndexInv'
    BY <1>1, <2>2, <2>3 DEF IndexInv, QueueUsed, Redis, NoJob, Products
  <2>5. PageInv' /\ WalkInv'
    BY <1>1, <2>1, <2>2, BeginsPage, SameWalk
  <2> QED BY <2>1, <2>4, <2>5 DEF CatalogInv
<1>5. ASSUME NEW c \in Callers, NEW s \in ShopStatus, UpdateStatus(c, s) \/ UpdateShopStatus(c, s)
      PROVE  CatalogInv'
  <2>1. CatalogTypeInv'
    BY <1>1, <1>5, ShopDoes
  <2>2. UNCHANGED <<focus, row, index, jobs, active, walk, excused>> /\ LeavesCache
        /\ reader' = [reader EXCEPT !.old = @ \/ reader.kept]
    BY <1>5 DEF UpdateStatus, UpdateShopStatus
  <2>3. \A p \in Products \ excused : Follows(p)'
    BY <1>0, <1>1, <1>5, ShopFollows
  <2>4. IndexInv'
    BY <1>1, <2>2, <2>3 DEF IndexInv, QueueUsed, Redis, NoJob, Products
  <2>5. PageInv' /\ WalkInv'
    BY <1>1, <2>2, WritePage, SameWalk
  <2> QED BY <2>1, <2>4, <2>5 DEF CatalogInv
<1>6. ASSUME NEW c \in Callers, ItemDone(c) PROVE CatalogInv'
  <2>1. CatalogTypeInv' /\ PageInv'
    BY <1>1, <1>6, ItemDoneType, ItemDonePage
  <2>2. excused \subseteq excused'
    BY <1>6 DEF ItemDone, Invalidate, InvalidateFails, ScheduleSearchIndex, OnProductEvent, IndexProduct, Demote
  <2>3. \A p \in Products \ excused' : Follows(p)'
    BY <1>0, <1>1, <1>6, <2>2, ItemDoneFollows
  <2>4. QueueUsed'
    <3>1. focus' = focus /\ active' = active /\ (~Redis => jobs' = jobs)
      BY <1>6 DEF ItemDone, Invalidate, InvalidateFails, ScheduleSearchIndex, OnProductEvent, IndexProduct, Demote
    <3> QED BY <1>1, <3>1 DEF QueueUsed, Redis, NoJob
  <2>5. WalkInv'
    <3>1. CASE Demote(c)
      BY <1>1, <3>1, DemoteWalk DEF Demote
    <3>2. CASE ~Demote(c)
      <4>1. UNCHANGED <<row, walk>>
        BY <1>6, <3>2 DEF ItemDone, Invalidate, InvalidateFails, ScheduleSearchIndex, OnProductEvent, IndexProduct
      <4> QED BY <1>1, <4>1, SameWalk
    <3> QED BY <3>1, <3>2
  <2> QED BY <2>1, <2>3, <2>4, <2>5 DEF CatalogInv, IndexInv, Products
<1>7. ASSUME NEW c \in Callers, Breaks(c) PROVE CatalogInv'
  <2>1. CatalogTypeInv' /\ PageInv'
    BY <1>1, <1>7, BreaksDoes, BreaksPage
  <2>2. UNCHANGED <<focus, row, jobs, active, walk>> /\ excused \subseteq excused'
    BY <1>7 DEF Breaks
  <2>3. \A p \in Products \ excused' : Follows(p)'
    BY <1>0, <1>1, <1>7, <2>2, BreaksFollows
  <2>4. QueueUsed' /\ WalkInv'
    BY <1>1, <2>2, SameWalk DEF QueueUsed, Redis, NoJob
  <2> QED BY <2>1, <2>3, <2>4 DEF CatalogInv, IndexInv, Products
<1>8. CASE SearchWorker
  <2>1. CatalogTypeInv'
    BY <1>1, <1>8, WorkerType
  <2>2. UNCHANGED <<focus, shop, row, cache, reader, request, walk>> /\ excused \subseteq excused' /\ Redis
    BY <1>1, <1>8 DEF SearchWorker, TakeJob, FinishJob, JobFails, Promote, QueueUsed
  <2>3. \A p \in Products \ excused' : Follows(p)'
    BY <1>0, <1>1, <1>8, <2>2, WorkerFollows
  <2>4. QueueUsed'
    BY <2>2 DEF QueueUsed, Redis
  <2>5. WalkInv' /\ PageInv'
    <3>1. \A c \in Callers : Does(c, "invalidate")' <=> Does(c, "invalidate")
      BY <2>2 DEF Does, First
    <3> QED BY <1>1, <2>2, <3>1, SameWalk, SamePage
  <2> QED BY <2>1, <2>3, <2>4, <2>5 DEF CatalogInv, IndexInv, Products
<1>9. CASE ReadPage \/ KeepPage \/ Expire
  <2>1. CatalogTypeInv' /\ PageInv'
    BY <1>1, <1>9, PageType, ReadersPage
  <2>2. UNCHANGED <<focus, row, index, request, jobs, active, walk, excused>>
    BY <1>9 DEF ReadPage, KeepPage, Expire
  <2>3. \A p \in Products : SameTasks(p) /\ SameProduct(p)
    BY <2>2, SameSearchable DEF SameTasks, SameProduct, Tasks, Items
  <2>4. \A p \in Products \ excused : Follows(p)'
    BY <1>0, <2>2, <2>3, SameFollows
  <2>5. QueueUsed' /\ WalkInv'
    BY <1>1, <2>2, SameWalk DEF QueueUsed, Redis, NoJob
  <2> QED BY <2>1, <2>2, <2>4, <2>5 DEF CatalogInv, IndexInv, Products
<1>10. CASE ListPage
  <2>1. UNCHANGED <<focus, shop, row, index, cache, reader, request, jobs, active, excused>>
    BY <1>10 DEF ListPage
  <2>2. WalkTypeInv' /\ WalkInv'
    BY <1>1, <1>10, ListPageWalk
  <2>3. CatalogTypeInv'
    BY <1>1, <2>1, <2>2 DEF CatalogTypeInv, RequestInv, QueueTypeInv, CopiesInv, NoJob
  <2>4. \A p \in Products : SameTasks(p) /\ SameProduct(p)
    BY <2>1, SameSearchable DEF SameTasks, SameProduct, Tasks, Items
  <2>5. \A p \in Products \ excused : Follows(p)'
    BY <1>0, <2>1, <2>4, SameFollows
  <2>6. \A c \in Callers : Does(c, "invalidate")' <=> Does(c, "invalidate")
    BY <2>1 DEF Does, First
  <2>7. PageInv' /\ QueueUsed'
    BY <1>1, <2>1, <2>6, SamePage DEF QueueUsed, Redis, NoJob
  <2> QED BY <2>1, <2>2, <2>3, <2>5, <2>7 DEF CatalogInv, IndexInv, Products
<1>11. CASE UNCHANGED catalogVars
  <2>1. UNCHANGED <<focus, shop, row, index, cache, reader, request, jobs, active, walk, excused>>
    BY <1>11 DEF catalogVars
  <2>2. CatalogTypeInv'
    BY <1>1, <2>1 DEF CatalogTypeInv, RequestInv, QueueTypeInv, CopiesInv, WalkTypeInv, NoJob
  <2>3. \A p \in Products : SameTasks(p) /\ SameProduct(p)
    BY <2>1, SameSearchable DEF SameTasks, SameProduct, Tasks, Items
  <2>4. \A p \in Products \ excused : Follows(p)'
    BY <1>0, <2>1, <2>3, SameFollows
  <2>5. \A c \in Callers : Does(c, "invalidate")' <=> Does(c, "invalidate")
    BY <2>1 DEF Does, First
  <2>6. PageInv' /\ QueueUsed' /\ WalkInv'
    BY <1>1, <2>1, <2>5, SamePage, SameWalk DEF QueueUsed, Redis, NoJob
  <2> QED BY <2>1, <2>2, <2>4, <2>6 DEF CatalogInv, IndexInv, Products
<1>12. {"ACTIVE", "SUSPENDED"} \subseteq ShopStatus
  BY DEF ShopStatus
<1>13. ASSUME NEW c \in Callers, CatalogRoutes(c) \/ MerchantRoutes(c) PROVE CatalogInv'
  BY <1>1, <1>2, <1>3, <1>4, <1>13, RoutesWrite
<1>14. ASSUME NEW c \in Callers, ShopRoutes(c) PROVE CatalogInv'
  BY <1>5, <1>12, <1>14 DEF ShopRoutes
<1>15. CASE CatalogNext
  BY <1>6, <1>7, <1>8, <1>9, <1>10, <1>13, <1>14, <1>15 DEF CatalogNext, ItemDone
<1> QED BY <1>11, <1>15

LEMMA CatalogStarts == CatalogInit => CatalogInv
<1> SUFFICES ASSUME CatalogInit PROVE CatalogInv
  OBVIOUS
<1>0. N \in Nat \ {0}
  BY CatalogAssumption
<1>1. row \in [Products -> ProductRows]
  <2>1. PICK x : x = CHOOSE y \in ProductPrices : TRUE
    OBVIOUS
  <2>2. x \in ProductPrices
    BY <2>1, CatalogAssumption
  <2>3. PICK S : row = [p \in Products |-> [status |-> IF p \in S /\ p < N THEN "ACTIVE" ELSE "none", price |-> x]]
    BY <2>1 DEF CatalogInit
  <2>4. \A p \in Products : [status |-> IF p \in S /\ p < N THEN "ACTIVE" ELSE "none", price |-> x] \in ProductRows
    BY <2>2 DEF ProductRows, ProductStatus
  <2> QED BY <2>3, <2>4
<1>2. /\ focus \in CatalogModes /\ shop = "ACTIVE"
      /\ index = [p \in Products |-> Searchable(p)]
      /\ cache = NoPage /\ reader = NoPage
      /\ request = [c \in Callers |-> NoRequest]
      /\ jobs = [waiting |-> <<>>, delayed |-> {}] /\ active = [w \in Workers |-> NoJob] /\ walk = NoWalk /\ excused = {}
  BY DEF CatalogInit
<1>3. RequestInv
  BY <1>2 DEF RequestInv, NoRequest, Documents
<1>4. QueueTypeInv
  BY <1>2 DEF QueueTypeInv
<1>5. NoPage \in Pages /\ ~NoPage.kept
  BY DEF NoPage, Pages
<1>6. \A p \in Products : Searchable(p) \in Documents
  BY <1>1 DEF ProductRows, Searchable, Documents
<1>7. CopiesInv
  BY <1>2, <1>5, <1>6 DEF CopiesInv
<1>8. NoWalk = [cursor |-> N + 1, seen |-> <<>>, must |-> {}, step |-> "idle"]
  BY DEF NoWalk
<1>9. walk.cursor = N + 1 /\ walk.seen = <<>> /\ walk.must = {} /\ walk.step = "idle"
  BY <1>2, <1>8
<1>10. WalkTypeInv /\ WalkInv
  <2>1. N + 1 \in 0..N + 1
    BY <1>0
  <2>2. WalkTypeInv
    BY <1>2, <1>8, <2>1 DEF WalkTypeInv
  <2>3. WalkInv
    BY <1>9 DEF WalkInv
  <2> QED BY <2>2, <2>3
<1>11. CatalogTypeInv
  BY <1>1, <1>2, <1>3, <1>4, <1>7, <1>10 DEF CatalogTypeInv, ShopStatus
<1>12. \A c \in Callers : request[c].todo = <<>>
  BY <1>2, NoRequestIs
<1>13. \A c \in Callers : \A p : Tasks(c, p) = {}
  BY <1>3, <1>12, NoItems
<1>14. jobs.waiting = <<>> /\ jobs.delayed = {}
  BY <1>2
<1>15. IndexInv
  <2>1. \A p \in Products : index[p] = Searchable(p)
    BY <1>2
  <2>2. ASSUME NEW p \in Products PROVE Follows(p)
    <3>1. \A kind : ~Awaits(p, kind)
      BY <1>13 DEF Awaits
    <3>2. ~Right(p) /\ ~Wrong(p)
      BY <1>2 DEF Right, Wrong, InHand
    <3>3. QueueTells(p)
      BY <1>14, <2>1, <3>1, <3>2 DEF QueueTells
    <3>4. InlineTells(p) /\ PutsTrue(p)
      BY <1>13, <2>1 DEF InlineTells, PutsTrue
    <3> QED BY <3>3, <3>4 DEF Follows
  <2> QED BY <1>2, <1>14, <2>2 DEF IndexInv, QueueUsed
<1>16. PageInv
  BY <1>2, <1>5 DEF PageInv, PageIsFresh
<1> QED BY <1>10, <1>11, <1>15, <1>16 DEF CatalogInv

\* What the invariant says of a catalog at rest, of the cached page and of a list read to its end.
LEMMA CatalogFollows == CatalogInv => CatalogTypeOK /\ IndexMatches /\ PageIsFresh /\ WalkComplete
<1> SUFFICES ASSUME CatalogInv PROVE CatalogTypeOK /\ IndexMatches /\ PageIsFresh /\ WalkComplete
  OBVIOUS
<1>1. CatalogTypeInv /\ IndexInv /\ PageInv /\ WalkInv
  BY DEF CatalogInv
<1>2. CatalogTypeOK
  <2>1. jobs.waiting \in Seq(Jobs) /\ jobs.delayed \subseteq Jobs
    BY <1>1 DEF CatalogTypeInv, QueueTypeInv
  <2>2. \A i \in DOMAIN jobs.waiting : jobs.waiting[i] \in Jobs
    BY <2>1
  <2> QED BY <1>1, <2>1, <2>2 DEF CatalogTypeOK, CatalogTypeInv, CopiesInv, WalkTypeInv, Documents
<1>3. IndexMatches
  <2> SUFFICES ASSUME AtRest, NEW p \in Products \ excused PROVE index[p] = Searchable(p)
    BY DEF IndexMatches
  <2>1. jobs = [waiting |-> <<>>, delayed |-> {}] /\ active = [w \in Workers |-> NoJob] /\ \A c \in Callers : request[c].todo = <<>>
    BY DEF AtRest
  <2>2. jobs.waiting = <<>> /\ jobs.delayed = {}
    BY <2>1
  <2>3. \A c \in Callers : Tasks(c, p) = {}
    BY <1>1, <2>1, NoItems DEF CatalogTypeInv
  <2>4. Follows(p)
    BY <1>1 DEF IndexInv
  <2>5. CASE Redis
    <3>1. ~Right(p)
      BY <2>1 DEF Right, InHand
    <3>2. ~Comes(p)
      BY <2>2, <2>3 DEF Comes, Later, Awaits
    <3> QED BY <2>4, <2>5, <3>1, <3>2 DEF Follows, QueueTells
  <2>6. CASE ~Redis
    BY <2>3, <2>4, <2>6 DEF Follows, InlineTells
  <2> QED BY <2>5, <2>6
<1>4. WalkComplete
  BY <1>1 DEF WalkComplete, WalkInv, WalkSeen
<1> QED BY <1>1, <1>2, <1>3, <1>4 DEF PageInv

-----------------------------------------------------------------------------
(* A search read page by page                                              *)

LEMMA MinTwo == ASSUME NEW a \in Int, NEW b \in Int PROVE Min({a, b}) = IF a <= b THEN a ELSE b
<1>1. \E x \in {a, b} : \A y \in {a, b} : x <= y
  OBVIOUS
<1> QED BY <1>1 DEF Min

LEMMA MaxTwo == ASSUME NEW a \in Int, NEW b \in Int PROVE Max({a, b}) = IF a >= b THEN a ELSE b
<1>1. \E x \in {a, b} : \A y \in {a, b} : x >= y
  OBVIOUS
<1> QED BY <1>1 DEF Max

\* As many pages as it takes.
LEMMA PagesCover ==
  ASSUME NEW n \in Nat, NEW k \in Nat \ {0}
  PROVE  (n + k - 1) \div k \in Nat /\ ((n + k - 1) \div k) * k >= n
<1> DEFINE a == n + k - 1
           q == a \div k
<1>1. a \in Nat
  OBVIOUS
<1>2. q \in Nat /\ a % k \in 0..k - 1 /\ a = k * q + (a % k)
  BY <1>1
<1>3. k * q >= n
  BY <1>2
<1>4. k * q = q * k
  BY <1>2
<1> QED BY <1>2, <1>3, <1>4

\* The first n of a sequence from place m on.
LEMMA SubSeqIs ==
  ASSUME NEW S, NEW s \in Seq(S), NEW m \in Nat, NEW n \in Nat, n <= Len(s)
  PROVE  /\ SubSeq(s, m + 1, n) \in Seq(S)
         /\ Len(SubSeq(s, m + 1, n)) = IF m <= n THEN n - m ELSE 0
         /\ \A i \in 1..n - m : SubSeq(s, m + 1, n)[i] = s[m + i]
OBVIOUS

SearchTypeInv ==
  /\ docs \in [Docs -> IndexDocs]
  /\ query \in SearchQueries
  /\ seen \in Seq([id : Docs, doc : IndexDocs])
  /\ page \in Nat /\ count \in Nat /\ moves \in Nat

WantedDocs == {d \in Indexed : Wanted(query, docs[d])}

\* The client has seen the first hits, page by page, while the index does not change.
SearchInv ==
  /\ SearchTypeInv
  /\ \A i \in DOMAIN seen : Wanted(query, seen[i].doc)
  /\ moves = 0 =>
       /\ Len(seen) = IF page * Limit(query) <= Len(Hits(query)) THEN page * Limit(query) ELSE Len(Hits(query))
       /\ \A i \in 1..Len(seen) : seen[i].id = Hits(query)[i] /\ seen[i].doc = docs[Hits(query)[i]]
       /\ page > 0 => count = (Len(Hits(query)) + Limit(query) - 1) \div Limit(query)

LEMMA LimitIs == SearchTypeInv => Limit(query) \in Nat \ {0}
<1> SUFFICES ASSUME SearchTypeInv PROVE Limit(query) \in Nat \ {0}
  OBVIOUS
<1> DEFINE l == IF query.limit = 0 THEN DefaultLimit ELSE query.limit
           m == Max({1, l})
<1>1. l \in Int /\ MaxLimit \in Nat \ {0}
  BY SearchAssumption DEF SearchTypeInv, SearchQueries
<1>2. Limit(query) = Min({MaxLimit, m})
  BY DEF Limit
<1> HIDE DEF l
<1>3. m \in Nat \ {0}
  BY <1>1, MaxTwo
<1> HIDE DEF m
<1> QED BY <1>1, <1>2, <1>3, MinTwo

\* The filter that is built keeps what was asked for.
LEMMA FilterIsWanted ==
  ASSUME NEW q \in SearchQueries, NEW doc \in IndexDocs
  PROVE  Found(q, doc) <=> Wanted(q, doc)
<1> DEFINE shopPart == Part("shop", "=", IF q.shopId # 0 THEN q.shopId ELSE q.vendor)
           stocks == CASE ParseInStock(q) = "true"  -> {Part("stock", ">=", 1)}
                       [] ParseInStock(q) = "false" -> {Part("stock", "<=", 0)}
                       [] OTHER -> {}
           numbers == {shopPart, Part("price", ">=", q.priceMin), Part("price", "<=", q.priceMax), Part("moq", "<=", q.moq)}
<1>1. BuildFilter(q) = {p \in numbers : p.value # 0} \cup stocks
  BY DEF BuildFilter
<1>2. /\ doc.price \in Nat /\ doc.stock \in Nat /\ doc.moq \in Nat /\ doc.shop \in Nat
      /\ q.shopId \in Nat /\ q.vendor \in Nat /\ q.priceMin \in Int /\ q.priceMax \in Int /\ q.moq \in Int
  BY DEF IndexDocs, SearchQueries
<1>3. /\ shopPart.value # 0 => (Meets(doc, shopPart) <=> doc.shop = shopPart.value)
      /\ shopPart.value = IF q.shopId # 0 THEN q.shopId ELSE q.vendor
  BY DEF Part, Meets
<1>4. /\ Part("price", ">=", q.priceMin).value = q.priceMin
      /\ Meets(doc, Part("price", ">=", q.priceMin)) <=> doc.price >= q.priceMin
  BY DEF Part, Meets
<1>5. /\ Part("price", "<=", q.priceMax).value = q.priceMax
      /\ Meets(doc, Part("price", "<=", q.priceMax)) <=> doc.price <= q.priceMax
  BY DEF Part, Meets
<1>6. /\ Part("moq", "<=", q.moq).value = q.moq
      /\ Meets(doc, Part("moq", "<=", q.moq)) <=> doc.moq <= q.moq
  BY DEF Part, Meets
<1>7. /\ Meets(doc, Part("stock", ">=", 1)) <=> doc.stock > 0
      /\ Meets(doc, Part("stock", "<=", 0)) <=> doc.stock = 0
  BY <1>2 DEF Part, Meets
<1>8. (\A p \in stocks : Meets(doc, p)) <=>
        /\ q.inStock \in SaysYes => doc.stock > 0
        /\ q.inStock \in SaysNo => doc.stock = 0
        /\ q.inStock \notin SaysYes \cup SaysNo => /\ q.stock \in SaysIn => doc.stock > 0
                                                   /\ q.stock \in SaysOut => doc.stock = 0
  <2>0. /\ \A w : ~(w \in SaysYes /\ w \in SaysNo)
        /\ \A w : ~(w \in SaysIn /\ w \in SaysOut)
    BY DEF SaysYes, SaysNo, SaysIn, SaysOut
  <2>4. /\ q.inStock \in SaysYes => ParseInStock(q) = "true"
        /\ q.inStock \in SaysNo => ParseInStock(q) = "false"
        /\ q.inStock \notin SaysYes \cup SaysNo =>
             /\ q.stock \in SaysIn => ParseInStock(q) = "true"
             /\ q.stock \in SaysOut => ParseInStock(q) = "false"
             /\ q.stock \notin SaysIn \cup SaysOut => ParseInStock(q) = "any"
    BY <2>0 DEF ParseInStock
  <2>1. CASE ParseInStock(q) = "true"
    <3>1. stocks = {Part("stock", ">=", 1)}
      BY <2>1
    <3>2. q.inStock \in SaysYes \/ (q.inStock \notin SaysYes \cup SaysNo /\ q.stock \in SaysIn)
      BY <2>1, <2>4
    <3> QED BY <1>2, <1>7, <2>0, <3>1, <3>2
  <2>2. CASE ParseInStock(q) = "false"
    <3>1. stocks = {Part("stock", "<=", 0)}
      BY <2>2
    <3>2. q.inStock \in SaysNo \/ (q.inStock \notin SaysYes \cup SaysNo /\ q.stock \in SaysOut)
      BY <2>0, <2>2, <2>4
    <3> QED BY <1>2, <1>7, <2>0, <3>1, <3>2
  <2>3. CASE ParseInStock(q) # "true" /\ ParseInStock(q) # "false"
    <3>1. stocks = {}
      BY <2>3
    <3>2. q.inStock \notin SaysYes \cup SaysNo /\ q.stock \notin SaysIn \cup SaysOut
      BY <2>3, <2>4
    <3> QED BY <3>1, <3>2
  <2> QED BY <2>1, <2>2, <2>3
<1> HIDE DEF stocks
<1>9. (\A p \in numbers : p.value # 0 => Meets(doc, p)) <=>
        /\ q.shopId # 0 => doc.shop = q.shopId
        /\ q.shopId = 0 /\ q.vendor # 0 => doc.shop = q.vendor
        /\ doc.price >= q.priceMin
        /\ q.priceMax # 0 => doc.price <= q.priceMax
        /\ q.moq # 0 => doc.moq <= q.moq
  <2>1. (\A p \in numbers : p.value # 0 => Meets(doc, p)) <=>
          /\ shopPart.value # 0 => Meets(doc, shopPart)
          /\ q.priceMin # 0 => Meets(doc, Part("price", ">=", q.priceMin))
          /\ q.priceMax # 0 => Meets(doc, Part("price", "<=", q.priceMax))
          /\ q.moq # 0 => Meets(doc, Part("moq", "<=", q.moq))
    BY <1>4, <1>5, <1>6
  <2>2. (q.priceMin # 0 => doc.price >= q.priceMin) <=> doc.price >= q.priceMin
    BY <1>2
  <2> HIDE DEF numbers, shopPart
  <2> QED BY <1>3, <1>4, <1>5, <1>6, <2>1, <2>2
<1> HIDE DEF numbers
<1>10. (\A p \in BuildFilter(q) : Meets(doc, p)) <=>
         (\A p \in numbers : p.value # 0 => Meets(doc, p)) /\ (\A p \in stocks : Meets(doc, p))
  BY <1>1
<1> QED BY <1>8, <1>9, <1>10 DEF Wanted, Found

LEMMA SortIsOrder ==
  ASSUME SearchTypeInv, NEW F \in SUBSET Docs, NEW q
  PROVE  IsOrder(F, Ordered(q))
<1> DEFINE sort == q.sort
           fit(d) == Fit(q, d)
<1>1. \A d \in F : d \in Docs /\ d \in Nat /\ docs[d].price \in Nat /\ fit(d) \in Nat
  BY SearchAssumption DEF SearchTypeInv, IndexDocs, Fit
<1>2. \A d, e \in F : <<d, e>> \in Ordered(q) <=> BuildSort(q, d, e)
  BY <1>1 DEF Ordered
<1>3. \A d, e \in F : BuildSort(q, d, e) <=>
        \/ fit(d) > fit(e)
        \/ /\ fit(d) = fit(e)
           /\ \/ sort \in Cheapest /\ docs[d].price < docs[e].price
              \/ sort \in Dearest /\ docs[d].price > docs[e].price
              \/ (sort \notin Cheapest \cup Dearest \/ docs[d].price = docs[e].price) /\ d < e
  BY DEF BuildSort
<1>4. ~(sort \in Cheapest /\ sort \in Dearest)
  BY DEF Cheapest, Dearest
<1> HIDE DEF sort, fit
<1>5. \A d \in F : <<d, d>> \notin Ordered(q)
  BY <1>1, <1>2, <1>3
<1>6. \A d, e \in F : d # e => <<d, e>> \in Ordered(q) \/ <<e, d>> \in Ordered(q)
  BY <1>1, <1>2, <1>3
<1>7. ASSUME NEW d \in F, NEW e \in F, NEW f \in F, <<d, e>> \in Ordered(q), <<e, f>> \in Ordered(q)
      PROVE  <<d, f>> \in Ordered(q)
  <2>1. BuildSort(q, d, e) /\ BuildSort(q, e, f)
    BY <1>2, <1>7
  <2>2. BuildSort(q, d, f)
    <3>0. fit(d) >= fit(e) /\ fit(e) >= fit(f)
      BY <1>1, <1>3, <2>1
    <3>1. CASE fit(d) # fit(e) \/ fit(e) # fit(f)
      BY <1>1, <1>3, <3>0, <3>1
    <3>2. CASE fit(d) = fit(e) /\ fit(e) = fit(f)
      <4>1. CASE sort \in Cheapest
        BY <1>1, <1>3, <1>4, <2>1, <3>2, <4>1
      <4>2. CASE sort \in Dearest
        BY <1>1, <1>3, <1>4, <2>1, <3>2, <4>2
      <4>3. CASE sort \notin Cheapest \cup Dearest
        BY <1>1, <1>3, <2>1, <3>2, <4>3
      <4> QED BY <4>1, <4>2, <4>3
    <3> QED BY <3>1, <3>2
  <2> QED BY <1>2, <2>2
<1> QED BY <1>5, <1>6, <1>7 DEF IsOrder

\* The hits: as many of the wanted documents as the index shows, each once, in order.
LEMMA HitsAre ==
  ASSUME SearchTypeInv
  PROVE  /\ Hits(query) \in Seq(WantedDocs)
         /\ Cardinality(WantedDocs) \in Nat
         /\ Len(Hits(query)) = Min({Cardinality(WantedDocs), MaxTotalHits})
         /\ \A i, j \in 1..Len(Hits(query)) : i < j =>
              /\ Hits(query)[i] # Hits(query)[j]
              /\ BuildSort(query, Hits(query)[i], Hits(query)[j])
<1> DEFINE F == WantedDocs
           O == Ordered(query)
           all == InOrder(F, O)
           n == Cardinality(F)
           m == Min({n, MaxTotalHits})
<1>1. F \in SUBSET Docs
  BY DEF WantedDocs, Indexed
<1>2. {d \in Indexed : Found(query, docs[d])} = F
  <2>1. \A d \in Indexed : docs[d] \in IndexDocs /\ query \in SearchQueries
    BY DEF Indexed, SearchTypeInv
  <2> QED BY <2>1, FilterIsWanted DEF WantedDocs
<1>3. IsFiniteSet(F) /\ IsOrder(F, O)
  BY <1>1, SearchAssumption, SortIsOrder, FS_Subset
<1>4. Hits(query) = Reachable(all)
  BY <1>2 DEF Hits
<1> HIDE DEF F, O
<1>5. /\ n \in Nat /\ all \in [1..n -> F]
      /\ \A i, j \in 1..n : i < j => <<all[i], all[j]>> \in O
  BY <1>3, InOrderIs
<1> HIDE DEF all
<1>6. all \in Seq(F) /\ Len(all) = n
  BY <1>5
<1>7. m \in Nat /\ m <= n
  BY <1>5, SearchAssumption, MinTwo
<1>8. Hits(query) = SubSeq(all, 1, m)
  BY <1>4, <1>6 DEF Reachable
<1> HIDE DEF n, m
<1>9. Hits(query) \in Seq(F) /\ Len(Hits(query)) = m /\ \A i \in 1..m : Hits(query)[i] = all[i]
  <2>1. SubSeq(all, 0 + 1, m) \in Seq(F) /\ Len(SubSeq(all, 0 + 1, m)) = m
        /\ \A i \in 1..m : SubSeq(all, 0 + 1, m)[i] = all[i]
    BY <1>5, <1>6, <1>7, SubSeqIs
  <2> QED BY <1>8, <2>1
<1>10. \A i, j \in 1..m : i < j => Hits(query)[i] # Hits(query)[j] /\ BuildSort(query, Hits(query)[i], Hits(query)[j])
  <2> SUFFICES ASSUME NEW i \in 1..m, NEW j \in 1..m, i < j
               PROVE  Hits(query)[i] # Hits(query)[j] /\ BuildSort(query, Hits(query)[i], Hits(query)[j])
    OBVIOUS
  <2>1. i \in 1..n /\ j \in 1..n
    BY <1>5, <1>7
  <2>2. all[i] \in F /\ all[j] \in F /\ <<all[i], all[j]>> \in O
    BY <1>5, <2>1
  <2>3. all[i] # all[j]
    BY <1>3, <2>2 DEF IsOrder
  <2>4. BuildSort(query, all[i], all[j])
    BY <2>2 DEF O, Ordered
  <2> QED BY <1>9, <2>3, <2>4
<1> QED BY <1>5, <1>9, <1>10 DEF F, m, n

LEMMA ConcatIs ==
  ASSUME NEW S, NEW s \in Seq(S), NEW t \in Seq(S)
  PROVE  /\ s \o t \in Seq(S) /\ Len(s \o t) = Len(s) + Len(t) /\ Len(s) \in Nat /\ Len(t) \in Nat
         /\ DOMAIN s = 1..Len(s) /\ DOMAIN (s \o t) = 1..Len(s) + Len(t)
         /\ \A i \in 1..Len(s) : (s \o t)[i] = s[i]
         /\ \A i \in Len(s) + 1..Len(s) + Len(t) : (s \o t)[i] = t[i - Len(s)]
OBVIOUS

\* A function on 1..n is a sequence of length n, and a sequence such a function.
LEMMA SeqOfFun ==
  ASSUME NEW S, NEW n \in Nat, NEW f \in [1..n -> S]
  PROVE  f \in Seq(S) /\ Len(f) = n
OBVIOUS

LEMMA FunOfSeq ==
  ASSUME NEW S, NEW s \in Seq(S)
  PROVE  Len(s) \in Nat /\ s \in [1..Len(s) -> S]
OBVIOUS

LEMMA OnePage ==
  ASSUME SearchInv, SearchProductsAdvanced
  PROVE  SearchInv'
<1> DEFINE H == Hits(query)
           L == Limit(query)
           n == Len(H)
           off == page * L
           top == Min({off + L, n})
           sub == SubSeq(H, off + 1, top)
           k == Len(sub)
           add == [i \in 1..k |-> [id |-> sub[i], doc |-> docs[sub[i]]]]
<1>0. SearchTypeInv
  BY DEF SearchInv
<1>1. L \in Nat \ {0}
  BY <1>0, LimitIs
<1>2. H \in Seq(WantedDocs) /\ n \in Nat
  <2>1. Hits(query) \in Seq(WantedDocs)
    BY <1>0, HitsAre
  <2> QED BY <2>1
<1>3. page \in Nat /\ docs \in [Docs -> IndexDocs] /\ seen \in Seq([id : Docs, doc : IndexDocs])
  BY <1>0 DEF SearchTypeInv
<1>4. /\ page < count /\ page' = page + 1 /\ seen' = seen \o add /\ count' = (n + L - 1) \div L
      /\ UNCHANGED <<docs, query, moves>>
  <2>1. Offset(page + 1, L) = off
    BY <1>1, <1>3 DEF Offset
  <2> HIDE DEF H, L, off
  <2> QED BY <2>1 DEF SearchProductsAdvanced, H, L
<1>5. Hits(query)' = Hits(query) /\ Limit(query)' = Limit(query) /\ WantedDocs' = WantedDocs
  BY <1>4 DEF Hits, Indexed, Ordered, BuildSort, Fit, Limit, WantedDocs
<1> HIDE DEF H, L
<1>6. off \in Nat /\ (page + 1) * L = off + L
  BY <1>1, <1>3
<1> HIDE DEF off
<1>7. top = IF off + L <= n THEN off + L ELSE n
  BY <1>1, <1>2, <1>6, MinTwo
<1> HIDE DEF top
<1>8. /\ top \in Nat /\ top <= n
      /\ sub \in Seq(WantedDocs) /\ k = (IF off <= top THEN top - off ELSE 0)
      /\ \A i \in 1..top - off : sub[i] = H[off + i]
  <2>1. top \in Nat /\ top <= n
    BY <1>1, <1>2, <1>6, <1>7
  <2> QED BY <1>2, <1>6, <2>1, SubSeqIs
<1> HIDE DEF sub
<1>9. k \in Nat /\ \A i \in 1..k : sub[i] \in WantedDocs
  BY <1>8
<1>10. WantedDocs \subseteq Docs /\ \A d \in WantedDocs : docs[d] \in IndexDocs /\ Wanted(query, docs[d])
  BY <1>3 DEF WantedDocs, Indexed
<1> HIDE DEF k
<1>11. /\ add \in Seq([id : Docs, doc : IndexDocs]) /\ Len(add) = k
       /\ \A i \in 1..k : add[i].id = sub[i] /\ add[i].doc = docs[sub[i]]
  <2>1. \A i \in 1..k : [id |-> sub[i], doc |-> docs[sub[i]]] \in [id : Docs, doc : IndexDocs]
    BY <1>9, <1>10
  <2>2. add = [i \in 1..k |-> [id |-> sub[i], doc |-> docs[sub[i]]]]
    OBVIOUS
  <2>3. add \in [1..k -> [id : Docs, doc : IndexDocs]] /\ \A i \in 1..k : add[i] = [id |-> sub[i], doc |-> docs[sub[i]]]
    BY <2>1, <2>2
  <2> HIDE DEF add
  <2>4. add \in Seq([id : Docs, doc : IndexDocs]) /\ Len(add) = k
    BY <1>9, <2>3, SeqOfFun
  <2> QED BY <2>3, <2>4
<1> HIDE DEF add
<1>12. /\ seen' \in Seq([id : Docs, doc : IndexDocs]) /\ Len(seen') = Len(seen) + k /\ Len(seen) \in Nat
       /\ DOMAIN seen = 1..Len(seen) /\ DOMAIN seen' = 1..Len(seen) + k
       /\ \A i \in 1..Len(seen) : seen'[i] = seen[i]
       /\ \A i \in Len(seen) + 1..Len(seen) + k : seen'[i] = add[i - Len(seen)]
  <2>1. PICK S : S = [id : Docs, doc : IndexDocs]
    OBVIOUS
  <2>2. seen \in Seq(S) /\ add \in Seq(S) /\ Len(add) = k /\ seen' = seen \o add
    BY <1>3, <1>4, <1>11, <2>1
  <2>3. /\ seen \o add \in Seq(S) /\ Len(seen \o add) = Len(seen) + Len(add) /\ Len(seen) \in Nat
        /\ DOMAIN seen = 1..Len(seen) /\ DOMAIN (seen \o add) = 1..Len(seen) + Len(add)
        /\ \A i \in 1..Len(seen) : (seen \o add)[i] = seen[i]
        /\ \A i \in Len(seen) + 1..Len(seen) + Len(add) : (seen \o add)[i] = add[i - Len(seen)]
    BY <2>2, ConcatIs
  <2> QED BY <2>1, <2>2, <2>3, Zenon
<1>13. SearchTypeInv'
  <2>1. count' \in Nat
    BY <1>1, <1>2, <1>4, PagesCover
  <2> QED BY <1>0, <1>4, <1>12, <2>1 DEF SearchTypeInv
<1>14. \A i \in DOMAIN seen' : Wanted(query', seen'[i].doc)
  <2> SUFFICES ASSUME NEW i \in 1..Len(seen) + k PROVE Wanted(query, seen'[i].doc)
    BY <1>4, <1>12
  <2>1. CASE i \in 1..Len(seen)
    BY <1>12, <2>1 DEF SearchInv
  <2>2. CASE i \notin 1..Len(seen)
    <3>1. i - Len(seen) \in 1..k /\ i \in Len(seen) + 1..Len(seen) + k
      BY <1>9, <1>12, <2>2
    <3>2. seen'[i] = add[i - Len(seen)]
      BY <1>12, <3>1
    <3> QED BY <1>9, <1>10, <1>11, <3>1, <3>2
  <2> QED BY <2>1, <2>2
<1>15. ASSUME moves = 0
       PROVE  /\ Len(seen') = IF off + L <= n THEN off + L ELSE n
              /\ \A i \in 1..Len(seen') : seen'[i].id = H[i] /\ seen'[i].doc = docs[H[i]]
  <2>1. /\ Len(seen) = IF off <= n THEN off ELSE n
        /\ \A i \in 1..Len(seen) : seen[i].id = H[i] /\ seen[i].doc = docs[H[i]]
    BY <1>15 DEF SearchInv, H, L, off
  <2>2. Len(seen) + k = IF off + L <= n THEN off + L ELSE n
    BY <1>1, <1>2, <1>6, <1>7, <1>8, <2>1
  <2>3. ASSUME NEW i \in 1..Len(seen) + k PROVE seen'[i].id = H[i] /\ seen'[i].doc = docs[H[i]]
    <3>1. CASE i \in 1..Len(seen)
      BY <1>12, <2>1, <3>1
    <3>2. CASE i \notin 1..Len(seen)
      <4>1. i - Len(seen) \in 1..k /\ i \in Len(seen) + 1..Len(seen) + k
        BY <1>9, <1>12, <3>2
      <4>2. Len(seen) = off /\ off <= top /\ k = top - off
        BY <1>2, <1>6, <1>8, <1>9, <2>1, <4>1
      <4>3. sub[i - Len(seen)] = H[off + (i - Len(seen))] /\ off + (i - Len(seen)) = i
        BY <1>6, <1>8, <1>9, <4>1, <4>2
      <4>4. seen'[i] = add[i - Len(seen)]
        BY <1>12, <4>1
      <4> QED BY <1>11, <4>1, <4>3, <4>4
    <3> QED BY <3>1, <3>2
  <2> QED BY <1>12, <2>2, <2>3
<1>16. ASSUME moves' = 0
       PROVE  /\ Len(seen') = IF page' * L <= n THEN page' * L ELSE n
              /\ \A i \in 1..Len(seen') : seen'[i].id = H[i] /\ seen'[i].doc = docs[H[i]]
              /\ count' = (n + L - 1) \div L
  BY <1>4, <1>6, <1>15, <1>16
<1> QED BY <1>4, <1>5, <1>13, <1>14, <1>16 DEF SearchInv, H, L

LEMMA SearchStep == SearchInv /\ [SearchNext]_searchVars => SearchInv'
<1> SUFFICES ASSUME SearchInv, [SearchNext]_searchVars PROVE SearchInv'
  OBVIOUS
<1>1. CASE SearchProductsAdvanced
  BY <1>1, OnePage
<1>2. ASSUME NEW d \in Docs, NEW doc \in {NoDoc, Stored[d]} \cup {[Stored[d] EXCEPT !.stock = n] : n \in {0, 1}},
             Reindexed(d, doc)
      PROVE  SearchInv'
  <2>1. NoDoc \in IndexDocs
    BY DEF NoDoc, IndexDocs
  <2>2. Stored[d] \in IndexDocs /\ \A n \in {0, 1} : [Stored[d] EXCEPT !.stock = n] \in IndexDocs
    BY SearchAssumption DEF IndexDocs
  <2>3. doc \in IndexDocs
    BY <2>1, <2>2
  <2>4. /\ docs' = [docs EXCEPT ![d] = doc] /\ moves' = moves + 1 /\ UNCHANGED <<query, seen, page, count>>
    BY <1>2 DEF Reindexed
  <2>5. SearchTypeInv' /\ moves' # 0
    BY <2>3, <2>4 DEF SearchInv, SearchTypeInv
  <2> QED BY <2>4, <2>5 DEF SearchInv
<1>3. CASE UNCHANGED searchVars
  <2>1. UNCHANGED <<docs, query, seen, page, count, moves>>
    BY <1>3 DEF searchVars
  <2>2. Hits(query)' = Hits(query) /\ Limit(query)' = Limit(query)
    BY <2>1 DEF Hits, Indexed, Ordered, BuildSort, Fit, Limit
  <2> QED BY <2>1, <2>2 DEF SearchInv, SearchTypeInv
<1> QED BY <1>1, <1>2, <1>3 DEF SearchNext, SearchRoutes

LEMMA SearchStarts == SearchInit => SearchInv
<1> SUFFICES ASSUME SearchInit PROVE SearchInv
  OBVIOUS
<1>1. docs = Stored /\ query \in Queries /\ seen = <<>> /\ page = 0 /\ count = 1 /\ moves = 0
  BY DEF SearchInit
<1>2. SearchTypeInv
  BY <1>1, SearchAssumption DEF SearchTypeInv
<1>3. Limit(query) \in Nat /\ Len(Hits(query)) \in Nat
  <2>1. Hits(query) \in Seq(WantedDocs)
    BY <1>2, HitsAre
  <2> QED BY <1>2, <2>1, LimitIs
<1>4. page * Limit(query) = 0 /\ Len(seen) = 0 /\ DOMAIN seen = {}
  BY <1>1, <1>3
<1> QED BY <1>1, <1>2, <1>3, <1>4 DEF SearchInv

\* As many elements as places, where none is taken twice.
LEMMA CountOfPlaces ==
  ASSUME NEW T, NEW n \in Nat, NEW f \in [1..n -> T], \A i, j \in 1..n : i < j => f[i] # f[j]
  PROVE  Cardinality({f[i] : i \in 1..n}) = n
<1> DEFINE S == {f[i] : i \in 1..n}
<1>1. f \in [1..n -> S]
  OBVIOUS
<1>2. \A i, j \in 1..n : f[i] = f[j] => i = j
  <2> SUFFICES ASSUME NEW i \in 1..n, NEW j \in 1..n, f[i] = f[j], i # j PROVE FALSE
    OBVIOUS
  <2>1. i < j \/ j < i
    OBVIOUS
  <2> QED BY <2>1
<1>3. f \in Bijection(1..n, S)
  BY <1>1, <1>2 DEF Bijection, Injection, Surjection, IsInjective
<1>4. ExistsBijection(1..n, S)
  BY <1>3 DEF ExistsBijection
<1> QED BY <1>4, FS_CountingElements

LEMMA CompleteFollows == SearchInv => SearchIsComplete
<1> SUFFICES ASSUME SearchInv PROVE SearchIsComplete
  OBVIOUS
<1> DEFINE H == Hits(query)
           L == Limit(query)
           n == Len(H)
<1>0. SearchTypeInv
  BY DEF SearchInv
<1>1. /\ H \in Seq(WantedDocs) /\ n = Min({Cardinality(WantedDocs), MaxTotalHits})
      /\ \A i, j \in 1..n : i < j => H[i] # H[j] /\ BuildSort(query, H[i], H[j])
  BY <1>0, HitsAre
<1>2. n \in Nat /\ L \in Nat \ {0} /\ H \in [1..n -> WantedDocs] /\ \A i \in 1..n : H[i] \in WantedDocs
  <2>1. L \in Nat \ {0}
    BY <1>0, LimitIs
  <2>2. Len(H) \in Nat /\ H \in [1..Len(H) -> WantedDocs]
    BY <1>1, FunOfSeq
  <2> HIDE DEF H, L
  <2> QED BY <2>1, <2>2
<1>3. /\ seen \in Seq([id : Docs, doc : IndexDocs]) /\ page \in Nat /\ DOMAIN seen = 1..Len(seen) /\ Len(seen) \in Nat
  BY <1>0 DEF SearchTypeInv
<1>4. ASSUME moves = 0
      PROVE  /\ Len(seen) = IF page * L <= n THEN page * L ELSE n
             /\ \A i \in 1..Len(seen) : seen[i].id = H[i] /\ seen[i].doc = docs[H[i]]
             /\ page > 0 => count = (n + L - 1) \div L
  BY <1>4 DEF SearchInv
<1> HIDE DEF H, L, n
<1>9. page * L \in Nat
  BY <1>2, <1>3
<1>5. ASSUME moves = 0 PROVE Len(seen) <= n
  <2>1. Len(seen) = IF page * L <= n THEN page * L ELSE n
    BY <1>4, <1>5
  <2> QED BY <1>2, <1>9, <2>1
<1>6. ASSUME moves = 0, NEW i \in DOMAIN seen, NEW j \in DOMAIN seen, i < j
      PROVE  /\ seen[i].id # seen[j].id
             /\ query.words # "none" => seen[i].doc.fit >= seen[j].doc.fit
             /\ query.words = "none" \/ seen[i].doc.fit = seen[j].doc.fit =>
                  /\ query.sort \in Cheapest => seen[i].doc.price <= seen[j].doc.price
                  /\ query.sort \in Dearest => seen[i].doc.price >= seen[j].doc.price
  <2>1. i \in 1..n /\ j \in 1..n
    BY <1>2, <1>3, <1>5, <1>6
  <2>2. H[i] # H[j] /\ BuildSort(query, H[i], H[j])
    BY <1>1, <1>6, <2>1
  <2>3. seen[i].id = H[i] /\ seen[j].id = H[j] /\ seen[i].doc = docs[H[i]] /\ seen[j].doc = docs[H[j]]
    BY <1>3, <1>4, <1>6
  <2>4. H[i] \in Docs /\ H[j] \in Docs
    BY <1>2, <2>1 DEF WantedDocs, Indexed
  <2>5. /\ docs[H[i]].price \in Nat /\ docs[H[j]].price \in Nat
        /\ docs[H[i]].fit \in Nat /\ docs[H[j]].fit \in Nat
    BY <1>0, <2>4 DEF SearchTypeInv, IndexDocs
  <2>6. ~(query.sort \in Cheapest /\ query.sort \in Dearest)
    BY DEF Cheapest, Dearest
  <2>7. /\ query.words # "none" => docs[H[i]].fit >= docs[H[j]].fit
        /\ query.words = "none" \/ docs[H[i]].fit = docs[H[j]].fit =>
             /\ query.sort \in Cheapest => docs[H[i]].price <= docs[H[j]].price
             /\ query.sort \in Dearest => docs[H[i]].price >= docs[H[j]].price
    BY <2>2, <2>5, <2>6 DEF BuildSort, Fit
  <2> QED BY <2>2, <2>3, <2>7
<1>7. ASSUME moves = 0, page > 0, page >= count
      PROVE  Cardinality({seen[i].id : i \in DOMAIN seen}) = Min({Cardinality(WantedDocs), MaxTotalHits})
  <2>1. count \in Nat /\ count * L >= n
    BY <1>2, <1>4, <1>7, PagesCover
  <2>2. page * L >= count * L
    BY <1>2, <1>3, <1>7, <2>1
  <2>3. page * L \in Nat /\ count * L \in Nat
    BY <1>2, <1>3, <2>1
  <2>4. Len(seen) = n
    BY <1>2, <1>4, <1>7, <2>1, <2>2, <2>3
  <2>5. {seen[i].id : i \in DOMAIN seen} = {H[i] : i \in 1..n}
    BY <1>3, <1>4, <1>7, <2>4
  <2>7. Cardinality({H[i] : i \in 1..n}) = n
    <3>1. \A i, j \in 1..n : i < j => H[i] # H[j]
      BY <1>1
    <3> QED BY <1>2, <3>1, CountOfPlaces
  <2> QED BY <1>1, <2>5, <2>7
<1>8. \A i \in DOMAIN seen : Wanted(query, seen[i].doc)
  BY DEF SearchInv
<1> QED BY <1>6, <1>7, <1>8 DEF SearchIsComplete, WantedDocs

-----------------------------------------------------------------------------
(* The market                                                              *)

\* Each part keeps its own invariant, whichever of them moves.
MarketInv == CatalogInv /\ ImportInv /\ SearchInv /\ ListInv

LEMMA MarketStarts == MarketInit => MarketInv
BY CatalogStarts, ImportStarts, SearchStarts, ListStarts DEF MarketInit, MarketInv

LEMMA MarketStep == MarketInv /\ [MarketNext]_mcVars => MarketInv'
<1> SUFFICES ASSUME MarketInv, [MarketNext]_mcVars PROVE MarketInv'
  OBVIOUS
<1>1. [CatalogNext]_catalogVars /\ [ImportNext]_importVars /\ [SearchNext]_searchVars /\ [ListingsNext]_listVars
  <2>1. CASE MarketNext
    BY <2>1 DEF MarketNext
  <2>2. CASE UNCHANGED mcVars
    BY <2>2 DEF mcVars
  <2> QED BY <2>1, <2>2
<1> QED BY <1>1, CatalogStep, ImportStep, SearchStep, ListStep DEF MarketInv

\* The catalog with its index, its cache and its queue, an import, a search and a list keep
\* their invariants, for any products, prices, files, documents, queries and rows.
THEOREM MarketInvariant == MarketSpec => []MarketInv
BY MarketStarts, MarketStep, PTL DEF MarketSpec

\* The index shows what the catalog sells once nothing is under way, and the page read from
\* the cache is the catalog's (invalidateProductCaches, scheduleProductIndex, SearchService).
THEOREM ShownAlways == MarketSpec => []ShownIsCatalog
<1>1. MarketInv => ShownIsCatalog
  BY CatalogFollows, ImportTypes DEF MarketInv, ShownIsCatalog, MarketTypeOK
<1> QED BY <1>1, MarketInvariant, PTL

\* The cursor of the merchant's list, the pages of a search and the cursor of the
\* administration's lists leave nothing out and show nothing twice (listMine,
\* searchProductsAdvanced, listUsers, listDisputes).
THEOREM PagesAlwaysComplete == MarketSpec => []PagesComplete
<1>1. MarketInv => PagesComplete
  BY CatalogFollows, CompleteFollows, ListedOnceFollows DEF MarketInv, PagesComplete
<1> QED BY <1>1, MarketInvariant, PTL

\* Each row of a file becomes one product also beside the other parts (processImportJob).
THEOREM MarketImportsOnce == MarketSpec => []ImportedOnce
<1>1. ImportInv => ImportedOnce
  BY SkuOnceFollows DEF ImportInv, LeftInv, QueueInv, RowsOnce, ImportedOnce
<1> QED BY <1>1, MarketInvariant, PTL DEF MarketInv
=============================================================================
