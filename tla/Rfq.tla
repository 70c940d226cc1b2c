-------------------------------- MODULE Rfq --------------------------------
(***************************************************************************)
(* One request for quotations: RfqService (rfq/rfq.service.ts), the        *)
(* command handlers around it (rfq/commands) and the notifications its     *)
(* events lead to (rfq/events).                                            *)
(*                                                                         *)
(* Vendors offer and revise, the buyer awards, rejects and closes.  Only   *)
(* an award runs in a transaction that locks the request's row; the other  *)
(* calls read it first and write offers and status afterwards.             *)
(***************************************************************************)
EXTENDS Naturals, FiniteSets

CONSTANTS Shops, Prices,      \* totals an offer may have
          Orders,             \* orders that may be made
          Calls, NoCall, NoOffer, NoOrder,
          Modes,              \* what may overlap, see MayStart
          MaxRevisions        \* bound on the offers a vendor sends

ASSUME RfqAssumption ==
  /\ Prices \subseteq Nat /\ Prices # {} /\ Shops # {} /\ MaxRevisions \in Nat \ {0}
  /\ Modes \subseteq {"alone", "buyers", "vendors", "all"}

VARIABLES mode,
          rfq,         \* status of the request, the offer it was awarded to, its deadline
          offer,       \* RfqOffer by shop (unique per request and shop)
          matched,     \* shops with an RfqMatch row
          order,       \* orders made from the request
          notified,    \* who was told of what
          sent,        \* offers each vendor has sent
          locked,      \* the call that holds the lock on the request's row
          call

vars == <<mode, rfq, offer, matched, order, notified, sent, locked, call>>

RfqStatus == {"none", "OPEN", "MATCHED", "QUOTED", "AWARDED", "CLOSED"}

RfqOfferStatus == {"PENDING", "ACCEPTED", "REJECTED"}

RfqRows == [status : RfqStatus, awarded : Shops \cup {NoOffer}, late : BOOLEAN]

OfferRows == [status : RfqOfferStatus, total : Prices]

OrderRows == [shop : Shops, total : Prices]

Events == {"created", "response", "accepted", "rejected", "closed"}

OpenStatuses == {"OPEN", "MATCHED", "QUOTED"}

Closable == OpenStatuses \cup {"AWARDED"}

Steps == {"match", "status", "announce", "upsert", "quote", "addMatch", "tell",
          "awardRead", "awarding", "accepted", "reject", "rejected", "close"}

CreateSteps == {"match", "status", "announce"}

VendorSteps == {"upsert", "quote", "addMatch", "tell"}

\* found: the shops a match found; total: what an offer asks, or an award read.
CallRows == [step : Steps, shop : Shops, total : Prices, found : SUBSET Shops]

CallStates == {NoCall} \cup CallRows

\* The values that stand for nothing are none of the others.
ASSUME NothingAssumption ==
  /\ NoCall \notin Calls \cup CallRows
  /\ NoOffer \notin OfferRows \cup Shops /\ NoOrder \notin OrderRows

At(c, s) == call[c] # NoCall /\ call[c].step = s

Busy(S) == \E d \in Calls : call[d] # NoCall /\ call[d].step \in S

\* A request of the buyer's side, or of a vendor, may start: in mode "buyers" those
\* of the buyer and of administrators overlap once the request is created, in "vendors" those of vendors.
MayStart(c, side) ==
  /\ call[c] = NoCall
  /\ \/ mode = "all"
     \/ mode = "buyers" /\ side = "buyer" /\ ~Busy(CreateSteps \cup VendorSteps)
     \/ mode = "vendors" /\ side = "vendor" /\ ~Busy(Steps \ VendorSteps)
     \/ ~Busy(Steps)

Begin(c, s, to, total) ==
  call' = [call EXCEPT ![c] = [step |-> s, shop |-> to, total |-> total, found |-> {}]]

Goes(c, s) == call' = [call EXCEPT ![c].step = s]

Returns(c) == call' = [call EXCEPT ![c] = NoCall]

AnyShop == CHOOSE s \in Shops : TRUE

AnyPrice == CHOOSE p \in Prices : TRUE

\* A write of the request's row waits for the lock.
Unlocked == locked = NoCall

Init ==
  /\ mode \in Modes
  /\ rfq = [status |-> "none", awarded |-> NoOffer, late |-> FALSE]
  /\ offer = [s \in Shops |-> NoOffer]
  /\ matched = {}
  /\ order = [o \in Orders |-> NoOrder]
  /\ notified = {}
  /\ sent = [s \in Shops |-> 0]
  /\ locked = NoCall
  /\ call = [c \in Calls |-> NoCall]

-----------------------------------------------------------------------------
(* create, matchVendors                                                    *)

\* The row is there, OPEN, before vendors are matched.
Create(c) ==
  /\ MayStart(c, "buyer")
  /\ rfq.status = "none"
  /\ rfq' = [rfq EXCEPT !.status = "OPEN"]
  /\ Begin(c, "match", AnyShop, AnyPrice)
  /\ UNCHANGED <<mode, offer, matched, order, notified, sent, locked>>

\* The active shops with products in the request's categories: any set.
MatchVendors(c) ==
  /\ At(c, "match")
  /\ \E S \in SUBSET Shops :
       /\ matched' = matched \cup S
       /\ call' = [call EXCEPT ![c].step = "status", ![c].found = S]
  /\ UNCHANGED <<mode, rfq, offer, order, notified, sent, locked>>

WriteMatched(c) ==
  /\ At(c, "status")
  /\ Unlocked
  /\ rfq' = [rfq EXCEPT !.status = IF call[c].found # {} THEN "MATCHED" ELSE "OPEN"]
  /\ Goes(c, "announce")
  /\ UNCHANGED <<mode, offer, matched, order, notified, sent, locked>>

\* RfqCreatedHandler: the matched shops, or every active shop when there are none.
RfqCreated(c) ==
  /\ At(c, "announce")
  /\ notified' = notified \cup
       ({"created"} \X (IF matched # {} THEN matched ELSE Shops))
  /\ Returns(c)
  /\ UNCHANGED <<mode, rfq, offer, matched, order, sent, locked>>

DeadlinePasses ==
  /\ rfq.status # "none" /\ ~rfq.late
  /\ rfq' = [rfq EXCEPT !.late = TRUE]
  /\ UNCHANGED <<mode, offer, matched, order, notified, sent, locked, call>>

-----------------------------------------------------------------------------
(* createOffer: read, upsert the offer, then the status, then the match    *)

\* Where everything overlaps, each vendor sends one offer only.
Revisions == IF mode = "all" THEN 1 ELSE MaxRevisions

CreateOffer(c, s, p) ==
  /\ MayStart(c, "vendor")
  /\ sent[s] < Revisions
  /\ rfq.status \in OpenStatuses /\ ~rfq.late
  /\ sent' = [sent EXCEPT ![s] = @ + 1]
  /\ Begin(c, "upsert", s, p)
  /\ UNCHANGED <<mode, rfq, offer, matched, order, notified, locked>>

UpsertOffer(c) ==
  /\ At(c, "upsert")
  /\ offer' = [offer EXCEPT ![call[c].shop] = [status |-> "PENDING", total |-> call[c].total]]
  /\ Goes(c, "quote")
  /\ UNCHANGED <<mode, rfq, matched, order, notified, sent, locked>>

WriteQuoted(c) ==
  /\ At(c, "quote")
  /\ Unlocked
  /\ rfq' = [rfq EXCEPT !.status = "QUOTED"]
  /\ Goes(c, "addMatch")
  /\ UNCHANGED <<mode, offer, matched, order, notified, sent, locked>>

EnsureMatch(c) ==
  /\ At(c, "addMatch")
  /\ matched' = matched \cup {call[c].shop}
  /\ Goes(c, "tell")
  /\ UNCHANGED <<mode, rfq, offer, order, notified, sent, locked>>

\* RespondToRfqHandler and RfqResponseCreatedHandler: the buyer is told.
RfqResponseCreated(c) ==
  /\ At(c, "tell")
  /\ notified' = notified \cup {<<"response", call[c].shop>>}
  /\ Returns(c)
  /\ UNCHANGED <<mode, rfq, offer, matched, order, sent, locked>>

-----------------------------------------------------------------------------
(* award: one transaction that holds the lock on the request's row         *)

AcceptResponse(c, s) ==
  /\ MayStart(c, "buyer")
  /\ rfq.status # "none" /\ offer[s] # NoOffer
  /\ Begin(c, "awardRead", s, AnyPrice)
  /\ UNCHANGED <<mode, rfq, offer, matched, order, notified, sent, locked>>

\* Mutant: the status of the request was checked before it was locked.
AwardReadStale(c) ==
  /\ At(c, "awardRead")
  /\ Unlocked
  /\ LET o == offer[call[c].shop] IN
       /\ locked' = c
       /\ call' = [call EXCEPT ![c].step = "awarding", ![c].total = o.total]
  /\ UNCHANGED <<mode, rfq, offer, matched, order, notified, sent>>

\* Mutant: the guard takes the statuses that may be closed, and any offer.
AwardReadClosable(c) ==
  /\ At(c, "awardRead")
  /\ Unlocked
  /\ IF rfq.status \in Closable
       THEN /\ locked' = c
            /\ call' = [call EXCEPT ![c].step = "awarding", ![c].total = offer[call[c].shop].total]
       ELSE Returns(c) /\ UNCHANGED locked
  /\ UNCHANGED <<mode, rfq, offer, matched, order, notified, sent>>

\* The order will have the total that is read here.
AwardRead(c) ==
  /\ At(c, "awardRead")
  /\ Unlocked
  /\ LET o == offer[call[c].shop] IN
       IF rfq.status \in OpenStatuses /\ o.status = "PENDING"
         THEN /\ locked' = c
              /\ call' = [call EXCEPT ![c].step = "awarding", ![c].total = o.total]
         ELSE Returns(c) /\ UNCHANGED locked
  /\ UNCHANGED <<mode, rfq, offer, matched, order, notified, sent>>

\* Mutant: the other offers stay as they are.
AwardedOffersOnly(s) == [offer EXCEPT ![s].status = "ACCEPTED"]

\* The offer is accepted, the pending ones of the others are rejected.
AwardedOffers(s) ==
  [t \in Shops |->
     IF t = s THEN [offer[t] EXCEPT !.status = "ACCEPTED"]
     ELSE IF offer[t] # NoOffer /\ offer[t].status = "PENDING"
            THEN [offer[t] EXCEPT !.status = "REJECTED"]
            ELSE offer[t]]

\* Mutant: the order takes the lowest price of all offers.
OrderOfLowest(s, total) ==
  [shop |-> s, total |-> CHOOSE p \in Prices : \A q \in Prices : p <= q]

\* Mutant: the commission is put on top.
OrderOfWithFee(s, total) == [shop |-> s, total |-> total + total + 1]

\* PENDING_PAYMENT, with the lines of the offer.
OrderOf(s, total) == [shop |-> s, total |-> total]

AwardCommit(c) ==
  /\ At(c, "awarding")
  /\ \E o \in Orders : order[o] = NoOrder
  /\ LET s == call[c].shop
         o == CHOOSE o \in Orders : order[o] = NoOrder IN
       /\ offer' = AwardedOffers(s)
       /\ rfq' = [rfq EXCEPT !.status = "AWARDED", !.awarded = s]
       /\ order' = [order EXCEPT ![o] = OrderOf(s, call[c].total)]
  /\ locked' = NoCall
  /\ Goes(c, "accepted")
  /\ UNCHANGED <<mode, matched, notified, sent>>

\* Mutant: the accepted vendor is told like the others.
RfqResponseAcceptedAsRejected(c) ==
  /\ At(c, "accepted")
  /\ notified' = notified \cup {<<"rejected", call[c].shop>>}
  /\ Returns(c)
  /\ UNCHANGED <<mode, rfq, offer, matched, order, sent, locked>>

RfqResponseAccepted(c) ==
  /\ At(c, "accepted")
  /\ notified' = notified \cup {<<"accepted", call[c].shop>>}
  /\ Returns(c)
  /\ UNCHANGED <<mode, rfq, offer, matched, order, sent, locked>>

-----------------------------------------------------------------------------
(* Rejecting an offer, closing the request                                 *)

RejectResponse(c, s) ==
  /\ MayStart(c, "buyer")
  /\ offer[s] # NoOffer /\ offer[s].status = "PENDING"
  /\ rfq.status # "CLOSED"
  /\ Begin(c, "reject", s, AnyPrice)
  /\ UNCHANGED <<mode, rfq, offer, matched, order, notified, sent, locked>>

\* Whatever the offer has become meanwhile.
WriteRejected(c) ==
  /\ At(c, "reject")
  /\ offer' = [offer EXCEPT ![call[c].shop].status = "REJECTED"]
  /\ Goes(c, "rejected")
  /\ UNCHANGED <<mode, rfq, matched, order, notified, sent, locked>>

RfqResponseRejected(c) ==
  /\ At(c, "rejected")
  /\ notified' = notified \cup {<<"rejected", call[c].shop>>}
  /\ Returns(c)
  /\ UNCHANGED <<mode, rfq, offer, matched, order, sent, locked>>

CloseRfq(c) ==
  /\ MayStart(c, "buyer")
  /\ rfq.status \in Closable
  /\ Begin(c, "close", AnyShop, AnyPrice)
  /\ UNCHANGED <<mode, rfq, offer, matched, order, notified, sent, locked>>

\* The status is not read again; the event is stored in the same transaction.
CloseCommit(c) ==
  /\ At(c, "close")
  /\ Unlocked
  /\ rfq' = [rfq EXCEPT !.status = "CLOSED"]
  /\ offer' = [s \in Shops |-> IF offer[s] # NoOffer /\ offer[s].status = "PENDING"
                                 THEN [offer[s] EXCEPT !.status = "REJECTED"] ELSE offer[s]]
  /\ notified' = notified \cup ({"closed"} \X {s \in Shops : offer[s] # NoOffer})
  /\ Returns(c)
  /\ UNCHANGED <<mode, matched, order, sent, locked>>

-----------------------------------------------------------------------------
(* Reading the request                                                     *)

\* Mutant: a vendor is known by his match alone.
AssertCanViewMatched(s) == s \in matched

\* get and postMessage, for a vendor.
AssertCanView(s) == s \in matched \/ offer[s] # NoOffer

\* A vendor's requests; administrators and the buyer have all of theirs (nothing
\* writes DRAFT or CANCELLED).
ListForUser(role, s) ==
  rfq.status # "none" /\ (role = "MERCHANT" => s \in matched \/ offer[s] # NoOffer)

\* The lists of the buyer's and of the vendor's pages: is the request under this tab?
BuyerRfqs(tab) ==
  /\ rfq.status # "none"
  /\ tab = "open" => rfq.status \in OpenStatuses
  /\ tab = "offers" => \E s \in Shops : offer[s] # NoOffer /\ offer[s].status = "PENDING"
  /\ tab = "awarded" => rfq.status \in {"AWARDED", "CLOSED"}

\* Mutant: the tab of won requests shows what was decided.
MerchantRfqsDecided(s, tab) ==
  IF tab = "incoming" THEN s \in matched
  ELSE /\ offer[s] # NoOffer
       /\ tab = "pending" => offer[s].status = "PENDING"
       /\ tab = "accepted" => offer[s].status = "ACCEPTED" /\ rfq.status = "CLOSED"

MerchantRfqs(s, tab) ==
  IF tab = "incoming" THEN s \in matched
  ELSE /\ offer[s] # NoOffer
       /\ tab = "pending" => offer[s].status = "PENDING"
       /\ tab = "accepted" => offer[s].status = "ACCEPTED"
       /\ tab = "rejected" => offer[s].status = "REJECTED"

-----------------------------------------------------------------------------
Handler(c) ==
  \/ MatchVendors(c) \/ WriteMatched(c) \/ RfqCreated(c)
  \/ UpsertOffer(c) \/ WriteQuoted(c) \/ EnsureMatch(c) \/ RfqResponseCreated(c)
  \/ AwardRead(c) \/ AwardCommit(c) \/ RfqResponseAccepted(c)
  \/ WriteRejected(c) \/ RfqResponseRejected(c) \/ CloseCommit(c)

\* The routes of RfqController.
RfqRoutes(c) ==
  \/ Create(c) \/ CloseRfq(c)
  \/ \E s \in Shops :
       \/ \E p \in Prices : CreateOffer(c, s, p)
       \/ AcceptResponse(c, s) \/ RejectResponse(c, s)

Next == DeadlinePasses \/ \E c \in Calls : RfqRoutes(c) \/ Handler(c)

Spec == Init /\ [][Next]_vars

\* Calls run on.
FairSpec == Spec /\ \A c \in Calls : WF_vars(Handler(c))

-----------------------------------------------------------------------------
(* Properties                                                              *)

\* Every variable keeps its type.
TypeOK ==
  /\ mode \in Modes
  /\ rfq \in RfqRows
  /\ offer \in [Shops -> OfferRows \cup {NoOffer}]
  /\ matched \in SUBSET Shops
  /\ order \in [Orders -> OrderRows \cup {NoOrder}]
  /\ notified \in SUBSET (Events \X Shops)
  /\ sent \in [Shops -> 0 .. MaxRevisions]
  /\ locked \in Calls \cup {NoCall}
  /\ call \in [Calls -> CallStates]

Made == {o \in Orders : order[o] # NoOrder}

\* However many awards, rejections and closings run at once, the request leads to
\* one order, as long as vendors do not send offers meanwhile.
OneOrderPerRfq == mode # "all" => Cardinality(Made) <= 1

\* The same for any interleaving (award: "Race-safe via Product/RFQ FOR UPDATE +
\* status guard").
AwardIsRaceSafe == Cardinality(Made) <= 1

\* With one buyer's request at a time, an order has the shop and the total of the
\* accepted offer, also when vendors have revised their offers all at once before.
OrderIsAcceptedOffer ==
  mode \in {"alone", "vendors"} =>
    \A o \in Made : offer[order[o].shop] = [status |-> "ACCEPTED", total |-> order[o].total]

\* Once a request is among the buyer's decided ones it is no longer among those with
\* offers to answer, nor among the vendors' pending ones.
DecidedHasNoPending ==
  (mode # "all" /\ BuyerRfqs("awarded")) =>
    ~BuyerRfqs("offers") /\ \A s \in Shops : ~MerchantRfqs(s, "pending")

\* A closed request is never reopened, nor an awarded one, while vendors do not
\* send offers.
DecidedStaysDecided ==
  [][mode # "all" =>
       /\ rfq.status = "CLOSED" => rfq'.status = "CLOSED"
       /\ rfq.status = "AWARDED" => rfq'.status \in {"AWARDED", "CLOSED"}]_vars

\* Whoever is told of the fate of his offer finds the request in his lists and may open
\* it and answer, also when the award or the closing came before createOffer had
\* stored his match (assertCanView and listForUser look at matches and offers).  The
\* winner finds it among the accepted ones, as long as buyers act one at a time.
ToldCanOpen ==
  \A s \in Shops :
    /\ (\E e \in {"accepted", "rejected", "closed"} : <<e, s>> \in notified) =>
         AssertCanView(s) /\ ListForUser("MERCHANT", s) /\ MerchantRfqs(s, "all")
    /\ (mode \in {"alone", "vendors"} /\ <<"accepted", s>> \in notified) =>
         MerchantRfqs(s, "accepted")

\* The vendor a request is awarded to is told.
AcceptedIsTold ==
  \A s \in Shops : (rfq.status = "AWARDED" /\ rfq.awarded = s) ~> (<<"accepted", s>> \in notified)

\* A decision lasts, and the winner of an award is told.
DecisionsHold == DecidedStaysDecided /\ AcceptedIsTold

\* An award is one order, of the accepted offer, and leaves nothing pending.
AwardHolds == TypeOK /\ OneOrderPerRfq /\ OrderIsAcceptedOffer /\ DecidedHasNoPending
=============================================================================
