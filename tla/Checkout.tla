------------------------------ MODULE Checkout ------------------------------
(***************************************************************************)
(* From the cart to the orders: OrdersService.checkout and the cart routes *)
(* (orders/orders.service.ts), the idempotency key around it, tax and      *)
(* shipping prices, the outbox entries it makes, and the web's cart store  *)
(* and checkout page, which show a total before the order is made.         *)
(*                                                                         *)
(* In modes "web" and "region" one page sends one request at a time,       *)
(* without a key: prices and tax change in the one, the region in the      *)
(* other.  In mode "tabs" carts and prices change while a checkout runs;   *)
(* in mode "keys" clients retry a checkout under an Idempotency-Key.       *)
(***************************************************************************)
EXTENDS Integers, Sequences, FiniteSets, Functions

CONSTANTS Products, Shops, ShopOf,   \* the shop of each product
          Prices, Percents,          \* prices in cents, tax rates in percent
          Regions, Zones,            \* zones: the regions each lists, {} for the whole country
          Tariffs,                   \* shipping rates an administrator may create
          Stock,                     \* units of each product
          Keys, NoKey, Calls, NoCall, NoQuote, NoRate, NoOrder,
          Modes,
          MaxAdds, MaxEdits, MaxFaults, MaxBatches, MaxAsked   \* bounds

ASSUME CheckoutAssumption ==
  /\ IsFiniteSet(Products) /\ IsFiniteSet(Shops) /\ ShopOf \in [Products -> Shops]
  /\ Prices \subseteq Nat /\ Prices # {} /\ Percents \subseteq 0..100 /\ Regions # {}
  /\ Stock \in Nat /\ MaxBatches \in Nat /\ NoKey \notin Keys
  /\ Modes \subseteq {"web", "region", "tabs", "keys"}

VARIABLES mode, price, percent, tariffs,
          sellable,    \* products that are ACTIVE, in an ACTIVE shop
          held,        \* units reserved by orders, by product
          cart,        \* CartItem quantities, by product
          version,     \* the number of times the cart was changed
          key,         \* status of the row of each IdempotencyKey
          failed,      \* keys of which an attempt failed
          batch,       \* the orders of each checkout, in order of commit
          outbox,      \* OrderCreatedEvent entries: <<batch, shop>>
          call,
          page,        \* what the checkout page shows
          quotes,      \* the calculator's answers that the query cache still holds
          asked,       \* tax calculations the page waits for
          web,         \* what the page is doing
          adds, edits, faults

checkoutVars == <<mode, price, percent, tariffs, sellable, held, cart, version, key, failed, batch,
          outbox, call, page, quotes, asked, web, adds, edits, faults>>

IdempotencyStatus == {"none", "PROCESSING", "COMPLETED", "FAILED"}

CartRows == [Products -> 0..Stock]

\* A cart with the products' prices, as getCart returns it.
Lines == [Products -> [qty : 0..Stock, price : Prices]]

LinesOf(q) == [p \in Products |-> [qty |-> q[p], price |-> price[p]]]

Qty(l) == [p \in Products |-> l[p].qty]

Units(q) == SumFunctionOnSet(q, Products)

Subtotal(l, S) == SumFunctionOnSet([p \in Products |-> l[p].qty * l[p].price], S)

ProductsOf(s) == {p \in Products : ShopOf[p] = s}

ShopsOf(q) == {s \in Shops : \E p \in ProductsOf(s) : q[p] > 0}

At(c, s) == call[c] # NoCall /\ call[c].step = s

AnyCall == CHOOSE c \in Calls : TRUE

NoCheckout == \A c \in Calls : call[c] = NoCall

-----------------------------------------------------------------------------
(* TaxService.calculate, CalculateShippingHandler                          *)

\* Math.round of a line's tax.
LineTax(l, p, pc) == (l[p].qty * l[p].price * pc + 50) \div 100

\* Mutant: the tax is rounded once for all lines.
CalculateAtOnce(l, S, pc) == (Subtotal(l, S) * pc + 50) \div 100

Calculate(l, S, pc) == SumFunctionOnSet([p \in Products |-> LineTax(l, p, pc)], S)

\* Zones with the region or with none listed; when there are none, every zone.
ZonesFor(region) ==
  LET match == {z \in DOMAIN Zones : Zones[z] = {} \/ region \in Zones[z]}
  IN  IF match = {} THEN DOMAIN Zones ELSE match

\* minWeightKg and maxWeightKg bound the weight, in kg.
RatesForZones(zs, kg) ==
  {r \in tariffs : r.zone \in zs /\ r.min <= kg /\ kg <= r.max}

\* Mutant: the weight is taken off.
RatePriceDiscounted(r, kg) == r.price - kg * r.perKg

RatePrice(r, kg) == r.price + kg * r.perKg

\* The page reckons ten kg a unit and at least one.
WeightKg(q) == IF Units(q) = 0 THEN 1 ELSE 10 * Units(q)

Offered(region, q) == RatesForZones(ZonesFor(region), WeightKg(q))

TariffRows == [zone : DOMAIN Zones, min : Nat, max : Nat, price : Nat, perKg : Nat]

-----------------------------------------------------------------------------
(* The rows                                                                *)

\* subtotal: from the cart as it was read; lines: from the products in the transaction.
OrderRows == [subtotal : Nat, lines : Nat, tax : Nat, shipping : Nat]

TotalOf(o) == o.subtotal + o.tax + o.shipping

Quotes == [lines : Lines, pc : Percents]

\* A rate as it was offered: its price is that of the region and the weight asked for.
ChosenRates == [tariff : TariffRows, region : Regions, kg : Nat]

\* came: the calculator had the quote when the page came to its region and weight;
\* strayed: a refresh failed, or a line was added to the page alone.
PageRows == [lines : Lines, quote : {NoQuote} \cup Quotes, rate : {NoRate} \cup ChosenRates,
             region : Regions, came : BOOLEAN, strayed : BOOLEAN]

ShippingQuotes == [region : Regions, kg : Nat, rates : SUBSET TariffRows]

\* shown: the total on the page; fresh, quoted: see Fresh and Quoted.
BatchRows == [key : Keys \cup {NoKey}, version : Nat, orders : [Shops -> OrderRows \cup {NoOrder}],
              repriced : BOOLEAN, shipping : Nat, shown : Nat, fresh : BOOLEAN, quoted : BOOLEAN]

CheckoutCalls ==
  [step : {"delete", "create", "cart", "commit", "enqueue", "complete", "fail"},
   key : Keys \cup {NoKey}, shipping : Nat, lines : Lines, version : Nat, batch : 0..MaxBatches]

CallStates == {NoCall} \cup CheckoutCalls

ASSUME AbsenceAssumption ==
  /\ NoCall \notin CheckoutCalls /\ NoOrder \notin OrderRows
  /\ NoQuote \notin Quotes /\ NoRate \notin ChosenRates /\ Tariffs \subseteq TariffRows

NoLines == [p \in Products |-> [qty |-> 0, price |-> CHOOSE x \in Prices : TRUE]]

BlankPage == [lines |-> NoLines, quote |-> NoQuote, rate |-> NoRate,
              region |-> CHOOSE r \in Regions : TRUE, came |-> FALSE, strayed |-> FALSE]

CheckoutInit ==
  /\ mode \in Modes
  /\ price \in [Products -> {CHOOSE x \in Prices : \A y \in Prices : x <= y}]
  /\ percent \in Percents
  /\ tariffs = {}
  /\ sellable = Products
  /\ held = [p \in Products |-> 0]
  /\ cart = [p \in Products |-> 0]
  /\ version = 0
  /\ key = [k \in Keys |-> "none"]
  /\ failed = {}
  /\ batch = <<>>
  /\ outbox = {}
  /\ call = [c \in Calls |-> NoCall]
  /\ page = BlankPage
  /\ quotes = {}
  /\ asked = {}
  /\ web = "idle"
  /\ adds = 0 /\ edits = 0 /\ faults = 0

-----------------------------------------------------------------------------
(* The cart routes.  The page refreshes after each.                        *)

server == <<price, percent, tariffs, sellable, held, key, failed, batch, outbox, call>>

OnPage == mode \in {"web", "region"}

\* May a cart route run: between checkouts, or in another tab.
CartMayChange == (OnPage /\ web = "idle" /\ NoCheckout) \/ mode = "tabs" \/ (mode = "keys" /\ NoCheckout)

SetCart(q) ==
  /\ cart' = q
  /\ version' = version + 1
  /\ web' = IF OnPage THEN "refresh" ELSE web
  /\ adds' = adds + 1
  /\ UNCHANGED <<mode, server, page, quotes, asked, edits, faults>>

\* The stock a cart is checked against counts units others have reserved.
AddItem(p) ==
  /\ CartMayChange /\ adds < MaxAdds
  /\ p \in sellable /\ cart[p] + 1 <= Stock
  /\ SetCart([cart EXCEPT ![p] = @ + 1])

UpdateItem(p, n) ==
  /\ CartMayChange /\ adds < MaxAdds
  /\ cart[p] > 0 /\ n # cart[p] /\ (n > 0 => p \in sellable)
  /\ SetCart([cart EXCEPT ![p] = n])

ClearCart ==
  /\ CartMayChange /\ adds < MaxAdds
  /\ cart # [p \in Products |-> 0]
  /\ cart' = [p \in Products |-> 0]
  /\ version' = version + 1
  /\ adds' = adds + 1
  /\ page' = IF OnPage THEN [page EXCEPT !.lines = NoLines, !.quote = NoQuote] ELSE page
  /\ UNCHANGED <<mode, server, quotes, asked, web, edits, faults>>

-----------------------------------------------------------------------------
(* The page: cart store, tax effect, shipping calculator                   *)

Weight == WeightKg(Qty(page.lines))

HasItems == Units(Qty(page.lines)) > 0

\* The answer for a region and a weight, as long as the cache has it.
QuotesAt(region, kg) == {q \in quotes : q.region = region /\ q.kg = kg}

\* data, with its default: no rates while the first answer is waited for.
RatesAt(region, kg) == UNION {q.rates : q \in QuotesAt(region, kg)}

RateChosen(r, region, kg) == [tariff |-> r, region |-> region, kg |-> kg]

\* The effect on new rates: a rate held stays as long as there are any, else the first
\* is taken.  The list is ordered by the price before the weight is added.
Selects(kept, region, kg, rates) ==
  IF rates = {} THEN {NoRate}
  ELSE IF kept # NoRate THEN {kept}
  ELSE {RateChosen(r, region, kg) : r \in {x \in rates : \A y \in rates : x.price <= y.price}}

\* The calculator shows with the first item, and without a rate of its own.
OwnRate == IF HasItems THEN page.rate ELSE NoRate

\* Another query of the calculator.
QueryTurns(l, region, kg, strayed) ==
  \E x \in Selects(OwnRate, region, kg, RatesAt(region, kg)) :
    page' = [page EXCEPT !.lines = l, !.region = region, !.rate = x,
                         !.came = (QuotesAt(region, kg) # {}), !.strayed = strayed]

\* Other items or another region: the query stays when region and weight do.
TurnsTo(l, region, strayed) ==
  LET kg == WeightKg(Qty(l)) IN
  IF region = page.region /\ kg = Weight
  THEN page' = [page EXCEPT !.lines = l, !.strayed = strayed]
  ELSE QueryTurns(l, region, kg, strayed)

\* Mutant: the rate chosen for another weight stays, answer or none.
ShowsWithOldRate(l, strayed) ==
  /\ page' = [page EXCEPT !.lines = l, !.rate = OwnRate, !.strayed = strayed,
                          !.came = QuotesAt(page.region, WeightKg(Qty(l))) # {}]
  /\ asked' = asked \cup {l}

\* Mutant: a line that is shown already keeps its quantity.
ShowsNewLines(l, strayed) ==
  LET merged == [p \in Products |-> IF page.lines[p].qty > 0 THEN page.lines[p] ELSE l[p]] IN
  TurnsTo(merged, page.region, strayed) /\ asked' = asked \cup {merged}

\* New items: their tax is asked for, and their shipping if the weight is another.
Shows(l, strayed) == TurnsTo(l, page.region, strayed) /\ asked' = asked \cup {l}

\* The items the page had stay when the server's cart is empty.
Refresh ==
  /\ web = "refresh"
  /\ Cardinality(asked) < MaxAsked
  /\ IF Units(cart) = 0 THEN UNCHANGED <<page, asked>> ELSE Shows(LinesOf(cart), FALSE)
  /\ web' = "idle"
  /\ UNCHANGED <<mode, server, cart, version, quotes, adds, edits, faults>>

\* A failed refresh is logged: the page shows what it showed.
RefreshFails ==
  /\ web = "refresh" /\ faults < MaxFaults
  /\ page' = [page EXCEPT !.strayed = TRUE]
  /\ web' = "idle"
  /\ faults' = faults + 1
  /\ UNCHANGED <<mode, server, cart, version, quotes, asked, adds, edits>>

\* The cart route fails and the built-in catalogue has the product: the page alone gets a
\* line, at the catalogue's price x.
AddFallback(p, x) ==
  /\ OnPage /\ CartMayChange /\ adds < MaxAdds /\ faults < MaxFaults
  /\ Cardinality(asked) < MaxAsked
  /\ page.lines[p].qty < Stock
  /\ Shows([page.lines EXCEPT ![p] =
              [qty |-> @.qty + 1, price |-> IF @.qty > 0 THEN @.price ELSE x]], TRUE)
  /\ adds' = adds + 1 /\ faults' = faults + 1
  /\ UNCHANGED <<mode, server, cart, version, quotes, web, edits>>

\* Answers may come in any order, and the last to come is shown.
TaxAnswer(l) ==
  /\ l \in asked
  /\ asked' = asked \ {l}
  /\ page' = [page EXCEPT !.quote = [lines |-> l, pc |-> percent]]
  /\ UNCHANGED <<mode, server, cart, version, quotes, web, adds, edits, faults>>

TaxFails(l) ==
  /\ l \in asked /\ faults < MaxFaults
  /\ asked' = asked \ {l}
  /\ page' = [page EXCEPT !.quote = NoQuote]
  /\ faults' = faults + 1
  /\ UNCHANGED <<mode, server, cart, version, quotes, web, adds, edits>>

\* The first answer, or a later one when the cached has grown stale.
ShippingAnswer ==
  /\ OnPage /\ web = "idle" /\ HasItems
  /\ LET rates == Offered(page.region, Qty(page.lines)) IN
     /\ quotes' = (quotes \ QuotesAt(page.region, Weight))
                    \cup {[region |-> page.region, kg |-> Weight, rates |-> rates]}
     /\ \E x \in Selects(page.rate, page.region, Weight, rates) : page' = [page EXCEPT !.rate = x]
  /\ UNCHANGED <<mode, server, cart, version, asked, web, adds, edits, faults>>

\* An answer the page does not use is dropped from the cache after a while.
QuoteExpires(q) ==
  /\ mode = "region" /\ q \notin QuotesAt(page.region, Weight)
  /\ quotes' = quotes \ {q}
  /\ UNCHANGED <<mode, server, cart, version, page, asked, web, adds, edits, faults>>

\* A radio button: the one that is checked does nothing.
SelectRate ==
  /\ OnPage /\ web = "idle" /\ HasItems
  /\ \E r \in RatesAt(page.region, Weight) :
       /\ page.rate # NoRate => page.rate.tariff # r
       /\ page' = [page EXCEPT !.rate = RateChosen(r, page.region, Weight)]
  /\ UNCHANGED <<mode, server, cart, version, quotes, asked, web, adds, edits, faults>>

ChooseRegion(r) ==
  /\ mode = "region" /\ web = "idle" /\ HasItems /\ r # page.region
  /\ TurnsTo(page.lines, r, page.strayed)
  /\ UNCHANGED <<mode, server, cart, version, quotes, asked, web, adds, edits, faults>>

PriceOf(rate) == IF rate = NoRate THEN 0 ELSE RatePrice(rate.tariff, rate.kg)

\* goodsSubtotal and tax come from the last tax calculation when there is one.
GrandTotal(pg) ==
  (IF pg.quote = NoQuote THEN Subtotal(pg.lines, Products)
   ELSE Subtotal(pg.quote.lines, Products) + Calculate(pg.quote.lines, Products, pg.quote.pc))
  + PriceOf(pg.rate)

-----------------------------------------------------------------------------
(* IdempotencyService and the checkout route                               *)

rest == <<mode, price, percent, tariffs, sellable, cart, version, page, quotes, asked, adds, edits>>

BeginCheckout(c, s, k, ship) ==
  call' = [call EXCEPT ![c] =
    [step |-> s, key |-> k, shipping |-> ship, lines |-> NoLines, version |-> 0, batch |-> 0]]

Goes(c, s) == call' = [call EXCEPT ![c].step = s]

\* start: the row of the key is looked up first and written later.
CheckoutWithKey(c, k, ship) ==
  /\ mode = "keys" /\ call[c] = NoCall
  /\ key[k] \in {"none", "FAILED"}
  /\ BeginCheckout(c, IF key[k] = "FAILED" THEN "delete" ELSE "create", k, ship)
  /\ UNCHANGED <<rest, held, key, failed, batch, outbox, web, faults>>

CheckoutWithoutKey(c, ship) ==
  /\ mode = "tabs" /\ NoCheckout /\ c = AnyCall
  /\ BeginCheckout(c, "cart", NoKey, ship)
  /\ UNCHANGED <<rest, held, key, failed, batch, outbox, web, faults>>

\* onSubmit: the page sends the rate it holds, if any, and its price.
OnSubmit(c) ==
  /\ OnPage /\ web = "idle" /\ NoCheckout /\ c = AnyCall
  /\ Units(Qty(page.lines)) > 0
  /\ BeginCheckout(c, "cart", NoKey, PriceOf(page.rate))
  /\ web' = "submitting"
  /\ UNCHANGED <<rest, held, key, failed, batch, outbox, faults>>

DeleteKey(c) ==
  /\ At(c, "delete")
  /\ key' = [key EXCEPT ![call[c].key] = "none"]
  /\ Goes(c, "create")
  /\ UNCHANGED <<rest, held, failed, batch, outbox, web, faults>>

\* Mutant: the row is written whether it is there or not.
UpsertKey(c) ==
  /\ At(c, "create")
  /\ key' = [key EXCEPT ![call[c].key] = "PROCESSING"] /\ Goes(c, "cart")
  /\ UNCHANGED <<rest, held, failed, batch, outbox, web, faults>>

\* The key is unique: a second create throws, before anything is tried.
CreateKey(c) ==
  /\ At(c, "create")
  /\ IF key[call[c].key] = "none"
     THEN key' = [key EXCEPT ![call[c].key] = "PROCESSING"] /\ Goes(c, "cart")
     ELSE key' = key /\ call' = [call EXCEPT ![c] = NoCall]
  /\ UNCHANGED <<rest, held, failed, batch, outbox, web, faults>>

Sellable(q) == \A p \in Products : q[p] > 0 => p \in sellable

Enough(q) == \A p \in Products : q[p] <= Stock - held[p]

\* checkout: the cart with its prices, each line checked; or it throws.
ReadCart(c) ==
  /\ At(c, "cart")
  /\ IF Units(cart) > 0 /\ Enough(cart) /\ Sellable(cart)
     THEN call' = [call EXCEPT ![c].step = "commit", ![c].lines = LinesOf(cart), ![c].version = version]
     ELSE Goes(c, "fail")
  /\ UNCHANGED <<rest, held, key, failed, batch, outbox, web, faults>>

\* Mutant: every shop's order carries the shipping price.
ShippingOfEach(s, first, ship) == ship

ShippingOf(s, first, ship) == IF s = first THEN ship ELSE 0

\* Mutant: the quantity is left out of the line's total.
OrderLinesSingle(l) == [p \in Products |-> [qty |-> IF l[p].qty > 0 THEN 1 ELSE 0, price |-> price[p]]]

\* The lines of the orders: the products read again in the transaction.
OrderLines(l) == LinesOf(Qty(l))

\* The subtotal from the cart as read, lines and tax from the products now.
ShopOrder(l, s, first, ship) ==
  [subtotal |-> Subtotal(l, ProductsOf(s)), lines |-> Subtotal(OrderLines(l), ProductsOf(s)),
   tax |-> Calculate(OrderLines(l), ProductsOf(s), percent), shipping |-> ShippingOf(s, first, ship)]

\* The page shows the lines ordered, at the prices and the tax of now.
Fresh(l) ==
  /\ OnPage /\ page.lines = LinesOf(Qty(l))
  /\ page.quote = [lines |-> page.lines, pc |-> percent]

\* The shipping price sent is one an answer offered for its region and weight: those of
\* the page, unless the calculator had the quote when the page came to them.
Quoted(ship) ==
  /\ ship = PriceOf(page.rate)
  /\ page.rate # NoRate =>
       /\ page.rate.tariff \in RatesForZones(ZonesFor(page.rate.region), page.rate.kg)
       /\ ~page.came => page.rate.region = page.region /\ page.rate.kg = Weight

\* The transaction: every order with its reservations, then the cart's rows go.
CommitOrders(c) ==
  LET l == call[c].lines IN
  /\ \E first \in ShopsOf(Qty(l)) :
       batch' = Append(batch,
         [key |-> call[c].key, version |-> call[c].version,
          orders |-> [s \in Shops |-> IF s \in ShopsOf(Qty(l))
                        THEN ShopOrder(l, s, first, call[c].shipping) ELSE NoOrder],
          repriced |-> l # LinesOf(Qty(l)), shipping |-> call[c].shipping,
          shown |-> GrandTotal(page), fresh |-> Fresh(l), quoted |-> Quoted(call[c].shipping)])
  /\ held' = [p \in Products |-> held[p] + l[p].qty]
  /\ call' = [call EXCEPT ![c].step = "enqueue", ![c].batch = Len(batch) + 1]

EmptyCart == cart' = [p \in Products |-> 0] /\ version' = version + 1

\* Mutant: the cart's rows stay.
KeepCartItems == UNCHANGED <<cart, version>>

DeleteCartItems == EmptyCart

Checkout(c) ==
  /\ At(c, "commit") /\ Len(batch) < MaxBatches
  /\ IF Enough(Qty(call[c].lines))
     THEN CommitOrders(c) /\ DeleteCartItems
     ELSE Goes(c, "fail") /\ UNCHANGED <<batch, held, cart, version>>
  /\ UNCHANGED <<mode, price, percent, tariffs, sellable, key, failed, outbox, page, quotes, asked, web, adds, edits, faults>>

Unannounced(c) ==
  {s \in Shops : batch[call[c].batch].orders[s] # NoOrder /\ <<call[c].batch, s>> \notin outbox}

\* Mutant: one entry for all orders of a checkout.
EnqueueOne(c) ==
  /\ At(c, "enqueue")
  /\ \E s \in Unannounced(c) : outbox' = outbox \cup {<<call[c].batch, s>>}
  /\ Goes(c, "complete")
  /\ UNCHANGED <<rest, held, key, failed, batch, web, faults>>

\* CreateOrderHandler: one entry an order; an error is the checkout's error.
Enqueue(c) ==
  /\ At(c, "enqueue")
  /\ \E s \in Unannounced(c) :
       /\ outbox' = outbox \cup {<<call[c].batch, s>>}
       /\ IF Unannounced(c) = {s} THEN Goes(c, "complete") ELSE call' = call
  /\ UNCHANGED <<rest, held, key, failed, batch, web, faults>>

EnqueueFails(c) ==
  /\ At(c, "enqueue") /\ faults < MaxFaults
  /\ faults' = faults + 1
  /\ Goes(c, "fail")
  /\ UNCHANGED <<rest, held, key, failed, batch, outbox, web>>

\* update by key: without a row the error is swallowed.
Mark(c, s) ==
  key' = [k \in Keys |-> IF k = call[c].key /\ key[k] # "none" THEN s ELSE key[k]]

Complete(c) ==
  /\ At(c, "complete")
  /\ Mark(c, "COMPLETED")
  /\ call' = [call EXCEPT ![c] = NoCall]
  /\ web' = IF OnPage THEN "clear" ELSE web
  /\ UNCHANGED <<rest, held, failed, batch, outbox, faults>>

Fail(c) ==
  /\ At(c, "fail")
  /\ Mark(c, "FAILED")
  /\ failed' = failed \cup ({call[c].key} \ {NoKey})
  /\ call' = [call EXCEPT ![c] = NoCall]
  /\ web' = IF OnPage THEN "idle" ELSE web
  /\ UNCHANGED <<rest, held, batch, outbox, faults>>

\* The process stops, or the answer is lost: the page shows an error.
Crash(c) ==
  /\ call[c] # NoCall /\ faults < MaxFaults
  /\ faults' = faults + 1
  /\ call' = [call EXCEPT ![c] = NoCall]
  /\ web' = IF OnPage THEN "idle" ELSE web
  /\ UNCHANGED <<rest, held, key, failed, batch, outbox>>

\* After an answer the page clears the cart once more, then refreshes.
ClearAfterCheckout ==
  /\ web = "clear"
  /\ EmptyCart
  /\ page' = [page EXCEPT !.lines = NoLines, !.quote = NoQuote]
  /\ web' = "refresh"
  /\ UNCHANGED <<mode, server, quotes, asked, adds, edits, faults>>

-----------------------------------------------------------------------------
(* Prices, tax and tariffs                                                 *)

SetPrice(p, x) ==
  /\ mode \in {"web", "tabs"} /\ edits < MaxEdits /\ price[p] # x
  /\ price' = [price EXCEPT ![p] = x]
  /\ edits' = edits + 1
  /\ UNCHANGED <<mode, percent, tariffs, sellable, held, cart, version, key, failed, batch, outbox,
                 call, page, quotes, asked, web, adds, faults>>

\* A merchant or an administrator takes a product, or its shop, off sale.
Withdraw(p) ==
  /\ mode \in {"web", "tabs"} /\ edits < MaxEdits /\ p \in sellable
  /\ sellable' = sellable \ {p}
  /\ edits' = edits + 1
  /\ UNCHANGED <<mode, price, percent, tariffs, held, cart, version, key, failed, batch, outbox,
                 call, page, quotes, asked, web, adds, faults>>

\* A new default rate takes the place of the old one in one transaction.
CreateRate(pc) ==
  /\ mode \in {"web", "tabs"} /\ edits < MaxEdits /\ percent # pc
  /\ percent' = pc
  /\ edits' = edits + 1
  /\ UNCHANGED <<mode, price, tariffs, sellable, held, cart, version, key, failed, batch, outbox,
                 call, page, quotes, asked, web, adds, faults>>

CreateShippingRate(r) ==
  /\ r \notin tariffs
  /\ OnPage /\ adds = 0
  /\ tariffs' = tariffs \cup {r}
  /\ UNCHANGED <<mode, price, percent, sellable, held, cart, version, key, failed, batch, outbox,
                 call, page, quotes, asked, web, adds, edits, faults>>

OrdersRoutes ==
  \/ \E p \in Products : AddItem(p) \/ \E n \in 0..Stock : UpdateItem(p, n)
  \/ ClearCart
  \/ \E c \in Calls :
       \/ OnSubmit(c)
       \/ \E ship \in {0, 1} : CheckoutWithoutKey(c, ship) \/ \E k \in Keys : CheckoutWithKey(c, k, ship)

Page ==
  \/ Refresh \/ RefreshFails \/ ShippingAnswer \/ SelectRate \/ ClearAfterCheckout
  \/ \E p \in Products, x \in Prices : AddFallback(p, x)
  \/ \E q \in quotes : QuoteExpires(q)
  \/ \E l \in asked : TaxAnswer(l) \/ TaxFails(l)
  \/ \E r \in Regions : ChooseRegion(r)

Steps(c) ==
  \/ DeleteKey(c) \/ CreateKey(c) \/ ReadCart(c) \/ Checkout(c) \/ Enqueue(c)
  \/ EnqueueFails(c) \/ Complete(c) \/ Fail(c) \/ Crash(c)

Administration ==
  \/ \E p \in Products : Withdraw(p) \/ \E x \in Prices : SetPrice(p, x)
  \/ \E pc \in Percents : CreateRate(pc)
  \/ \E r \in Tariffs : CreateShippingRate(r)

CheckoutNext == OrdersRoutes \/ Page \/ (\E c \in Calls : Steps(c)) \/ Administration

CheckoutSpec == CheckoutInit /\ [][CheckoutNext]_checkoutVars

-----------------------------------------------------------------------------
(* Properties                                                              *)

\* What the rows hold: quantities within the stock, amounts that are natural numbers.
CheckoutTypeOK ==
  /\ mode \in Modes /\ percent \in Percents /\ price \in [Products -> Prices]
  /\ tariffs \subseteq TariffRows /\ sellable \subseteq Products
  /\ held \in [Products -> Nat] /\ cart \in CartRows /\ version \in Nat
  /\ key \in [Keys -> IdempotencyStatus] /\ failed \subseteq Keys
  /\ \A b \in DOMAIN batch : batch[b] \in BatchRows
  /\ outbox \subseteq (DOMAIN batch) \X Shops
  /\ call \in [Calls -> CallStates]
  /\ page \in PageRows /\ quotes \subseteq ShippingQuotes /\ asked \subseteq Lines
  /\ web \in {"idle", "refresh", "submitting", "clear"}

Batches == {batch[b] : b \in DOMAIN batch}

OrdersOf(b) == {s \in Shops : b.orders[s] # NoOrder}

\* An Idempotency-Key makes orders once, however many requests carry it at once or
\* again after a crash, as long as none of them has failed (IdempotencyService.start).
OneCheckoutPerKey ==
  \A a, b \in DOMAIN batch :
    (a # b /\ batch[a].key = batch[b].key) => batch[a].key \in failed \cup {NoKey}

\* A cart is ordered once: without a key, one request after another, also when an
\* answer was lost and the page sends the checkout again, the second finds it empty.
\* Requests under two keys at once may each order the cart they have read.
CartSpentOnce ==
  \A a, b \in DOMAIN batch :
    (a # b /\ batch[a].version = batch[b].version) =>
      batch[a].key \in failed \/ batch[a].key # batch[b].key

\* A key is COMPLETED only when the orders made under it are in the outbox, or an
\* earlier attempt with it failed (CreateOrderHandler before idempotency.complete).
CompletedIsAnnounced ==
  \A b \in DOMAIN batch :
    LET k == batch[b].key IN
    (k \in Keys /\ k \notin failed /\ key[k] = "COMPLETED") =>
      \A s \in OrdersOf(batch[b]) : <<b, s>> \in outbox

\* The orders of a checkout, one a shop, carry its shipping price once between them.
ChargedOnce ==
  \A b \in Batches :
    SumFunctionOnSet([s \in OrdersOf(b) |-> b.orders[s].shipping], OrdersOf(b)) = b.shipping

\* An order's subtotal is what its lines add up to, unless a price changed between
\* the cart's reading and the transaction that read the products again.
LinesAddUp ==
  \A b \in Batches : ~b.repriced => \A s \in OrdersOf(b) : b.orders[s].subtotal = b.orders[s].lines

\* What the page showed is what the orders of all shops cost together, when the page
\* showed the cart that was ordered at its prices and had the answer for it.
ShownIsCharged ==
  \A b \in Batches :
    (b.fresh /\ ~b.repriced) =>
      SumFunctionOnSet([s \in OrdersOf(b) |-> TotalOf(b.orders[s])], OrdersOf(b)) = b.shown

\* The shipping price a page sends was offered for the region and the weight of the items
\* it shows; where the calculator had a quote when the page came to them, it may be a price
\* offered for others (the calculator's query, its cache and its effect).
ShippingIsQuoted == OnPage => \A b \in Batches : b.quoted

\* A page that waits for nothing shows the quantities of the server's cart, unless that
\* is empty, the last refresh failed or a line was added to the page alone (the store).
UiShowsCart ==
  (OnPage /\ web = "idle" /\ NoCheckout /\ Units(cart) > 0 /\ ~page.strayed) =>
    Qty(page.lines) = cart

\* Nothing is ordered twice: neither under one key nor from one cart.
OrderedOnce == CheckoutTypeOK /\ OneCheckoutPerKey /\ CartSpentOnce

\* Lines, shipping and tax of a checkout's orders add up to what the page showed.
ChargedAsShown == ChargedOnce /\ LinesAddUp /\ ShownIsCharged

\* The page shows the cart as it knows it, and sends shipping that was offered to it.
PageIsTrue == ShippingIsQuoted /\ UiShowsCart
=============================================================================
