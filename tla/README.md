# mplace: a TLA+ verification project

mplace is a multi-vendor marketplace: a NestJS API (`src/apps/api`) over PostgreSQL (Prisma), with BullMQ jobs on
Redis, Meilisearch, an object store, Stripe as payment provider, and a web front end (`src/apps/web`). This project
models the parts of it that keep state, model-checks them with TLC on small instances, and proves the invariants of all
parts with TLAPS for every instance. Paths below are relative to `src/apps/api/src` unless they start
with `src/` or `web/` (`src/apps/web/src`).

## 1. Inventory

All durable state is in PostgreSQL. Several API processes, the job workers, the browsers and the provider's webhooks
run at once; the database gives READ COMMITTED isolation, and the code takes a row lock (`FOR UPDATE`) in few places.
So most hazards have one shape: a handler reads a row, awaits, and writes on the strength of what it read. The others
come from what is copied (a search index, a cached page, a mirror of the provider's account, the page in the
browser), and from what is done in two places that cannot be written together (Stripe and its row, a file and its row,
an order and its event).

| Component | State | Operations | Must hold | Module |
|---|---|---|---|---|
| Double-entry ledger (`finance/ledger.service.ts`) | FinancialTransaction, FinancialEntry | postings of payments, refunds, payouts; balances | debits equal credits; one posting per reference | Ledger |
| Vendor payouts (`finance/finance.service.ts`, `admin/admin.service.ts`) | PayoutRequest, the Shop lock, the legacy LedgerEntry mirror | request, approve, reject, complete, fail, mark processing, the console's process | never more reserved or paid than earned; calls return | Payouts |
| Inventory (`warehouse/`) | Product.stock, ProductStock, InventoryReservation | reserve, confirm, release, releaseExpired, restock, stock edits, default warehouse | units conserved; holds backed; expired holds end | Inventory |
| Orders (`orders/`) | Order, earnings | markPaidFromPayment, updateStatus, disputes | goods only after payment; paid orders have their units | OrderFlow |
| Payments (`payments/`) | Payment, PaymentWebhookEvent | intents, webhooks, completion, failure, devConfirm | only money received pays; nothing acknowledged is lost | Payments |
| Refunds (`refunds/`) | Refund, its postings | request, approve, reject, provider call, events | the ledger reverses what Stripe gave back | Refunds |
| Carts, checkout, tax, shipping, idempotency keys | Cart, Order, IdempotencyKey, rates | cart edits, checkout, retry, quotes; the web's cart store and checkout page | one checkout per key and cart; charged as shown | Checkout |
| RFQ (`rfq/`) | RfqRequest, RfqOffer, RfqMatch | create, offer, award, reject, close | one order, of the accepted offer | Rfq |
| Accounts and sessions (`auth/`, invites, `admin/`) | User, RefreshToken, TOTP, the browser's store | register, login, refresh, reset, verify, enrol, invite, suspend, promote | reuse and reset end sessions; guesses bounded | Sessions |
| Outbox (`common/outbox`) | Outbox | store, list, claim, publish, retry | published before DONE; every entry settles | Outbox, Delivery |
| Notifications, mails, sockets, jobs | Notification, deliveries, mail jobs, rooms | event handlers, push, mail | who is concerned is told | Events |
| The notification bell | the page's list, the server's rows | poll, mark | badge is true, marks last | Bell |
| Catalog and shops | Product, search index, cached page, job queue | every write of products and of a shop's status | what is shown is the catalog | Catalog |
| Product import | ProductImportJob | upload, preview, confirm, run | each row once | Import |
| Product search | index documents | filter, sort, pages | a search read to its end is complete | Search |
| Administration lists | the listed rows | lists by cursor, resolving disputes | rows listed once | Listings |
| Files (`media/`, `storage/`, `common/upload`) | objects, MediaAsset, ProductDocument | upload, delete | no row without its file | Media |
| KYC (`kyc/`) | KycDocument, Shop verification | upload, review, delete | verification follows the reviews | Kyc |
| Connected accounts | StripeConnectedAccount, Shop | create, sync, account.updated | both copies current | Connect |
| Tenants, documents | Tenant, the tenant of every row, invoice numbers | create, domains, requests, numbering | tenants stay apart | Tenancy |
| Leads (`leads/`) | a ticket | submit | reaches every working channel | Leads |

Interactions. Checkout calls `InventoryService.reserve` in its transaction and stores its events in the outbox after
it. A payment webhook calls `OrdersService.markPaidFromPayment`, which confirms the reservations and writes the legacy
earning, and then posts to the double-entry ledger, outside that transaction. A completed refund posts to the ledger
and writes the order's status. Payouts read the balances these postings add up to. Disputes (support and Stripe)
write the order's status directly. The release-expired job ends reservations behind everybody's back. An award of an
RFQ makes an order of its own. Administrators suspend users and shops, which tokens, index and cached pages notice
late or not at all.

`PROJECT.json` lists every component, the ones left out too, and the hazards with the line where each bites.

## 2. Modules

A request, a delivery of an event or a run of a job is a *call*, split where the code awaits between a read and the
write that rests on it; statements of one transaction are one step unless other calls can be seen between them.
`Abort`, `Crash`, `Breaks` and their like end a call between two steps. Definitions whose comment begins with "Mutant"
are wrong variants of the definition that follows them; nothing refers to them, and each shows that some property
would notice the mistake.

**Ledger** keeps the entry table as its sums by referenceType and account, which is all that the queries read, with
one operator per posting. `PostTransaction` returns a posted transaction as it is and refuses unbalanced entries.
Everything is seen from one shop, as every query filters by shopId.

**Payouts** (extends Ledger): the PayoutRequest rows of one shop, the Shop row lock, the legacy mirror, and the calls
in flight (`req`): the first read of the row (`DecidePayout`, `ProcessPayout`, `MarkPayoutProcessing`), the second
read that completePayout and failPayout make (`ReadRow`), taking the lock and checking the balance (`LockShop`,
`RequestPayout`), and the posting with the row update (`CommitRequest`, `CommitComplete`, `CommitApproveReserve`,
`CommitFail`). The balance check and the posting are two steps although both hold the lock, because `OrderPaid`,
`PaymentPosted` and `RefundCompleted` do not take it. `LegacyPayouts` are PENDING rows from before reserves existed.

**Inventory** holds the tables of one product as a record, and what each group of statements of a transaction does
to it: `Reserve`, `Confirm`, `ReleaseOrder`, `ReleaseExpired`, `Restock`, and `SyncProductStockAggregate` wherever the
code calls it. `NoRow` is a warehouse without a ProductStock row; `NoWarehouse` is a null warehouseId.

**OrderFlow** (extends Inventory): Order.status, the number of VENDOR_EARNING rows, the default warehouse, and the
calls in flight. markPaidFromPayment reads the order, then the reservation, then takes the Product row lock and checks
what it will decrement, then writes (`ProductLocked` keeps the other writers of that row out in between); updateStatus
and releaseExpired read the reservation, then the ProductStock row, without a lock, and then decrement by what they
read; the stock edit of the warehouse screen is two steps (it uses no transaction). Nothing keeps the columns of a row
from going negative, so they are integers.

**Payments**: Payment rows and stored webhook events of one order, what Stripe holds (`stripe`) and has been answered
(`acked`), and calls that handle a delivery. Stripe repeats an event until it is answered with 200, in any order, also
to two calls at once. The steps of completePayment (mark the order paid, write the row, post to the ledger, finish the
event) are separate, and a call may throw or crash at each.

**Refunds**: Refund rows, what Stripe gave back, the postings per refund, the order's status. The call that asks
Stripe and the event that confirms may overtake each other; a crash or a lost answer may fall between.

**Sessions**: users, refresh tokens in families, TOTP, reset and verification tokens, invitations, and the set of
browsers that are signed in (`web`). A password is a version; a token remembers the version its session was opened
under, the one that was typed, and the second factor. An MFA temp token belongs to the login that got it (`temp`): it
is a JWT that nothing revokes, so a session may be opened with the password before the last one.

**Rfq**: one request, an offer per vendor, the matches, who was told what. Only an award locks the row.

**Checkout**: cart, products with price and stock, idempotency keys, batches of orders made by one checkout, outbox
entries, and the page with the lines, quote and tax it shows. `quotes` is the query cache of the shipping calculator
(react-query keeps an answer for a minute and longer): a region or weight that is asked for again has its rates at
once, and the effect keeps the rate it holds as long as there are any. A refresh may fail, and a cart route that fails
may leave a line of the built-in catalogue on the page alone; both set `strayed`. Modes: `web` and `region` (one page,
one request at a time, while prices and tax change or while the region does), `tabs` (two at once), `keys` (clients
that retry under an Idempotency-Key).

**Outbox** and **Delivery**: the table and the processors of all API processes, and the abstract promise; a row may be
of an event that `rehydrate` does not know (`known`), which is DONE without a publication. **Events** extends Outbox
with the handlers: rows, pushes and mails for each recipient, and events emitted in process, with a mail queue or,
without REDIS_URL, none; `unwritten` keeps the mails whose outcome could not be written. **Bell** is the page's list
with its polling and marks.

**Catalog**: products of a shop, edited one at a time or in bulk, their documents in the index, the job queue with
retries and delays and a search worker in every process of the API (`Workers`), or the inline mode, the cached page,
and a list read by cursor. `excused` names the products whose document the code does not vouch for. **Import**: one
file from upload to completion; a confirmation may be cut off between its two writes (`ConfirmStops`), and the queue
removes finished jobs (`ForgetJob`). **Search**: the filter, order and page that search.service asks for, over an index
that changes between pages (with **Ranks**, a set in a given order, which needs no recursion); how well the words fit
a document is a number (`fit`) and ranks before the price, as in the rules Meilisearch has by default, which
applyIndexSettings leaves alone. The total that Meilisearch estimates is taken to be exact. **Listings**: the six
cursor lists of the administration over rows that are added and decided meanwhile.

**Media**: objects and the rows that own them, with the logo and the favicon of one tenant (`UploadBranding`), one
file in a request, or an address given as text (`SetBrandingUrl`); `broken` keeps the keys that a crash cut short or
that a branding left behind; **Kyc** extends it with documents, reviews and the shop's status.
**Connect**: the provider's account and its two copies. **Tenancy**: which tenant a request works for, what the Prisma
extension makes of its queries, invoice numbers. **Leads**: the channels of a demo request.

**MC…** modules give TLC its constants, and where parts share a run, one variable (`scene`, `mode`, `uses`, `part`)
says which of them a behaviour is about. **…Proofs** modules hold the proofs.

### Abstractions

- One product and one line per order in OrderFlow; lines of other products touch other rows, and that one of them
  fails and the transaction rolls back is `Abandon`. Two products of two shops in Checkout.
- syncProductStockAggregate sums the rows and writes Product.stock as part of the step that wrote the row. No property
  of overlapping calls rests on it (only the serial books speak of Product.stock). releaseExpired's list of candidates
  is left out, since each is read again in its own transaction. A deadlock between a release, which writes the
  ProductStock row first, and a confirmation, which locks the Product row first, is broken by the database: one of
  the two is lost (`Abandon`).
- The expiry that reserve does inline persists only when the reservation succeeds: otherwise its transaction rolls
  back, so a failed checkout is no step at all.
- An amount is a small natural number; commission, tax and refund shares are rounded as the code rounds them.
- A SUM of the database is `SumFunction` of module Functions, in the runs and in the proofs; the rows of a table are a
  finite set.
- Names, addresses, texts, currencies, audit and history rows, metrics and log lines are left out. Tokens, passwords,
  storage keys and order numbers are identities, without their format or their hashes.
- External: Stripe, Meilisearch, BullMQ, Redis, SMTP and the browser's fetch, modelled from how the code uses them.

### What the environment may do

`Payable`: orders whose payment may succeed; `Expirable`: whose reservation may pass its expiresAt (disjoint in the
serial scene: payments come in time). `Targets`, `DisputeFrom`, `DefaultMoves`, `StockEdits`: what callers ask for.
`Mismatched`, `Flaky`: intents whose amount differs, or whose first attempt fails. `Shared`: refunds on which two
administrators work at once. `Faults`, `MaxFaults`, `MaxCrashes`: how many faults a behaviour has, each at any step.

## 3. Runs

| Run | Instance | Properties |
|---|---|---|
| payouts | scenes: one administrator (PAID, REJECTED, PROCESSING), a merchant, two orders; two administrators, every decision, a legacy row | TypeOK, DoubleEntry, PayoutsBacked, ReservesMatchRowsSerially, RequestsReturn |
| orders | scenes: three orders of 1, 1 and 2 units, stock 2, calls one at a time, payments in time; two orders, overlapping calls, late and double payments, disputes of unpaid orders; one order, two warehouses, stock edits, every move of the default | TypeOK, GoodsOnlyAfterPayment, NoOverReserve, SerialBooks, LateHoldsEnd |
| payments | one payment, both providers, an amount that differs, two calls at once, two faults | PaymentsAgree, CapturedIsSettled |
| refunds | two refunds of an order of 2, one of them shared by two administrators, a crash and a lost answer | RefundsAgree, ProviderRefundIsPosted |
| sessions | the seeded administrator and one person, three tokens, two calls, one crash, six scenarios | TokensHold, AccountsHold |
| rfq | two vendors, two prices, two calls, four modes of who overlaps whom | AwardHolds, DecisionsHold, ToldCanOpen |
| checkout | two products of two shops, two tariffs and regions, two tax rates, two keys, two requests, modes web, region, tabs, keys | OrderedOnce, CompletedIsAnnounced, ChargedAsShown, PageIsTrue |
| events | two entries, one or two processes, two attempts, two faults, known and unknown, order and emitted events, with and without a mail queue; a bell with a page of 2 of 3 | EventsReach, BellTells, ImplementsDelivery, EntriesSettle, NoteIsShown |
| catalog | parts: three products, two callers, two search workers, a queue or none, one fault; an import of four rows by two clients, two faults; every combination of filters, and searches with words, over four documents; each list over five rows | ShownIsCatalog, PagesComplete, ImportedOnce, RowsArrive |
| onboarding | parts: files, branding and KYC with two reviewers; two accounts with two changes; two tenants, two visitors, six invoices; one lead | FilesAndTypes, ReviewsHold, AccountHolds, TenantsApart, LeadReaches, VerifiedAfterReviews, RowsKeepTenant |
| payouts_race | two administrators who pay and reject | PaidOutBacked (violated) |
| rfq_race | every call overlapping | AwardIsRaceSafe (violated) |

Most properties are conjunctions of named parts:

- SerialBooks (only calls one at a time): StockIsSumOfRows, NoneNegative, Conservation, HoldsBacked, PaidHasUnits,
  PaidOnce.
- PaymentsAgree: only captured money of the right amount marks the order paid (PaidMeansReceived); a SUCCEEDED row or a
  posting means that the order was paid (SucceededMeansPaid); what Stripe was told is handled is on record
  (AckedIsRecorded). CapturedIsSettled is its liveness.
- RefundsAgree: PostedIsRefunded, CompletedIsPosted, RefundedMeansAll.
- TokensHold: OneValidToken, ReuseEndsFamily, ResetEndsSessions. AccountsHold: LockBoundsGuesses, AdminLoginsUseMfa,
  SomeSuperAdmin.
- AwardHolds: OneOrderPerRfq, OrderIsAcceptedOffer, DecidedHasNoPending. DecisionsHold: a decision is not undone, and
  the winner of an award is told.
- OrderedOnce: OneCheckoutPerKey, CartSpentOnce. ChargedAsShown: ChargedOnce, LinesAddUp, ShownIsCharged. PageIsTrue:
  ShippingIsQuoted, UiShowsCart.
- EventsReach: OncePerFault, InOrder, PushedIsListed, EveryoneIsTold, SentWasMailed, NoMailForgotten. BellTells:
  BadgeCounts, MarkedIsShown.
- ShownIsCatalog: IndexMatches, PageIsFresh. PagesComplete: WalkComplete (merchant's list), SearchIsComplete,
  RowsListedOnce. ImportedOnce: SkuOnce, RowsOnce, CompletedIsWhole.
- ReviewsHold: AllApprovedActivates, RejectionHolds, PendingHasFile. AccountHolds: CapabilitiesCurrent, CopiesAgree.
  TenantsApart: StaysInTenant, NumbersWithoutGaps, NumbersOnce.

The type invariant of a module is one conjunct of its first property.

Bounds. Two calls are enough for every stale read, as each hazard is one call between two steps of another; two faults
are enough for one that follows a recovery. Two payouts of 1 or 2 against earnings of 2 or 3 are enough for two that
fit one by one and not together; stock 2 with orders for 1, 1 and 2 gives contention for the last unit and an order
that takes everything. Prices 1 and 3 with a tax of 50% make rounding by line differ from rounding the sum. A page of
2 over 4 or 5 rows has a full page, a last page, and a page that ends at the end of the list. `MirrorBound`, `MaxUnits`,
`MaxRevisions`, `MaxBatches`, `MaxEdits`, `MaxMoves`, `MaxTurns`, `MaxVisits` and their like bound counters that the
code does not. `Limit` of Tenancy stands for 99999, the last number of five digits. TLC does not check for deadlock,
because these systems come to rest when every order, payout, entry or page has ended.

Fairness. Payouts is strongly fair to the steps of each call: a started handler runs on, and PostgreSQL queues the
waiters of a row lock. OrderFlow: a call goes on or is lost, the repeating job (`jobs/jobs.module.ts`) takes a
candidate again while there is one, and neither it nor a payment that has the Product row is rolled back every time. Payments and Refunds: handlers run on, and
Stripe delivers an event again and again until it is acknowledged. Sessions has no liveness property. Rfq: calls run on. Events: each processor's interval fires. Bell: the page polls and requests end.
Import: the worker takes jobs, runs and requests go on; a fault may cut off each of them (`ConfirmStops`, `Interrupted`), which RowsArrive names. No fairness is assumed of people, nor of faults to stay away:
they are bounded.

Refinement. `Outbox!ImplementsDelivery` instantiates Delivery with the rows' states and the number of publications:
an entry is settled only after it was published, and with one process never published again. TLC checks it in the
events run, with the handlers attached, and EventsProofs proves it, for the outbox alone and with the handlers.

### Where the code departs from what it says

Two runs end in a counterexample, and `PROJECT.json` quotes the line that promises otherwise.

- payouts_race (PaidOutBacked): two decisions on one payout, PAID and REJECTED, both read the row before the lock. The
  reserve is released and the payout finalized, and the money is paid a second time.
- rfq_race (AwardIsRaceSafe): an offer that read the request before its award writes QUOTED and PENDING after it, and
  a second award makes a second order.

The passing properties exclude what is listed next, by the scene, the mode or a condition in the property: each can be
seen by dropping it.

*Payouts.* A RESERVED payout that is approved and then rejected keeps its reserve (`finance.service.ts:438`). The
console marks an APPROVED payout PAID without finalizing it. An APPROVED payout whose reserve is posted must find its
amount available again.

*Orders and stock.* A payment after the reservation expired makes the order PAID and takes no unit
(`inventory.service.ts:157`). The clean-up inside reserve expires a reservation but leaves ProductStock.reserved
(`:102`). Two cancellations, or one and the job, free the same reservation twice (`:214`):
each decrements by what it read in the row, so ProductStock.reserved may become negative (`warehouse-stock.util.ts:187`)
and the next checkouts reserve more than there is by that much; only Product.reservedStock is clamped. A new default warehouse is
seeded with units another one already has (`warehouse-stock.util.ts:74`). Two overlapping deliveries post the earning
twice (`orders.service.ts:659`). An unpaid order that is disputed and then cancelled restocks units it never took.

*Payments.* A transient error while the order is marked paid leaves the captured payment FAILED
(`payments.service.ts:1006`); a posting that fails afterwards is swallowed (`:1054`).

*Refunds.* Two requests at once may exceed the payment (`refunds.service.ts:114`). COMPLETED may be overwritten by a
late PROVIDER_REQUESTED. A rejection during the provider call, and a call whose answer was lost (FAILED), are refunds
Stripe made and the ledger never sees. charge.refunded posts the amount of the whole charge. Two halves never make an
order REFUNDED. decideRefund rejects a COMPLETED refund.

*Sessions.* Two overlapping refreshes leave two valid tokens; a rotation that read its token before a reuse was
detected inserts a valid one afterwards; a crash between the new password and the revocation leaves the sessions.
Overlapping failures count once. Two SUPER_ADMINs may demote each other. registerMerchant may leave a shop without
an owner. Promoting a signed-in user asks for no second factor. verifyEmail may undo a suspension. The web's logout
revokes nothing. confirmPasswordReset revokes refresh tokens only (`auth.service.ts:745`): an MFA temp token signed
for the old password still opens a session for five minutes (`:611`), which ResetEndsSessions lets pass by name;
verifyMfa looks neither at the lock nor at the status. updateUserStatus revokes no session: a suspended user is stopped
by the next request, as JwtStrategy reads the status.

*Rfq.* Shops notified when nobody matched cannot open the request. A stale rejection overwrites ACCEPTED. An offer's
total may change between the page and the award. Creation may reopen a request closed during matching.

*Checkout.* Two tabs without a key order the cart twice, and so do two requests at once under different keys, each
ordering the cart it has read (`orders.service.ts:166`): CartSpentOnce is about requests without a key or under one key. Two retries of a FAILED key may both run. A key of a crashed
process stays PROCESSING. A price change between cart and transaction makes subtotal and lines differ. A failed
outbox write after the commit makes the key FAILED, and its retry finds an empty cart. Tax answers may arrive out of
order; submitting while the quote loads charges no shipping. The store ignores an empty cart of the server, and a
failed refresh (`cart.ts:65`). A page that comes back to a region or weight whose quote is cached keeps the rate it
held, at the price of the other one (`shipping-calculator.tsx:55`), and its radio button, already checked, does not
change it: ShippingIsQuoted then only says that the price was offered to the page. A line of the built-in catalogue
(`cart.ts:90`) is shown, and taxed, but never ordered.

*Events.* A processor that stops strands its entries PROCESSING. An entry of an event `rehydrate` does not know is DONE
though nobody heard of it (`outbox.service.ts:70`); every event the code stores is known, so this needs rows of another
build. A handler that throws leaves the remaining recipients untold, as nobody waits for it. When the write of a mail's
outcome throws, the job is done and the delivery stays pending for good (`email.processor.ts:47`, `:75`):
NoMailForgotten is about the other mails. Without REDIS_URL a mail reads sent when it was only logged
(`notifications.service.ts:159`), so SentWasMailed is about deployments with a queue. The provider itself is a stub
that logs. Sockets do not reach the bell; polling pauses in background tabs. The list counts the
unread rows of one page only.

*Catalog.* A bulk edit to DRAFT never leaves the index (`merchant-products.service.ts:405`), and without Redis no bulk
edit reaches it, of the price neither: the job has no product to put, and nothing is indexed inline. Two workers at
jobs of one product may finish in the opposite order (`search-index.processor.ts:29`), and the older document stays.
IndexMatches is about the other products. A suspended shop's documents and cached page stay; merchant
routes never empty the cache; a removal retried after a publication removes; a page read before a write may be stored
after it. Stock and reservations never reindex, so inStock may be stale; a search sees at most 10000 hits, and its
pages shift when the index changes between them. A list of the administration passes over a row when the row of its
cursor was decided meanwhile (`admin.service.ts:122`); an unknown status filter is ignored. Prices
are in order over the pages of a search among products its words fit equally. Late or double
confirmations leave an import "queued"; a confirmation cut off between that status and its job
(`merchant-products.service.ts:520`, `:525`) leaves it there without a job, and confirm refuses it from then on
(`:514`). The queue keeps the last 100 completed and 200 failed jobs (`jobs/queues.ts:37`): an import previewed and
confirmed again after that makes its rows without SKU again, as it does without Redis (RowsOnce counts `forgotten`).

*Onboarding.* Approving the last pending document verifies the shop though another was REJECTED
(`src/docs/KYC.md:47`), also a SUSPENDED one. A document uploaded between the count and the activation is not waited
for. The file of an APPROVED document can be deleted by the route of the file. When the MediaAsset of a deleted document
cannot be deleted (`kyc.service.ts:430`), its row stays. A favicon declared as an SVG or an ICO is stored without a
look at its name and contents (`update-tenant-branding.handler.ts:92`): StoredAsNamed exempts favicons. A logo or
favicon that was replaced, or stored before the request was refused, stays in storage: RowsMatchObjects exempts it, as
it does the keys a crash cut short. Two account creations at once leave
Shop and mirror apart; an early account.updated is lost. Invoice numbers past 99999 repeat. A Web3Forms exception skips
SMTP. The tenant extension is not applied to the client inside $transaction.

## 4. Proofs

All are for any sets of orders, payouts, warehouses, vendors, tenants, documents, calls, entries and processes, any
amounts and every interleaving, from the named ASSUMEs: amounts and quantities positive, commission at most the total,
the rows of a table that is summed are finite (`Payouts`, `Orders`, `Warehouses`, `Products`, `Shops`, `Notes`), as are
the documents of the index and the rows of a file, tax at
most 100 percent, the value that stands for an absent row is no row, storage keys, document and tenant
identities positive naturals (0 stands for none), at least one attempt. A module's invariant was checked by TLC, as an
invariant of the run, before it was proved.

- `SumTheorems`: sums over a finite set. The library's induction takes a predicate as an operator, which the provers
  cannot instantiate; here a predicate is the *set* of the values it holds for (`SubsetInduction`, from WFMin), which
  is first order. From it: a sum does not depend on the order (`SumOfOneMore`), is a natural number, grows with its terms
  (`SumMonotone`), changes by what one term changes (`SumChanges`), and may be taken group by group (`SumOfGroups`). Every proof about totals cites these.
- `MoneyProofs`, payouts: first what a posting does, and that it keeps every book balanced (`PostTransactionBalanced`). Then
  `TypeCorrect`, `AlwaysDoubleEntry` and `NoOverdraft` (PayoutsBacked). PayoutsBacked is not inductive, as the balance
  is checked in one step and the reserve posted in another. `IInv` adds `LockInv` (a call in a locked step holds the
  lock) and `CheckLasts` (what a locked call has checked still covers its amount, although payments and refunds post
  meanwhile), with the signs of the entries on VENDOR_PAYABLE (`LedgerInv`). The argument: refunds lower the balance
  but are not counted among the credits, payments only raise it, and everything else that lowers it needs the lock.
  `ReservesMatch` is about one administrator at a time (and any number of merchants): VENDOR_AVAILABLE is the sum of
  the RESERVED and PROCESSING rows. `SoleInv` adds that what the administrator read still holds (`SoleRequest`) and
  that a row that is set aside was neither released nor completed (`RowFact`), so that its release or completion is a
  new posting and takes its amount off exactly once. The hypotheses are those without which it fails (section 3): no
  approvals, no rows older than the reserves. `SerialReservesMatch` is the same for the run's scene.
- `MoneyProofs`, checkout: `CheckoutOrdersOnce` (OrderedOnce), `CompletedAlwaysAnnounced` (CompletedIsAnnounced),
  `CheckoutChargesAsShown` (ChargedAsShown) and `PageAlwaysTrue` (PageIsTrue), from one invariant. For a key none of
  whose attempts failed, `KeyOK` says that one call at most is past the creation of its row, that the row is PROCESSING
  meanwhile, and that once orders were made under it no call is about to make any; so the call that completes the key
  announced all there is. `CallOK` says that, without keys, a call about to commit read a version of the cart that no
  order was made from, and that the page still shows the rate the call carries. `RateOK` and `WebOK` are about the page:
  cached rates were offered for the region and weight of their query, a rate goes with those it was chosen for, and
  they are the page's unless the page came to a cached quote (`came`); an empty page weighs 1 kg, which no cart does, so
  its old rate never passes for that of a new cart. What the shops' orders cost together is a sum of sums (`SumOfGroups`, `SumOfSum`): tax
  is rounded by line, so grouping the lines by shop changes nothing (`ShopsAddUp`), and one order carries the shipping.
- `OrderFlowProofs`: what each operator on the tables does to types and to `Covered`; `TypeCorrect`; `GoodsArePaid`
  (GoodsOnlyAfterPayment), whose invariant ties the earning to the call in flight (`PaidMoves`), because a call that
  moves an order to PROCESSING writes long after its read; and `NeverOverReserved` (NoOverReserve), which assumes that
  merchants do not lower stock (`StockEdits \subseteq {MaxUnits}`): an edit may set a quantity below what is reserved.
  `TypeCorrect` says of signs only that reservedStock is not negative. `BooksAreKept`
  is about calls one at a time, payments in time, disputes of paid orders only, no stock edits and no change of the
  default: its invariant `SerialInv` ties an order's status to its reservation and its earning (`SerialOrder`), what
  the call in flight read to what is still there (`SerialCall`), and says that all units are at one place, with at
  least the ACTIVE reservations reserved (`Shape`; more than those, once reserve's inline expiry has run).
  `SerialBooksAreKept` is the same for the run's scene.
- `EventsProofs`: `OutboxInvariant` (a processor's list and the entry at hand are stored, an entry about to be marked
  DONE was published if its event is known, and with one process nobody else has touched either) and from it `OutboxImplementsDelivery`:
  initial states map to initial states, and every step to one of Delivery's or a stutter; `EventsImplementDelivery` is
  the same with handlers and bell. `EventsAlwaysReach` (EventsReach) adds the bookkeeping of publications (`Counted`,
  `Orderly`), what a handler in progress has done for the recipients it is past (`HandlerOK`), and that every row, job
  and mail is where some handler or worker left it (`RowOK`, `Justified`). `BellAlwaysTells` (BellTells): a list read
  before a mark is not shown after it, since the mark asks for the list again (`MarksKept`), and a page of the newest
  unread ones holds as many of them as fit (`TopOf`).
- `PaymentsProofs`: `PaymentsSafe` (PaymentsAgree). The invariant `IInv` adds what each call knows at its step
  (`CallFact`: a call about to mark the order paid has received the money, one that posts has marked it paid, one that
  finishes has settled the row), that a success that was sent was captured (`SentInv`) and that a finished event left
  its payment settled (`HookInv`). The argument is that nothing a call relies on is ever taken back (`Grows`), so its
  facts survive whatever other calls do between its steps (`FactStays`). `MovesAssumption` is used: nobody sets PAID by
  hand (`order-status.machine.ts` allows it to SYSTEM only).
- `RefundsProofs`: `RefundsSafe` (RefundsAgree), when Stripe sends the refund.* events only (the hypothesis
  `"charge.refunded" \notin Types`; with it the ledger is posted the amount of the charge, section 3). A refund's
  amount is fixed with its row: every call, every refund of Stripe and every posting of the row carries it (`CallInv`,
  `StripeInv`, `PostedInv`), so it does not matter which of them comes first. That REFUNDED means that all was given
  back also needs that Stripe never gives back more than the charge (`SumInv`).
- `MarketProofs`, requests for quotation: `AwardIsSafe` (AwardHolds), `ToldVendorsCanOpen` (ToldCanOpen) and the action property `DecisionsLast`
  (DecidedStaysDecided, the first half of DecisionsHold). What a call has read holds until it writes for one of two
  reasons: the lock on the request's row (`LockInv`), or the mode says that the calls which could change it do not
  run meanwhile (`Apart`). `DecisionInv` says that an order means a decision and that a decision is the last word on
  every offer.
- `MarketProofs`, catalog: `ShownAlways` (ShownIsCatalog), for any products, callers and faults, with the queue or
  without. The index is wrong while jobs are under way, so `QueueTells` says what will put it right: for a product whose
  document differs there is an index job in the calls, in the queue or in the delay, or a job in some worker's hands
  carries the right document (`Right`); a wrong one in some worker's hands, and every removal that waits for a product
  on sale, has an index job to come. Of the products that are vouched for, no two workers hold different documents, so
  which of them finishes first does not matter. When nothing is left (`AtRest`) the document is right. `InlineTells` is the same for the mode without Redis, and `PageInv`
  says of a reader who holds a page that it is the page of now or was outdated meanwhile.
- `MarketProofs`, lists: `PagesAlwaysComplete` (PagesComplete). Cursors: what the reader must see and has not is below
  the cursor, what he saw is not (`WalkInv`); for the administration as many rows may be missed as pages were asked
  for with a cursor whose row had left the list (`ListInv`). Search: the filter that is built
  keeps the documents that were asked for (`FilterIsWanted`), the order by fit, price and place is total, and while the index does not change the pages so far are
  the beginning of one ordered list (`SearchInv`). A page is part of a sorted list, and sorting is recursive; it is
  defined here by rank (Ranks): the element at place i is the one with i - 1 before it. That each rank is taken once
  is a fact about finite sets (`InOrderIs`, `GreatestAre`), so that no induction over data is needed.
- `MarketProofs`, imports: `ImportAlwaysOnce` (ImportedOnce), for ImportSpec, and `MarketImportsOnce` beside the other
  parts. Every valid row is left to each run or done, once the run has read the file (`LeftInv`); unless two runs or
  a run and the merchant were at it at once, the SKUs of the rows a run has left are still free (`SkuInv`); with the queue and
  without an interruption the worker's is the only run, and the job's id keeps a second one from being added for as long as the queue keeps the first (`QueueInv`, which
  counts the jobs it has removed: no row was made more often than that before the worker comes to it).
- `OnboardingProofs`, one part after the other, for the specification of each (TenancySpec, ConnectSpec, LeadSpec,
  KycSpec: no scene, so all of the part's behaviours), and FilesAndTypes for the run's own. `RowsStay` (RowsKeepTenant)
  and `TenantsStayApart` (TenantsApart): a request of a user with a tenant is handled in that tenant (`VisitInv`), and
  a number that a request has read and not yet inserted is one of those given or the next, and the unique index refuses
  the former (`DrawnInv`, `GapInv`, `OnceInv`). `AccountStaysCurrent` (AccountHolds): while no two requests cross, whatever copy is stale has an
  event to come or in hand, and the copies differ only between their two writes (`SoleInv`). `LeadsReach` (LeadReaches).
  `FilesAreSafe` (FilesAndTypes): a row without an object, or an object without a row, has a request that will make up
  for it or is in `broken` (`KeyFact`), and an upload is alone with its key (`Alone`); a new file of the branding takes
  the column from the one before, which then is in `broken` (`ColumnStep`). `ReviewsAreSafe` (ReviewsHold) and
  `VerifiedOnlyAfterReviews` (VerifiedAfterReviews): without an overlap the last decision is on its way to the shop or
  is what the shop shows; with approvals only, when nothing waits the shop is verified or some review has yet to count
  (`SerialInv`, `ApprovalInv`).
- `OnboardingProofs`, last part: Sessions. `TokensAlwaysHold` (TokensHold) and `AccountsAlwaysHold` (AccountsHold) from
  `SessionsInvariant`. Its first half (`SharedInv`) holds however calls overlap: every token belongs to an account and
  remembers the second factor of the login that began its family, and the password of that login, for which a temp token
  was signed when it is an older one. The second (`AloneInv`) is about people who send one
  request at a time, and ties each person's row, tokens and only call: a rotation has made the next token and nobody
  was sent it before the old one is retired; between the new password and the revocation the call is on its way; the
  guesses are those counted, one about to be counted, and those a crash has lost.

Every invariant that a run checks is stated by a theorem. Only model-checked: every liveness property, and what needs
ENABLED (out of the prover's reach): RequestsReturn, EntriesSettle, RowsArrive and the like, and that an award's winner is told,
which is a leads-to.

## 5. Not modelled

Wishlists, saved searches, tickets and messages (rows of one user that nothing else reads); facets, suggestions and
how words are matched and weighed (their fit is a number); signed and presigned links, thumbnails, product images; PDF and mail layouts; health checks, metrics,
audit rows, configuration, seeds, dictionaries and the pages that only render what the API returns; signatures,
hashes and token formats. They are formatting, queries without state of their own, or cryptography.

## 6. What is left

An abstract vendor account that Payouts implements, and the composition of Payments with OrderFlow's rows rather than
with an order status.
