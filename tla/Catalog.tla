------------------------------ MODULE Catalog -------------------------------
(***************************************************************************)
(* The products of one shop and the two copies of them that buyers see:    *)
(* the documents of the search index and the cached first page of the      *)
(* public catalog.  The routes of catalog.service and those of             *)
(* merchant-products.service write the same rows, and schedule the index   *)
(* by a queue, or inline where there is no Redis.                          *)
(***************************************************************************)
EXTENDS Integers, Sequences, FiniteSetsExt, Ranks

CONSTANTS N,             \* products 1..N, in the order of their creation
          ProductPrices,
          Callers,       \* requests that may run at once
          Workers,       \* processes of the API, each with a worker of the search queue
          MaxAttempts,   \* attempts of a search job (5)
          PageSize,      \* limit of the merchant's list
          MaxCalls,      \* bound on the requests of each mode
          MaxFaults      \* bound on crashes and failing calls

ASSUME CatalogAssumption ==
  /\ N \in Nat \ {0} /\ MaxAttempts \in Nat \ {0} /\ PageSize \in Nat \ {0}
  /\ MaxFaults \in Nat /\ MaxCalls \in [{"queue", "inline", "cache", "walk"} -> Nat]
  /\ ProductPrices \subseteq Nat /\ ProductPrices # {}

VARIABLES focus,     \* which part of the clients' behaviour is looked at
          shop,      \* status of the shop
          row,       \* products
          index,     \* price in the product's search document, 0 without one
          cache,     \* cached page, with whether it is known to be outdated
          reader,    \* a request that found no cached page
          request,   \* requests in progress, with what they still do
          jobs,      \* queue of the search index
          active,    \* job each worker is at
          walk,      \* a merchant reading the list page by page
          calls, faults,
          excused    \* products whose document is known to be unreliable

catalogVars == <<focus, shop, row, index, cache, reader, request, jobs, active, walk, calls, faults, excused>>

Products == 1..N

CatalogModes == {"queue", "inline", "cache", "walk"}

\* One product tells all there is about its document and the page; a list needs several.
Used == IF focus = "walk" THEN Products ELSE {1}

Redis == focus \in {"queue", "cache"}

ShopStatus == {"PENDING", "ACTIVE", "SUSPENDED", "REJECTED"}

ProductStatus == {"DRAFT", "ACTIVE", "ARCHIVED"}

ProductRows == [status : ProductStatus \cup {"none"}, price : ProductPrices]

Exists(p) == row[p].status # "none"

\* One thing a request still does after its write.
Effect(do, p, a) == [do |-> do, product |-> p, action |-> a]

Jobs == [action : {"index", "remove"}, product : Products, tries : Nat]

NoRequest == [todo |-> <<>>, doc |-> [p \in Products |-> 0]]

NoPage == [page |-> {}, old |-> FALSE, kept |-> FALSE]

NoJob == [job |-> <<>>, put |-> 0]

InHand(w, p) == active[w] # NoJob /\ active[w].job[1].product = p

NoWalk == [cursor |-> N + 1, seen |-> <<>>, must |-> {}, step |-> "idle"]

\* What the document of a product should hold.
Searchable(p) == IF row[p].status = "ACTIVE" THEN row[p].price ELSE 0

\* Public page: ACTIVE products of an ACTIVE shop.
PublicPage == {<<p, row[p].price>> : p \in {q \in Products : row[q].status = "ACTIVE" /\ shop = "ACTIVE"}}

CatalogInit ==
  /\ focus \in CatalogModes
  /\ shop = "ACTIVE"
  /\ \E S \in SUBSET Used :
       row = [p \in Products |-> [status |-> IF p \in S /\ p < N THEN "ACTIVE" ELSE "none",
                                  price  |-> CHOOSE x \in ProductPrices : TRUE]]
  /\ \A p, q \in Used : p < q /\ Exists(q) => Exists(p)
  /\ index = [p \in Products |-> Searchable(p)]
  /\ cache = NoPage /\ reader = NoPage
  /\ request = [c \in Callers |-> NoRequest]
  /\ jobs = [waiting |-> <<>>, delayed |-> {}]
  /\ active = [w \in Workers |-> NoJob]
  /\ walk = NoWalk
  /\ calls = 0 /\ faults = 0
  /\ excused = {}

-----------------------------------------------------------------------------
\* A write of product p while another request is about to remove its document, or holds
\* what it will put there: the document may end up as the other request has it.
Overtakes(c, p) ==
  \E d \in Callers \ {c} : \E i \in DOMAIN request[d].todo :
    LET e == request[d].todo[i]
    IN  /\ e.product = p
        /\ \/ e.do = "put"
           \/ e.do \in {"schedule", "emit"} /\ (~Redis \/ e.action = "remove")

\* Begin is the first step of every request: its reads, checks and write.
BeginRequest(c) ==
  /\ request[c].todo = <<>>
  /\ calls < MaxCalls[focus]
  /\ calls' = calls + 1

Searching == focus \in {"queue", "inline"}

\* The rows after the write, the products it wrote, and what the request does next.
Writes(c, rows, S, todo) ==
  /\ row' = rows
  /\ request' = [request EXCEPT ![c] = [todo |-> todo, doc |-> [p \in Products |->
                 IF rows[p].status = "ACTIVE" THEN rows[p].price ELSE 0]]]
  /\ excused' = excused \cup {p \in S : Overtakes(c, p)}
  /\ reader' = [reader EXCEPT !.old = @ \/ reader.kept]
  /\ walk' = [walk EXCEPT !.must = {p \in @ : rows[p].status = "ACTIVE"}]
  /\ UNCHANGED <<focus, shop, index, jobs, active, faults>>

\* The routes that leave the cached page alone make it outdated.
LeavesCache == cache' = [cache EXCEPT !.old = cache.kept]

IndexOrRemove(p, status, do) == Effect(do, p, IF status = "ACTIVE" THEN "index" ELSE "remove")

\* Mutant: the product gets the status of its shop.
PublishedAsShop(status) == IF status = "ACTIVE" /\ shop # "ACTIVE" THEN shop ELSE status

\* createProduct, for a merchant: an inactive shop's product is a DRAFT.
Published(status) == IF status = "ACTIVE" /\ shop # "ACTIVE" THEN "DRAFT" ELSE status

NextProduct(p) == ~Exists(p) /\ \A q \in Products : q < p => Exists(q)

Created(p, status, x) == [row EXCEPT ![p] = [status |-> status, price |-> x]]

Earlier == {e \in Products \X Products : e[1] < e[2]}

\* The effect on each product of S, in order.
ForEach(S, do, kind) == [i \in 1..Cardinality(S) |-> Effect(do, InOrder(S, Earlier)[i], kind)]

\* Catalog routes: the cache is emptied, the index scheduled, the event emitted.
CreateProduct(c, p, status, x) ==
  /\ BeginRequest(c) /\ NextProduct(p)
  /\ Writes(c, Created(p, status, x), {p},
            IF status = "ACTIVE"
              THEN <<Effect("invalidate", p, "index"), Effect("schedule", p, "index"), Effect("emit", p, "index")>>
              ELSE <<Effect("invalidate", p, "index")>>)
  /\ UNCHANGED cache

UpdateProduct(c, p, status, x) ==
  /\ BeginRequest(c) /\ Exists(p)
  /\ Writes(c, [row EXCEPT ![p] = [status |-> status, price |-> x]], {p},
            <<Effect("invalidate", p, "index"), IndexOrRemove(p, status, "schedule"),
              IndexOrRemove(p, status, "emit")>>)
  /\ UNCHANGED cache

DeleteProduct(c, p) ==
  /\ BeginRequest(c) /\ Exists(p)
  /\ Writes(c, [row EXCEPT ![p].status = "ARCHIVED"], {p},
            <<Effect("invalidate", p, "index"), Effect("schedule", p, "remove"), Effect("emit", p, "remove")>>)
  /\ UNCHANGED cache

\* Merchant routes: only the index is scheduled.
MerchantCreate(c, p, status, x) ==
  /\ BeginRequest(c) /\ NextProduct(p)
  /\ Writes(c, Created(p, status, x), {p},
            IF status = "ACTIVE" THEN <<Effect("schedule", p, "index")>> ELSE <<>>)
  /\ LeavesCache

MerchantUpdate(c, p, status, x) ==
  /\ BeginRequest(c) /\ Exists(p)
  /\ Writes(c, [row EXCEPT ![p] = [status |-> status, price |-> x]], {p},
            <<IndexOrRemove(p, status, "schedule")>>)
  /\ LeavesCache

Duplicate(c, p, q) ==
  /\ BeginRequest(c) /\ Exists(p) /\ NextProduct(q)
  /\ Writes(c, [row EXCEPT ![q] = [status |-> "DRAFT", price |-> row[p].price]], {q}, <<>>)
  /\ LeavesCache

Archive(c, p) ==
  /\ BeginRequest(c) /\ Exists(p)
  /\ Writes(c, [row EXCEPT ![p].status = "ARCHIVED"], {p}, <<Effect("schedule", p, "remove")>>)
  /\ LeavesCache

NoPrice == -1

\* What bulkUpdate sets of a product, of the fields it was given.
Patched(r, status, x) == [status |-> IF status = "same" THEN r.status ELSE status,
                          price  |-> IF x = NoPrice THEN r.price ELSE x]

\* bulkUpdate of the products S, to a status, a price or (touched) a category or stock.  A
\* status DRAFT alone schedules nothing, and without a queue nothing is indexed, for no
\* product is passed along: the documents keep what they had.
BulkUpdate(c, S, status, x, touched) ==
  /\ BeginRequest(c) /\ S # {} /\ \A p \in S : Exists(p)
  /\ LET rows == [p \in Products |-> IF p \in S THEN Patched(row[p], status, x) ELSE row[p]]
         kind == IF status = "ARCHIVED" THEN "remove" ELSE "index"
         none == status # "ARCHIVED" /\ (~Redis \/ ~(status = "ACTIVE" \/ x # NoPrice \/ touched))
     IN  /\ row' = rows
         /\ request' = [request EXCEPT ![c] = [NoRequest EXCEPT !.todo = IF none THEN <<>> ELSE ForEach(S, "schedule", kind)]]
         /\ excused' = excused \cup {p \in S : IF none THEN Searchable(p)' # Searchable(p) ELSE Overtakes(c, p)}
         /\ walk' = [walk EXCEPT !.must = {p \in @ : rows[p].status = "ACTIVE"}]
  /\ reader' = [reader EXCEPT !.old = @ \/ reader.kept]
  /\ LeavesCache
  /\ UNCHANGED <<focus, shop, index, jobs, active, faults>>

\* shops.service updateStatus: the shop first, then its products; no index, no cache.
UpdateStatus(c, status) ==
  /\ BeginRequest(c)
  /\ shop' = status
  /\ request' = [request EXCEPT ![c].todo =
       IF status # "ACTIVE" THEN <<Effect("demote", 1, "remove")>> ELSE <<>>]
  /\ reader' = [reader EXCEPT !.old = @ \/ reader.kept]
  /\ LeavesCache
  /\ UNCHANGED <<focus, row, index, jobs, active, walk, faults, excused>>

\* admin.service updateShopStatus: the shop alone.
UpdateShopStatus(c, status) ==
  /\ BeginRequest(c)
  /\ shop' = status
  /\ reader' = [reader EXCEPT !.old = @ \/ reader.kept]
  /\ LeavesCache
  /\ UNCHANGED <<focus, row, index, request, jobs, active, walk, faults, excused>>

\* reindexAllProducts: puts the ACTIVE products as they were read.
ReindexAllProducts(c) ==
  /\ BeginRequest(c)
  /\ request' = [request EXCEPT ![c] =
       [todo |-> ForEach({p \in Products : row[p].status = "ACTIVE"}, "put", "index"),
        doc  |-> [p \in Products |-> Searchable(p)]]]
  /\ UNCHANGED <<focus, shop, row, index, cache, reader, jobs, active, walk, faults, excused>>

CatalogRoutes(c) ==
  \/ \E p \in Used, s \in ProductStatus, x \in ProductPrices :
       \/ CreateProduct(c, p, Published(s), x)   \* by a merchant
       \/ CreateProduct(c, p, s, x)              \* by an administrator
       \/ UpdateProduct(c, p, s, x)
  \/ \E p \in Used : DeleteProduct(c, p)
  \/ Searching /\ ReindexAllProducts(c)

MerchantRoutes(c) ==
  \/ \E p \in Used, s \in ProductStatus, x \in ProductPrices :
       MerchantCreate(c, p, Published(s), x) \/ MerchantUpdate(c, p, s, x)
  \/ \E p \in Used : Archive(c, p) \/ \E q \in Used : Duplicate(c, p, q)
  \/ \E S \in SUBSET Used, s \in ProductStatus \cup {"same"}, x \in ProductPrices \cup {NoPrice}, t \in BOOLEAN :
       (s # "same" \/ x # NoPrice \/ t) /\ BulkUpdate(c, S, s, x, t)

ShopRoutes(c) ==
  \E s \in {"ACTIVE", "SUSPENDED"} : UpdateStatus(c, s) \/ UpdateShopStatus(c, s)

-----------------------------------------------------------------------------
First(c) == request[c].todo[1]

Does(c, do) == request[c].todo # <<>> /\ First(c).do = do

\* The request goes on; a finished one is forgotten.
Proceed(c) ==
  request' = [request EXCEPT ![c] = IF Len(request[c].todo) = 1 THEN NoRequest
                                    ELSE [request[c] EXCEPT !.todo = Tail(@)]]

\* Mutant: only the categories' keys are deleted.
InvalidateCategories(c) ==
  /\ Does(c, "invalidate") /\ Proceed(c)
  /\ UNCHANGED <<focus, shop, row, index, cache, reader, jobs, active, walk, calls, faults, excused>>

\* invalidateCatalogCache
Invalidate(c) ==
  /\ Does(c, "invalidate") /\ Proceed(c)
  /\ cache' = NoPage
  /\ UNCHANGED <<focus, shop, row, index, reader, jobs, active, walk, calls, faults, excused>>

\* delByPattern only logs an error.
InvalidateFails(c) ==
  /\ Does(c, "invalidate") /\ Proceed(c) /\ Redis
  /\ faults < MaxFaults /\ faults' = faults + 1
  /\ cache' = [cache EXCEPT !.old = cache.kept]
  /\ UNCHANGED <<focus, shop, row, index, reader, jobs, active, walk, calls, excused>>

Enqueued(e) == [jobs EXCEPT !.waiting = Append(@, [action |-> e.action, product |-> e.product, tries |-> 0])]

\* scheduleSearchIndex: by the queue, or inline with the product as it was written.
ScheduleSearchIndex(c) ==
  /\ Does(c, "schedule") /\ Proceed(c)
  /\ \/ Redis /\ jobs' = Enqueued(First(c)) /\ UNCHANGED index
     \/ /\ ~Redis
        /\ index' = [index EXCEPT ![First(c).product] =
             IF First(c).action = "remove" THEN 0 ELSE request[c].doc[First(c).product]]
        /\ UNCHANGED jobs
  /\ UNCHANGED <<focus, shop, row, cache, reader, active, walk, calls, faults, excused>>

\* The listeners of ProductCreated, ProductUpdated and ProductDeleted.
OnProductEvent(c) ==
  /\ Does(c, "emit") /\ Proceed(c)
  /\ jobs' = IF Redis THEN Enqueued(First(c)) ELSE jobs
  /\ UNCHANGED <<focus, shop, row, index, cache, reader, active, walk, calls, faults, excused>>

IndexProduct(c) ==
  /\ Does(c, "put") /\ Proceed(c)
  /\ index' = [index EXCEPT ![First(c).product] = request[c].doc[First(c).product]]
  /\ UNCHANGED <<focus, shop, row, cache, reader, jobs, active, walk, calls, faults, excused>>

\* The second write of updateStatus.
Demote(c) ==
  /\ Does(c, "demote") /\ Proceed(c)
  /\ LET S == {p \in Products : row[p].status = "ACTIVE"}
     IN  /\ row' = [p \in Products |-> IF p \in S THEN [row[p] EXCEPT !.status = "DRAFT"] ELSE row[p]]
         /\ excused' = excused \cup S
         /\ walk' = [walk EXCEPT !.must = {}]
  /\ reader' = [reader EXCEPT !.old = @ \/ reader.kept]
  /\ LeavesCache
  /\ UNCHANGED <<focus, shop, index, jobs, active, calls, faults>>

\* A request ends early: the process stops, or Redis or the index throws.
Breaks(c) ==
  /\ request[c].todo # <<>>
  /\ faults < MaxFaults /\ faults' = faults + 1
  /\ request' = [request EXCEPT ![c] = NoRequest]
  /\ excused' = excused \cup {request[c].todo[i].product : i \in DOMAIN request[c].todo}
  /\ cache' = [cache EXCEPT !.old = @ \/ (cache.kept /\ \E i \in DOMAIN request[c].todo : request[c].todo[i].do = "invalidate")]
  /\ UNCHANGED <<focus, shop, row, index, reader, jobs, active, walk, calls>>

-----------------------------------------------------------------------------
\* Mutant: the status of the product is not looked at.
DocumentOfAny(p) == row[p].price

\* What an index job puts: the product as it is now, nothing if it is not ACTIVE.
DocumentOf(p) == Searchable(p)

\* A worker takes the next job and reads its product.  Where another one is at a job of
\* the product with something else to put, either may write last.
TakeJob(w) ==
  /\ active[w] = NoJob /\ jobs.waiting # <<>>
  /\ LET j   == Head(jobs.waiting)
         put == IF j.action = "remove" THEN 0 ELSE DocumentOf(j.product)
     IN  /\ active' = [active EXCEPT ![w] = [job |-> <<j>>, put |-> put]]
         /\ excused' = excused \cup {p \in {j.product} : \E v \in Workers : InHand(v, p) /\ active[v].put # put}
  /\ jobs' = [jobs EXCEPT !.waiting = Tail(@)]
  /\ UNCHANGED <<focus, shop, row, index, cache, reader, request, walk, calls, faults>>

FinishJob(w) ==
  /\ active[w] # NoJob
  /\ index' = [index EXCEPT ![active[w].job[1].product] = active[w].put]
  /\ active' = [active EXCEPT ![w] = NoJob]
  /\ UNCHANGED <<focus, shop, row, cache, reader, request, jobs, walk, calls, faults, excused>>

\* A failed job is tried again later, behind what was queued meanwhile; a job that
\* removes a document does not look at the product again.
JobFails(w) ==
  /\ active[w] # NoJob
  /\ faults < MaxFaults /\ faults' = faults + 1
  /\ LET j == active[w].job[1]
     IN  IF j.tries + 1 < MaxAttempts
           THEN /\ jobs' = [jobs EXCEPT !.delayed = @ \cup {[j EXCEPT !.tries = @ + 1]}]
                /\ excused' = IF j.action = "remove" THEN excused \cup {j.product} ELSE excused
           ELSE /\ excused' = excused \cup {j.product}
                /\ UNCHANGED jobs
  /\ active' = [active EXCEPT ![w] = NoJob]
  /\ UNCHANGED <<focus, shop, row, index, cache, reader, request, walk, calls>>

Promote(j) ==
  /\ j \in jobs.delayed
  /\ jobs' = [waiting |-> Append(jobs.waiting, j), delayed |-> jobs.delayed \ {j}]
  /\ UNCHANGED <<focus, shop, row, index, cache, reader, request, active, walk, calls, faults, excused>>

SearchWorker == (\E w \in Workers : TakeJob(w) \/ FinishJob(w) \/ JobFails(w)) \/ \E j \in jobs.delayed : Promote(j)

-----------------------------------------------------------------------------
\* listProducts without a cached page: the page is read, and kept if it is not empty.
ReadPage ==
  /\ focus = "cache" /\ ~reader.kept /\ ~cache.kept
  /\ PublicPage # {}
  /\ reader' = [page |-> PublicPage, old |-> FALSE, kept |-> TRUE]
  /\ UNCHANGED <<focus, shop, row, index, cache, request, jobs, active, walk, calls, faults, excused>>

KeepPage ==
  /\ reader.kept
  /\ cache' = reader
  /\ reader' = NoPage
  /\ UNCHANGED <<focus, shop, row, index, request, jobs, active, walk, calls, faults, excused>>

\* The page is kept for five minutes.
Expire ==
  /\ cache.kept
  /\ cache' = NoPage
  /\ UNCHANGED <<focus, shop, row, index, reader, request, jobs, active, walk, calls, faults, excused>>

\* The products after the cursor, newest first.
Listed(cursor) == {p \in Products : row[p].status = "ACTIVE" /\ p < cursor}

PageOf(S) == {p \in S : Cardinality({q \in S : q > p}) < PageSize}

\* Mutant: the cursor is the item that only tells whether there is more.
NextCursorExtra(S) == Min({p \in S : Cardinality({q \in S : q > p}) < PageSize + 1})

NextCursor(S) == Min(PageOf(S))

\* list of merchant-products.service, page by page, ACTIVE products only.
ListPage ==
  /\ focus = "walk" /\ walk.step \in {"idle", "more"}
  /\ LET S    == Listed(walk.cursor)
         page == PageOf(S)
         more == Cardinality(S) > PageSize
     IN  walk' = [cursor |-> IF more THEN NextCursor(S) ELSE 0,
                  seen   |-> Append(walk.seen, page),
                  must   |-> IF walk.step = "idle" THEN S ELSE walk.must,
                  step   |-> IF more THEN "more" ELSE "done"]
  /\ UNCHANGED <<focus, shop, row, index, cache, reader, request, jobs, active, calls, faults, excused>>

CatalogNext ==
  \/ \E c \in Callers :
       \/ CatalogRoutes(c) \/ MerchantRoutes(c) \/ (focus = "cache" /\ ShopRoutes(c))
       \/ Invalidate(c) \/ InvalidateFails(c) \/ ScheduleSearchIndex(c) \/ OnProductEvent(c)
       \/ IndexProduct(c) \/ Demote(c) \/ Breaks(c)
  \/ SearchWorker
  \/ ReadPage \/ KeepPage \/ Expire \/ ListPage

-----------------------------------------------------------------------------
CatalogTypeOK ==
  /\ focus \in CatalogModes /\ shop \in ShopStatus
  /\ row \in [Products -> ProductRows]
  /\ index \in [Products -> ProductPrices \cup {0}]
  /\ jobs.delayed \subseteq Jobs /\ \A i \in DOMAIN jobs.waiting : jobs.waiting[i] \in Jobs
  /\ cache.kept => cache.page # {}
  /\ walk.cursor \in 0..N + 1
  /\ excused \subseteq Products

AtRest == jobs = [waiting |-> <<>>, delayed |-> {}] /\ active = [w \in Workers |-> NoJob] /\ \A c \in Callers : request[c].todo = <<>>

\* When the requests and the queue are done, a search finds exactly the ACTIVE products,
\* at their prices (scheduleSearchIndex and SearchIndexProcessor) - but for products a
\* request overtook another one on, two workers held different documents of, a removal was
\* retried for, or a bulk edit or the demotion of a shop's products changed and did not index.
IndexMatches == AtRest => \A p \in Products \ excused : index[p] = Searchable(p)

\* A cached page is the page of now (invalidateCatalogCache), unless it was read before
\* a write and stored after it, or the write came by a route that leaves the cache alone.
PageIsFresh ==
  cache.kept /\ ~cache.old /\ (\A c \in Callers : ~Does(c, "invalidate")) => cache.page = PublicPage

\* A merchant who reads the list to its end sees every product that was ACTIVE all the
\* while, and none twice, whatever is created or archived between two pages (list).
WalkComplete ==
  walk.step = "done" =>
    /\ \A p \in walk.must : \E i \in DOMAIN walk.seen : p \in walk.seen[i]
    /\ \A i, j \in DOMAIN walk.seen : i # j => walk.seen[i] \cap walk.seen[j] = {}
=============================================================================
