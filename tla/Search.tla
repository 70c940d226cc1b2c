------------------------------- MODULE Search -------------------------------
(***************************************************************************)
(* A search of products read page by page: the filter, the order and the   *)
(* page that search.service asks the index for, and what the index answers *)
(* while its documents change.  0 stands for a parameter that was not      *)
(* given, or whose text is not a number.                                   *)
(***************************************************************************)
EXTENDS Integers, Sequences, FiniteSetsExt, Ranks

CONSTANTS Docs,           \* documents, in the order in which the index breaks ties
          Stored,         \* what the index holds of each at first
          Queries,        \* parameters of the searches that are made
          DefaultLimit,   \* 20
          MaxLimit,       \* 100
          MaxTotalHits,   \* 10000: how far the index pages
          MaxMoves        \* bound on the changes of the index

\* fit is how well the words searched for fit the document: 0, not at all.
IndexDocs == [price : Nat, stock : Nat, moq : Nat, shop : Nat, fit : Nat]

SearchQueries ==
  [words : STRING, shopId : Nat, vendor : Nat, priceMin : Int, priceMax : Int, moq : Int,
   inStock : STRING, stock : STRING, sort : STRING, limit : Int]

ASSUME SearchAssumption ==
  /\ Docs \subseteq Nat \ {0} /\ IsFiniteSet(Docs)
  /\ Stored \in [Docs -> IndexDocs] /\ Queries \subseteq SearchQueries
  /\ MaxLimit \in Nat \ {0} /\ DefaultLimit \in 1..MaxLimit /\ MaxTotalHits \in Nat

VARIABLES docs,    \* the index, NoDoc where a product has no document
          query,   \* the search
          seen,    \* hits the client was shown, in order
          page,    \* page it asked for last
          count,   \* pageCount of the last answer
          moves

searchVars == <<docs, query, seen, page, count, moves>>

NoDoc == [price |-> 0, stock |-> 0, moq |-> 0, shop |-> 0, fit |-> 0]

Indexed == {d \in Docs : docs[d] # NoDoc}

SaysYes == {"true", "1"}

SaysNo == {"false", "0"}

SaysIn == {"in", "in stock", "instock"}

SaysOut == {"out", "out of stock", "outofstock"}

\* Words for stock beside the flag; the flag is read first.
ParseInStock(q) ==
  IF q.inStock \in SaysYes \cup SaysNo
    THEN IF q.inStock \in SaysYes THEN "true" ELSE "false"
    ELSE CASE q.stock \in SaysIn  -> "true"
           [] q.stock \in SaysOut -> "false"
           [] OTHER -> "any"

Part(attr, op, value) == [attr |-> attr, op |-> op, value |-> value]

\* Mutant: the vendor is also asked for when the shop is given.
BuildFilterBoth(q) ==
  {p \in {Part("shop", "=", q.shopId), Part("shop", "=", q.vendor),
          Part("price", ">=", q.priceMin), Part("price", "<=", q.priceMax), Part("moq", "<=", q.moq)} : p.value # 0}
    \cup (CASE ParseInStock(q) = "true"  -> {Part("stock", ">=", 1)}
            [] ParseInStock(q) = "false" -> {Part("stock", "<=", 0)}
            [] OTHER -> {})

\* The parts of the filter, all of which a document must meet.  Category, brand and
\* attributes are equalities as the shop is.
BuildFilter(q) ==
  {p \in {Part("shop", "=", IF q.shopId # 0 THEN q.shopId ELSE q.vendor),
          Part("price", ">=", q.priceMin), Part("price", "<=", q.priceMax), Part("moq", "<=", q.moq)} : p.value # 0}
    \cup (CASE ParseInStock(q) = "true"  -> {Part("stock", ">=", 1)}
            [] ParseInStock(q) = "false" -> {Part("stock", "<=", 0)}
            [] OTHER -> {})

Meets(doc, p) ==
  CASE p.op = "="  -> doc[p.attr] = p.value
    [] p.op = ">=" -> doc[p.attr] >= p.value
    [] p.op = "<=" -> doc[p.attr] <= p.value

\* The words that ask for the cheapest, and for the dearest, first.
Cheapest == {"price_asc", "price-asc", "priceasc"}

Dearest == {"price_desc", "price-desc", "pricedesc"}

\* How a document ranks for a search by its words; without words all rank alike.
Fit(q, d) == IF q.words = "none" THEN 0 ELSE docs[d].fit

\* Order of the hits.  applyIndexSettings leaves the index's own ranking, in which the words
\* come before the order that is asked for: by price where it is, otherwise the index's.
BuildSort(q, d, e) ==
  LET p == docs[d].price  r == docs[e].price
  IN  \/ Fit(q, d) > Fit(q, e)
      \/ /\ Fit(q, d) = Fit(q, e)
         /\ \/ q.sort \in Cheapest /\ p < r
            \/ q.sort \in Dearest /\ p > r
            \/ (q.sort \notin Cheapest \cup Dearest \/ p = r) /\ d < e

Ordered(q) == {o \in Docs \X Docs : BuildSort(q, o[1], o[2])}

Limit(q) == Min({MaxLimit, Max({1, IF q.limit = 0 THEN DefaultLimit ELSE q.limit})})

\* A document is found by the words, and meets every part of the filter.
Found(q, doc) == (q.words # "none" => doc.fit > 0) /\ \A p \in BuildFilter(q) : Meets(doc, p)

\* The index neither counts nor shows more than its setting allows.
Reachable(all) == SubSeq(all, 1, Min({Len(all), MaxTotalHits}))

Hits(q) == Reachable(InOrder({d \in Indexed : Found(q, docs[d])}, Ordered(q)))

\* Mutant: pages are counted from zero.
OffsetFromZero(n, limit) == n * limit

Offset(n, limit) == (n - 1) * limit

SearchInit ==
  /\ docs = Stored
  /\ query \in Queries
  /\ seen = <<>> /\ page = 0 /\ count = 1 /\ moves = 0

\* One page; the client goes on while there are pages left.
SearchProductsAdvanced ==
  LET hits == Hits(query)  limit == Limit(query)  offset == Offset(page + 1, limit)
      shown == SubSeq(hits, offset + 1, Min({offset + limit, Len(hits)}))
  IN  /\ page < count
      /\ page' = page + 1
      /\ seen' = seen \o [i \in 1..Len(shown) |-> [id |-> shown[i], doc |-> docs[shown[i]]]]
      /\ count' = (Len(hits) + limit - 1) \div limit
      /\ UNCHANGED <<docs, query, moves>>

\* The index takes or drops a document between two pages.
Reindexed(d, doc) ==
  /\ moves < MaxMoves /\ doc # docs[d]
  /\ docs' = [docs EXCEPT ![d] = doc]
  /\ moves' = moves + 1
  /\ UNCHANGED <<query, seen, page, count>>

SearchRoutes == SearchProductsAdvanced

SearchNext ==
  \/ SearchRoutes
  \/ \E d \in Docs : \E doc \in {NoDoc, Stored[d]} \cup {[Stored[d] EXCEPT !.stock = n] : n \in {0, 1}} :
       Reindexed(d, doc)

-----------------------------------------------------------------------------
\* What the parameters of a search mean to the one who gives them.
Wanted(q, doc) ==
  /\ q.words # "none" => doc.fit > 0
  /\ q.shopId # 0 => doc.shop = q.shopId
  /\ q.shopId = 0 /\ q.vendor # 0 => doc.shop = q.vendor
  /\ doc.price >= q.priceMin
  /\ q.priceMax # 0 => doc.price <= q.priceMax
  /\ q.moq # 0 => doc.moq <= q.moq
  /\ q.inStock \in SaysYes => doc.stock > 0
  /\ q.inStock \in SaysNo => doc.stock = 0
  /\ q.inStock \notin SaysYes \cup SaysNo => /\ q.stock \in SaysIn => doc.stock > 0
                                             /\ q.stock \in SaysOut => doc.stock = 0

\* Every hit is one that was asked for; and where the index does not change meanwhile, no
\* product is shown twice, prices stay in order over the pages among the products the words
\* fit equally (all, in a search without words), those they fit better come first, and the
\* last page leaves out none of the wanted products the index is willing to show.
SearchIsComplete ==
  /\ \A i \in DOMAIN seen : Wanted(query, seen[i].doc)
  /\ moves = 0 =>
       /\ \A i, j \in DOMAIN seen : i < j =>
            /\ seen[i].id # seen[j].id
            /\ query.words # "none" => seen[i].doc.fit >= seen[j].doc.fit
            /\ query.words = "none" \/ seen[i].doc.fit = seen[j].doc.fit =>
                 /\ query.sort \in Cheapest => seen[i].doc.price <= seen[j].doc.price
                 /\ query.sort \in Dearest => seen[i].doc.price >= seen[j].doc.price
       /\ page > 0 /\ page >= count =>
            Cardinality({seen[i].id : i \in DOMAIN seen}) =
              Min({Cardinality({d \in Indexed : Wanted(query, docs[d])}), MaxTotalHits})
=============================================================================
