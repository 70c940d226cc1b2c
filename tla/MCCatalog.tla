----------------------------- MODULE MCCatalog -----------------------------
(***************************************************************************)
(* Instances of the catalog, of an import, of a search and of a list of    *)
(* the administration for TLC: a behaviour is one of the four.             *)
(***************************************************************************)
EXTENDS Catalog, Import, Search, Listings

VARIABLE part   \* which of the four

mcVars == <<part, catalogVars, importVars, searchVars, listVars>>

MCMaxCalls == [queue |-> 2, inline |-> 3, cache |-> 2, walk |-> 2]

\* Two rows of one SKU of which the first lacks a price, one with another SKU, one without.
MCRows == <<[sku |-> 1, good |-> FALSE], [sku |-> 2, good |-> TRUE], [sku |-> 0, good |-> TRUE],
            [sku |-> 1, good |-> TRUE]>>

\* Two shops, prices and minimal quantities; a document without units, a tie in price, one
\* that the words do not fit, and a dear one that they fit best.
MCStored ==
  <<[price |-> 2, stock |-> 1, moq |-> 1, shop |-> 1, fit |-> 2], [price |-> 1, stock |-> 0, moq |-> 1, shop |-> 1, fit |-> 1],
    [price |-> 1, stock |-> 1, moq |-> 2, shop |-> 2, fit |-> 0], [price |-> 2, stock |-> 1, moq |-> 1, shop |-> 2, fit |-> 1]>>

Plain == [words |-> "none", shopId |-> 0, vendor |-> 0, priceMin |-> 0, priceMax |-> 0, moq |-> 0,
          inStock |-> "none", stock |-> "none", sort |-> "none", limit |-> 0]

\* Every combination of filters, and every order and length of page.
MCQueries ==
  [words : {"none"}, shopId : {0, 1}, vendor : {0, 2}, priceMin : {0, 2}, priceMax : {0, 1}, moq : {0, 1},
   inStock : {"none", "0", "1"}, stock : {"none", "in stock", "out"}, sort : {"none"}, limit : {0}]
    \cup {[Plain EXCEPT !.words = w, !.vendor = v, !.sort = s, !.limit = l] :
            w \in {"none", "some"}, v \in {0, 2}, s \in {"none", "price_asc", "price-desc"}, l \in {-1, 0, 2}}

\* The parts that a behaviour is not about start in one state.
MarketInit ==
  /\ part \in {"catalog", "import", "search", "lists"}
  /\ part # "catalog" => focus = "queue"
  /\ CatalogInit
  /\ part # "catalog" => \A p \in Products : ~Exists(p)
  /\ part # "import" => offline = FALSE
  /\ ImportInit
  /\ part # "search" => query = Plain
  /\ SearchInit
  /\ part # "lists" => list = "users" /\ asked = "none" /\ status = [r \in 1..R |-> "none"]
  /\ ListingsInit

MarketNext ==
  /\ UNCHANGED part
  /\ \/ part = "catalog" /\ CatalogNext /\ UNCHANGED <<importVars, searchVars, listVars>>
     \/ part = "import" /\ ImportNext /\ UNCHANGED <<catalogVars, searchVars, listVars>>
     \/ part = "search" /\ SearchNext /\ UNCHANGED <<catalogVars, importVars, listVars>>
     \/ part = "lists" /\ ListingsNext /\ UNCHANGED <<catalogVars, importVars, searchVars>>

MarketSpec == MarketInit /\ [][MarketNext]_mcVars /\ ImportFairness

MarketTypeOK == CatalogTypeOK /\ ImportTypeOK

\* What shoppers are shown is the catalog: the search index and the cached page.
ShownIsCatalog == MarketTypeOK /\ IndexMatches /\ PageIsFresh

\* A list is complete however it is read: by the merchant's cursor, by the pages of a search,
\* or by the cursor of the administration.
PagesComplete == WalkComplete /\ SearchIsComplete /\ RowsListedOnce
=============================================================================
