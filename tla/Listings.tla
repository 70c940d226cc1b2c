------------------------------ MODULE Listings ------------------------------
(***************************************************************************)
(* The lists of the administration, read page by page with a cursor while  *)
(* rows are added and decided.  The database finds the place of the cursor *)
(* by its row, whether or not that row still meets the filter of the list, *)
(* and the code then skips one row.                                        *)
(***************************************************************************)
EXTENDS Integers, FiniteSets, FiniteSetsExt, Sequences

CONSTANTS R,        \* rows 1..R, in the order of their creation
          Take,     \* limit of a page
          MaxTurns  \* bound on the changes of rows

ASSUME ListingsAssumption == R \in Nat \ {0} /\ Take \in Nat \ {0} /\ MaxTurns \in Nat

VARIABLES list,     \* which of the lists
          asked,    \* filter of the client: a status, none, or a word that is no status
          status,   \* of each row, "none" before it exists
          cursor,   \* cursor of the next page, 0 for the first
          shown,    \* rows the client was shown, in order
          must,     \* rows that were in the list at the first page and stayed
          slips,    \* pages asked for with a cursor whose row had left the list
          at,       \* where the client is: "start", "more" or "end"
          turns

listVars == <<list, asked, status, cursor, shown, must, slips, at, turns>>

Statuses == {"OPEN", "DECIDED"}

Lists == {"users", "shops", "orders", "disputes", "payouts", "audit"}

Present == {r \in 1..R : status[r] # "none"}

\* A filter that is no status is ignored; the audit log looks for it as text.
ByStatus == IF asked \in Statuses THEN {asked} ELSE Statuses

ByText == IF asked = "none" THEN Statuses ELSE {asked}

ListFilter == IF list = "audit" THEN ByText ELSE ByStatus

Matching == {r \in Present : status[r] \in ListFilter}

\* findMany with a cursor: newest first, from the place of the cursor's row, one skipped.
FindMany ==
  LET from == {r \in Matching : cursor = 0 \/ r <= cursor}
      rest == IF cursor = 0 \/ from = {} THEN from ELSE from \ {Max(from)}
  IN  {r \in rest : Cardinality({q \in rest : q > r}) < Take}

\* Mutant: there is a next page only if this one is more than full.
ListCursorBeyond(page) == IF Cardinality(page) > Take THEN Min(page) ELSE 0

\* The last row of a full page is the next cursor.
ListCursor(page) == IF Cardinality(page) = Take THEN Min(page) ELSE 0

ListingsInit ==
  /\ list \in Lists /\ asked \in {"OPEN", "none", "else"}
  /\ \E n \in 0..R - 1 : status \in {f \in [1..R -> Statuses \cup {"none"}] : \A r \in 1..R : f[r] = "none" <=> r > n}
  /\ cursor = 0 /\ shown = <<>> /\ must = {} /\ slips = 0 /\ at = "start" /\ turns = 0

ReadList(l) ==
  LET page == FindMany
  IN  /\ list = l /\ at # "end"
      /\ shown' = Append(shown, page)
      /\ must' = IF at = "start" THEN Matching ELSE must
      /\ slips' = IF cursor = 0 \/ cursor \in Matching THEN slips ELSE slips + 1
      /\ cursor' = ListCursor(page)
      /\ at' = IF ListCursor(page) = 0 THEN "end" ELSE "more"
      /\ UNCHANGED <<list, asked, status, turns>>

ListUsers == ReadList("users")

ListShops == ReadList("shops")

ListOrders == ReadList("orders")

ListDisputes == ReadList("disputes")

ListPayouts == ReadList("payouts")

ListAudit == ReadList("audit")

\* A row takes another status; rows of the audit log never do.
Turn(r, s) ==
  /\ turns < MaxTurns /\ turns' = turns + 1
  /\ status' = [status EXCEPT ![r] = s]
  /\ must' = {q \in must : status'[q] \in ListFilter}
  /\ UNCHANGED <<list, asked, cursor, shown, slips, at>>

\* A dispute takes any status from any other.
ResolveDispute(r, s) == list = "disputes" /\ r \in Present /\ Turn(r, s)

Decide(r, s) == list \notin {"audit", "disputes"} /\ r \in Present /\ Turn(r, s)

Add(r) == r \notin Present /\ (\A q \in 1..r - 1 : q \in Present) /\ Turn(r, "OPEN")

ListingsNext ==
  \/ ListUsers \/ ListShops \/ ListOrders \/ ListDisputes \/ ListPayouts \/ ListAudit
  \/ \E r \in 1..R : Add(r) \/ \E s \in Statuses : ResolveDispute(r, s) \/ Decide(r, s)

-----------------------------------------------------------------------------
\* An administrator who reads a list to its end sees none of its rows twice, and of those
\* that were in it all the while misses at most one for each time the row of the cursor had
\* been decided before the next page was asked for: none, if that never happened.
RowsListedOnce ==
  /\ \A i, j \in DOMAIN shown : i # j => shown[i] \cap shown[j] = {}
  /\ at = "end" => Cardinality(must \ UNION {shown[i] : i \in DOMAIN shown}) <= slips
=============================================================================
