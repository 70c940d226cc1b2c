----------------------------- MODULE MoneyProofs -----------------------------
(***************************************************************************)
(* What shops are paid and what buyers are charged.  For any orders,       *)
(* amounts, requests and decisions: the books of the payouts stay typed    *)
(* and balanced, and the shop's net reserves stay within its earnings.     *)
(* For any products, shops, prices, keys and requests: a checkout orders   *)
(* once, announces its orders, and charges what the page showed.           *)
(***************************************************************************)
EXTENDS MCPayouts, Checkout, SumTheorems

-----------------------------------------------------------------------------
(* What the postings of Ledger do to the books, for all amounts.           *)

(* A commission is capped to lie between nothing and the amount.           *)
LEMMA CappedRange ==
  ASSUME NEW a \in Nat, NEW c \in Int
  PROVE  Capped(c, a) \in 0..a
BY DEF Capped

(* The entries of a payment: balanced, and the vendor is credited what the *)
(* commission leaves (ledger.service.ts postPayment).                      *)
LEMMA PaymentEntriesFacts ==
  ASSUME NEW a \in Nat, NEW c \in Int
  PROVE  LET e == PaymentEntries(a, c)
         IN  e \in [Accounts -> Int] /\ Total(e) = 0 /\ e["VENDOR_PAYABLE"] >= 0
<1>1. Capped(c, a) \in 0..a
  BY CappedRange
<1> QED
  BY <1>1 DEF PaymentEntries, NoEntries, Accounts, Total

(* The entries of a refund: balanced, and the vendor is never credited.    *)
LEMMA RefundEntriesFacts ==
  ASSUME NEW a \in Nat, NEW c \in Int
  PROVE  LET e == RefundEntries(a, c)
         IN  e \in [Accounts -> Int] /\ Total(e) = 0 /\ e["VENDOR_PAYABLE"] <= 0
<1>1. Capped(c, a) \in 0..a
  BY CappedRange
<1> QED
  BY <1>1 DEF RefundEntries, NoEntries, Accounts, Total

(* The three payout postings are balanced; reserve and release move the    *)
(* amount out of and back to VENDOR_PAYABLE, completion leaves it alone.   *)
LEMMA PayoutEntriesFacts ==
  ASSUME NEW a \in Nat
  PROVE  /\ PayoutReserveEntries(a) \in [Accounts -> Int]
         /\ Total(PayoutReserveEntries(a)) = 0
         /\ PayoutReserveEntries(a)["VENDOR_PAYABLE"] = - a
         /\ PayoutReleaseEntries(a) \in [Accounts -> Int]
         /\ Total(PayoutReleaseEntries(a)) = 0
         /\ PayoutReleaseEntries(a)["VENDOR_PAYABLE"] = a
         /\ PayoutCompletedEntries(a) \in [Accounts -> Int]
         /\ Total(PayoutCompletedEntries(a)) = 0
         /\ PayoutCompletedEntries(a)["VENDOR_PAYABLE"] = 0
BY DEF PayoutReserveEntries, PayoutReleaseEntries, PayoutCompletedEntries, NoEntries,
       Accounts, Total

(* A reference names its kind of posting.                                  *)
LEMMA ReferenceKind ==
  ASSUME NEW ref \in References
  PROVE  ref[1] \in ReferenceTypes
BY DEF References, ReferenceTypes

(* M is L with the entries e added to the books of the kind of ref, and    *)
(* with ref counted once more.                                             *)
Adds(L, M, ref, e) ==
  /\ \A t \in ReferenceTypes \ {ref[1]} : M.book[t] = L.book[t]
  /\ \A a \in Accounts : M.book[ref[1]][a] = L.book[ref[1]][a] + e[a]
  /\ M.posted = [L.posted EXCEPT ![ref] = L.posted[ref] + 1]
  /\ M.deCount >= L.deCount
  /\ e["VENDOR_PAYABLE"] # 0 => M.deCount > 0

(* postTransaction either returns the ledger as it is or adds the entries. *)
LEMMA PostTransactionEffect ==
  ASSUME NEW L \in Ledgers, NEW ref \in References, NEW e \in [Accounts -> Int]
  PROVE  /\ PostTransaction(L, ref, e) \in Ledgers
         /\ \/ PostTransaction(L, ref, e) = L
            \/ Adds(L, PostTransaction(L, ref, e), ref, e)
<1> DEFINE M == Create(L, ref, e)
<1>1. ref[1] \in ReferenceTypes
  BY ReferenceKind
<1>2. /\ L.book \in [ReferenceTypes -> [Accounts -> Int]]
      /\ L.posted \in [References -> Nat]
      /\ L.deCount \in Nat
  BY DEF Ledgers
<1>3. /\ M.book = [L.book EXCEPT ![ref[1]] = [a \in Accounts |-> L.book[ref[1]][a] + e[a]]]
      /\ M.posted = [L.posted EXCEPT ![ref] = L.posted[ref] + 1]
      /\ M.deCount = L.deCount + (IF e["VENDOR_PAYABLE"] = 0 THEN 0 ELSE 1)
  BY DEF Create
<1>4. M \in Ledgers
  <2>1. [a \in Accounts |-> L.book[ref[1]][a] + e[a]] \in [Accounts -> Int]
    BY <1>1, <1>2
  <2>2. M.book \in [ReferenceTypes -> [Accounts -> Int]]
    BY <1>1, <1>2, <1>3, <2>1
  <2>3. M.posted \in [References -> Nat] /\ M.deCount \in Nat
    BY <1>2, <1>3
  <2> QED
    BY <2>2, <2>3 DEF Ledgers, Create
<1>5. /\ \A t \in ReferenceTypes \ {ref[1]} : M.book[t] = L.book[t]
      /\ \A a \in Accounts : M.book[ref[1]][a] = L.book[ref[1]][a] + e[a]
  BY <1>1, <1>2, <1>3
<1>6. M.deCount >= L.deCount /\ (e["VENDOR_PAYABLE"] # 0 => M.deCount > 0)
  BY <1>2, <1>3
<1> HIDE DEF M
<1>7. PostTransaction(L, ref, e) = L \/ PostTransaction(L, ref, e) = M
  BY DEF PostTransaction, M
<1> QED
  BY <1>3, <1>4, <1>5, <1>6, <1>7 DEF Adds

(* A posting of balanced entries keeps the books of every kind balanced.   *)
LEMMA PostTransactionBalanced ==
  ASSUME NEW L \in Ledgers, NEW ref \in References, NEW e \in [Accounts -> Int],
         Total(e) = 0, Balanced(L)
  PROVE  Balanced(PostTransaction(L, ref, e))
<1> DEFINE M == PostTransaction(L, ref, e)
<1>1. ref[1] \in ReferenceTypes
  BY ReferenceKind
<1>2. CASE M = L
  BY <1>2
<1>3. CASE Adds(L, M, ref, e)
  <2> SUFFICES ASSUME NEW t \in ReferenceTypes
               PROVE  Total(M.book[t]) = 0
    BY DEF Balanced
  <2> HIDE DEF M
  <2>1. CASE t # ref[1]
    BY <1>3, <2>1 DEF Balanced, Adds
  <2>2. CASE t = ref[1]
    <3>1. L.book[t] \in [Accounts -> Int] /\ Total(L.book[t]) = 0
      BY DEF Ledgers, Balanced
    <3>2. \A a \in Accounts : M.book[t][a] = L.book[t][a] + e[a]
      BY <1>3, <2>2 DEF Adds
    <3> QED
      BY <3>1, <3>2 DEF Total, Accounts
  <2> QED
    BY <2>1, <2>2
<1>4. M = L \/ Adds(L, M, ref, e)
  BY PostTransactionEffect
<1> QED
  BY <1>2, <1>3, <1>4

-----------------------------------------------------------------------------
(* What the five postings do to the quantities of PayoutsBacked.           *)

(* The signs of the entries on VENDOR_PAYABLE, and no reserve before the   *)
(* first entry.                                                            *)
LedgerInv(L) ==
  /\ L \in Ledgers
  /\ Balanced(L)
  /\ L.book["Refund"]["VENDOR_PAYABLE"] <= 0
  /\ L.book["PayoutComplete"]["VENDOR_PAYABLE"] = 0
  /\ L.deCount = 0 => /\ L.book["Payout"]["VENDOR_PAYABLE"] = 0
                      /\ L.book["PayoutRelease"]["VENDOR_PAYABLE"] = 0

(* The quantities are integers.                                            *)
LEMMA LedgerInts ==
  ASSUME NEW L \in Ledgers
  PROVE  /\ \A t \in ReferenceTypes, a \in Accounts : L.book[t][a] \in Int
         /\ VendorCredits(L) \in Int
         /\ NetReserved(L) \in Int
         /\ L.deCount \in Nat
<1>1. \A t \in ReferenceTypes, a \in Accounts : L.book[t][a] \in Int
  BY DEF Ledgers
<1> QED
  BY <1>1 DEF Ledgers, VendorCredits, NetReserved, ReferenceTypes, Accounts

(* The empty ledger.                                                       *)
LEMMA EmptyLedgerInv == LedgerInv(EmptyLedger)
<1>1. EmptyLedger \in Ledgers
  BY DEF EmptyLedger, Ledgers, NoEntries
<1>2. Balanced(EmptyLedger)
  BY DEF Balanced, EmptyLedger, Total, NoEntries, Accounts
<1> QED
  BY <1>1, <1>2 DEF LedgerInv, EmptyLedger, NoEntries, ReferenceTypes, Accounts

(* Posting a reserve adds at most its amount to the net reserves.          *)
LEMMA ReserveStep ==
  ASSUME NEW L, LedgerInv(L), NEW p \in Payouts, NEW a \in Nat
  PROVE  LET M == PostPayoutReserve(L, p, a)
         IN  /\ LedgerInv(M)
             /\ VendorCredits(M) = VendorCredits(L)
             /\ NetReserved(M) = NetReserved(L) \/ NetReserved(M) = NetReserved(L) + a
<1> DEFINE ref == <<"Payout", p>>
           e == PayoutReserveEntries(a)
           M == PostPayoutReserve(L, p, a)
<1>1. ref \in References /\ ref[1] = "Payout"
  BY DEF References
<1>2. L \in Ledgers /\ Balanced(L)
  BY DEF LedgerInv
<1>3. e \in [Accounts -> Int] /\ Total(e) = 0 /\ e["VENDOR_PAYABLE"] = - a
  BY PayoutEntriesFacts
<1>4. M = PostTransaction(L, ref, e)
  BY DEF PostPayoutReserve
<1> HIDE DEF ref, e, M
<1>5. M \in Ledgers /\ Balanced(M) /\ (M = L \/ Adds(L, M, ref, e))
  BY <1>1, <1>2, <1>3, <1>4, PostTransactionEffect, PostTransactionBalanced
<1>6. CASE M = L
  BY <1>6 DEF M
<1>7. CASE Adds(L, M, ref, e)
  <2>1. /\ \A t \in ReferenceTypes \ {"Payout"} : M.book[t] = L.book[t]
        /\ M.book["Payout"]["VENDOR_PAYABLE"] = L.book["Payout"]["VENDOR_PAYABLE"] - a
        /\ M.deCount >= L.deCount
        /\ a # 0 => M.deCount > 0
    BY <1>1, <1>2, <1>3, <1>7, LedgerInts DEF Adds, Accounts, ReferenceTypes
  <2>2. LedgerInv(M)
    BY <1>2, <1>5, <2>1, LedgerInts DEF LedgerInv, ReferenceTypes, Accounts
  <2>3. VendorCredits(M) = VendorCredits(L)
    BY <2>1 DEF VendorCredits, ReferenceTypes
  <2>4. NetReserved(M) = NetReserved(L) + a
    BY <1>2, <2>1, LedgerInts DEF NetReserved, ReferenceTypes, Accounts
  <2> QED
    BY <2>2, <2>3, <2>4 DEF M
<1> QED
  BY <1>5, <1>6, <1>7

(* Releasing a reserve never adds to the net reserves.                     *)
LEMMA ReleaseStep ==
  ASSUME NEW L, LedgerInv(L), NEW p \in Payouts, NEW a \in Nat
  PROVE  LET M == ReleasePayoutReserve(L, p, a)
         IN  /\ LedgerInv(M)
             /\ VendorCredits(M) = VendorCredits(L)
             /\ NetReserved(M) <= NetReserved(L)
<1> DEFINE ref == <<"PayoutRelease", p>>
           e == PayoutReleaseEntries(a)
           M == ReleasePayoutReserve(L, p, a)
<1>1. ref \in References /\ ref[1] = "PayoutRelease"
  BY DEF References
<1>2. L \in Ledgers /\ Balanced(L)
  BY DEF LedgerInv
<1>3. e \in [Accounts -> Int] /\ Total(e) = 0 /\ e["VENDOR_PAYABLE"] = a
  BY PayoutEntriesFacts
<1>4. M = PostTransaction(L, ref, e)
  BY DEF ReleasePayoutReserve
<1> HIDE DEF ref, e, M
<1>5. M \in Ledgers /\ Balanced(M) /\ (M = L \/ Adds(L, M, ref, e))
  BY <1>1, <1>2, <1>3, <1>4, PostTransactionEffect, PostTransactionBalanced
<1>6. CASE M = L
  BY <1>2, <1>6, LedgerInts DEF M
<1>7. CASE Adds(L, M, ref, e)
  <2>1. /\ \A t \in ReferenceTypes \ {"PayoutRelease"} : M.book[t] = L.book[t]
        /\ M.book["PayoutRelease"]["VENDOR_PAYABLE"] = L.book["PayoutRelease"]["VENDOR_PAYABLE"] + e["VENDOR_PAYABLE"]
        /\ M.deCount >= L.deCount
        /\ e["VENDOR_PAYABLE"] # 0 => M.deCount > 0
    BY <1>1, <1>7 DEF Adds, Accounts, ReferenceTypes
  <2>2. e["VENDOR_PAYABLE"] \in Int
    BY <1>3 DEF Accounts
  <2>3. LedgerInv(M)
    BY <1>2, <1>3, <1>5, <2>1, <2>2, LedgerInts DEF LedgerInv, ReferenceTypes, Accounts
  <2>4. VendorCredits(M) = VendorCredits(L)
    BY <1>2, <1>3, <2>1, <2>2, LedgerInts DEF VendorCredits, ReferenceTypes, Accounts
  <2>5. NetReserved(M) <= NetReserved(L)
    BY <1>2, <1>3, <2>1, <2>2, LedgerInts DEF NetReserved, ReferenceTypes, Accounts
  <2> QED
    BY <2>3, <2>4, <2>5 DEF M
<1> QED
  BY <1>5, <1>6, <1>7

(* Finalizing a payout leaves VENDOR_PAYABLE alone.                        *)
LEMMA CompletedStep ==
  ASSUME NEW L, LedgerInv(L), NEW p \in Payouts, NEW a \in Nat
  PROVE  LET M == PostPayoutCompleted(L, p, a)
         IN  /\ LedgerInv(M)
             /\ VendorCredits(M) = VendorCredits(L)
             /\ NetReserved(M) = NetReserved(L)
<1> DEFINE ref == <<"PayoutComplete", p>>
           e == PayoutCompletedEntries(a)
           M == PostPayoutCompleted(L, p, a)
<1>1. ref \in References /\ ref[1] = "PayoutComplete"
  BY DEF References
<1>2. L \in Ledgers /\ Balanced(L)
  BY DEF LedgerInv
<1>3. e \in [Accounts -> Int] /\ Total(e) = 0 /\ e["VENDOR_PAYABLE"] = 0
  BY PayoutEntriesFacts
<1>4. M = PostTransaction(L, ref, e)
  BY DEF PostPayoutCompleted
<1> HIDE DEF ref, e, M
<1>5. M \in Ledgers /\ Balanced(M) /\ (M = L \/ Adds(L, M, ref, e))
  BY <1>1, <1>2, <1>3, <1>4, PostTransactionEffect, PostTransactionBalanced
<1>6. CASE M = L
  BY <1>2, <1>6, LedgerInts DEF M
<1>7. CASE Adds(L, M, ref, e)
  <2>1. /\ \A t \in ReferenceTypes \ {"PayoutComplete"} : M.book[t] = L.book[t]
        /\ M.book["PayoutComplete"]["VENDOR_PAYABLE"] = L.book["PayoutComplete"]["VENDOR_PAYABLE"] + e["VENDOR_PAYABLE"]
        /\ M.deCount >= L.deCount
        /\ e["VENDOR_PAYABLE"] # 0 => M.deCount > 0
    BY <1>1, <1>7 DEF Adds, Accounts, ReferenceTypes
  <2>2. e["VENDOR_PAYABLE"] \in Int
    BY <1>3 DEF Accounts
  <2>3. LedgerInv(M)
    BY <1>2, <1>3, <1>5, <2>1, <2>2, LedgerInts DEF LedgerInv, ReferenceTypes, Accounts
  <2>4. VendorCredits(M) = VendorCredits(L)
    BY <1>2, <1>3, <2>1, <2>2, LedgerInts DEF VendorCredits, ReferenceTypes, Accounts
  <2>5. NetReserved(M) = NetReserved(L)
    BY <1>2, <1>3, <2>1, <2>2, LedgerInts DEF NetReserved, ReferenceTypes, Accounts
  <2> QED
    BY <2>3, <2>4, <2>5 DEF M
<1> QED
  BY <1>5, <1>6, <1>7

(* A payment adds to the vendor's credits.                                 *)
LEMMA PaymentStep ==
  ASSUME NEW L, LedgerInv(L), NEW o \in Orders, NEW a \in Nat, NEW c \in Int
  PROVE  LET M == PostPayment(L, o, a, c)
         IN  /\ LedgerInv(M)
             /\ VendorCredits(M) >= VendorCredits(L)
             /\ NetReserved(M) = NetReserved(L)
<1> DEFINE ref == <<"Order", o>>
           e == PaymentEntries(a, c)
           M == PostPayment(L, o, a, c)
<1>1. ref \in References /\ ref[1] = "Order"
  BY DEF References
<1>2. L \in Ledgers /\ Balanced(L)
  BY DEF LedgerInv
<1>3. e \in [Accounts -> Int] /\ Total(e) = 0 /\ e["VENDOR_PAYABLE"] >= 0
  BY PaymentEntriesFacts
<1>4. M = PostTransaction(L, ref, e)
  BY DEF PostPayment
<1> HIDE DEF ref, e, M
<1>5. M \in Ledgers /\ Balanced(M) /\ (M = L \/ Adds(L, M, ref, e))
  BY <1>1, <1>2, <1>3, <1>4, PostTransactionEffect, PostTransactionBalanced
<1>6. CASE M = L
  BY <1>2, <1>6, LedgerInts DEF M
<1>7. CASE Adds(L, M, ref, e)
  <2>1. /\ \A t \in ReferenceTypes \ {"Order"} : M.book[t] = L.book[t]
        /\ M.book["Order"]["VENDOR_PAYABLE"] = L.book["Order"]["VENDOR_PAYABLE"] + e["VENDOR_PAYABLE"]
        /\ M.deCount >= L.deCount
        /\ e["VENDOR_PAYABLE"] # 0 => M.deCount > 0
    BY <1>1, <1>7 DEF Adds, Accounts, ReferenceTypes
  <2>2. e["VENDOR_PAYABLE"] \in Int
    BY <1>3 DEF Accounts
  <2>3. LedgerInv(M)
    BY <1>2, <1>3, <1>5, <2>1, <2>2, LedgerInts DEF LedgerInv, ReferenceTypes, Accounts
  <2>4. VendorCredits(M) >= VendorCredits(L)
    BY <1>2, <1>3, <2>1, <2>2, LedgerInts DEF VendorCredits, ReferenceTypes, Accounts
  <2>5. NetReserved(M) = NetReserved(L)
    BY <1>2, <1>3, <2>1, <2>2, LedgerInts DEF NetReserved, ReferenceTypes, Accounts
  <2> QED
    BY <2>3, <2>4, <2>5 DEF M
<1> QED
  BY <1>5, <1>6, <1>7

(* A refund changes neither the credits nor the reserves.                  *)
LEMMA RefundStep ==
  ASSUME NEW L, LedgerInv(L), NEW o \in Orders, NEW a \in Nat, NEW c \in Int
  PROVE  LET M == PostRefund(L, o, a, c)
         IN  /\ LedgerInv(M)
             /\ VendorCredits(M) = VendorCredits(L)
             /\ NetReserved(M) = NetReserved(L)
<1> DEFINE ref == <<"Refund", o>>
           e == RefundEntries(a, c)
           M == PostRefund(L, o, a, c)
<1>1. ref \in References /\ ref[1] = "Refund"
  BY DEF References
<1>2. L \in Ledgers /\ Balanced(L)
  BY DEF LedgerInv
<1>3. e \in [Accounts -> Int] /\ Total(e) = 0 /\ e["VENDOR_PAYABLE"] <= 0
  BY RefundEntriesFacts
<1>4. M = PostTransaction(L, ref, e)
  BY DEF PostRefund
<1> HIDE DEF ref, e, M
<1>5. M \in Ledgers /\ Balanced(M) /\ (M = L \/ Adds(L, M, ref, e))
  BY <1>1, <1>2, <1>3, <1>4, PostTransactionEffect, PostTransactionBalanced
<1>6. CASE M = L
  BY <1>2, <1>6, LedgerInts DEF M
<1>7. CASE Adds(L, M, ref, e)
  <2>1. /\ \A t \in ReferenceTypes \ {"Refund"} : M.book[t] = L.book[t]
        /\ M.book["Refund"]["VENDOR_PAYABLE"] = L.book["Refund"]["VENDOR_PAYABLE"] + e["VENDOR_PAYABLE"]
        /\ M.deCount >= L.deCount
        /\ e["VENDOR_PAYABLE"] # 0 => M.deCount > 0
    BY <1>1, <1>7 DEF Adds, Accounts, ReferenceTypes
  <2>2. e["VENDOR_PAYABLE"] \in Int
    BY <1>3 DEF Accounts
  <2>3. LedgerInv(M)
    BY <1>2, <1>3, <1>5, <2>1, <2>2, LedgerInts DEF LedgerInv, ReferenceTypes, Accounts
  <2>4. VendorCredits(M) = VendorCredits(L)
    BY <1>2, <1>3, <2>1, <2>2, LedgerInts DEF VendorCredits, ReferenceTypes, Accounts
  <2>5. NetReserved(M) = NetReserved(L)
    BY <1>2, <1>3, <2>1, <2>2, LedgerInts DEF NetReserved, ReferenceTypes, Accounts
  <2> QED
    BY <2>3, <2>4, <2>5 DEF M
<1> QED
  BY <1>5, <1>6, <1>7

-----------------------------------------------------------------------------
(* The inductive invariant.                                                *)

(* Only the holder of the Shop lock is between its balance check and its   *)
(* posting.                                                                *)
LockInv == \A r \in Requests : req[r].op \in Locked => lock = r

(* The amount a would still be backed if it were reserved now.             *)
Covered(a) ==
  \/ NetReserved(ledger) + a <= VendorCredits(ledger)
  \/ NetReserved(ledger) + a <= legacy.earned

(* What the balance check established lasts until the posting.             *)
CheckLasts ==
  \A r \in Requests :
    /\ req[r].op = "request" => Covered(req[r].amount)
    /\ req[r].op = "approveLocked" => Covered(amount[req[r].payout])
    /\ req[r].op = "completeLocked" /\ req[r].seen \in {"PENDING", "APPROVED"}
         => Covered(amount[req[r].payout])

IInv == TypeOK /\ LedgerInv(ledger) /\ PayoutsBacked /\ LockInv /\ CheckLasts

(* What a request in flight remembers.                                     *)
LEMMA RequestFields ==
  ASSUME TypeOK, NEW r \in Requests
  PROVE  /\ req[r] \in RequestStates
         /\ req[r].op = "request" => req[r].amount \in Amounts
         /\ req[r].op \in DecisionOps => req[r].payout \in Payouts /\ req[r].seen \in RowStatus
<1>1. req[r] \in RequestStates
  BY DEF TypeOK
<1> QED
  BY <1>1 DEF RequestStates, Idle, DecisionOps, StatusWrites

(* Amounts are natural numbers.                                            *)
LEMMA AmountNat == Amounts \subseteq Nat /\ (TypeOK => \A p \in Payouts : amount[p] \in Nat)
<1>1. Amounts \subseteq Nat
  BY AmountsAssumption
<1>2. ASSUME TypeOK, NEW p \in Payouts PROVE amount[p] \in Nat
  <2>1. amount[p] \in Amounts \cup {0}
    BY <1>2 DEF TypeOK
  <2>2. 0 \in Nat
    OBVIOUS
  <2> QED
    BY <1>1, <2>1, <2>2, Zenon
<1> QED
  BY <1>1, <1>2

(* A balance check that succeeds covers the amount: the double-entry       *)
(* balance is credits less refunds less reserves, and the legacy balance   *)
(* is used only while nothing is reserved.                                 *)
LEMMA CheckCovers ==
  ASSUME IInv, NEW a \in Nat, GetAvailableBalance >= a
  PROVE  Covered(a)
<1> DEFINE Pay(t) == ledger.book[t]["VENDOR_PAYABLE"]
<1>1. ledger \in Ledgers
  BY DEF IInv, LedgerInv
<1>2. /\ Pay("Order") \in Int /\ Pay("Refund") \in Int /\ Pay("Payout") \in Int
      /\ Pay("PayoutRelease") \in Int /\ Pay("PayoutComplete") \in Int
      /\ ledger.deCount \in Nat
  BY <1>1, LedgerInts DEF ReferenceTypes, Accounts
<1>3. legacy.earned \in Int /\ legacy.paidOut \in Nat
  BY DEF IInv, TypeOK
<1>4. Pay("Refund") <= 0 /\ Pay("PayoutComplete") = 0
  BY DEF IInv, LedgerInv
<1>5. /\ NetReserved(ledger) = - (Pay("Payout") + Pay("PayoutRelease"))
      /\ VendorCredits(ledger) = Pay("Order")
      /\ VendorPayableBalanceCents(ledger)
           = Pay("Order") + Pay("Refund") + Pay("Payout") + Pay("PayoutRelease") + Pay("PayoutComplete")
  BY DEF NetReserved, VendorCredits, VendorPayableBalanceCents, Balance
<1>6. NetReserved(ledger) <= Pay("Order") \/ NetReserved(ledger) <= legacy.earned
  BY <1>5 DEF IInv, PayoutsBacked
<1>7. Held \in Nat
  <2> DEFINE h == [p \in Payouts |-> IF status[p] \in OpenPayoutStatuses THEN amount[p] ELSE 0]
  <2>1. h \in [Payouts -> Nat] /\ DOMAIN h = Payouts
    BY AmountNat DEF IInv
  <2>2. Held = SumFunctionOnSet(h, Payouts)
    BY <2>1 DEF Held, SumFunction
  <2> HIDE DEF h
  <2> QED
    BY <2>1, <2>2, PayoutsAssumption, SumIsNat
<1>8. ledger.deCount = 0 => Pay("Payout") = 0 /\ Pay("PayoutRelease") = 0
  BY DEF IInv, LedgerInv
<1> HIDE DEF Pay
<1>9. CASE ledger.deCount > 0
  BY <1>2, <1>3, <1>4, <1>5, <1>6, <1>9 DEF GetAvailableBalance, Max0, Covered
<1>10. CASE ~(ledger.deCount > 0)
  <2>1. NetReserved(ledger) = 0
    BY <1>2, <1>5, <1>8, <1>10
  <2>2. a <= Max0(legacy.earned - legacy.paidOut - Held)
    BY <1>10 DEF GetAvailableBalance
  <2>3. a = 0 \/ a <= legacy.earned
    BY <1>3, <1>7, <2>2 DEF Max0
  <2> QED
    BY <1>2, <1>3, <1>5, <1>6, <2>1, <2>3 DEF Covered
<1> QED
  BY <1>9, <1>10

(* The initial states.                                                     *)
LEMMA InitIInv == Init => IInv
<1> SUFFICES ASSUME Init PROVE IInv
  OBVIOUS
<1>1. LedgerInv(ledger) /\ ledger \in Ledgers
  BY EmptyLedgerInv DEF Init, LedgerInv
<1>2. TypeOK
  BY <1>1, PayoutsAssumption DEF Init, TypeOK, RowStatus, PayoutStatus, RequestStates
<1>3. PayoutsBacked
  BY DEF Init, PayoutsBacked, NetReserved, VendorCredits, EmptyLedger, NoEntries,
         ReferenceTypes, Accounts
<1>4. LockInv /\ CheckLasts
  BY DEF Init, LockInv, CheckLasts, Idle, Locked
<1> QED
  BY <1>1, <1>2, <1>3, <1>4 DEF IInv

(* Steps after which the shop has at least as much, and nobody newly holds *)
(* a checked balance, keep the invariant.                                  *)
LEMMA QuietStep ==
  ASSUME IInv, TypeOK', LedgerInv(ledger'),
         NetReserved(ledger') <= NetReserved(ledger),
         VendorCredits(ledger') >= VendorCredits(ledger),
         legacy'.earned >= legacy.earned,
         amount' = amount,
         \A r \in Requests : req'[r].op \in Locked => req'[r] = req[r] /\ lock' = r
  PROVE  IInv'
<1>1. /\ NetReserved(ledger) \in Int /\ VendorCredits(ledger) \in Int
      /\ NetReserved(ledger') \in Int /\ VendorCredits(ledger') \in Int
      /\ legacy.earned \in Int /\ legacy'.earned \in Int
  BY LedgerInts DEF IInv, LedgerInv, TypeOK
<1>2. PayoutsBacked'
  BY <1>1 DEF IInv, PayoutsBacked
<1>3. LockInv'
  BY DEF LockInv
<1>4. ASSUME NEW a \in Nat,
             \/ NetReserved(ledger) + a <= VendorCredits(ledger)
             \/ NetReserved(ledger) + a <= legacy.earned
      PROVE  \/ NetReserved(ledger') + a <= VendorCredits(ledger')
             \/ NetReserved(ledger') + a <= legacy'.earned
  BY <1>1, <1>4
<1>5. CheckLasts'
  <2> SUFFICES ASSUME NEW r \in Requests, req'[r].op \in Locked
               PROVE  ( /\ req[r].op = "request" => Covered(req[r].amount)
                        /\ req[r].op = "approveLocked" => Covered(amount[req[r].payout])
                        /\ req[r].op = "completeLocked" /\ req[r].seen \in {"PENDING", "APPROVED"}
                             => Covered(amount[req[r].payout]) )'
    BY DEF CheckLasts, Locked
  <2>1. req'[r] = req[r]
    OBVIOUS
  <2>2. req[r].op = "request" => req[r].amount \in Nat
    BY RequestFields, AmountNat DEF IInv
  <2>3. req[r].op \in DecisionOps => amount[req[r].payout] \in Nat
    BY RequestFields, AmountNat DEF IInv
  <2> QED
    BY <1>4, <2>1, <2>2, <2>3 DEF IInv, CheckLasts, Covered, DecisionOps
<1> QED
  BY <1>2, <1>3, <1>5 DEF IInv

(* Payments and refunds.                                                   *)
LEMMA EnvironmentIInv ==
  ASSUME IInv, Environment
  PROVE  IInv'
<1>1. TypeOK /\ LedgerInv(ledger)
  BY DEF IInv
<1>2. /\ NetReserved(ledger) \in Int /\ VendorCredits(ledger) \in Int
      /\ legacy.earned \in Int
  BY <1>1, LedgerInts DEF LedgerInv, TypeOK
<1>3. PICK o \in Orders : OrderPaid(o) \/ PaymentPosted(o) \/ \E a \in 1..OrderTotal[o] : RefundCompleted(o, a)
  BY DEF Environment
<1>4. /\ OrderTotal[o] \in Nat /\ OrderCommission[o] \in Nat
      /\ OrderTotal[o] > 0 /\ OrderCommission[o] <= OrderTotal[o]
  BY OrdersAssumption
<1>5. \A r \in Requests : req[r].op \in Locked => lock = r
  BY DEF IInv, LockInv
<1>6. CASE OrderPaid(o)
  <2>1. TypeOK' /\ ledger' = ledger /\ legacy'.earned >= legacy.earned
        /\ amount' = amount /\ req' = req /\ lock' = lock
    BY <1>1, <1>4, <1>6 DEF OrderPaid, TypeOK
  <2> QED
    BY <1>1, <1>2, <1>5, <2>1, QuietStep
<1>7. CASE PaymentPosted(o)
  <2>1. /\ LedgerInv(ledger')
        /\ VendorCredits(ledger') >= VendorCredits(ledger)
        /\ NetReserved(ledger') = NetReserved(ledger)
    BY <1>1, <1>4, <1>7, PaymentStep DEF PaymentPosted
  <2>2. legacy' = legacy /\ paid' = paid /\ status' = status /\ amount' = amount /\ req' = req /\ lock' = lock
    BY <1>7 DEF PaymentPosted
  <2>3. TypeOK'
    BY <1>1, <2>1, <2>2 DEF TypeOK, LedgerInv
  <2> QED
    BY <1>2, <1>5, <2>1, <2>2, <2>3, QuietStep
<1>8. CASE \E a \in 1..OrderTotal[o] : RefundCompleted(o, a)
  <2>1. PICK a \in 1..OrderTotal[o] : RefundCompleted(o, a)
    BY <1>8
  <2>2. a \in Nat /\ RefundCommission(o, a) \in Int
    BY <1>4 DEF RefundCommission
  <2>3. /\ LedgerInv(ledger')
        /\ VendorCredits(ledger') = VendorCredits(ledger)
        /\ NetReserved(ledger') = NetReserved(ledger)
    BY <1>1, <2>1, <2>2, RefundStep DEF RefundCompleted
  <2>4. legacy' = legacy /\ paid' = paid /\ status' = status /\ amount' = amount /\ req' = req /\ lock' = lock
    BY <2>1 DEF RefundCompleted
  <2>5. TypeOK'
    BY <1>1, <2>3, <2>4 DEF TypeOK, LedgerInv
  <2> QED
    BY <1>2, <1>5, <2>3, <2>4, <2>5, QuietStep
<1> QED
  BY <1>3, <1>6, <1>7, <1>8

(* A request that moves, without the lock, to a state that does not hold   *)
(* it, and touches neither ledger nor amounts.                             *)
LEMMA UnlockedMove ==
  ASSUME IInv, NEW r \in Requests, NEW next \in RequestStates, next.op \notin Locked,
         req' = [req EXCEPT ![r] = next], amount' = amount, paid' = paid,
         status' \in [Payouts -> RowStatus],
         LedgerInv(ledger'), NetReserved(ledger') <= NetReserved(ledger),
         VendorCredits(ledger') = VendorCredits(ledger),
         legacy' \in [earned : Int, paidOut : Nat], legacy'.earned = legacy.earned,
         lock' = lock \/ (lock = r /\ lock' = NoRequest)
  PROVE  IInv'
<1>1. TypeOK /\ LockInv /\ req \in [Requests -> RequestStates]
  BY DEF IInv, TypeOK
<1>2. TypeOK'
  BY <1>1 DEF TypeOK, LedgerInv
<1>3. \A q \in Requests : req'[q].op \in Locked => req'[q] = req[q] /\ lock' = q
  <2> SUFFICES ASSUME NEW q \in Requests, req'[q].op \in Locked
               PROVE  req'[q] = req[q] /\ lock' = q
    OBVIOUS
  <2>1. q # r /\ req'[q] = req[q]
    BY <1>1
  <2>2. lock = q
    BY <1>1, <2>1 DEF LockInv
  <2> QED
    BY <2>1, <2>2
<1>4. VendorCredits(ledger') >= VendorCredits(ledger) /\ legacy'.earned >= legacy.earned
  BY <1>1, LedgerInts DEF TypeOK
<1> QED
  BY <1>2, <1>3, <1>4, QuietStep

(* The first read of a decision.                                           *)
LEMMA BeginIInv ==
  ASSUME IInv, NEW r \in Requests, NEW p \in Payouts, NEW op \in DecisionOps \ Locked, Begin(r, p, op)
  PROVE  IInv'
<1>1. TypeOK /\ LedgerInv(ledger)
  BY DEF IInv
<1>2. status[p] \in RowStatus
  BY <1>1 DEF Begin, TypeOK
<1>3. Deciding(op, p, status[p]) \in RequestStates /\ Deciding(op, p, status[p]).op \notin Locked
  BY <1>2 DEF Deciding, RequestStates
<1>4. NetReserved(ledger) \in Int
  BY <1>1, LedgerInts DEF TypeOK
<1>5. /\ req' = [req EXCEPT ![r] = Deciding(op, p, status[p])]
      /\ ledger' = ledger /\ legacy' = legacy /\ paid' = paid /\ status' = status
      /\ amount' = amount /\ lock' = lock
  BY DEF Begin
<1>6. status' \in [Payouts -> RowStatus] /\ legacy' \in [earned : Int, paidOut : Nat]
  BY <1>1, <1>5 DEF TypeOK
<1>7. /\ LedgerInv(ledger') /\ NetReserved(ledger') <= NetReserved(ledger)
      /\ VendorCredits(ledger') = VendorCredits(ledger) /\ legacy'.earned = legacy.earned
  BY <1>1, <1>4, <1>5
<1> QED
  BY <1>3, <1>5, <1>6, <1>7, UnlockedMove

(* The balance check of requestPayoutAtomic.                               *)
LEMMA RequestPayoutIInv ==
  ASSUME IInv, NEW r \in Requests, NEW a \in Amounts, RequestPayout(r, a)
  PROVE  IInv'
<1>1. TypeOK /\ LedgerInv(ledger) /\ PayoutsBacked /\ LockInv
  BY DEF IInv
<1>2. a \in Nat
  BY AmountNat
<1>3. Covered(a)
  BY <1>2, CheckCovers DEF RequestPayout
<1>4. Requesting(a) \in RequestStates
  BY DEF Requesting, RequestStates
<1>5. /\ req' = [req EXCEPT ![r] = Requesting(a)] /\ lock = NoRequest /\ lock' = r
      /\ UNCHANGED <<ledger, legacy, paid, status, amount>>
  BY DEF RequestPayout
<1>6. TypeOK'
  BY <1>1, <1>4, <1>5 DEF TypeOK
<1>7. \A q \in Requests : req'[q].op \in Locked => q = r /\ req'[q] = Requesting(a)
  <2> SUFFICES ASSUME NEW q \in Requests, q # r, req'[q].op \in Locked
               PROVE  FALSE
    BY <1>1, <1>5 DEF TypeOK
  <2>1. req[q].op \in Locked
    BY <1>1, <1>5 DEF TypeOK
  <2> QED
    BY <1>1, <1>5, <2>1, PayoutsAssumption DEF LockInv
<1>8. LockInv'
  BY <1>5, <1>7 DEF LockInv
<1>9. CheckLasts'
  BY <1>3, <1>5, <1>7 DEF CheckLasts, Locked, Requesting, Covered
<1>10. PayoutsBacked'
  BY <1>1, <1>5 DEF PayoutsBacked
<1> QED
  BY <1>1, <1>5, <1>6, <1>8, <1>9, <1>10 DEF IInv

(* completePayout and decidePayout take the lock and check the balance.    *)
LEMMA LockShopIInv ==
  ASSUME IInv, NEW r \in Requests, LockShop(r)
  PROVE  IInv'
<1> DEFINE p == req[r].payout
           next == IF req[r].op = "complete" THEN "completeLocked" ELSE "approveLocked"
<1>1. TypeOK /\ LedgerInv(ledger) /\ PayoutsBacked /\ LockInv
  BY DEF IInv
<1>2. req[r].op \in {"complete", "approveReserve"}
  BY DEF LockShop
<1>3. p \in Payouts /\ req[r].seen \in RowStatus /\ amount[p] \in Nat
  BY <1>1, <1>2, RequestFields, AmountNat DEF DecisionOps
<1>4. ChecksBalance(r) => Covered(amount[p])
  BY <1>3, CheckCovers DEF LockShop
<1>5. /\ req' = [req EXCEPT ![r] = Deciding(next, p, req[r].seen)] /\ lock = NoRequest /\ lock' = r
      /\ UNCHANGED <<ledger, legacy, paid, status, amount>>
  BY DEF LockShop
<1>6. Deciding(next, p, req[r].seen) \in RequestStates
  BY <1>3 DEF Deciding, RequestStates, DecisionOps
<1> HIDE DEF p
<1>7. TypeOK'
  BY <1>1, <1>5, <1>6 DEF TypeOK
<1>8. \A q \in Requests : req'[q].op \in Locked => q = r /\ req'[q] = Deciding(next, p, req[r].seen)
  <2> SUFFICES ASSUME NEW q \in Requests, q # r, req'[q].op \in Locked
               PROVE  FALSE
    BY <1>1, <1>5 DEF TypeOK
  <2>1. req[q].op \in Locked
    BY <1>1, <1>5 DEF TypeOK
  <2> QED
    BY <1>1, <1>5, <2>1, PayoutsAssumption DEF LockInv
<1>9. LockInv'
  BY <1>5, <1>8 DEF LockInv
<1>10. CheckLasts'
  BY <1>2, <1>4, <1>5, <1>8 DEF CheckLasts, Locked, Deciding, Covered, ChecksBalance
<1>11. PayoutsBacked'
  BY <1>1, <1>5 DEF PayoutsBacked
<1> QED
  BY <1>1, <1>5, <1>7, <1>9, <1>10, <1>11 DEF IInv

(* The holder of the lock commits: nobody is left with a checked balance.  *)
LEMMA CommitMove ==
  ASSUME IInv, NEW r \in Requests, req[r].op \in Locked,
         req' = [req EXCEPT ![r] = Idle], lock' = NoRequest, paid' = paid,
         status' \in [Payouts -> RowStatus],
         amount' \in [Payouts -> Amounts \cup {0}],
         legacy' \in [earned : Int, paidOut : Nat],
         LedgerInv(ledger'), PayoutsBacked'
  PROVE  IInv'
<1>1. TypeOK /\ LockInv
  BY DEF IInv
<1>2. TypeOK'
  BY <1>1 DEF TypeOK, LedgerInv, RequestStates
<1>3. \A q \in Requests : req'[q].op \notin Locked
  <2> SUFFICES ASSUME NEW q \in Requests, req'[q].op \in Locked
               PROVE  FALSE
    OBVIOUS
  <2>1. req'[q].op = "idle" \/ (q # r /\ req'[q] = req[q])
    BY <1>1 DEF TypeOK, Idle
  <2>2. CASE req'[q].op = "idle"
    BY <2>2 DEF Locked
  <2>3. CASE q # r /\ req'[q] = req[q]
    BY <1>1, <2>3 DEF LockInv
  <2> QED
    BY <2>1, <2>2, <2>3
<1>4. LockInv' /\ CheckLasts'
  BY <1>3 DEF LockInv, CheckLasts, Locked
<1> QED
  BY <1>2, <1>4 DEF IInv

(* A reserve of a covered amount leaves the reserves backed.               *)
LEMMA ReserveBacked ==
  ASSUME IInv, NEW p \in Payouts, NEW a \in Nat, Covered(a)
  PROVE  LET M == PostPayoutReserve(ledger, p, a)
         IN  /\ LedgerInv(M)
             /\ NetReserved(M) <= VendorCredits(M) \/ NetReserved(M) <= legacy.earned
<1> DEFINE M == PostPayoutReserve(ledger, p, a)
<1>1. LedgerInv(ledger) /\ ledger \in Ledgers
  BY DEF IInv, LedgerInv
<1>2. /\ LedgerInv(M)
      /\ VendorCredits(M) = VendorCredits(ledger)
      /\ NetReserved(M) = NetReserved(ledger) \/ NetReserved(M) = NetReserved(ledger) + a
  BY <1>1, ReserveStep
<1>3. NetReserved(ledger) \in Int /\ VendorCredits(ledger) \in Int /\ legacy.earned \in Int
  BY <1>1, LedgerInts DEF IInv, TypeOK
<1> HIDE DEF M
<1>4. NetReserved(M) <= VendorCredits(M) \/ NetReserved(M) <= legacy.earned
  BY <1>2, <1>3 DEF IInv, PayoutsBacked, Covered
<1> QED
  BY <1>2, <1>4 DEF M

(* The commit of requestPayoutAtomic.                                      *)
LEMMA CommitRequestIInv ==
  ASSUME IInv, NEW r \in Requests, NEW p \in Payouts, CommitRequest(r, p)
  PROVE  IInv'
<1> DEFINE a == req[r].amount
<1>1. TypeOK /\ CheckLasts
  BY DEF IInv
<1>2. req[r].op = "request"
  BY DEF CommitRequest
<1>3. a \in Amounts /\ a \in Nat
  BY <1>1, <1>2, RequestFields, AmountNat
<1>4. Covered(a)
  BY <1>1, <1>2 DEF CheckLasts
<1>5. /\ ledger' = PostPayoutReserve(ledger, p, a)
      /\ legacy' = [legacy EXCEPT !.paidOut = @ + a]
      /\ status' = [status EXCEPT ![p] = "RESERVED"]
      /\ amount' = [amount EXCEPT ![p] = a]
      /\ req' = [req EXCEPT ![r] = Idle] /\ lock' = NoRequest /\ paid' = paid
  BY DEF CommitRequest
<1> HIDE DEF a
<1>6. /\ status' \in [Payouts -> RowStatus]
      /\ amount' \in [Payouts -> Amounts \cup {0}]
      /\ legacy' \in [earned : Int, paidOut : Nat] /\ legacy'.earned = legacy.earned
  BY <1>1, <1>3, <1>5 DEF TypeOK, RowStatus, PayoutStatus
<1>7. LedgerInv(ledger') /\ PayoutsBacked'
  BY <1>3, <1>4, <1>5, <1>6, ReserveBacked DEF PayoutsBacked
<1>8. req[r].op \in Locked
  BY <1>2 DEF Locked
<1> QED
  BY <1>5, <1>6, <1>7, <1>8, CommitMove

(* The commit of decidePayout's reserve for a PENDING row.                 *)
LEMMA CommitApproveReserveIInv ==
  ASSUME IInv, NEW r \in Requests, CommitApproveReserve(r)
  PROVE  IInv'
<1> DEFINE p == req[r].payout
           a == amount[req[r].payout]
<1>1. TypeOK /\ CheckLasts
  BY DEF IInv
<1>2. req[r].op = "approveLocked"
  BY DEF CommitApproveReserve
<1>3. p \in Payouts /\ a \in Nat
  BY <1>1, <1>2, RequestFields, AmountNat DEF DecisionOps
<1>4. Covered(a)
  BY <1>1, <1>2 DEF CheckLasts
<1>5. /\ ledger' = PostPayoutReserve(ledger, p, a)
      /\ status' = [status EXCEPT ![p] = "RESERVED"]
      /\ amount' = amount /\ legacy' = legacy
      /\ req' = [req EXCEPT ![r] = Idle] /\ lock' = NoRequest /\ paid' = paid
  BY DEF CommitApproveReserve
<1> HIDE DEF p, a
<1>6. /\ status' \in [Payouts -> RowStatus]
      /\ amount' \in [Payouts -> Amounts \cup {0}]
      /\ legacy' \in [earned : Int, paidOut : Nat]
  BY <1>1, <1>3, <1>5 DEF TypeOK, RowStatus, PayoutStatus
<1>7. LedgerInv(ledger') /\ PayoutsBacked'
  BY <1>3, <1>4, <1>5, ReserveBacked DEF PayoutsBacked
<1>8. req[r].op \in Locked
  BY <1>2 DEF Locked
<1> QED
  BY <1>5, <1>6, <1>7, <1>8, CommitMove

(* The commit of completePayout.                                           *)
LEMMA CommitCompleteIInv ==
  ASSUME IInv, NEW r \in Requests, CommitComplete(r)
  PROVE  IInv'
<1> DEFINE p == req[r].payout
           a == amount[req[r].payout]
           L == IF ChecksBalance(r) THEN PostPayoutReserve(ledger, p, a) ELSE ledger
<1>1. TypeOK /\ CheckLasts /\ LedgerInv(ledger) /\ PayoutsBacked
  BY DEF IInv
<1>2. req[r].op = "completeLocked"
  BY DEF CommitComplete
<1>3. p \in Payouts /\ a \in Nat
  BY <1>1, <1>2, RequestFields, AmountNat DEF DecisionOps
<1>4. ChecksBalance(r) => Covered(a)
  BY <1>1, <1>2 DEF CheckLasts, ChecksBalance
<1>5. /\ ledger' = PostPayoutCompleted(L, p, a)
      /\ status' = [status EXCEPT ![p] = "COMPLETED"]
      /\ amount' = amount /\ legacy' = legacy
      /\ req' = [req EXCEPT ![r] = Idle] /\ lock' = NoRequest /\ paid' = paid
  BY DEF CommitComplete
<1> HIDE DEF p, a
<1>6. LedgerInv(L) /\ (NetReserved(L) <= VendorCredits(L) \/ NetReserved(L) <= legacy.earned)
  <2>1. CASE ChecksBalance(r)
    BY <1>3, <1>4, <2>1, ReserveBacked
  <2>2. CASE ~ChecksBalance(r)
    BY <1>1, <2>2 DEF PayoutsBacked
  <2> QED
    BY <2>1, <2>2
<1> HIDE DEF L
<1>7. /\ LedgerInv(ledger')
      /\ VendorCredits(ledger') = VendorCredits(L)
      /\ NetReserved(ledger') = NetReserved(L)
  BY <1>3, <1>5, <1>6, CompletedStep
<1>8. PayoutsBacked'
  BY <1>5, <1>6, <1>7 DEF PayoutsBacked
<1>9. /\ status' \in [Payouts -> RowStatus]
      /\ amount' \in [Payouts -> Amounts \cup {0}]
      /\ legacy' \in [earned : Int, paidOut : Nat]
  BY <1>1, <1>3, <1>5 DEF TypeOK, RowStatus, PayoutStatus
<1>10. req[r].op \in Locked
  BY <1>2 DEF Locked
<1> QED
  BY <1>5, <1>7, <1>8, <1>9, <1>10, CommitMove

(* The steps that keep the ledger as it is and free the request, or let it *)
(* remember what it read.                                                  *)
LEMMA ReadAndWriteIInv ==
  ASSUME IInv, NEW r \in Requests,
         ReadRow(r) \/ InsufficientBalance(r) \/ WriteStatus(r) \/ CommitAdminPaid(r) \/ Abort(r)
  PROVE  IInv'
<1>1. TypeOK /\ LedgerInv(ledger)
  BY DEF IInv
<1>2. NetReserved(ledger) \in Int
  BY <1>1, LedgerInts DEF TypeOK
<1>3. Idle \in RequestStates /\ Idle.op \notin Locked
  BY DEF Idle, RequestStates, Locked
<1>4. ledger' = ledger /\ paid' = paid /\ amount' = amount
  BY DEF ReadRow, InsufficientBalance, WriteStatus, CommitAdminPaid, Abort
<1>5. /\ LedgerInv(ledger') /\ NetReserved(ledger') <= NetReserved(ledger)
      /\ VendorCredits(ledger') = VendorCredits(ledger)
  BY <1>1, <1>2, <1>4
<1>6. CASE ReadRow(r)
  <2>1. req[r].payout \in Payouts
    BY <1>1, <1>6, RequestFields DEF ReadRow, DecisionOps
  <2>2. req[r].seen \in RowStatus
    BY <1>1, <1>6, RequestFields DEF ReadRow, DecisionOps
  <2> DEFINE now == status[req[r].payout]
             go == \/ /\ req[r].op = "startComplete"
                      /\ now \in OpenPayoutStatuses
                   \/ /\ req[r].op = "startFail"
                      /\ now \notin {"COMPLETED", "PAID", "FAILED", "CANCELLED"}
             op == IF req[r].op = "startComplete" THEN "complete" ELSE "fail"
             next == IF go THEN Deciding(op, req[r].payout, now) ELSE Idle
  <2>3. req' = [req EXCEPT ![r] = next]
    BY <1>6 DEF ReadRow
  <2>4. next \in RequestStates /\ next.op \notin Locked
    <3>1. CASE go
      <4>1. now \in RowStatus
        BY <1>1, <2>1 DEF TypeOK
      <4>2. next = Deciding(op, req[r].payout, now)
        BY <3>1
      <4> HIDE DEF now, next, go
      <4> QED
        BY <2>1, <4>1, <4>2 DEF Deciding, RequestStates, DecisionOps, Locked
    <3>2. CASE ~go
      BY <1>3, <3>2
    <3> QED
      BY <3>1, <3>2
  <2>5. legacy' = legacy /\ status' = status /\ lock' = lock
    BY <1>6 DEF ReadRow
  <2>6. status' \in [Payouts -> RowStatus] /\ legacy' \in [earned : Int, paidOut : Nat]
    BY <1>1, <2>5 DEF TypeOK
  <2> HIDE DEF next
  <2> QED
    BY <1>4, <1>5, <2>3, <2>4, <2>5, <2>6, UnlockedMove
<1>7. CASE InsufficientBalance(r) \/ Abort(r)
  <2>1. /\ req' = [req EXCEPT ![r] = Idle] /\ legacy' = legacy /\ status' = status
        /\ lock' = lock \/ (lock = r /\ lock' = NoRequest)
    BY <1>7 DEF InsufficientBalance, Abort
  <2>2. status' \in [Payouts -> RowStatus] /\ legacy' \in [earned : Int, paidOut : Nat]
    BY <1>1, <2>1 DEF TypeOK
  <2> QED
    BY <1>3, <1>4, <1>5, <2>1, <2>2, UnlockedMove
<1>8. CASE WriteStatus(r)
  <2>1. /\ req' = [req EXCEPT ![r] = Idle] /\ legacy' = legacy /\ lock' = lock
        /\ status' = [status EXCEPT ![req[r].payout] = WrittenStatus(req[r].op)]
        /\ req[r].op \in StatusWrites
    BY <1>8 DEF WriteStatus
  <2>2. WrittenStatus(req[r].op) \in PayoutStatus
    BY <2>1 DEF WrittenStatus, PayoutStatus, StatusWrites
  <2>3. status' \in [Payouts -> RowStatus] /\ legacy' \in [earned : Int, paidOut : Nat]
    BY <1>1, <2>1, <2>2 DEF TypeOK, RowStatus
  <2> QED
    BY <1>3, <1>4, <1>5, <2>1, <2>3, UnlockedMove
<1>9. CASE CommitAdminPaid(r)
  <2>1. amount[req[r].payout] \in Nat
    BY <1>1, <1>9, RequestFields, AmountNat DEF CommitAdminPaid, DecisionOps
  <2>2. /\ req' = [req EXCEPT ![r] = Idle] /\ lock' = lock
        /\ status' = [status EXCEPT ![req[r].payout] = "PAID"]
        /\ legacy' = [legacy EXCEPT !.paidOut = @ + amount[req[r].payout]]
    BY <1>9 DEF CommitAdminPaid
  <2>3. /\ status' \in [Payouts -> RowStatus]
        /\ legacy' \in [earned : Int, paidOut : Nat] /\ legacy'.earned = legacy.earned
    <3>1. status' \in [Payouts -> RowStatus]
      BY <1>1, <2>2 DEF TypeOK, RowStatus, PayoutStatus
    <3>2. legacy \in [earned : Int, paidOut : Nat]
      BY <1>1 DEF TypeOK
    <3> QED
      BY <2>1, <2>2, <3>1, <3>2
  <2> QED
    BY <1>3, <1>4, <1>5, <2>2, <2>3, UnlockedMove
<1> QED
  BY <1>6, <1>7, <1>8, <1>9

(* The commit of failPayout.                                               *)
LEMMA CommitFailIInv ==
  ASSUME IInv, NEW r \in Requests, CommitFail(r)
  PROVE  IInv'
<1> DEFINE p == req[r].payout
           a == amount[req[r].payout]
<1>1. TypeOK /\ LedgerInv(ledger)
  BY DEF IInv
<1>2. p \in Payouts /\ a \in Nat
  BY <1>1, RequestFields, AmountNat DEF CommitFail, DecisionOps
<1>3. /\ ledger' = IF HeldReserve(r) THEN ReleasePayoutReserve(ledger, p, a) ELSE ledger
      /\ legacy' = IF HeldReserve(r) THEN [legacy EXCEPT !.paidOut = @ + a] ELSE legacy
      /\ status' = [status EXCEPT ![p] = "FAILED"]
      /\ req' = [req EXCEPT ![r] = Idle] /\ lock' = lock /\ paid' = paid /\ amount' = amount
  BY DEF CommitFail
<1>4. NetReserved(ledger) \in Int
  BY <1>1, LedgerInts DEF TypeOK
<1> HIDE DEF p, a
<1>5. /\ LedgerInv(ledger') /\ NetReserved(ledger') <= NetReserved(ledger)
      /\ VendorCredits(ledger') = VendorCredits(ledger)
  BY <1>1, <1>2, <1>3, <1>4, ReleaseStep
<1>6. /\ status' \in [Payouts -> RowStatus]
      /\ legacy' \in [earned : Int, paidOut : Nat] /\ legacy'.earned = legacy.earned
  <2>1. status' \in [Payouts -> RowStatus]
    BY <1>1, <1>3 DEF TypeOK, RowStatus, PayoutStatus
  <2>2. legacy' \in [earned : Int, paidOut : Nat] /\ legacy'.earned = legacy.earned
    <3>1. legacy \in [earned : Int, paidOut : Nat]
      BY <1>1 DEF TypeOK
    <3>2. CASE HeldReserve(r)
      BY <1>2, <1>3, <3>1, <3>2
    <3>3. CASE ~HeldReserve(r)
      BY <1>3, <3>1, <3>3
    <3> QED
      BY <3>2, <3>3
  <2> QED
    BY <2>1, <2>2
<1>7. Idle \in RequestStates /\ Idle.op \notin Locked
  BY DEF Idle, RequestStates, Locked
<1> QED
  BY <1>3, <1>5, <1>6, <1>7, UnlockedMove

(* Every step keeps the invariant.                                         *)
LEMMA NextIInv == IInv /\ [Next]_vars => IInv'
<1> SUFFICES ASSUME IInv, [Next]_vars PROVE IInv'
  OBVIOUS
<1>1. CASE Environment
  BY <1>1, EnvironmentIInv
<1>2. ASSUME NEW r \in Requests, Arrival(r) PROVE IInv'
  <2>1. ASSUME NEW a \in Amounts, RequestPayout(r, a) PROVE IInv'
    BY <2>1, RequestPayoutIInv
  <2>2. ASSUME NEW p \in Payouts, NEW d \in Decisions,
               DecidePayout(r, p, d) \/ ProcessPayout(r, p, d) \/ MarkPayoutProcessing(r, p, d)
        PROVE  IInv'
    <3>1. \E op \in DecisionOps \ Locked : Begin(r, p, op)
      BY <2>2 DEF DecidePayout, ProcessPayout, MarkPayoutProcessing, DecisionOps, StatusWrites, Locked
    <3> QED
      BY <3>1, BeginIInv
  <2> QED
    BY <1>2, <2>1, <2>2 DEF Arrival
<1>3. ASSUME NEW r \in Requests, Advance(r) PROVE IInv'
  BY <1>3, CommitRequestIInv, ReadAndWriteIInv, LockShopIInv, CommitCompleteIInv,
     CommitApproveReserveIInv, CommitFailIInv DEF Advance
<1>4. ASSUME NEW r \in Requests, Abort(r) PROVE IInv'
  BY <1>4, ReadAndWriteIInv
<1>5. CASE UNCHANGED vars
  <2>1. /\ ledger' = ledger /\ legacy' = legacy /\ paid' = paid /\ status' = status
        /\ amount' = amount /\ req' = req /\ lock' = lock
    BY <1>5 DEF vars
  <2> QED
    BY <2>1 DEF IInv, TypeOK, PayoutsBacked, LockInv, CheckLasts, Covered
<1> QED
  BY <1>1, <1>2, <1>3, <1>4, <1>5 DEF Next

(* The invariant holds in every reachable state.                           *)
THEOREM Invariance == Spec => []IInv
BY InitIInv, NextIInv, PTL DEF Spec

(* Type correctness of the payout tables, the ledger and the requests.     *)
THEOREM TypeCorrect == Spec => []TypeOK
<1>1. IInv => TypeOK
  BY DEF IInv
<1> QED
  BY <1>1, Invariance, PTL

(* Debits equal credits in the whole ledger, always: whatever payments,    *)
(* refunds and payout handlers post, for any amounts and commissions.      *)
THEOREM AlwaysDoubleEntry == Spec => []DoubleEntry
<1>1. IInv => DoubleEntry
  BY DEF IInv, LedgerInv, DoubleEntry
<1> QED
  BY <1>1, Invariance, PTL

(* Any number of concurrent payout requests and decisions never reserve    *)
(* more than the shop earned: the Shop lock of requestPayoutAtomic,        *)
(* completePayout and decidePayout is enough, although payments and        *)
(* refunds post without it.                                                *)
THEOREM NoOverdraft == Spec => []PayoutsBacked
<1>1. IInv => PayoutsBacked
  BY DEF IInv
<1> QED
  BY <1>1, Invariance, PTL

-----------------------------------------------------------------------------
(* One administrator at a time: the ledger and the rows agree.             *)

SetAside == {"RESERVED", "PROCESSING"}

Available(L) == Balance(L, "VENDOR_AVAILABLE")

\* What the rows set aside.
Aside == [p \in Payouts |-> IF status[p] \in SetAside THEN amount[p] ELSE 0]

\* A row that is set aside was neither released nor completed, and one that is not there has
\* no posting.
RowFact(p) ==
  /\ status[p] \in {"none", "COMPLETED", "FAILED", "REJECTED"} \cup SetAside
  /\ status[p] = "none" => ledger.posted[<<"Payout", p>>] = 0
  /\ status[p] \in {"none"} \cup SetAside =>
       ledger.posted[<<"PayoutRelease", p>>] = 0 /\ ledger.posted[<<"PayoutComplete", p>>] = 0
  /\ status[p] \in SetAside => amount[p] \in Amounts

\* What the one administrator read still holds.
SoleRequest(r, admin) ==
  /\ req[r].op \in {"idle", "request"} \/ r = admin
  /\ req[r].op \in {"idle", "request", "startComplete", "startFail", "complete",
                    "completeLocked", "fail", "reject", "processing"}
  /\ req[r].op \in {"complete", "completeLocked", "fail", "startFail", "processing"} =>
       status[req[r].payout] \in SetAside
  /\ req[r].op \in {"complete", "completeLocked", "fail"} => req[r].seen \in SetAside
  /\ req[r].op = "startComplete" => status[req[r].payout] # "none"
  /\ req[r].op = "reject" => status[req[r].payout] \notin {"none"} \cup SetAside

SoleFact(admin) == \A r \in Requests : SoleRequest(r, admin)

SoleInv(admin) ==
  /\ IInv /\ SoleFact(admin)
  /\ \A p \in Payouts : RowFact(p)
  /\ Available(ledger) = SumFunctionOnSet(Aside, Payouts)

SoleArrival(r, admin) ==
  \/ \E a \in Amounts : RequestPayout(r, a)
  \/ /\ r = admin
     /\ \E p \in Payouts, d \in {"PAID", "REJECTED", "PROCESSING"} :
          DecidePayout(r, p, d) \/ ProcessPayout(r, p, d) \/ MarkPayoutProcessing(r, p, d)

\* A balanced posting that is new is made.
LEMMA NewPosting ==
  ASSUME NEW L \in Ledgers, NEW ref \in References, NEW e \in [Accounts -> Int],
         Total(e) = 0, NEW b \in Accounts, e[b] # 0, L.posted[ref] = 0
  PROVE  LET M == PostTransaction(L, ref, e)
         IN  /\ Available(M) = Available(L) + e["VENDOR_AVAILABLE"]
             /\ \A x \in References : x # ref => M.posted[x] = L.posted[x]
<1> DEFINE M == PostTransaction(L, ref, e)
<1>1. e # NoEntries
  BY DEF NoEntries
<1>2. M = Create(L, ref, e)
  BY <1>1 DEF PostTransaction, AssertBalanced, IsPosted
<1>3. ref[1] \in ReferenceTypes
  BY ReferenceKind
<1>4. L.book \in [ReferenceTypes -> [Accounts -> Int]] /\ L.posted \in [References -> Nat]
  BY DEF Ledgers
<1>5. /\ M.book = [L.book EXCEPT ![ref[1]] = [a \in Accounts |-> L.book[ref[1]][a] + e[a]]]
      /\ M.posted = [L.posted EXCEPT ![ref] = L.posted[ref] + 1]
  BY <1>2 DEF Create
<1> HIDE DEF M
<1>6. /\ \A t \in ReferenceTypes : t # ref[1] => M.book[t]["VENDOR_AVAILABLE"] = L.book[t]["VENDOR_AVAILABLE"]
      /\ M.book[ref[1]]["VENDOR_AVAILABLE"] = L.book[ref[1]]["VENDOR_AVAILABLE"] + e["VENDOR_AVAILABLE"]
      /\ \A t \in ReferenceTypes : L.book[t]["VENDOR_AVAILABLE"] \in Int
      /\ e["VENDOR_AVAILABLE"] \in Int
  BY <1>3, <1>4, <1>5 DEF Accounts
<1>7. Available(M) = Available(L) + e["VENDOR_AVAILABLE"]
  BY <1>3, <1>6 DEF Available, Balance, ReferenceTypes
<1>8. \A x \in References : x # ref => M.posted[x] = L.posted[x]
  BY <1>4, <1>5
<1> QED BY <1>7, <1>8 DEF M

\* A posting that leaves VENDOR_AVAILABLE alone, made or not.
LEMMA OtherPosting ==
  ASSUME NEW L \in Ledgers, NEW ref \in References, NEW e \in [Accounts -> Int], e["VENDOR_AVAILABLE"] = 0
  PROVE  LET M == PostTransaction(L, ref, e)
         IN  /\ Available(M) = Available(L)
             /\ \A x \in References : x # ref => M.posted[x] = L.posted[x]
<1> DEFINE M == PostTransaction(L, ref, e)
<1>1. ref[1] \in ReferenceTypes
  BY ReferenceKind
<1>2. /\ L.book \in [ReferenceTypes -> [Accounts -> Int]] /\ L.posted \in [References -> Nat]
      /\ M = L \/ Adds(L, M, ref, e)
  BY PostTransactionEffect DEF Ledgers
<1> HIDE DEF M
<1>3. CASE M = L
  BY <1>3 DEF M
<1>4. CASE Adds(L, M, ref, e)
  <2>1. /\ \A t \in ReferenceTypes : t # ref[1] => M.book[t]["VENDOR_AVAILABLE"] = L.book[t]["VENDOR_AVAILABLE"]
        /\ M.book[ref[1]]["VENDOR_AVAILABLE"] = L.book[ref[1]]["VENDOR_AVAILABLE"]
        /\ \A t \in ReferenceTypes : L.book[t]["VENDOR_AVAILABLE"] \in Int
        /\ M.posted = [L.posted EXCEPT ![ref] = L.posted[ref] + 1]
    BY <1>1, <1>2, <1>4 DEF Adds, Accounts
  <2>2. Available(M) = Available(L)
    BY <1>1, <2>1 DEF Available, Balance, ReferenceTypes
  <2>3. \A x \in References : x # ref => M.posted[x] = L.posted[x]
    BY <1>2, <2>1
  <2> QED BY <2>2, <2>3 DEF M
<1> QED BY <1>2, <1>3, <1>4

\* The references of payouts.
LEMMA PayoutReferences ==
  ASSUME NEW p \in Payouts, NEW t \in {"Payout", "PayoutRelease", "PayoutComplete"}
  PROVE  <<t, p>> \in References
  BY DEF References

\* What the rows set aside are natural numbers.
LEMMA AsideNat ==
  ASSUME TypeOK
  PROVE  Aside \in [Payouts -> Nat] /\ SumFunctionOnSet(Aside, Payouts) \in Nat
<1>1. Aside \in [Payouts -> Nat]
  BY AmountNat DEF Aside
<1> QED BY <1>1, SumIsNat, PayoutsAssumption

\* Of the rows, one changes.
LEMMA AsideChanges ==
  ASSUME TypeOK, TypeOK', NEW p \in Payouts,
         \A q \in Payouts : q # p => status'[q] = status[q] /\ amount'[q] = amount[q]
  PROVE  SumFunctionOnSet(Aside', Payouts) = SumFunctionOnSet(Aside, Payouts) - Aside[p] + Aside'[p]
<1>1. Aside \in [Payouts -> Nat] /\ Aside' \in [Payouts -> Nat]
  <2>1. \A q \in Payouts : amount'[q] \in Nat
    <3>1. amount' \in [Payouts -> Amounts \cup {0}]
      BY DEF TypeOK
    <3>2. ASSUME NEW q \in Payouts PROVE amount'[q] \in Amounts \cup {0}
      BY <3>1
    <3>3. Amounts \cup {0} \subseteq Nat
      BY AmountNat
    <3> QED BY <3>2, <3>3, Zenon
  <2> QED BY <2>1, AsideNat DEF Aside
<1>2. \A q \in Payouts : q # p => Aside'[q] = Aside[q]
  BY DEF Aside
<1> HIDE DEF Aside
<1> QED BY <1>1, <1>2, SumChanges, PayoutsAssumption

\* A step of one request that leaves the rows the others are about.
LEMMA SoleMove ==
  ASSUME TypeOK, NEW admin, SoleFact(admin), NEW r \in Requests, NEW x,
         req' = [req EXCEPT ![r] = x],
         \A s \in Requests \ {r} :
           req[s].op \in {"idle", "request"} \/ status'[req[s].payout] = status[req[s].payout],
         SoleRequest(r, admin)'
  PROVE  SoleFact(admin)'
<1> SUFFICES ASSUME NEW s \in Requests, s # r PROVE SoleRequest(s, admin)'
  BY DEF SoleFact
<1>1. req'[s] = req[s]
  BY DEF TypeOK
<1>2. SoleRequest(s, admin)
  BY DEF SoleFact
<1> QED BY <1>1, <1>2 DEF SoleRequest

\* An idle request.
LEMMA SoleIdle ==
  ASSUME TypeOK, NEW admin, NEW r \in Requests, req' = [req EXCEPT ![r] = Idle]
  PROVE  SoleRequest(r, admin)'
<1>1. req'[r].op = "idle"
  BY DEF TypeOK, Idle
<1> QED BY <1>1 DEF SoleRequest

\* A step that leaves the rows and the postings about them.
LEMMA SoleFrame ==
  ASSUME NEW admin, SoleInv(admin), IInv', SoleFact(admin)',
         status' = status, amount' = amount, Available(ledger') = Available(ledger),
         \A p \in Payouts, t \in {"Payout", "PayoutRelease", "PayoutComplete"} :
           ledger'.posted[<<t, p>>] = ledger.posted[<<t, p>>]
  PROVE  SoleInv(admin)'
<1>1. Aside' = Aside
  BY DEF Aside
<1>2. ASSUME NEW p \in Payouts PROVE RowFact(p)'
  <2>1. RowFact(p)
    BY DEF SoleInv
  <2> QED BY <2>1 DEF RowFact
<1> QED BY <1>1, <1>2 DEF SoleInv

\* Payments and refunds do not touch what is set aside.
LEMMA EnvironmentSole ==
  ASSUME NEW admin, SoleInv(admin), Environment
  PROVE  SoleInv(admin)'
<1>1. IInv /\ IInv' /\ TypeOK /\ ledger \in Ledgers
  BY EnvironmentIInv DEF SoleInv, IInv, TypeOK
<1>2. PICK o \in Orders : OrderPaid(o) \/ PaymentPosted(o) \/ \E a \in 1..OrderTotal[o] : RefundCompleted(o, a)
  BY DEF Environment
<1>3. OrderTotal[o] \in Nat /\ OrderCommission[o] \in Nat /\ OrderTotal[o] > 0
  BY OrdersAssumption
<1>4. status' = status /\ amount' = amount /\ req' = req
  BY <1>2 DEF OrderPaid, PaymentPosted, RefundCompleted
<1>5. SoleFact(admin)'
  BY <1>4 DEF SoleInv, SoleFact, SoleRequest
<1>6. /\ Available(ledger') = Available(ledger)
      /\ \A p \in Payouts, t \in {"Payout", "PayoutRelease", "PayoutComplete"} :
           ledger'.posted[<<t, p>>] = ledger.posted[<<t, p>>]
  <2>1. CASE OrderPaid(o)
    BY <2>1 DEF OrderPaid
  <2>2. ASSUME NEW t \in {"Order", "Refund"}, NEW e \in [Accounts -> Int], e["VENDOR_AVAILABLE"] = 0,
               ledger' = PostTransaction(ledger, <<t, o>>, e)
        PROVE  <1>6!1 /\ <1>6!2
    <3>1. <<t, o>> \in References
      BY DEF References
    <3>2. /\ Available(ledger') = Available(ledger)
          /\ \A x \in References : x # <<t, o>> => ledger'.posted[x] = ledger.posted[x]
      BY <1>1, <2>2, <3>1, OtherPosting
    <3>3. ASSUME NEW p \in Payouts, NEW u \in {"Payout", "PayoutRelease", "PayoutComplete"}
          PROVE  <<u, p>> \in References /\ <<u, p>> # <<t, o>>
      BY PayoutReferences
    <3> QED BY <3>2, <3>3
  <2>3. CASE PaymentPosted(o)
    <3>1. /\ PaymentEntries(OrderTotal[o], OrderCommission[o]) \in [Accounts -> Int]
          /\ PaymentEntries(OrderTotal[o], OrderCommission[o])["VENDOR_AVAILABLE"] = 0
      <4>1. PaymentEntries(OrderTotal[o], OrderCommission[o]) \in [Accounts -> Int]
        BY <1>3, PaymentEntriesFacts
      <4>2. PaymentEntries(OrderTotal[o], OrderCommission[o])["VENDOR_AVAILABLE"] = 0
        BY DEF PaymentEntries, NoEntries, Accounts
      <4> QED BY <4>1, <4>2
    <3> QED BY <2>2, <2>3, <3>1 DEF PaymentPosted, PostPayment
  <2>4. ASSUME NEW a \in 1..OrderTotal[o], RefundCompleted(o, a) PROVE <1>6!1 /\ <1>6!2
    <3>1. RefundCommission(o, a) \in Int /\ a \in Nat
      BY <1>3 DEF RefundCommission
    <3>2. /\ RefundEntries(a, RefundCommission(o, a)) \in [Accounts -> Int]
          /\ RefundEntries(a, RefundCommission(o, a))["VENDOR_AVAILABLE"] = 0
      BY <3>1, RefundEntriesFacts DEF RefundEntries, NoEntries, Accounts
    <3> QED BY <2>2, <2>4, <3>2 DEF RefundCompleted, PostRefund
  <2> QED BY <1>2, <2>1, <2>3, <2>4
<1> QED BY <1>1, <1>4, <1>5, <1>6, SoleFrame

\* Calls that begin.
LEMMA ArrivalSole ==
  ASSUME NEW admin, SoleInv(admin), NEW r \in Requests, SoleArrival(r, admin)
  PROVE  SoleInv(admin)'
<1>1. IInv /\ TypeOK /\ SoleFact(admin) /\ \A p \in Payouts : RowFact(p)
  BY DEF SoleInv, IInv
<1>2. ASSUME NEW a \in Amounts, RequestPayout(r, a) PROVE SoleInv(admin)'
  <2>1. IInv'
    BY <1>1, <1>2, RequestPayoutIInv
  <2>2. /\ req' = [req EXCEPT ![r] = Requesting(a)]
        /\ status' = status /\ amount' = amount /\ ledger' = ledger
    BY <1>2 DEF RequestPayout
  <2>3. SoleRequest(r, admin)'
    <3>1. req'[r].op = "request"
      BY <1>1, <2>2 DEF TypeOK, Requesting
    <3> QED BY <3>1 DEF SoleRequest
  <2>4. SoleFact(admin)'
    BY <1>1, <2>2, <2>3, SoleMove
  <2> QED BY <2>1, <2>2, <2>4, SoleFrame
<1>3. ASSUME NEW p \in Payouts, NEW op \in {"startComplete", "startFail", "reject", "processing"},
             r = admin, Begin(r, p, op),
             op \in {"startFail", "processing"} => status[p] \in SetAside,
             op = "reject" => status[p] \notin SetAside
      PROVE  SoleInv(admin)'
  <2>1. IInv'
    BY <1>1, <1>3, BeginIInv DEF DecisionOps, StatusWrites, Locked
  <2>2. /\ req' = [req EXCEPT ![r] = Deciding(op, p, status[p])] /\ status[p] # "none"
        /\ status' = status /\ amount' = amount /\ ledger' = ledger
    BY <1>3 DEF Begin
  <2>3. SoleRequest(r, admin)'
    <3>1. req'[r].op = op /\ req'[r].payout = p
      BY <1>1, <2>2 DEF TypeOK, Deciding
    <3> QED BY <1>3, <2>2, <3>1 DEF SoleRequest
  <2>4. SoleFact(admin)'
    BY <1>1, <2>2, <2>3, SoleMove
  <2> QED BY <2>1, <2>2, <2>4, SoleFrame
<1>4. ASSUME NEW p \in Payouts, NEW d \in {"PAID", "REJECTED", "PROCESSING"}, r = admin,
             DecidePayout(r, p, d) \/ ProcessPayout(r, p, d) \/ MarkPayoutProcessing(r, p, d)
      PROVE  SoleInv(admin)'
  <2>1. RowFact(p)
    BY <1>1
  <2>2. CASE DecidePayout(r, p, d)
    BY <1>3, <1>4, <2>2 DEF DecidePayout, SetAside
  <2>3. CASE ProcessPayout(r, p, d)
    BY <1>4, <2>3 DEF ProcessPayout
  <2>4. CASE MarkPayoutProcessing(r, p, d)
    BY <1>3, <1>4, <2>1, <2>4 DEF MarkPayoutProcessing, RowFact, SetAside
  <2> QED BY <1>4, <2>2, <2>3, <2>4
<1> QED BY <1>2, <1>4 DEF SoleArrival

\* The steps that change neither rows nor postings.
LEMMA QuietSole ==
  ASSUME NEW admin, SoleInv(admin), NEW r \in Requests,
         ReadRow(r) \/ LockShop(r) \/ InsufficientBalance(r) \/ Abort(r)
  PROVE  SoleInv(admin)'
<1>1. IInv /\ IInv' /\ TypeOK /\ SoleFact(admin) /\ \A p \in Payouts : RowFact(p)
  BY ReadAndWriteIInv, LockShopIInv DEF SoleInv, IInv
<1>2. status' = status /\ amount' = amount /\ ledger' = ledger
  BY DEF ReadRow, LockShop, InsufficientBalance, Abort
<1>3. SoleRequest(r, admin)
  BY <1>1 DEF SoleFact
<1>4. PICK x : req' = [req EXCEPT ![r] = x]
  BY DEF ReadRow, LockShop, InsufficientBalance, Abort
<1>5. req'[r] = x
  BY <1>1, <1>4 DEF TypeOK
<1>6. SoleRequest(r, admin)'
  <2>1. CASE InsufficientBalance(r) \/ Abort(r)
    BY <1>1, <2>1, SoleIdle DEF InsufficientBalance, Abort
  <2>2. CASE LockShop(r)
    <3>1. req[r].op = "complete"
      BY <1>3, <2>2 DEF LockShop, SoleRequest
    <3>2. req'[r] = Deciding("completeLocked", req[r].payout, req[r].seen)
      BY <1>1, <2>2, <3>1 DEF LockShop, TypeOK
    <3>3. /\ req'[r].op = "completeLocked" /\ req'[r].payout = req[r].payout
          /\ req'[r].seen = req[r].seen
      BY <3>2 DEF Deciding
    <3> QED BY <1>2, <1>3, <3>1, <3>3 DEF SoleRequest
  <2>3. CASE ReadRow(r)
    <3> DEFINE now == status[req[r].payout]
               next == IF req[r].op = "startComplete" THEN "complete" ELSE "fail"
    <3>1. req[r].payout \in Payouts /\ req[r].op \in {"startComplete", "startFail"}
      BY <1>1, <2>3, RequestFields DEF ReadRow, DecisionOps
    <3>2. RowFact(req[r].payout)
      BY <1>1, <3>1
    <3>3. CASE req' = [req EXCEPT ![r] = Idle]
      BY <1>1, <3>3, SoleIdle
    <3>4. CASE /\ req' = [req EXCEPT ![r] = Deciding(next, req[r].payout, now)]
               /\ req[r].op = "startComplete" => now \in OpenPayoutStatuses
      <4>1. req'[r] = Deciding(next, req[r].payout, now)
        BY <1>1, <3>4 DEF TypeOK
      <4>2. /\ req'[r].op = next /\ req'[r].payout = req[r].payout /\ req'[r].seen = now
        BY <4>1 DEF Deciding
      <4>3. now \in SetAside
        <5>1. CASE req[r].op = "startComplete"
          BY <3>2, <3>4, <5>1 DEF RowFact, OpenPayoutStatuses, SetAside
        <5>2. CASE req[r].op = "startFail"
          BY <1>3, <5>2 DEF SoleRequest
        <5> QED BY <3>1, <5>1, <5>2
      <4>4. next \in {"complete", "fail"} /\ status'[req'[r].payout] = now
        BY <1>2, <4>2
      <4>5. r = admin
        BY <1>3, <3>1 DEF SoleRequest
      <4> HIDE DEF now, next
      <4> QED BY <4>2, <4>3, <4>4, <4>5 DEF SoleRequest
    <3>5. \/ <3>3!1
          \/ <3>4!1
      BY <2>3 DEF ReadRow
    <3> QED BY <3>3, <3>4, <3>5
  <2> QED BY <2>1, <2>2, <2>3
<1>7. SoleFact(admin)'
  BY <1>1, <1>2, <1>4, <1>6, SoleMove
<1> QED BY <1>1, <1>2, <1>7, SoleFrame

\* A step about one row.
LEMMA SoleRow ==
  ASSUME NEW admin, SoleInv(admin), IInv', SoleFact(admin)', NEW p \in Payouts, RowFact(p)',
         \A q \in Payouts \ {p} :
           /\ status'[q] = status[q] /\ amount'[q] = amount[q]
           /\ \A t \in {"Payout", "PayoutRelease", "PayoutComplete"} :
                ledger'.posted[<<t, q>>] = ledger.posted[<<t, q>>],
         Available(ledger') = Available(ledger) - Aside[p] + Aside'[p]
  PROVE  SoleInv(admin)'
<1>1. TypeOK /\ TypeOK'
  BY DEF SoleInv, IInv
<1>2. Available(ledger') = SumFunctionOnSet(Aside', Payouts)
  BY <1>1, AsideChanges DEF SoleInv
<1>3. ASSUME NEW q \in Payouts, q # p PROVE RowFact(q)'
  <2>1. RowFact(q)
    BY DEF SoleInv
  <2> QED BY <1>3, <2>1 DEF RowFact
<1> QED BY <1>2, <1>3 DEF SoleInv

\* The postings of payouts, made for the first time.
LEMMA PayoutPosting ==
  ASSUME NEW L \in Ledgers, NEW p \in Payouts, NEW a \in Nat \ {0}
  PROVE  /\ L.posted[<<"Payout", p>>] = 0 =>
              LET M == PostPayoutReserve(L, p, a)
              IN  /\ Available(M) = Available(L) + a
                  /\ \A x \in References : x # <<"Payout", p>> => M.posted[x] = L.posted[x]
         /\ L.posted[<<"PayoutRelease", p>>] = 0 =>
              LET M == ReleasePayoutReserve(L, p, a)
              IN  /\ Available(M) = Available(L) - a
                  /\ \A x \in References : x # <<"PayoutRelease", p>> => M.posted[x] = L.posted[x]
         /\ L.posted[<<"PayoutComplete", p>>] = 0 =>
              LET M == PostPayoutCompleted(L, p, a)
              IN  /\ Available(M) = Available(L) - a
                  /\ \A x \in References : x # <<"PayoutComplete", p>> => M.posted[x] = L.posted[x]
<1>1. /\ PayoutReserveEntries(a)["VENDOR_AVAILABLE"] = a
      /\ PayoutReleaseEntries(a)["VENDOR_AVAILABLE"] = - a
      /\ PayoutCompletedEntries(a)["VENDOR_AVAILABLE"] = - a
  BY DEF PayoutReserveEntries, PayoutReleaseEntries, PayoutCompletedEntries, NoEntries, Accounts
<1>2. "VENDOR_AVAILABLE" \in Accounts /\ a # 0 /\ - a # 0
  BY DEF Accounts
<1>3. Available(L) \in Int
  BY DEF Available, Balance, Ledgers, Accounts, ReferenceTypes
<1>4. /\ <<"Payout", p>> \in References /\ <<"PayoutRelease", p>> \in References
      /\ <<"PayoutComplete", p>> \in References
  BY PayoutReferences
<1>5. ASSUME L.posted[<<"Payout", p>>] = 0
      PROVE  LET M == PostPayoutReserve(L, p, a)
             IN  /\ Available(M) = Available(L) + a
                 /\ \A x \in References : x # <<"Payout", p>> => M.posted[x] = L.posted[x]
  <2> DEFINE e == PayoutReserveEntries(a)
             M == PostTransaction(L, <<"Payout", p>>, e)
  <2>1. e \in [Accounts -> Int] /\ Total(e) = 0 /\ e["VENDOR_AVAILABLE"] = a
    BY <1>1, PayoutEntriesFacts
  <2>2. PostPayoutReserve(L, p, a) = M
    BY DEF PostPayoutReserve
  <2> HIDE DEF e
  <2>3. /\ Available(M) = Available(L) + e["VENDOR_AVAILABLE"]
        /\ \A x \in References : x # <<"Payout", p>> => M.posted[x] = L.posted[x]
    BY <1>2, <1>4, <1>5, <2>1, NewPosting
  <2>4. Available(M) = Available(L) + a
    BY <1>3, <2>1, <2>3
  <2> QED BY <2>2, <2>3, <2>4
<1>6. ASSUME L.posted[<<"PayoutRelease", p>>] = 0
      PROVE  LET M == ReleasePayoutReserve(L, p, a)
             IN  /\ Available(M) = Available(L) - a
                 /\ \A x \in References : x # <<"PayoutRelease", p>> => M.posted[x] = L.posted[x]
  <2> DEFINE e == PayoutReleaseEntries(a)
             M == PostTransaction(L, <<"PayoutRelease", p>>, e)
  <2>1. e \in [Accounts -> Int] /\ Total(e) = 0 /\ e["VENDOR_AVAILABLE"] = - a
    BY <1>1, PayoutEntriesFacts
  <2>2. ReleasePayoutReserve(L, p, a) = M
    BY DEF ReleasePayoutReserve
  <2> HIDE DEF e
  <2>3. /\ Available(M) = Available(L) + e["VENDOR_AVAILABLE"]
        /\ \A x \in References : x # <<"PayoutRelease", p>> => M.posted[x] = L.posted[x]
    BY <1>2, <1>4, <1>6, <2>1, NewPosting
  <2>4. Available(M) = Available(L) - a
    BY <1>3, <2>1, <2>3
  <2> QED BY <2>2, <2>3, <2>4
<1>7. ASSUME L.posted[<<"PayoutComplete", p>>] = 0
      PROVE  LET M == PostPayoutCompleted(L, p, a)
             IN  /\ Available(M) = Available(L) - a
                 /\ \A x \in References : x # <<"PayoutComplete", p>> => M.posted[x] = L.posted[x]
  <2> DEFINE e == PayoutCompletedEntries(a)
             M == PostTransaction(L, <<"PayoutComplete", p>>, e)
  <2>1. e \in [Accounts -> Int] /\ Total(e) = 0 /\ e["VENDOR_AVAILABLE"] = - a
    BY <1>1, PayoutEntriesFacts
  <2>2. PostPayoutCompleted(L, p, a) = M
    BY DEF PostPayoutCompleted
  <2> HIDE DEF e
  <2>3. /\ Available(M) = Available(L) + e["VENDOR_AVAILABLE"]
        /\ \A x \in References : x # <<"PayoutComplete", p>> => M.posted[x] = L.posted[x]
    BY <1>2, <1>4, <1>7, <2>1, NewPosting
  <2>4. Available(M) = Available(L) - a
    BY <1>3, <2>1, <2>3
  <2> QED BY <2>2, <2>3, <2>4
<1> QED BY <1>5, <1>6, <1>7

\* The commit of requestPayoutAtomic sets the amount aside, in both.
LEMMA CommitRequestSole ==
  ASSUME NEW admin, SoleInv(admin), NEW r \in Requests, NEW p \in Payouts, CommitRequest(r, p)
  PROVE  SoleInv(admin)'
<1>1. IInv /\ IInv' /\ TypeOK /\ ledger \in Ledgers /\ SoleFact(admin) /\ RowFact(p)
  BY CommitRequestIInv DEF SoleInv, IInv, TypeOK
<1> DEFINE a == req[r].amount
<1>2. a \in Amounts /\ a \in Nat \ {0}
  BY <1>1, RequestFields, AmountsAssumption DEF CommitRequest
<1>3. /\ status[p] = "none" /\ status' = [status EXCEPT ![p] = "RESERVED"]
      /\ amount' = [amount EXCEPT ![p] = a] /\ ledger' = PostPayoutReserve(ledger, p, a)
      /\ req' = [req EXCEPT ![r] = Idle]
  BY DEF CommitRequest
<1> HIDE DEF a
<1>4. /\ ledger.posted[<<"Payout", p>>] = 0 /\ ledger.posted[<<"PayoutRelease", p>>] = 0
      /\ ledger.posted[<<"PayoutComplete", p>>] = 0
  BY <1>1, <1>3 DEF RowFact
<1>5. /\ Available(ledger') = Available(ledger) + a
      /\ \A x \in References : x # <<"Payout", p>> => ledger'.posted[x] = ledger.posted[x]
  BY <1>1, <1>2, <1>3, <1>4, PayoutPosting
<1>6. status'[p] = "RESERVED" /\ amount'[p] = a
  BY <1>1, <1>3 DEF TypeOK
<1>7. RowFact(p)'
  BY <1>2, <1>4, <1>5, <1>6, PayoutReferences DEF RowFact, SetAside
<1>8. Aside[p] = 0 /\ Aside'[p] = a
  BY <1>3, <1>6 DEF Aside, SetAside
<1>9. Available(ledger) \in Int
  BY <1>1 DEF Available, Balance, Ledgers, Accounts, ReferenceTypes
<1>10. Available(ledger') = Available(ledger) - Aside[p] + Aside'[p]
  BY <1>2, <1>5, <1>8, <1>9
<1>11. \A q \in Payouts \ {p} :
           /\ status'[q] = status[q] /\ amount'[q] = amount[q]
           /\ \A t \in {"Payout", "PayoutRelease", "PayoutComplete"} :
                ledger'.posted[<<t, q>>] = ledger.posted[<<t, q>>]
  BY <1>1, <1>3, <1>5, PayoutReferences DEF TypeOK
<1>12. SoleFact(admin)'
  <2>1. ASSUME NEW s \in Requests \ {r}
        PROVE  req[s].op \in {"idle", "request"} \/ status'[req[s].payout] = status[req[s].payout]
    <3>1. SUFFICES ASSUME req[s].op \notin {"idle", "request"} PROVE req[s].payout \in Payouts \ {p}
      BY <1>11
    <3>2. SoleRequest(s, admin)
      BY <1>1 DEF SoleFact
    <3>3. status[req[s].payout] # "none"
      BY <3>1, <3>2 DEF SoleRequest, SetAside
    <3>4. req[s].payout \in Payouts
      BY <1>1, <3>1, <3>2, RequestFields DEF SoleRequest, DecisionOps, StatusWrites
    <3> QED BY <1>3, <3>3, <3>4
  <2> QED BY <1>1, <1>3, <2>1, SoleIdle, SoleMove
<1> QED BY <1>1, <1>7, <1>10, <1>11, <1>12, SoleRow

\* A request of the administrator that ends: the others are about no row.
LEMMA SoleEnds ==
  ASSUME NEW admin, TypeOK, SoleFact(admin), NEW r \in Requests,
         req[r].op \notin {"idle", "request"}, req' = [req EXCEPT ![r] = Idle]
  PROVE  SoleFact(admin)'
<1>1. r = admin
  BY DEF SoleFact, SoleRequest
<1>2. \A s \in Requests \ {r} : req[s].op \in {"idle", "request"}
  BY <1>1 DEF SoleFact, SoleRequest
<1> QED BY <1>2, SoleIdle, SoleMove

\* Completion and release take it out of both.
LEMMA CommitDecisionSole ==
  ASSUME NEW admin, SoleInv(admin), NEW r \in Requests, CommitComplete(r) \/ CommitFail(r)
  PROVE  SoleInv(admin)'
<1>1. IInv /\ IInv' /\ TypeOK /\ ledger \in Ledgers /\ SoleFact(admin)
  BY CommitCompleteIInv, CommitFailIInv DEF SoleInv, IInv, TypeOK
<1> DEFINE a == amount[req[r].payout]
<1>2. req[r].op \in {"completeLocked", "fail"} /\ req' = [req EXCEPT ![r] = Idle] /\ amount' = amount
  BY DEF CommitComplete, CommitFail
<1>3. PICK p \in Payouts :
        /\ p = req[r].payout /\ a = amount[p]
        /\ RowFact(p) /\ status[p] \in SetAside /\ req[r].seen \in SetAside
  <2>1. req[r].payout \in Payouts
    BY <1>1, <1>2, RequestFields DEF DecisionOps
  <2>2. SoleRequest(r, admin)
    BY <1>1 DEF SoleFact
  <2> QED BY <1>2, <2>1, <2>2 DEF SoleRequest, SoleInv
<1>4. a \in Amounts /\ a \in Nat \ {0}
  BY <1>3, AmountsAssumption DEF RowFact
<1>5. ledger.posted[<<"PayoutRelease", p>>] = 0 /\ ledger.posted[<<"PayoutComplete", p>>] = 0
  BY <1>3 DEF RowFact
<1>6. PICK t \in {"PayoutRelease", "PayoutComplete"}, done \in {"COMPLETED", "FAILED"} :
        /\ status' = [status EXCEPT ![p] = done]
        /\ Available(ledger') = Available(ledger) - a
        /\ \A x \in References : x # <<t, p>> => ledger'.posted[x] = ledger.posted[x]
  <2>1. CASE CommitComplete(r)
    <3>1. ~ChecksBalance(r)
      BY <1>2, <1>3, <2>1 DEF ChecksBalance, SetAside, CommitComplete
    <3>2. /\ ledger' = PostPayoutCompleted(ledger, p, a)
          /\ status' = [status EXCEPT ![p] = "COMPLETED"]
      BY <1>3, <2>1, <3>1 DEF CommitComplete
    <3> HIDE DEF a
    <3>3. LET M == PostPayoutCompleted(ledger, p, a)
          IN  /\ Available(M) = Available(ledger) - a
              /\ \A x \in References : x # <<"PayoutComplete", p>> => M.posted[x] = ledger.posted[x]
      <4> QED BY ONLY <1>1, <1>4, <1>5, p \in Payouts, PayoutPosting, Zenon
    <3> QED BY ONLY <3>2, <3>3
  <2>2. CASE CommitFail(r)
    <3>1. /\ ledger' = ReleasePayoutReserve(ledger, p, a)
          /\ status' = [status EXCEPT ![p] = "FAILED"]
      BY <1>3, <2>2 DEF CommitFail, HeldReserve, SetAside
    <3> HIDE DEF a
    <3>2. LET M == ReleasePayoutReserve(ledger, p, a)
          IN  /\ Available(M) = Available(ledger) - a
              /\ \A x \in References : x # <<"PayoutRelease", p>> => M.posted[x] = ledger.posted[x]
      <4> QED BY ONLY <1>1, <1>4, <1>5, p \in Payouts, PayoutPosting, Zenon
    <3> QED BY ONLY <3>1, <3>2
  <2> QED BY <2>1, <2>2
<1>7. SoleFact(admin)'
  BY <1>1, <1>2, SoleEnds
<1>8. status'[p] = done
  BY <1>1, <1>3, <1>6 DEF TypeOK
<1>9. RowFact(p)'
  BY <1>8 DEF RowFact, SetAside
<1>10. Aside[p] = a /\ Aside'[p] = 0
  BY <1>3, <1>8 DEF Aside, SetAside
<1>11. Available(ledger) \in Int
  BY <1>1 DEF Available, Balance, Ledgers, Accounts, ReferenceTypes
<1>12. Available(ledger') = Available(ledger) - Aside[p] + Aside'[p]
  BY <1>4, <1>6, <1>10, <1>11
<1>13. \A q \in Payouts \ {p} :
           /\ status'[q] = status[q] /\ amount'[q] = amount[q]
           /\ \A u \in {"Payout", "PayoutRelease", "PayoutComplete"} :
                ledger'.posted[<<u, q>>] = ledger.posted[<<u, q>>]
  BY <1>1, <1>2, <1>6, PayoutReferences DEF TypeOK
<1> QED BY <1>1, <1>3, <1>7, <1>9, <1>12, <1>13, SoleRow

\* A rejection is written over a row that is not set aside, PROCESSING over one that is.
LEMMA WriteStatusSole ==
  ASSUME NEW admin, SoleInv(admin), NEW r \in Requests, WriteStatus(r)
  PROVE  SoleInv(admin)'
<1>1. IInv /\ IInv' /\ TypeOK /\ ledger \in Ledgers /\ SoleFact(admin)
  BY ReadAndWriteIInv DEF SoleInv, IInv, TypeOK
<1>2. /\ req[r].op \in {"reject", "processing"} /\ req' = [req EXCEPT ![r] = Idle]
      /\ amount' = amount /\ ledger' = ledger
      /\ status' = [status EXCEPT ![req[r].payout] = WrittenStatus(req[r].op)]
  BY <1>1 DEF WriteStatus, SoleFact, SoleRequest, StatusWrites
<1>3. PICK p \in Payouts : p = req[r].payout
  BY <1>1, <1>2, RequestFields DEF DecisionOps, StatusWrites
<1>4. RowFact(p) /\ SoleRequest(r, admin)
  BY <1>1, <1>3 DEF SoleInv, SoleFact
<1>5. status'[p] = IF req[r].op = "reject" THEN "REJECTED" ELSE "PROCESSING"
  BY <1>1, <1>2, <1>3 DEF TypeOK, WrittenStatus
<1>6. status[p] \in SetAside <=> status'[p] \in SetAside
  BY <1>2, <1>3, <1>4, <1>5 DEF SoleRequest, SetAside
<1>7. SoleFact(admin)'
  BY <1>1, <1>2, SoleEnds
<1>8. RowFact(p)'
  BY <1>2, <1>4, <1>5, <1>6 DEF RowFact, SetAside
<1>9. Aside'[p] = Aside[p] /\ Aside[p] \in Nat
  BY <1>1, <1>2, <1>3, <1>6, AsideNat DEF Aside
<1>10. Available(ledger) \in Int
  BY <1>1 DEF Available, Balance, Ledgers, Accounts, ReferenceTypes
<1>11. Available(ledger') = Available(ledger) - Aside[p] + Aside'[p]
  BY <1>2, <1>9, <1>10
<1>12. \A q \in Payouts \ {p} :
           /\ status'[q] = status[q] /\ amount'[q] = amount[q]
           /\ \A u \in {"Payout", "PayoutRelease", "PayoutComplete"} :
                ledger'.posted[<<u, q>>] = ledger.posted[<<u, q>>]
  BY <1>1, <1>2, <1>3 DEF TypeOK
<1> QED BY <1>1, <1>3, <1>7, <1>8, <1>11, <1>12, SoleRow

\* Without rows left by an older release, nothing is set aside at first.
LEMMA InitSole ==
  ASSUME NEW admin, Init, \A p \in Payouts : status[p] # "PENDING"
  PROVE  SoleInv(admin)
<1>1. IInv /\ TypeOK
  BY InitIInv DEF IInv
<1>2. \A p \in Payouts : status[p] = "none"
  BY DEF Init
<1>3. ledger = EmptyLedger /\ req = [r \in Requests |-> Idle]
  BY DEF Init
<1>4. \A p \in Payouts : RowFact(p)
  BY <1>2, <1>3, PayoutReferences DEF RowFact, SetAside, EmptyLedger
<1>5. SoleFact(admin)
  BY <1>3 DEF SoleFact, SoleRequest, Idle
<1>6. Available(ledger) = 0
  BY <1>3 DEF Available, Balance, EmptyLedger, NoEntries, Accounts, ReferenceTypes
<1>7. \A p \in Payouts : Aside[p] = 0
  BY <1>2 DEF Aside, SetAside
<1>8. SumFunctionOnSet(Aside, Payouts) = 0
  BY <1>1, <1>7, AsideNat, SumOfZeroes, PayoutsAssumption
<1> QED BY <1>1, <1>4, <1>5, <1>6, <1>8 DEF SoleInv

\* The steps of one administrator and any number of merchants.
SoleNext(admin) ==
  \/ Environment
  \/ \E r \in Requests : SoleArrival(r, admin) \/ Advance(r) \/ Abort(r)

LEMMA NextSole ==
  ASSUME NEW admin, SoleInv(admin), SoleNext(admin) \/ UNCHANGED vars
  PROVE  SoleInv(admin)'
<1>1. CASE Environment
  BY <1>1, EnvironmentSole
<1>2. ASSUME NEW r \in Requests, SoleArrival(r, admin) \/ Abort(r) PROVE SoleInv(admin)'
  BY <1>2, ArrivalSole, QuietSole
<1>3. ASSUME NEW r \in Requests, Advance(r) PROVE SoleInv(admin)'
  <2>1. SoleRequest(r, admin)
    BY DEF SoleInv, SoleFact
  <2>2. ~CommitApproveReserve(r) /\ ~CommitAdminPaid(r)
    BY <2>1 DEF SoleRequest, CommitApproveReserve, CommitAdminPaid
  <2> QED BY <1>3, <2>2, CommitRequestSole, QuietSole, CommitDecisionSole, WriteStatusSole DEF Advance
<1>4. CASE UNCHANGED vars
  <2>1. /\ ledger' = ledger /\ legacy' = legacy /\ paid' = paid /\ status' = status
        /\ amount' = amount /\ req' = req /\ lock' = lock
    BY <1>4 DEF vars
  <2>2. IInv'
    BY <1>4, NextIInv DEF SoleInv
  <2>3. SoleFact(admin)'
    BY <2>1 DEF SoleInv, SoleFact, SoleRequest
  <2> QED BY <2>1, <2>2, <2>3, SoleFrame
<1> QED BY <1>1, <1>2, <1>3, <1>4 DEF SoleNext

\* What the invariant says of the ledger and the rows.
LEMMA SoleMatches == ASSUME NEW admin, SoleInv(admin) PROVE ReservesMatchRows
<1>1. DOMAIN Aside = Payouts
  BY DEF Aside
<1>2. SumFunction(Aside) = SumFunctionOnSet(Aside, Payouts)
  BY <1>1 DEF SumFunction, SumFunctionOnSet, FoldFunction
<1> QED BY <1>2 DEF SoleInv, Aside, SetAside, Available, ReservesMatchRows

(* With one administrator who pays, rejects or marks processing, and no    *)
(* rows older than the reserves, what VENDOR_AVAILABLE holds is the sum of *)
(* the RESERVED and PROCESSING rows: whatever number of merchants request  *)
(* payouts meanwhile, payments and refunds post, and calls fail halfway.   *)
THEOREM ReservesMatch ==
  ASSUME NEW admin, Admins \subseteq {admin}, LegacyPayouts = {},
         Decisions \subseteq {"PAID", "REJECTED", "PROCESSING"}
  PROVE  Spec => []ReservesMatchRows
<1>1. Init => SoleInv(admin)
  BY InitSole DEF Init
<1>2. SoleInv(admin) /\ [Next]_vars => SoleInv(admin)'
  BY NextSole DEF Next, SoleNext, Arrival, SoleArrival
<1>3. SoleInv(admin) => ReservesMatchRows
  BY SoleMatches
<1> QED BY <1>1, <1>2, <1>3, PTL DEF Spec

(* The scene of the run in which one administrator decides at a time.      *)
THEOREM SerialReservesMatch == MCSpec => []ReservesMatchRowsSerially
<1> DEFINE Inv == scene = Serial => SoleInv(r1)
<1>1. MCInit => Inv
  <2> SUFFICES ASSUME MCInit, scene = Serial PROVE SoleInv(r1)
    OBVIOUS
  <2>1. scene.legacy = {}
    BY DEF Serial
  <2>2. Init /\ \A p \in Payouts : status[p] # "PENDING"
    BY <2>1 DEF MCInit
  <2> QED BY <2>2, InitSole
<1>2. Inv /\ [MCNext]_<<vars, scene>> => Inv'
  <2> SUFFICES ASSUME Inv, [MCNext]_<<vars, scene>>, scene' = Serial PROVE SoleInv(r1)'
    OBVIOUS
  <2>1. scene = Serial /\ SoleInv(r1)
    BY DEF MCNext
  <2>2. /\ scene.orders = {o1, o2} /\ scene.amounts = Amounts /\ scene.admins = {r1}
        /\ scene.decisions = {"PAID", "REJECTED", "PROCESSING"}
    BY <2>1 DEF Serial
  <2>3. CASE MCEnvironment
    <3>1. Environment
      BY <2>2, <2>3, MCAssumption DEF MCEnvironment, Environment
    <3> QED BY <2>1, <3>1, NextSole DEF SoleNext
  <2>4. ASSUME NEW r \in Requests, MCArrival(r) PROVE SoleInv(r1)'
    <3>1. SoleArrival(r, r1)
      BY <2>2, <2>4 DEF MCArrival, SoleArrival
    <3> QED BY <2>1, <3>1, NextSole DEF SoleNext
  <2>5. ASSUME NEW r \in Requests, Advance(r) \/ Abort(r) PROVE SoleInv(r1)'
    BY <2>1, <2>5, NextSole DEF SoleNext
  <2>6. CASE UNCHANGED <<vars, scene>>
    BY <2>1, <2>6, NextSole
  <2> QED BY <2>3, <2>4, <2>5, <2>6 DEF MCNext
<1>3. Inv => ReservesMatchRowsSerially
  BY SoleMatches DEF ReservesMatchRowsSerially
<1> QED BY <1>1, <1>2, <1>3, PTL DEF MCSpec

-----------------------------------------------------------------------------
(* The checkout: what holds between the steps                              *)

\* Steps of a call that has its key's row, or needs none.
Past == {"cart", "commit", "enqueue", "complete", "fail"}

Has(c, k) == call[c] # NoCall /\ call[c].key = k

\* A key no attempt of which failed: one call at most is past its creation, and then the
\* row is PROCESSING; when orders were made under it, no call is about to make any.
KeyOK(k) ==
  k \notin failed =>
    /\ key[k] # "FAILED"
    /\ \A c \in Calls : Has(c, k) =>
         /\ call[c].step # "delete"
         /\ call[c].step \in Past => key[k] = "PROCESSING"
         /\ \A d \in Calls : (Has(d, k) /\ call[c].step \in Past /\ call[d].step \in Past) => c = d
    /\ \A b \in DOMAIN batch : batch[b].key = k =>
         /\ key[k] # "none"
         /\ \A c \in Calls : Has(c, k) => call[c].step \notin {"cart", "commit"}

\* The shipping price the page would send.
ShipPrice == PriceOf(page.rate)

\* What a call under way knows: without keys there is one call at a time, and it has read
\* a cart that no order was made from; the orders it announces are its own; and the page
\* that waits for it still shows the rate it has sent.
CallOK(c) ==
  call[c] # NoCall =>
    /\ mode = "keys" => call[c].key \in Keys
    /\ mode # "keys" => c = AnyCall /\ call[c].key = NoKey /\ call[c].step \in Past
    /\ call[c].step \in {"enqueue", "complete"} =>
         call[c].batch \in DOMAIN batch /\ batch[call[c].batch].key = call[c].key
    /\ call[c].step = "complete" =>
         \A s \in OrdersOf(batch[call[c].batch]) : <<call[c].batch, s>> \in outbox
    /\ call[c].step = "commit" =>
         /\ call[c].version <= version
         /\ call[c].key = NoKey => \A b \in DOMAIN batch : batch[b].version < call[c].version
    /\ OnPage => web = "submitting" /\ call[c].shipping = ShipPrice

\* The orders of a checkout: what they add up to, and what the page showed.
BatchOK(b) ==
  /\ SumFunctionOnSet([s \in OrdersOf(b) |-> b.orders[s].shipping], OrdersOf(b)) = b.shipping
  /\ ~b.repriced => \A s \in OrdersOf(b) : b.orders[s].subtotal = b.orders[s].lines
  /\ (b.fresh /\ ~b.repriced) =>
       SumFunctionOnSet([s \in OrdersOf(b) |-> TotalOf(b.orders[s])], OrdersOf(b)) = b.shown
  /\ OnPage => b.quoted
  /\ b.version < version

\* Is r one of the tariffs T for the region and the weight.
Offers(T, region, kg, r) == r \in T /\ r.zone \in ZonesFor(region) /\ r.min <= kg /\ kg <= r.max

\* A cached answer was offered, and so was the rate on a page with items: for the page's
\* region and weight, unless the calculator had the quote when the page came to them.
RateOK ==
  /\ \A q \in quotes : \A r \in q.rates : Offers(tariffs, q.region, q.kg, r)
  /\ (HasItems /\ page.rate # NoRate) =>
       /\ Offers(tariffs, page.rate.region, page.rate.kg, page.rate.tariff)
       /\ ~page.came => page.rate.region = page.region /\ page.rate.kg = Weight

\* A page at rest, or waiting for its checkout, shows the server's cart unless that is
\* empty or the page has strayed from it.
WebOK ==
  OnPage =>
    /\ web = "submitting" => HasItems
    /\ (web \in {"idle", "submitting"} /\ Units(cart) > 0 /\ ~page.strayed) => Qty(page.lines) = cart

\* Without a key no two checkouts order the cart as it was once.
VersionsDiffer ==
  \A a, b \in DOMAIN batch :
    (a # b /\ batch[a].key = NoKey /\ batch[b].key = NoKey) => batch[a].version # batch[b].version

\* The part that requests, keys and orders keep.
OrdersInv ==
  /\ batch \in Seq(BatchRows)
  /\ \A k \in Keys : KeyOK(k)
  /\ \A c \in Calls : CallOK(c)
  /\ \A b \in DOMAIN batch : BatchOK(batch[b])
  /\ VersionsDiffer /\ OneCheckoutPerKey /\ CompletedIsAnnounced

CheckoutInv == CheckoutTypeOK /\ OrdersInv /\ RateOK /\ WebOK

-----------------------------------------------------------------------------
(* What the sums of a checkout are                                         *)

\* The quantities of a cart with prices, and back.
LEMMA QtyOfLines ==
  /\ \A l \in Lines : Qty(l) \in CartRows
  /\ price \in [Products -> Prices] => \A q \in CartRows : LinesOf(q) \in Lines /\ Qty(LinesOf(q)) = q
<1>1. \A l \in Lines : Qty(l) \in CartRows
  BY DEF Lines, Qty, CartRows
<1>2. ASSUME price \in [Products -> Prices], NEW q \in CartRows
      PROVE  LinesOf(q) \in Lines /\ Qty(LinesOf(q)) = q
  <2>1. LinesOf(q) \in Lines
    BY <1>2 DEF Lines, LinesOf, CartRows
  <2>2. q = [p \in Products |-> q[p]]
    BY DEF CartRows
  <2>3. Qty(LinesOf(q)) = [p \in Products |-> q[p]]
    BY DEF Qty, LinesOf
  <2> QED BY <2>1, <2>2, <2>3
<1> QED BY <1>1, <1>2

\* The units of a cart, and the weight the page reckons for them.
LEMMA UnitsNat ==
  ASSUME NEW q \in CartRows
  PROVE  Units(q) \in Nat /\ WeightKg(q) \in Nat
<1>1. q \in [Products -> Nat]
  BY CheckoutAssumption DEF CartRows
<1>2. Units(q) \in Nat
  BY <1>1, CheckoutAssumption, SumIsNat DEF Units
<1> QED BY <1>2 DEF WeightKg

\* An empty cart has no units.
LEMMA NoUnits == Units([p \in Products |-> 0]) = 0
<1>1. PICK q : q = [p \in Products |-> 0]
  OBVIOUS
<1>2. \A p \in Products : q[p] = 0
  BY <1>1
<1> QED BY <1>1, <1>2, CheckoutAssumption, SumOfZeroes DEF Units

\* The page's empty list.
LEMMA NoLinesFacts == NoLines \in Lines /\ Units(Qty(NoLines)) = 0
<1>1. PICK x : x = CHOOSE y \in Prices : TRUE
  OBVIOUS
<1>2. x \in Prices /\ 0 \in 0..Stock
  BY <1>1, CheckoutAssumption
<1>3. NoLines = [p \in Products |-> [qty |-> 0, price |-> x]]
  BY <1>1 DEF NoLines
<1>4. NoLines \in Lines
  BY <1>2, <1>3 DEF Lines
<1>5. Qty(NoLines) = [p \in Products |-> 0]
  BY <1>3 DEF Qty
<1> QED BY <1>4, <1>5, NoUnits

\* A product of natural numbers is one.
LEMMA NatTimes == \A a, b \in Nat : a * b \in Nat
OBVIOUS

\* What a line costs and its tax.
LEMMA LineNat ==
  ASSUME NEW l \in Lines, NEW p \in Products, NEW pc \in Percents
  PROVE  /\ l[p].qty \in Nat /\ l[p].qty * l[p].price \in Nat /\ LineTax(l, p, pc) \in Nat
         /\ l[p].qty = 0 => l[p].qty * l[p].price = 0 /\ LineTax(l, p, pc) = 0
<1>1. l[p].qty \in Nat /\ l[p].price \in Nat /\ pc \in Nat
  <2>1. l[p] \in [qty : 0..Stock, price : Prices]
    BY DEF Lines
  <2>2. l[p].qty \in 0..Stock /\ l[p].price \in Prices /\ pc \in 0..100 /\ Stock \in Nat
    BY <2>1, CheckoutAssumption
  <2>3. l[p].price \in Nat
    BY <2>2, CheckoutAssumption
  <2> QED BY <2>2, <2>3
<1>2. PICK x : x = l[p].qty * l[p].price
  OBVIOUS
<1>3. x \in Nat
  BY <1>1, <1>2, NatTimes
<1>4. PICK y : y = x * pc
  OBVIOUS
<1>5. y \in Nat
  BY <1>1, <1>3, <1>4, NatTimes
<1>6. LineTax(l, p, pc) = (y + 50) \div 100
  BY <1>2, <1>4 DEF LineTax
<1>7. LineTax(l, p, pc) \in Nat
  BY <1>5, <1>6
<1>8. \A a \in Nat : 0 * a = 0
  OBVIOUS
<1>9. ASSUME l[p].qty = 0 PROVE x = 0 /\ LineTax(l, p, pc) = 0
  <2>1. x = 0
    BY <1>1, <1>2, <1>8, <1>9
  <2>2. y = 0
    BY <1>1, <1>4, <1>8, <2>1
  <2>3. (0 + 50) \div 100 = 0
    OBVIOUS
  <2> QED BY <1>6, <2>1, <2>2, <2>3
<1> QED BY <1>1, <1>2, <1>3, <1>7, <1>9

\* The terms of a subtotal and of a tax.
LineCosts(l) == [p \in Products |-> l[p].qty * l[p].price]

LineTaxes(l, pc) == [p \in Products |-> LineTax(l, p, pc)]

\* They are natural numbers.
LEMMA TermsNat ==
  ASSUME NEW l \in Lines, NEW pc \in Percents
  PROVE  LineCosts(l) \in [Products -> Nat] /\ LineTaxes(l, pc) \in [Products -> Nat]
BY LineNat DEF LineCosts, LineTaxes

\* Subtotals and taxes of any products are natural numbers.
LEMMA SumsNat ==
  ASSUME NEW l \in Lines, NEW pc \in Percents, NEW S \in SUBSET Products
  PROVE  Subtotal(l, S) \in Nat /\ Calculate(l, S, pc) \in Nat
<1>1. IsFiniteSet(S)
  BY CheckoutAssumption, FS_Subset
<1>2. \A f \in [Products -> Nat] : SumFunctionOnSet(f, S) \in Nat
  <2> TAKE f \in [Products -> Nat]
  <2>1. [p \in S |-> f[p]] \in [S -> Nat]
    OBVIOUS
  <2>2. SumFunctionOnSet(f, S) = SumFunctionOnSet([p \in S |-> f[p]], S)
    BY <1>1, SumAgrees
  <2> QED BY <1>1, <2>1, <2>2, SumIsNat
<1>3. /\ Subtotal(l, S) = SumFunctionOnSet(LineCosts(l), S)
      /\ Calculate(l, S, pc) = SumFunctionOnSet(LineTaxes(l, pc), S)
  BY DEF Subtotal, Calculate, LineCosts, LineTaxes
<1> QED BY <1>2, <1>3, TermsNat

\* A rate's price.
LEMMA RateNat ==
  ASSUME NEW r \in TariffRows, NEW kg \in Nat
  PROVE  RatePrice(r, kg) \in Nat
<1>1. r.price \in Nat /\ r.perKg \in Nat
  BY DEF TariffRows
<1>2. kg * r.perKg \in Nat
  BY <1>1, NatTimes
<1> QED BY <1>1, <1>2 DEF RatePrice

\* The shops of a cart's products cover what it costs: shop by shop, the subtotals
\* and the taxes add up to those of all products.
LEMMA ShopsAddUp ==
  ASSUME NEW l \in Lines, NEW pc \in Percents, NEW O, O = ShopsOf(Qty(l))
  PROVE  /\ SumFunctionOnSet([s \in Shops |-> Subtotal(l, ProductsOf(s))], O) = Subtotal(l, Products)
         /\ SumFunctionOnSet([s \in Shops |-> Calculate(l, ProductsOf(s), pc)], O)
              = Calculate(l, Products, pc)
<1>1. O \in SUBSET Shops
  BY DEF ShopsOf
<1>2. ASSUME NEW p \in Products, ShopOf[p] \notin O
      PROVE  LineCosts(l)[p] = 0 /\ LineTaxes(l, pc)[p] = 0
  <2>1. ShopOf[p] \in Shops /\ p \in ProductsOf(ShopOf[p])
    BY CheckoutAssumption DEF ProductsOf
  <2>2. ~(Qty(l)[p] > 0)
    BY <1>2, <2>1 DEF ShopsOf
  <2>3. Qty(l)[p] = l[p].qty /\ l[p].qty \in Nat
    BY LineNat DEF Qty
  <2>4. l[p].qty = 0
    BY <2>2, <2>3
  <2> QED BY <2>4, LineNat DEF LineCosts, LineTaxes
<1>3. LineCosts(l) \in [Products -> Nat] /\ LineTaxes(l, pc) \in [Products -> Nat]
  BY TermsNat
<1>4. \A s \in Shops : ProductsOf(s) = Group(Products, ShopOf, s)
  BY DEF ProductsOf, Group
<1>5. PICK g, h : /\ g = [s \in Shops |-> Subtotal(l, ProductsOf(s))]
                  /\ h = [s \in Shops |-> Calculate(l, ProductsOf(s), pc)]
  OBVIOUS
<1>6. /\ \A s \in Shops : g[s] = SumFunctionOnSet(LineCosts(l), Group(Products, ShopOf, s))
      /\ \A s \in Shops : h[s] = SumFunctionOnSet(LineTaxes(l, pc), Group(Products, ShopOf, s))
  BY <1>4, <1>5 DEF Subtotal, Calculate, LineCosts, LineTaxes
<1>7. PICK f, k : f = LineCosts(l) /\ k = LineTaxes(l, pc)
  OBVIOUS
<1>8. /\ IsFiniteSet(Products) /\ IsFiniteSet(Shops) /\ ShopOf \in [Products -> Shops]
      /\ f \in [Products -> Nat] /\ k \in [Products -> Nat]
      /\ \A p \in Products : ShopOf[p] \notin O => f[p] = 0
      /\ \A p \in Products : ShopOf[p] \notin O => k[p] = 0
  BY <1>2, <1>3, <1>7, CheckoutAssumption
<1>9. /\ \A s \in Shops : g[s] = SumFunctionOnSet(f, Group(Products, ShopOf, s))
      /\ \A s \in Shops : h[s] = SumFunctionOnSet(k, Group(Products, ShopOf, s))
  BY <1>6, <1>7
<1>10. SumFunctionOnSet(g, O) = SumFunctionOnSet(f, Products)
  BY <1>1, <1>8, <1>9, SumOfGroups
<1>11. SumFunctionOnSet(h, O) = SumFunctionOnSet(k, Products)
  BY <1>1, <1>8, <1>9, SumOfGroups
<1> QED BY <1>5, <1>7, <1>10, <1>11 DEF Subtotal, Calculate, LineCosts, LineTaxes

-----------------------------------------------------------------------------
(* The cart routes, the page and the administration make no orders         *)

\* Orders, keys and calls stay as they are.
LEMMA OrdersKept ==
  ASSUME CheckoutInv, UNCHANGED <<mode, key, failed, batch, outbox, call>>,
         version' \in Nat, version <= version',
         (OnPage /\ web = "submitting") => web' = web /\ page'.rate = page.rate
  PROVE  OrdersInv'
<1>1. batch' = batch /\ key' = key /\ failed' = failed /\ call' = call /\ outbox' = outbox /\ mode' = mode
  OBVIOUS
<1>2. (batch \in Seq(BatchRows))' /\ (\A k \in Keys : KeyOK(k))' /\ VersionsDiffer'
      /\ OneCheckoutPerKey' /\ CompletedIsAnnounced'
  BY <1>1 DEF CheckoutInv, OrdersInv, KeyOK, Has, VersionsDiffer, OneCheckoutPerKey,
              CompletedIsAnnounced, OrdersOf
<1>3. ASSUME NEW b \in DOMAIN batch PROVE BatchOK(batch[b])'
  <2>1. BatchOK(batch[b]) /\ batch[b] \in BatchRows /\ version \in Nat
    BY DEF CheckoutInv, OrdersInv, CheckoutTypeOK
  <2>2. batch[b].version \in Nat
    BY <2>1 DEF BatchRows
  <2>3. batch[b].version < version'
    BY <2>1, <2>2 DEF OnPage, BatchOK
  <2> QED BY <1>1, <2>1, <2>3 DEF OnPage, BatchOK, OrdersOf
<1>4. ASSUME NEW c \in Calls PROVE CallOK(c)'
  <2>1. CallOK(c) /\ call[c] \in CallStates /\ version \in Nat
    BY DEF CheckoutInv, OrdersInv, CheckoutTypeOK
  <2>2. CASE call[c] = NoCall
    BY <1>1, <2>2 DEF OnPage, CallOK
  <2>3. CASE call[c] # NoCall
    <3>1. call[c].version \in Nat
      BY <2>1, <2>3 DEF CallStates, CheckoutCalls
    <3>2. call[c].step = "commit" => call[c].version <= version'
      BY <2>1, <2>3, <3>1 DEF OnPage, CallOK
    <3>3. OnPage => web' = "submitting" /\ call[c].shipping = ShipPrice'
      BY <2>1, <2>3 DEF OnPage, CallOK, ShipPrice
    <3> QED BY <1>1, <2>1, <2>3, <3>2, <3>3 DEF OnPage, CallOK, OrdersOf
  <2> QED BY <2>2, <2>3
<1> QED BY <1>1, <1>2, <1>3, <1>4 DEF OrdersInv

\* More tariffs offer what was offered.
LEMMA OffersKept ==
  ASSUME tariffs \subseteq tariffs', NEW g, NEW kg, NEW r, Offers(tariffs, g, kg, r)
  PROVE  Offers(tariffs', g, kg, r)
BY DEF Offers

\* A page that shows what it showed has the rate it was offered.
LEMMA RateKept ==
  ASSUME CheckoutInv, tariffs \subseteq tariffs', quotes' \subseteq quotes, page'.lines = page.lines,
         page'.rate = page.rate, page'.region = page.region, page'.came = page.came
  PROVE  RateOK'
<1>1. RateOK
  BY DEF CheckoutInv
<1>2. \A q \in quotes' : \A r \in q.rates : Offers(tariffs', q.region, q.kg, r)
  BY <1>1, OffersKept DEF RateOK
<1>3. HasItems' = HasItems /\ Weight' = Weight
  BY DEF HasItems, Weight
<1> SUFFICES ASSUME HasItems, page.rate # NoRate
             PROVE  /\ Offers(tariffs', page'.rate.region, page'.rate.kg, page'.rate.tariff)
                    /\ ~page.came => page.rate.region = page.region /\ page.rate.kg = Weight
  BY <1>2, <1>3 DEF RateOK
<1>4. Offers(tariffs, page.rate.region, page.rate.kg, page.rate.tariff)
  BY <1>1 DEF RateOK
<1>5. Offers(tariffs', page'.rate.region, page'.rate.kg, page'.rate.tariff)
  BY <1>4, OffersKept
<1> QED BY <1>1, <1>3, <1>5 DEF RateOK

\* A cart with q in it.
LEMMA SetCartStep ==
  ASSUME CheckoutInv, CartMayChange, NEW q \in CartRows, SetCart(q)
  PROVE  CheckoutInv'
<1>1. /\ cart' = q /\ version' = version + 1 /\ web' = (IF OnPage THEN "refresh" ELSE web)
      /\ mode' = mode /\ page' = page /\ quotes' = quotes /\ asked' = asked /\ price' = price /\ percent' = percent
      /\ tariffs' = tariffs /\ sellable' = sellable /\ held' = held /\ key' = key /\ failed' = failed
      /\ batch' = batch /\ outbox' = outbox /\ call' = call
  BY DEF SetCart, server
<1>2. CheckoutTypeOK'
  BY <1>1 DEF CheckoutInv, CheckoutTypeOK
<1>3. OrdersInv'
  <2>1. version \in Nat
    BY DEF CheckoutInv, CheckoutTypeOK
  <2>2. version' \in Nat /\ version <= version'
    BY <1>1, <2>1
  <2>3. ~(OnPage /\ web = "submitting")
    BY DEF OnPage, CartMayChange
  <2> QED BY <1>1, <2>2, <2>3, OrdersKept
<1>4. RateOK'
  BY <1>1, RateKept
<1>5. WebOK'
  BY <1>1 DEF OnPage, WebOK, HasItems
<1> QED BY <1>2, <1>3, <1>4, <1>5 DEF CheckoutInv

\* One more unit, within the stock.
LEMMA AddItemStep ==
  ASSUME CheckoutInv, NEW p \in Products, AddItem(p)
  PROVE  CheckoutInv'
<1>1. cart \in CartRows /\ Stock \in Nat
  BY CheckoutAssumption DEF CheckoutInv, CheckoutTypeOK
<1>2. [cart EXCEPT ![p] = @ + 1] \in CartRows
  BY <1>1 DEF AddItem, CartRows
<1> QED BY <1>2, SetCartStep DEF AddItem

\* Another quantity of a product in the cart.
LEMMA UpdateItemStep ==
  ASSUME CheckoutInv, NEW p \in Products, NEW n \in 0..Stock, UpdateItem(p, n)
  PROVE  CheckoutInv'
<1>1. cart \in CartRows
  BY DEF CheckoutInv, CheckoutTypeOK
<1>2. [cart EXCEPT ![p] = n] \in CartRows
  BY <1>1 DEF CartRows
<1> QED BY <1>2, SetCartStep DEF UpdateItem

\* Clearing the cart empties the page of the one who does it.
LEMMA ClearedPage ==
  ASSUME CheckoutInv, page' = [page EXCEPT !.lines = NoLines, !.quote = NoQuote],
         tariffs' = tariffs, quotes' = quotes
  PROVE  /\ page' \in PageRows /\ page'.rate = page.rate
         /\ RateOK'
<1>1. page \in PageRows
  BY DEF CheckoutInv, CheckoutTypeOK
<1>2. page' \in PageRows /\ page'.rate = page.rate /\ page'.lines = NoLines
  BY <1>1, NoLinesFacts DEF PageRows
<1>3. ~HasItems'
  BY <1>2, NoLinesFacts DEF HasItems
<1>4. \A q \in quotes' : \A r \in q.rates : Offers(tariffs', q.region, q.kg, r)
  BY OffersKept DEF CheckoutInv, RateOK
<1> QED BY <1>2, <1>3, <1>4 DEF RateOK

\* The empty cart is a cart.
LEMMA NoCartTyped == [p \in Products |-> 0] \in CartRows
BY CheckoutAssumption DEF CartRows

\* Clearing the cart; without a page of its own in the other modes.
LEMMA ClearCartStep ==
  ASSUME CheckoutInv, ClearCart
  PROVE  CheckoutInv'
<1>1. /\ cart' = [p \in Products |-> 0] /\ version' = version + 1 /\ web' = web
      /\ page' = IF OnPage THEN [page EXCEPT !.lines = NoLines, !.quote = NoQuote] ELSE page
      /\ mode' = mode /\ quotes' = quotes /\ asked' = asked /\ price' = price /\ percent' = percent
      /\ tariffs' = tariffs /\ sellable' = sellable /\ held' = held /\ key' = key /\ failed' = failed
      /\ batch' = batch /\ outbox' = outbox /\ call' = call
  BY DEF ClearCart, server
<1>2. page' \in PageRows /\ page'.rate = page.rate /\ RateOK'
  <2>1. CASE OnPage
    BY <1>1, <2>1, ClearedPage
  <2>2. CASE ~OnPage
    BY <1>1, <2>2, RateKept DEF CheckoutInv, CheckoutTypeOK
  <2> QED BY <2>1, <2>2
<1>3. version \in Nat /\ version' \in Nat /\ version <= version'
  BY <1>1 DEF CheckoutInv, CheckoutTypeOK
<1>4. CheckoutTypeOK'
  BY <1>1, <1>2, <1>3, NoCartTyped DEF CheckoutInv, CheckoutTypeOK
<1>5. OrdersInv'
  BY <1>1, <1>2, <1>3, OrdersKept
<1>6. WebOK'
  <2>1. Units(cart') = 0
    BY <1>1, NoUnits
  <2>2. ~(OnPage /\ web = "submitting")
    BY DEF OnPage, ClearCart, CartMayChange
  <2> QED BY <1>1, <2>1, <2>2 DEF OnPage, WebOK, HasItems
<1> QED BY <1>2, <1>4, <1>5, <1>6 DEF CheckoutInv

\* Clearing once more after a checkout: the page has nothing under way.
LEMMA ClearAfterCheckoutStep ==
  ASSUME CheckoutInv, ClearAfterCheckout
  PROVE  CheckoutInv'
<1>1. /\ cart' = [p \in Products |-> 0] /\ version' = version + 1 /\ web = "clear" /\ web' = "refresh"
      /\ page' = [page EXCEPT !.lines = NoLines, !.quote = NoQuote]
      /\ mode' = mode /\ quotes' = quotes /\ asked' = asked /\ price' = price /\ percent' = percent
      /\ tariffs' = tariffs /\ sellable' = sellable /\ held' = held /\ key' = key /\ failed' = failed
      /\ batch' = batch /\ outbox' = outbox /\ call' = call
  BY DEF ClearAfterCheckout, EmptyCart, server
<1>2. page' \in PageRows /\ page'.rate = page.rate /\ RateOK'
  BY <1>1, ClearedPage
<1>3. version \in Nat /\ version' \in Nat /\ version <= version'
  BY <1>1 DEF CheckoutInv, CheckoutTypeOK
<1>4. CheckoutTypeOK'
  BY <1>1, <1>2, <1>3, NoCartTyped DEF CheckoutInv, CheckoutTypeOK
<1>5. OrdersInv'
  BY <1>1, <1>2, <1>3, OrdersKept
<1>6. WebOK'
  BY <1>1 DEF OnPage, WebOK, HasItems
<1> QED BY <1>2, <1>4, <1>5, <1>6 DEF CheckoutInv

\* A step of the page that leaves its lines alone.
LEMMA PageStep ==
  ASSUME CheckoutInv, UNCHANGED <<mode, server, cart, version, web>>,
         page' \in PageRows, quotes' \subseteq ShippingQuotes, asked' \subseteq Lines,
         page'.lines = page.lines, page'.strayed = page.strayed,
         web = "submitting" => page'.rate = page.rate, RateOK'
  PROVE  CheckoutInv'
<1>1. /\ cart' = cart /\ version' = version /\ web' = web
      /\ mode' = mode /\ price' = price /\ percent' = percent
      /\ tariffs' = tariffs /\ sellable' = sellable /\ held' = held /\ key' = key /\ failed' = failed
      /\ batch' = batch /\ outbox' = outbox /\ call' = call
  BY DEF server
<1>2. version \in Nat
  BY DEF CheckoutInv, CheckoutTypeOK
<1>3. CheckoutTypeOK'
  BY <1>1 DEF CheckoutInv, CheckoutTypeOK
<1>4. version <= version' /\ version' \in Nat
  BY <1>1, <1>2
<1>5. OrdersInv'
  BY <1>1, <1>4, OrdersKept
<1>6. WebOK'
  BY <1>1 DEF OnPage, CheckoutInv, WebOK, HasItems
<1> QED BY <1>3, <1>5, <1>6 DEF CheckoutInv

\* A tax answer, also a late one: lines and rate stay.
LEMMA TaxAnswerStep ==
  ASSUME CheckoutInv, NEW l \in asked, TaxAnswer(l)
  PROVE  CheckoutInv'
<1>1. page \in PageRows /\ asked \subseteq Lines /\ percent \in Percents /\ quotes \subseteq ShippingQuotes
  BY DEF CheckoutInv, CheckoutTypeOK
<1>2. /\ page' = [page EXCEPT !.quote = [lines |-> l, pc |-> percent]] /\ asked' = asked \ {l}
      /\ UNCHANGED <<mode, server, cart, version, web>> /\ tariffs' = tariffs /\ quotes' = quotes
  BY DEF TaxAnswer, server
<1>3. [lines |-> l, pc |-> percent] \in Quotes
  BY <1>1 DEF Quotes
<1>4. /\ page' \in PageRows /\ asked' \subseteq Lines /\ page'.lines = page.lines
      /\ page'.rate = page.rate /\ page'.region = page.region
      /\ page'.came = page.came /\ page'.strayed = page.strayed /\ quotes' \subseteq ShippingQuotes
  BY <1>1, <1>2, <1>3 DEF PageRows
<1>5. RateOK'
  BY <1>2, <1>4, RateKept
<1> QED BY <1>2, <1>4, <1>5, PageStep

\* A tax calculation that fails takes the quote away only.
LEMMA TaxFailsStep ==
  ASSUME CheckoutInv, NEW l \in asked, TaxFails(l)
  PROVE  CheckoutInv'
<1>1. page \in PageRows /\ asked \subseteq Lines /\ quotes \subseteq ShippingQuotes
  BY DEF CheckoutInv, CheckoutTypeOK
<1>2. /\ page' = [page EXCEPT !.quote = NoQuote] /\ asked' = asked \ {l}
      /\ UNCHANGED <<mode, server, cart, version, web>> /\ tariffs' = tariffs /\ quotes' = quotes
  BY DEF TaxFails, server
<1>3. /\ page' \in PageRows /\ asked' \subseteq Lines /\ page'.lines = page.lines
      /\ page'.rate = page.rate /\ page'.region = page.region
      /\ page'.came = page.came /\ page'.strayed = page.strayed /\ quotes' \subseteq ShippingQuotes
  BY <1>1, <1>2 DEF PageRows
<1>4. RateOK'
  BY <1>2, <1>3, RateKept
<1> QED BY <1>2, <1>3, <1>4, PageStep

\* The weight of no items is the weight of no cart with items.
LEMMA WeightGap ==
  ASSUME NEW q \in CartRows, NEW r \in CartRows, Units(q) > 0, WeightKg(q) = WeightKg(r)
  PROVE  Units(r) > 0
<1>1. Units(q) \in Nat /\ Units(r) \in Nat
  BY UnitsNat
<1> QED BY <1>1 DEF WeightKg

\* What the calculator selects: nothing, the rate it held or one of the rates.
LEMMA SelectsFacts ==
  ASSUME NEW kept, NEW g, NEW kg, NEW R, NEW x \in Selects(kept, g, kg, R)
  PROVE  \/ x = NoRate
         \/ R # {} /\ x = kept
         \/ \E r \in R : x = RateChosen(r, g, kg)
BY DEF Selects

\* The cached rates of a region and a weight were offered for them.
LEMMA RatesOffered ==
  ASSUME CheckoutInv, NEW g, NEW kg, NEW r \in RatesAt(g, kg)
  PROVE  r \in TariffRows /\ Offers(tariffs, g, kg, r)
<1>1. quotes \subseteq ShippingQuotes /\ \A q \in quotes : \A t \in q.rates : Offers(tariffs, q.region, q.kg, t)
  BY DEF CheckoutInv, CheckoutTypeOK, RateOK
<1>2. PICK q \in quotes : q.region = g /\ q.kg = kg /\ r \in q.rates
  BY DEF RatesAt, QuotesAt
<1> QED BY <1>1, <1>2 DEF ShippingQuotes

\* A rate chosen has the region and the weight it is chosen for.
LEMMA ChosenFacts ==
  ASSUME NEW g \in Regions, NEW kg \in Nat, NEW r \in TariffRows
  PROVE  /\ RateChosen(r, g, kg) \in ChosenRates
         /\ RateChosen(r, g, kg).region = g /\ RateChosen(r, g, kg).kg = kg
         /\ RateChosen(r, g, kg).tariff = r
BY DEF RateChosen, ChosenRates

\* Other items or another region: a rate that is shown for them was chosen for them, or
\* the calculator had their quote.
LEMMA TurnsFacts ==
  ASSUME CheckoutInv, NEW l \in Lines, NEW g \in Regions, NEW t \in BOOLEAN, TurnsTo(l, g, t),
         tariffs' = tariffs, quotes' = quotes
  PROVE  /\ page' \in PageRows /\ page'.lines = l /\ page'.region = g /\ page'.strayed = t
         /\ RateOK'
<1>1. page \in PageRows /\ RateOK
  BY DEF CheckoutInv, CheckoutTypeOK
<1> DEFINE kg == WeightKg(Qty(l))
<1>3. Qty(l) \in CartRows /\ Qty(page.lines) \in CartRows /\ kg \in Nat
  BY <1>1, QtyOfLines, UnitsNat DEF PageRows
<1>4. \A q \in quotes' : \A r \in q.rates : Offers(tariffs', q.region, q.kg, r)
  BY <1>1, OffersKept DEF RateOK
<1>5. CASE g = page.region /\ kg = Weight
  <2>1. page' = [page EXCEPT !.lines = l, !.strayed = t]
    BY <1>5 DEF TurnsTo
  <2>2. /\ page' \in PageRows /\ page'.lines = l /\ page'.region = page.region /\ page'.strayed = t
        /\ page'.rate = page.rate /\ page'.came = page.came
    BY <1>1, <2>1 DEF PageRows
  <2>3. Weight' = Weight
    BY <1>5, <2>2 DEF Weight
  <2>4. HasItems' => HasItems
    BY <1>3, <1>5, <2>2, WeightGap DEF HasItems, Weight
  <2>5. ASSUME HasItems', page.rate # NoRate
        PROVE  Offers(tariffs', page'.rate.region, page'.rate.kg, page'.rate.tariff)
               /\ (~page.came => page.rate.region = page.region /\ page.rate.kg = Weight)
    <3>1. Offers(tariffs, page.rate.region, page.rate.kg, page.rate.tariff)
      BY <1>1, <2>4, <2>5 DEF RateOK
    <3>2. Offers(tariffs', page'.rate.region, page'.rate.kg, page'.rate.tariff)
      BY <2>2, <3>1, OffersKept
    <3> QED BY <1>1, <2>4, <2>5, <3>2 DEF RateOK
  <2>6. RateOK'
    BY <1>4, <2>2, <2>3, <2>5 DEF RateOK
  <2> QED BY <1>5, <2>2, <2>6
<1>6. CASE ~(g = page.region /\ kg = Weight)
  <2>0. QueryTurns(l, g, kg, t)
    BY <1>6 DEF TurnsTo
  <2>1. PICK x \in Selects(OwnRate, g, kg, RatesAt(g, kg)) :
          page' = [page EXCEPT !.lines = l, !.region = g, !.rate = x,
                               !.came = (QuotesAt(g, kg) # {}), !.strayed = t]
    BY <2>0 DEF QueryTurns
  <2>2. \/ x = NoRate
        \/ RatesAt(g, kg) # {} /\ x = OwnRate
        \/ \E r \in RatesAt(g, kg) : x = RateChosen(r, g, kg)
    BY SelectsFacts
  <2>3. OwnRate \in {NoRate} \cup ChosenRates /\ (OwnRate # NoRate => HasItems /\ OwnRate = page.rate)
    BY <1>1 DEF OwnRate, PageRows
  <2>4. ASSUME NEW r \in RatesAt(g, kg), x = RateChosen(r, g, kg)
        PROVE  x \in ChosenRates /\ x.region = g /\ x.kg = kg /\ Offers(tariffs, x.region, x.kg, x.tariff)
    BY <1>3, <2>4, RatesOffered, ChosenFacts
  <2>5. x \in {NoRate} \cup ChosenRates
    BY <2>2, <2>3, <2>4
  <2>6. x # NoRate => Offers(tariffs, x.region, x.kg, x.tariff)
    BY <1>1, <2>2, <2>3, <2>4 DEF RateOK
  <2>7. RatesAt(g, kg) # {} => QuotesAt(g, kg) # {}
    BY DEF RatesAt
  <2>8. /\ page' \in PageRows /\ page'.lines = l /\ page'.region = g /\ page'.strayed = t
        /\ page'.rate = x /\ page'.came = (QuotesAt(g, kg) # {})
    BY <1>1, <2>1, <2>5 DEF PageRows
  <2>9. x # NoRate => page'.came
    BY <2>2, <2>7, <2>8
  <2>10. page'.rate # NoRate => Offers(tariffs', page'.rate.region, page'.rate.kg, page'.rate.tariff)
    BY <2>6, <2>8, OffersKept
  <2>11. RateOK'
    BY <1>4, <2>8, <2>9, <2>10 DEF RateOK
  <2> QED BY <2>8, <2>11
<1> QED BY <1>5, <1>6

\* Items that are shown: those of the server's cart, unless the page strays.
LEMMA ShowsStep ==
  ASSUME CheckoutInv, UNCHANGED <<mode, server, cart, version, quotes>>, NEW l \in Lines, NEW t \in BOOLEAN,
         Shows(l, t), web # "submitting", web' = "idle", t \/ Qty(l) = cart
  PROVE  CheckoutInv'
<1>1. /\ page \in PageRows /\ asked \subseteq Lines /\ version \in Nat
  BY DEF CheckoutInv, CheckoutTypeOK
<1>2. /\ cart' = cart /\ version' = version /\ quotes' = quotes
      /\ mode' = mode /\ price' = price /\ percent' = percent
      /\ tariffs' = tariffs /\ sellable' = sellable /\ held' = held /\ key' = key /\ failed' = failed
      /\ batch' = batch /\ outbox' = outbox /\ call' = call
  BY DEF server
<1>3. page.region \in Regions
  BY <1>1 DEF PageRows
<1>4. TurnsTo(l, page.region, t) /\ asked' = asked \cup {l}
  BY DEF Shows
<1>5. page' \in PageRows /\ page'.lines = l /\ page'.strayed = t /\ RateOK'
  BY <1>2, <1>3, <1>4, TurnsFacts
<1>6. CheckoutTypeOK'
  BY <1>1, <1>2, <1>4, <1>5 DEF CheckoutInv, CheckoutTypeOK
<1>7. version' \in Nat /\ version <= version'
  BY <1>1, <1>2
<1>8. OrdersInv'
  BY <1>2, <1>7, OrdersKept
<1>9. WebOK'
  BY <1>2, <1>5 DEF OnPage, WebOK, HasItems
<1> QED BY <1>5, <1>6, <1>8, <1>9 DEF CheckoutInv

\* A refresh shows the cart, or leaves the page alone when the cart is empty.
LEMMA RefreshStep ==
  ASSUME CheckoutInv, Refresh
  PROVE  CheckoutInv'
<1>1. cart \in CartRows /\ price \in [Products -> Prices]
  BY DEF CheckoutInv, CheckoutTypeOK
<1>2. /\ UNCHANGED <<mode, server, cart, version, quotes>> /\ web = "refresh" /\ web' = "idle"
  BY DEF Refresh
<1>3. CASE Units(cart) = 0
  <2>1. page' = page /\ asked' = asked
    BY <1>3 DEF Refresh
  <2>2. /\ cart' = cart /\ version' = version /\ quotes' = quotes
        /\ mode' = mode /\ price' = price /\ percent' = percent
        /\ tariffs' = tariffs /\ sellable' = sellable /\ held' = held /\ key' = key /\ failed' = failed
        /\ batch' = batch /\ outbox' = outbox /\ call' = call
    BY <1>2 DEF server
  <2>3. CheckoutTypeOK'
    BY <1>2, <2>1, <2>2 DEF CheckoutInv, CheckoutTypeOK
  <2>4. version' \in Nat /\ version <= version'
    BY <2>2 DEF CheckoutInv, CheckoutTypeOK
  <2>5. OrdersInv' /\ RateOK'
    BY <1>2, <2>1, <2>2, <2>4, OrdersKept, RateKept
  <2>6. WebOK'
    BY <1>2, <1>3, <2>2 DEF OnPage, WebOK, HasItems
  <2> QED BY <2>3, <2>5, <2>6 DEF CheckoutInv
<1>4. CASE Units(cart) # 0
  <2>1. Shows(LinesOf(cart), FALSE)
    BY <1>4 DEF Refresh
  <2>2. LinesOf(cart) \in Lines /\ Qty(LinesOf(cart)) = cart
    BY <1>1, QtyOfLines
  <2> QED BY <1>2, <2>1, <2>2, ShowsStep
<1> QED BY <1>3, <1>4

\* A refresh that fails: the page has strayed.
LEMMA RefreshFailsStep ==
  ASSUME CheckoutInv, RefreshFails
  PROVE  CheckoutInv'
<1>1. /\ page \in PageRows /\ version \in Nat
  BY DEF CheckoutInv, CheckoutTypeOK
<1>2. /\ cart' = cart /\ version' = version /\ quotes' = quotes /\ asked' = asked
      /\ web = "refresh" /\ web' = "idle" /\ page' = [page EXCEPT !.strayed = TRUE]
      /\ mode' = mode /\ price' = price /\ percent' = percent
      /\ tariffs' = tariffs /\ sellable' = sellable /\ held' = held /\ key' = key /\ failed' = failed
      /\ batch' = batch /\ outbox' = outbox /\ call' = call
  BY DEF RefreshFails, server
<1>3. /\ page' \in PageRows /\ page'.lines = page.lines /\ page'.rate = page.rate
      /\ page'.region = page.region /\ page'.came = page.came /\ page'.strayed = TRUE
  BY <1>1, <1>2 DEF PageRows
<1>4. CheckoutTypeOK'
  BY <1>2, <1>3 DEF CheckoutInv, CheckoutTypeOK
<1>5. version' \in Nat /\ version <= version'
  BY <1>1, <1>2
<1>6. OrdersInv' /\ RateOK'
  BY <1>2, <1>3, <1>5, OrdersKept, RateKept
<1>7. WebOK'
  BY <1>2, <1>3 DEF OnPage, WebOK, HasItems
<1> QED BY <1>4, <1>6, <1>7 DEF CheckoutInv

\* A line of the built-in catalogue strays, too.
LEMMA AddFallbackStep ==
  ASSUME CheckoutInv, NEW p \in Products, NEW x \in Prices, AddFallback(p, x)
  PROVE  CheckoutInv'
<1>1. page.lines \in Lines /\ Stock \in Nat
  BY CheckoutAssumption DEF CheckoutInv, CheckoutTypeOK, PageRows
<1>2. PICK n : n = [qty |-> page.lines[p].qty + 1,
                    price |-> IF page.lines[p].qty > 0 THEN page.lines[p].price ELSE x]
  OBVIOUS
<1>3. Shows([page.lines EXCEPT ![p] = n], TRUE)
  BY <1>1, <1>2 DEF AddFallback, Lines
<1>4. n \in [qty : 0..Stock, price : Prices]
  BY <1>1, <1>2 DEF AddFallback, Lines
<1>5. [page.lines EXCEPT ![p] = n] \in Lines
  BY <1>1, <1>4 DEF Lines
<1>6. OnPage => web = "idle"
  BY DEF AddFallback, CartMayChange, OnPage
<1>7. UNCHANGED <<mode, server, cart, version, quotes, web>> /\ web = "idle"
  BY <1>6 DEF AddFallback
<1> QED BY <1>3, <1>5, <1>7, ShowsStep

\* The calculator holds another rate, or none: one that is offered for the page.
LEMMA TakesRateStep ==
  ASSUME CheckoutInv, UNCHANGED <<mode, server, cart, version, web, asked>>, web # "submitting", HasItems,
         quotes' \subseteq ShippingQuotes, \A q \in quotes' : \A r \in q.rates : Offers(tariffs, q.region, q.kg, r),
         NEW x, page' = [page EXCEPT !.rate = x],
         \/ x = NoRate
         \/ x = page.rate
         \/ \E r \in TariffRows : Offers(tariffs, page.region, Weight, r) /\ x = RateChosen(r, page.region, Weight)
  PROVE  CheckoutInv'
<1>1. page \in PageRows /\ asked \subseteq Lines /\ RateOK
  BY DEF CheckoutInv, CheckoutTypeOK
<1>2. tariffs' = tariffs /\ asked' = asked
  BY DEF server
<1>3. page.region \in Regions /\ Weight \in Nat
  BY <1>1, QtyOfLines, UnitsNat DEF PageRows, Weight
<1>4. ASSUME NEW r \in TariffRows, Offers(tariffs, page.region, Weight, r), x = RateChosen(r, page.region, Weight)
      PROVE  /\ x \in ChosenRates /\ x.region = page.region /\ x.kg = Weight
             /\ Offers(tariffs, x.region, x.kg, x.tariff)
  BY <1>3, <1>4, ChosenFacts
<1>5. /\ x \in {NoRate} \cup ChosenRates
      /\ x # NoRate => /\ Offers(tariffs, x.region, x.kg, x.tariff)
                       /\ ~page.came => x.region = page.region /\ x.kg = Weight
  <2>1. CASE x = NoRate
    BY <2>1
  <2>2. CASE x = page.rate
    BY <1>1, <2>2 DEF RateOK, PageRows
  <2>3. CASE \E r \in TariffRows : Offers(tariffs, page.region, Weight, r) /\ x = RateChosen(r, page.region, Weight)
    BY <1>4, <2>3
  <2> QED BY <2>1, <2>2, <2>3
<1>6. /\ page' \in PageRows /\ page'.lines = page.lines /\ page'.region = page.region
      /\ page'.rate = x /\ page'.came = page.came /\ page'.strayed = page.strayed
  BY <1>1, <1>5 DEF PageRows
<1>7. Weight' = Weight
  BY <1>6 DEF Weight
<1>8. \A q \in quotes' : \A r \in q.rates : Offers(tariffs', q.region, q.kg, r)
  BY <1>2, OffersKept
<1>9. page'.rate # NoRate => Offers(tariffs', page'.rate.region, page'.rate.kg, page'.rate.tariff)
  BY <1>2, <1>5, <1>6, OffersKept
<1>10. RateOK'
  BY <1>5, <1>6, <1>7, <1>8, <1>9 DEF RateOK
<1> QED BY <1>1, <1>2, <1>6, <1>10, PageStep

\* The calculator's answer: the rate held stays, or the first is selected, or none.
LEMMA ShippingAnswerStep ==
  ASSUME CheckoutInv, ShippingAnswer
  PROVE  CheckoutInv'
<1>1. page \in PageRows /\ quotes \subseteq ShippingQuotes /\ tariffs \subseteq TariffRows /\ RateOK
  BY DEF CheckoutInv, CheckoutTypeOK
<1>2. PICK R : R = Offered(page.region, Qty(page.lines))
  OBVIOUS
<1>3. \A r \in R : r \in TariffRows /\ Offers(tariffs, page.region, Weight, r)
  BY <1>1, <1>2 DEF Offered, RatesForZones, Offers, Weight
<1>4. page.region \in Regions /\ Weight \in Nat
  BY <1>1, QtyOfLines, UnitsNat DEF PageRows, Weight
<1>5. PICK q : q = [region |-> page.region, kg |-> Weight, rates |-> R]
  OBVIOUS
<1>6. /\ quotes' = (quotes \ QuotesAt(page.region, Weight)) \cup {q}
      /\ UNCHANGED <<mode, server, cart, version, web, asked>> /\ web # "submitting" /\ HasItems
  BY <1>2, <1>5 DEF ShippingAnswer
<1>7. PICK x \in Selects(page.rate, page.region, Weight, R) : page' = [page EXCEPT !.rate = x]
  BY <1>2 DEF ShippingAnswer
<1>8. q \in ShippingQuotes /\ \A r \in q.rates : Offers(tariffs, q.region, q.kg, r)
  BY <1>3, <1>4, <1>5 DEF ShippingQuotes
<1>9. quotes' \subseteq ShippingQuotes /\ \A z \in quotes' : \A r \in z.rates : Offers(tariffs, z.region, z.kg, r)
  BY <1>1, <1>6, <1>8 DEF RateOK
<1>10. \/ x = NoRate
       \/ x = page.rate
       \/ \E r \in TariffRows : Offers(tariffs, page.region, Weight, r) /\ x = RateChosen(r, page.region, Weight)
  BY <1>3, SelectsFacts
<1> QED BY <1>6, <1>7, <1>9, <1>10, TakesRateStep

\* A cached answer that is dropped.
LEMMA QuoteExpiresStep ==
  ASSUME CheckoutInv, NEW q \in quotes, QuoteExpires(q)
  PROVE  CheckoutInv'
<1>1. page \in PageRows /\ asked \subseteq Lines /\ quotes \subseteq ShippingQuotes
  BY DEF CheckoutInv, CheckoutTypeOK
<1>2. /\ UNCHANGED <<mode, server, cart, version, web>> /\ page' = page /\ asked' = asked
      /\ tariffs' = tariffs /\ quotes' \subseteq quotes
  BY DEF QuoteExpires, server
<1>3. RateOK'
  BY <1>2, RateKept
<1> QED BY <1>1, <1>2, <1>3, PageStep

\* The buyer selects another rate of the answer.
LEMMA SelectRateStep ==
  ASSUME CheckoutInv, SelectRate
  PROVE  CheckoutInv'
<1>1. PICK r \in RatesAt(page.region, Weight) : page' = [page EXCEPT !.rate = RateChosen(r, page.region, Weight)]
  BY DEF SelectRate
<1>2. /\ UNCHANGED <<mode, server, cart, version, web, asked>> /\ quotes' = quotes
      /\ web # "submitting" /\ HasItems
  BY DEF SelectRate
<1>3. r \in TariffRows /\ Offers(tariffs, page.region, Weight, r)
  BY RatesOffered
<1>4. quotes' \subseteq ShippingQuotes /\ \A q \in quotes' : \A t \in q.rates : Offers(tariffs, q.region, q.kg, t)
  BY <1>2 DEF CheckoutInv, CheckoutTypeOK, RateOK
<1> QED BY <1>1, <1>2, <1>3, <1>4, TakesRateStep

\* Another region: its cached rates or none.
LEMMA ChooseRegionStep ==
  ASSUME CheckoutInv, NEW g \in Regions, ChooseRegion(g)
  PROVE  CheckoutInv'
<1>1. page \in PageRows /\ asked \subseteq Lines /\ quotes \subseteq ShippingQuotes
  BY DEF CheckoutInv, CheckoutTypeOK
<1>2. /\ UNCHANGED <<mode, server, cart, version, web>> /\ asked' = asked /\ web # "submitting"
      /\ tariffs' = tariffs /\ quotes' = quotes /\ TurnsTo(page.lines, g, page.strayed)
  BY DEF ChooseRegion, server
<1>3. page.lines \in Lines /\ page.strayed \in BOOLEAN
  BY <1>1 DEF PageRows
<1>4. page' \in PageRows /\ page'.lines = page.lines /\ page'.strayed = page.strayed /\ RateOK'
  BY <1>2, <1>3, TurnsFacts
<1> QED BY <1>1, <1>2, <1>4, PageStep

\* The administration changes what the next cart, quote or offer is made of.
LEMMA AdministrationStep ==
  ASSUME CheckoutInv, Administration
  PROVE  CheckoutInv'
<1>1. /\ mode' = mode /\ cart' = cart /\ version' = version /\ web' = web /\ page' = page
      /\ quotes' = quotes /\ asked' = asked
      /\ held' = held /\ key' = key /\ failed' = failed /\ batch' = batch /\ outbox' = outbox /\ call' = call
  BY DEF Administration, SetPrice, Withdraw, CreateRate, CreateShippingRate
<1>2. /\ price \in [Products -> Prices] /\ sellable \subseteq Products /\ percent \in Percents
      /\ tariffs \subseteq TariffRows /\ version \in Nat /\ WebOK
  BY DEF CheckoutInv, CheckoutTypeOK
<1>3. /\ price' \in [Products -> Prices] /\ sellable' \subseteq Products /\ percent' \in Percents
      /\ tariffs' \subseteq TariffRows /\ tariffs \subseteq tariffs'
  <2>1. ASSUME NEW p \in Products, Withdraw(p) PROVE <1>3
    BY <1>2, <2>1 DEF Withdraw
  <2>2. ASSUME NEW p \in Products, NEW x \in Prices, SetPrice(p, x) PROVE <1>3
    BY <1>2, <2>2 DEF SetPrice
  <2>3. ASSUME NEW pc \in Percents, CreateRate(pc) PROVE <1>3
    BY <1>2, <2>3 DEF CreateRate
  <2>4. ASSUME NEW r \in Tariffs, CreateShippingRate(r) PROVE <1>3
    BY <1>2, <2>4, AbsenceAssumption DEF CreateShippingRate
  <2> QED BY <2>1, <2>2, <2>3, <2>4 DEF Administration
<1>4. CheckoutTypeOK'
  BY <1>1, <1>3 DEF CheckoutInv, CheckoutTypeOK
<1>5. version' \in Nat /\ version <= version'
  BY <1>1, <1>2
<1>6. OrdersInv'
  BY <1>1, <1>5, OrdersKept
<1>7. RateOK'
  BY <1>1, <1>3, RateKept
<1>8. WebOK'
  BY <1>1, <1>2 DEF OnPage, WebOK, HasItems
<1> QED BY <1>4, <1>6, <1>7, <1>8 DEF CheckoutInv

-----------------------------------------------------------------------------
(* The requests                                                            *)

\* A call under way has the fields of one.
LEMMA CallFields ==
  ASSUME CheckoutInv, NEW c \in Calls, call[c] # NoCall
  PROVE  /\ call[c] \in CheckoutCalls /\ call[c].key \in Keys \cup {NoKey} /\ call[c].shipping \in Nat
         /\ call[c].lines \in Lines /\ call[c].version \in Nat /\ call[c].batch \in 0..MaxBatches
         /\ CallOK(c) /\ (mode # "keys" => c = AnyCall)
<1>1. call[c] \in CallStates /\ CallOK(c)
  BY DEF CheckoutInv, CheckoutTypeOK, OrdersInv
<1>2. call[c] \in CheckoutCalls
  BY <1>1 DEF CallStates
<1>3. mode # "keys" => c = AnyCall
  BY <1>1 DEF OnPage, CallOK
<1> QED BY <1>1, <1>2, <1>3 DEF CheckoutCalls

\* A call that goes to its next step.
LEMMA GoesFacts ==
  ASSUME CheckoutInv, NEW c \in Calls, call[c] # NoCall, Goes(c, "create") \/ Goes(c, "cart")
           \/ Goes(c, "complete") \/ Goes(c, "fail")
  PROVE  /\ call' \in [Calls -> CallStates] /\ call'[c] # NoCall
         /\ \A d \in Calls : d # c => call'[d] = call[d]
         /\ call'[c].key = call[c].key /\ call'[c].shipping = call[c].shipping
         /\ call'[c].batch = call[c].batch
         /\ Goes(c, "create") => call'[c].step = "create"
         /\ Goes(c, "cart") => call'[c].step = "cart"
         /\ Goes(c, "complete") => call'[c].step = "complete"
         /\ Goes(c, "fail") => call'[c].step = "fail"
<1>1. call \in [Calls -> CallStates] /\ call[c] \in CheckoutCalls
  BY CallFields DEF CheckoutInv, CheckoutTypeOK
<1>2. PICK s \in {"create", "cart", "complete", "fail"} : call' = [call EXCEPT ![c].step = s] /\ Goes(c, s)
  BY DEF Goes
<1>3. PICK r : r = [call[c] EXCEPT !.step = s]
  OBVIOUS
<1>4. /\ r \in CheckoutCalls /\ r.step = s /\ r.key = call[c].key /\ r.shipping = call[c].shipping
      /\ r.batch = call[c].batch
  BY <1>1, <1>2, <1>3 DEF CheckoutCalls
<1>5. call'[c] = r /\ call' = [call EXCEPT ![c] = r] /\ \A d \in Calls : d # c => call'[d] = call[d]
  BY <1>1, <1>2, <1>3
<1>6. r # NoCall
  BY <1>4, AbsenceAssumption
<1>7. call' \in [Calls -> CallStates]
  BY <1>1, <1>4, <1>5 DEF CallStates
<1>8. \A t : Goes(c, t) => call'[c].step = t
  BY <1>1 DEF Goes, CheckoutCalls
<1> QED BY <1>4, <1>5, <1>6, <1>7, <1>8

\* A call that ends.
LEMMA EndFacts ==
  ASSUME CheckoutInv, NEW c \in Calls, call' = [call EXCEPT ![c] = NoCall]
  PROVE  /\ call' \in [Calls -> CallStates] /\ call'[c] = NoCall
         /\ \A d \in Calls : d # c => call'[d] = call[d]
BY DEF CheckoutInv, CheckoutTypeOK, CallStates

\* A call that begins.
LEMMA BeginFacts ==
  ASSUME CheckoutInv, NEW c \in Calls, NEW s \in {"delete", "create", "cart"},
         NEW k \in Keys \cup {NoKey}, NEW ship \in Nat, BeginCheckout(c, s, k, ship)
  PROVE  /\ call' \in [Calls -> CallStates] /\ call'[c] # NoCall
         /\ \A d \in Calls : d # c => call'[d] = call[d]
         /\ call'[c].key = k /\ call'[c].shipping = ship /\ call'[c].step = s
<1>1. call \in [Calls -> CallStates]
  BY DEF CheckoutInv, CheckoutTypeOK
<1>2. PICK r : r = [step |-> s, key |-> k, shipping |-> ship, lines |-> NoLines, version |-> 0, batch |-> 0]
  OBVIOUS
<1>3. r \in CheckoutCalls /\ r.key = k /\ r.shipping = ship /\ r.step = s
  BY <1>2, NoLinesFacts, CheckoutAssumption DEF CheckoutCalls
<1>4. call' = [call EXCEPT ![c] = r]
  BY <1>2 DEF BeginCheckout
<1> QED BY <1>1, <1>3, <1>4, AbsenceAssumption DEF CallStates

\* The calls that do not move.  Without keys there are none.
LEMMA OtherCallKept ==
  ASSUME CheckoutInv, NEW c \in Calls, NEW d \in Calls, d # c, mode # "keys" => c = AnyCall,
         call'[d] = call[d], mode' = mode, outbox \subseteq outbox', version' \in Nat, version <= version',
         \A b \in DOMAIN batch : b \in DOMAIN batch' /\ batch'[b] = batch[b]
  PROVE  CallOK(d)'
<1> SUFFICES ASSUME call[d] # NoCall PROVE CallOK(d)'
  BY DEF OnPage, CallOK
<1>1. CallOK(d) /\ call[d].version \in Nat /\ (mode # "keys" => d = AnyCall)
  BY CallFields
<1>2. mode = "keys" /\ call[d].key \in Keys /\ call[d].key # NoKey
  BY <1>1, CheckoutAssumption DEF OnPage, CallOK
<1>3. call[d].step = "commit" => call[d].version <= version'
  <2>1. version \in Nat
    BY DEF CheckoutInv, CheckoutTypeOK
  <2> QED BY <1>1, <2>1 DEF OnPage, CallOK
<1>4. call[d].step \in {"enqueue", "complete"} =>
        call[d].batch \in DOMAIN batch' /\ batch'[call[d].batch] = batch[call[d].batch]
           /\ batch'[call[d].batch].key = call[d].key
  BY <1>1 DEF OnPage, CallOK
<1>5. call[d].step = "complete" =>
        \A s \in OrdersOf(batch'[call[d].batch]) : <<call[d].batch, s>> \in outbox'
  BY <1>1, <1>4 DEF OnPage, CallOK, OrdersOf
<1> QED BY <1>1, <1>2, <1>3, <1>4, <1>5 DEF OnPage, CallOK, OrdersOf

\* A key whose row stays and that c, if it had it, has no more.
LEMMA KeyKept ==
  ASSUME CheckoutInv, NEW c \in Calls, NEW k \in Keys, ~Has(c, k)', key'[k] = key[k], failed \subseteq failed',
         \A d \in Calls : d # c => call'[d] = call[d],
         \A b \in DOMAIN batch' : batch'[b].key = k => b \in DOMAIN batch /\ batch'[b] = batch[b]
  PROVE  KeyOK(k)'
<1> SUFFICES ASSUME k \notin failed' PROVE KeyOK(k)'
  BY DEF KeyOK
<1>1. k \notin failed /\ KeyOK(k)
  BY DEF CheckoutInv, OrdersInv
<1>2. \A d \in Calls : Has(d, k)' => d # c /\ Has(d, k) /\ call'[d] = call[d]
  BY DEF Has
<1>3. \A d \in Calls : Has(d, k)' =>
        /\ call'[d].step # "delete"
        /\ call'[d].step \in Past => key'[k] = "PROCESSING"
        /\ \A e \in Calls : (Has(e, k)' /\ call'[d].step \in Past /\ call'[e].step \in Past) => d = e
  BY <1>1, <1>2 DEF KeyOK
<1>4. \A b \in DOMAIN batch' : batch'[b].key = k =>
         /\ key'[k] # "none"
         /\ \A d \in Calls : Has(d, k)' => call'[d].step \notin {"cart", "commit"}
  BY <1>1, <1>2 DEF KeyOK
<1>5. key'[k] # "FAILED"
  BY <1>1 DEF KeyOK
<1> QED BY <1>3, <1>4, <1>5 DEF KeyOK, Has

\* No key is marked COMPLETED.
LEMMA CompletedKept ==
  ASSUME CheckoutInv, batch' = batch, failed \subseteq failed', outbox \subseteq outbox',
         \A k \in Keys : (key'[k] = "COMPLETED" /\ k \notin failed') => key[k] = "COMPLETED"
  PROVE  CompletedIsAnnounced'
BY DEF CheckoutInv, OrdersInv, CompletedIsAnnounced, OrdersOf

\* A page whose cart stays and that does not come to rest.
LEMMA WebKept ==
  ASSUME CheckoutInv, mode' = mode, cart' = cart, page' = page,
         OnPage => web' = web \/ web' = "clear" \/ (web = "submitting" /\ web' = "idle")
  PROVE  WebOK'
BY DEF OnPage, CheckoutInv, WebOK, HasItems

\* A step of one call that makes no orders.
LEMMA CallStep ==
  ASSUME CheckoutInv, NEW c \in Calls, UNCHANGED <<rest, held, batch>>, mode # "keys" => c = AnyCall,
         key' \in [Keys -> IdempotencyStatus], failed \subseteq failed', failed' \subseteq Keys,
         outbox \subseteq outbox', outbox' \subseteq (DOMAIN batch) \X Shops,
         call' \in [Calls -> CallStates], \A d \in Calls : d # c => call'[d] = call[d],
         web' \in {"idle", "refresh", "submitting", "clear"},
         CallOK(c)', \A k \in Keys : KeyOK(k)', CompletedIsAnnounced', WebOK'
  PROVE  CheckoutInv'
<1>1. /\ mode' = mode /\ price' = price /\ percent' = percent /\ tariffs' = tariffs /\ sellable' = sellable
      /\ cart' = cart /\ version' = version /\ page' = page /\ quotes' = quotes /\ asked' = asked /\ held' = held /\ batch' = batch
  BY DEF rest
<1>2. CheckoutTypeOK'
  BY <1>1 DEF CheckoutInv, CheckoutTypeOK
<1>3. version' \in Nat /\ version <= version'
  BY <1>1 DEF CheckoutInv, CheckoutTypeOK
<1>4. ASSUME NEW d \in Calls PROVE CallOK(d)'
  BY <1>1, <1>3, OtherCallKept
<1>5. (batch \in Seq(BatchRows))' /\ VersionsDiffer' /\ OneCheckoutPerKey'
  BY <1>1 DEF CheckoutInv, OrdersInv, VersionsDiffer, OneCheckoutPerKey
<1>6. (\A b \in DOMAIN batch : BatchOK(batch[b]))'
  <2>1. ASSUME NEW b \in DOMAIN batch PROVE BatchOK(batch[b])'
    <3>1. BatchOK(batch[b])
      BY DEF CheckoutInv, OrdersInv
    <3> QED BY <1>1, <3>1 DEF OnPage, BatchOK, OrdersOf
  <2> QED BY <1>1, <2>1
<1>7. (\A k \in Keys : KeyOK(k))' /\ (\A d \in Calls : CallOK(d))'
  BY <1>4
<1>8. OrdersInv'
  BY <1>5, <1>6, <1>7 DEF OrdersInv
<1>9. RateOK'
  BY <1>1, RateKept
<1> QED BY <1>2, <1>8, <1>9 DEF CheckoutInv

\* What the rows and the page are in a state of the checkout.
LEMMA Rows ==
  ASSUME CheckoutInv
  PROVE  /\ key \in [Keys -> IdempotencyStatus] /\ failed \subseteq Keys
         /\ outbox \subseteq (DOMAIN batch) \X Shops /\ page \in PageRows
         /\ web \in {"idle", "refresh", "submitting", "clear"} /\ version \in Nat
         /\ \A k \in Keys : KeyOK(k)
         /\ OneCheckoutPerKey /\ CompletedIsAnnounced
         /\ WebOK /\ RateOK
BY DEF CheckoutInv, CheckoutTypeOK, OrdersInv

\* What the page would send is a number.
LEMMA PriceNat ==
  ASSUME page \in PageRows
  PROVE  ShipPrice \in Nat
<1>1. page.rate # NoRate => page.rate.tariff \in TariffRows /\ page.rate.kg \in Nat
  BY DEF PageRows, ChosenRates
<1> QED BY <1>1, RateNat DEF ShipPrice, PriceOf

\* A request under a key begins where the key's row says.
LEMMA CheckoutWithKeyStep ==
  ASSUME CheckoutInv, NEW c \in Calls, NEW k \in Keys, NEW ship \in {0, 1}, CheckoutWithKey(c, k, ship)
  PROVE  CheckoutInv'
<1>1. /\ UNCHANGED <<rest, held, batch>> /\ mode' = mode /\ mode = "keys" /\ batch' = batch /\ key' = key
      /\ failed' = failed /\ outbox' = outbox /\ web' = web /\ cart' = cart /\ page' = page
      /\ key[k] \in {"none", "FAILED"} /\ call[c] = NoCall
  BY DEF CheckoutWithKey, rest
<1>2. PICK s \in {"delete", "create"} :
        /\ s = IF key[k] = "FAILED" THEN "delete" ELSE "create"
        /\ BeginCheckout(c, s, k, ship)
  BY DEF CheckoutWithKey
<1>3. /\ call' \in [Calls -> CallStates] /\ call'[c] # NoCall
      /\ \A d \in Calls : d # c => call'[d] = call[d]
      /\ call'[c].key = k /\ call'[c].step = s
  BY <1>2, BeginFacts
<1>4. CallOK(c)'
  BY <1>1, <1>2, <1>3 DEF OnPage, CallOK
<1>5. ASSUME NEW j \in Keys PROVE KeyOK(j)'
  <2>1. CASE j # k
    <3>1. ~Has(c, j)'
      BY <1>3, <2>1 DEF Has
    <3> QED BY <1>1, <1>3, <3>1, KeyKept
  <2>2. CASE j = k
    <3> SUFFICES ASSUME k \notin failed PROVE KeyOK(k)'
      BY <1>1, <2>2 DEF KeyOK
    <3>1. KeyOK(k)
      BY Rows
    <3>2. key[k] = "none" /\ s = "create"
      BY <1>1, <1>2, <3>1 DEF KeyOK
    <3>3. \A d \in Calls : Has(d, k)' => d = c \/ (Has(d, k) /\ call'[d] = call[d])
      BY <1>3 DEF Has
    <3>4. \A d \in Calls : Has(d, k)' => call'[d].step # "delete" /\ call'[d].step \notin Past
      BY <1>3, <3>1, <3>2, <3>3 DEF KeyOK, Past
    <3>5. \A b \in DOMAIN batch : batch[b].key # k
      BY <3>1, <3>2 DEF KeyOK
    <3> QED BY <1>1, <3>2, <3>4, <3>5 DEF KeyOK, Has
  <2> QED BY <2>1, <2>2
<1>6. CompletedIsAnnounced' /\ WebOK'
  BY <1>1, CompletedKept, WebKept
<1> QED BY <1>1, <1>3, <1>4, <1>5, <1>6, CallStep, Rows

\* A request without a key begins when no other is under way.
LEMMA CheckoutWithoutKeyStep ==
  ASSUME CheckoutInv, NEW c \in Calls, NEW ship \in {0, 1}, CheckoutWithoutKey(c, ship)
  PROVE  CheckoutInv'
<1>1. /\ UNCHANGED <<rest, held, batch>> /\ mode' = mode /\ mode = "tabs" /\ batch' = batch /\ key' = key
      /\ failed' = failed /\ outbox' = outbox /\ web' = web /\ cart' = cart /\ page' = page
      /\ c = AnyCall
  BY DEF CheckoutWithoutKey, rest
<1>2. /\ call' \in [Calls -> CallStates] /\ call'[c] # NoCall
      /\ \A d \in Calls : d # c => call'[d] = call[d]
      /\ call'[c].key = NoKey /\ call'[c].step = "cart"
  BY BeginFacts DEF CheckoutWithoutKey
<1>3. CallOK(c)'
  BY <1>1, <1>2 DEF OnPage, CallOK, Past
<1>4. ASSUME NEW j \in Keys PROVE KeyOK(j)'
  <2>1. ~Has(c, j)'
    BY <1>2, CheckoutAssumption DEF Has
  <2> QED BY <1>1, <1>2, <2>1, KeyKept
<1>5. CompletedIsAnnounced' /\ WebOK'
  BY <1>1, CompletedKept, WebKept
<1> QED BY <1>1, <1>2, <1>3, <1>4, <1>5, CallStep, Rows

\* The page sends the rate it holds and waits.
LEMMA OnSubmitStep ==
  ASSUME CheckoutInv, NEW c \in Calls, OnSubmit(c)
  PROVE  CheckoutInv'
<1>1. /\ UNCHANGED <<rest, held, batch>> /\ mode' = mode /\ OnPage /\ batch' = batch /\ key' = key
      /\ failed' = failed /\ outbox' = outbox /\ web = "idle" /\ web' = "submitting" /\ cart' = cart
      /\ page' = page /\ c = AnyCall /\ HasItems /\ HasItems'
  BY DEF OnSubmit, rest, HasItems
<1>2. ShipPrice \in Nat
  BY Rows, PriceNat
<1>3. BeginCheckout(c, "cart", NoKey, ShipPrice)
  BY DEF OnSubmit, ShipPrice
<1>4. /\ call' \in [Calls -> CallStates] /\ call'[c] # NoCall
      /\ \A d \in Calls : d # c => call'[d] = call[d]
      /\ call'[c].key = NoKey /\ call'[c].step = "cart" /\ call'[c].shipping = ShipPrice
  BY <1>2, <1>3, BeginFacts
<1>5. CallOK(c)'
  BY <1>1, <1>4 DEF OnPage, CallOK, Past, ShipPrice
<1>6. ASSUME NEW j \in Keys PROVE KeyOK(j)'
  <2>1. ~Has(c, j)'
    BY <1>4, CheckoutAssumption DEF Has
  <2> QED BY <1>1, <1>4, <2>1, KeyKept
<1>7. CompletedIsAnnounced'
  BY <1>1, CompletedKept
<1>8. WebOK'
  BY <1>1, Rows DEF OnPage, WebOK, HasItems
<1> QED BY <1>1, <1>4, <1>5, <1>6, <1>7, <1>8, CallStep, Rows

\* Only a key an attempt of which failed is taken away.
LEMMA DeleteKeyStep ==
  ASSUME CheckoutInv, NEW c \in Calls, DeleteKey(c)
  PROVE  CheckoutInv'
<1>1. /\ UNCHANGED <<rest, held, batch>> /\ mode' = mode /\ batch' = batch
      /\ failed' = failed /\ outbox' = outbox /\ web' = web /\ cart' = cart /\ page' = page
      /\ call[c] # NoCall /\ call[c].step = "delete" /\ Goes(c, "create")
      /\ key' = [key EXCEPT ![call[c].key] = "none"]
  BY DEF DeleteKey, rest, At
<1>2. /\ call' \in [Calls -> CallStates] /\ call'[c] # NoCall
      /\ \A d \in Calls : d # c => call'[d] = call[d]
      /\ call'[c].key = call[c].key /\ call'[c].step = "create"
  BY <1>1, GoesFacts
<1>3. CallOK(c) /\ (mode # "keys" => c = AnyCall)
  BY <1>1, CallFields
<1>4. mode = "keys" /\ call[c].key \in Keys
  BY <1>1, <1>3, Rows DEF OnPage, CallOK, Past
<1>5. PICK k \in Keys : k = call[c].key
  BY <1>4
<1>6. k \in failed
  BY <1>1, <1>5, Rows DEF KeyOK, Has
<1>7. key' \in [Keys -> IdempotencyStatus] /\ \A j \in Keys : j # k => key'[j] = key[j]
  BY <1>1, <1>5, Rows DEF IdempotencyStatus
<1>8. CallOK(c)'
  BY <1>1, <1>2, <1>4 DEF OnPage, CallOK
<1>9. ASSUME NEW j \in Keys PROVE KeyOK(j)'
  <2>1. CASE j # k
    <3>1. ~Has(c, j)'
      BY <1>2, <1>5, <2>1 DEF Has
    <3> QED BY <1>1, <1>2, <1>7, <2>1, <3>1, KeyKept
  <2>2. CASE j = k
    BY <1>1, <1>6, <2>2 DEF KeyOK
  <2> QED BY <2>1, <2>2
<1>10. CompletedIsAnnounced' /\ WebOK'
  BY <1>1, <1>6, <1>7, CompletedKept, WebKept
<1> QED BY <1>1, <1>2, <1>3, <1>7, <1>8, <1>9, <1>10, CallStep, Rows

\* The key is unique: whoever writes its row is the only one past it.
LEMMA CreateKeyStep ==
  ASSUME CheckoutInv, NEW c \in Calls, CreateKey(c)
  PROVE  CheckoutInv'
<1>1. /\ UNCHANGED <<rest, held, batch>> /\ mode' = mode /\ batch' = batch
      /\ failed' = failed /\ outbox' = outbox /\ web' = web /\ cart' = cart /\ page' = page
      /\ call[c] # NoCall /\ call[c].step = "create"
  BY DEF CreateKey, rest, At
<1>2. CallOK(c) /\ (mode # "keys" => c = AnyCall)
  BY <1>1, CallFields
<1>3. mode = "keys" /\ call[c].key \in Keys
  BY <1>1, <1>2, Rows DEF OnPage, CallOK, Past
<1>4. PICK k \in Keys : k = call[c].key
  BY <1>3
<1>5. WebOK'
  BY <1>1, WebKept
<1>6. CASE key[k] = "none"
  <2>1. key' = [key EXCEPT ![k] = "PROCESSING"] /\ Goes(c, "cart")
    BY <1>4, <1>6 DEF CreateKey
  <2>2. /\ call' \in [Calls -> CallStates] /\ call'[c] # NoCall
        /\ \A d \in Calls : d # c => call'[d] = call[d]
        /\ call'[c].key = k /\ call'[c].step = "cart"
    BY <1>1, <1>4, <2>1, GoesFacts
  <2>3. /\ key' \in [Keys -> IdempotencyStatus] /\ key'[k] = "PROCESSING"
        /\ \A j \in Keys : j # k => key'[j] = key[j]
    BY <2>1, Rows DEF IdempotencyStatus
  <2>4. CallOK(c)'
    BY <1>1, <1>3, <2>2 DEF OnPage, CallOK
  <2>5. ASSUME NEW j \in Keys PROVE KeyOK(j)'
    <3>1. CASE j # k
      <4>1. ~Has(c, j)'
        BY <2>2, <3>1 DEF Has
      <4> QED BY <1>1, <2>2, <2>3, <3>1, <4>1, KeyKept
    <3>2. CASE j = k
      <4> SUFFICES ASSUME k \notin failed PROVE KeyOK(k)'
        BY <1>1, <3>2 DEF KeyOK
      <4>1. KeyOK(k)
        BY Rows
      <4>2. \A d \in Calls : Has(d, k)' => d = c \/ (Has(d, k) /\ call'[d] = call[d])
        BY <2>2 DEF Has
      <4>3. \A d \in Calls : Has(d, k) => call[d].step # "delete" /\ call[d].step \notin Past
        BY <1>6, <4>1 DEF KeyOK
      <4>4. \A b \in DOMAIN batch : batch[b].key # k
        BY <1>6, <4>1 DEF KeyOK
      <4>5. \A d \in Calls : Has(d, k)' => call'[d].step # "delete" /\ (call'[d].step \in Past => d = c)
        BY <2>2, <4>2, <4>3
      <4> QED BY <1>1, <2>3, <4>4, <4>5 DEF KeyOK, Has
    <3> QED BY <3>1, <3>2
  <2>6. CompletedIsAnnounced'
    BY <1>1, <2>3, CompletedKept
  <2> QED BY <1>1, <1>2, <1>5, <2>2, <2>3, <2>4, <2>5, <2>6, CallStep, Rows
<1>7. CASE key[k] # "none"
  <2>1. key' = key /\ call' = [call EXCEPT ![c] = NoCall]
    BY <1>4, <1>7 DEF CreateKey
  <2>2. /\ call' \in [Calls -> CallStates] /\ call'[c] = NoCall
        /\ \A d \in Calls : d # c => call'[d] = call[d]
    BY <2>1, EndFacts
  <2>3. CallOK(c)'
    BY <2>2 DEF OnPage, CallOK
  <2>4. ASSUME NEW j \in Keys PROVE KeyOK(j)'
    <3>1. ~Has(c, j)'
      BY <2>2 DEF Has
    <3> QED BY <1>1, <2>1, <2>2, <3>1, KeyKept
  <2>5. CompletedIsAnnounced'
    BY <1>1, <2>1, CompletedKept
  <2> QED BY <1>1, <1>2, <1>5, <2>1, <2>2, <2>3, <2>4, <2>5, CallStep, Rows
<1> QED BY <1>6, <1>7

\* A call past its key's creation that goes on, its key's row unchanged.
LEMMA KeyPast ==
  ASSUME CheckoutInv, NEW c \in Calls, call[c] # NoCall, call[c].step \in Past,
         call'[c] # NoCall, call'[c].key = call[c].key, call'[c].step \in Past,
         call'[c].step \in {"cart", "commit"} => call[c].step \in {"cart", "commit"},
         \A d \in Calls : d # c => call'[d] = call[d],
         key' = key, failed' = failed, batch' = batch, NEW k \in Keys
  PROVE  KeyOK(k)'
<1>1. CASE call[c].key # k
  <2>1. ~Has(c, k)'
    BY <1>1 DEF Has
  <2> QED BY <2>1, KeyKept
<1>2. CASE call[c].key = k
  <2> SUFFICES ASSUME k \notin failed PROVE KeyOK(k)'
    BY DEF KeyOK
  <2>1. KeyOK(k) /\ Has(c, k)
    BY <1>2, Rows DEF Has
  <2>2. \A d \in Calls : Has(d, k)' => d = c \/ (Has(d, k) /\ call'[d] = call[d])
    BY DEF Has
  <2>3. /\ key[k] = "PROCESSING"
        /\ \A d \in Calls : Has(d, k) => call[d].step # "delete" /\ (call[d].step \in Past => d = c)
    BY <2>1 DEF KeyOK
  <2>4. \A d \in Calls : Has(d, k)' => call'[d].step # "delete" /\ (call'[d].step \in Past => d = c)
    BY <2>2, <2>3 DEF Past
  <2>5. \A b \in DOMAIN batch : batch[b].key = k =>
           \A d \in Calls : Has(d, k)' => call'[d].step \notin {"cart", "commit"}
    BY <2>1, <2>2 DEF KeyOK
  <2> QED BY <2>3, <2>4, <2>5 DEF KeyOK, Has
<1> QED BY <1>1, <1>2

\* The cart that is read was not ordered yet.
LEMMA ReadCartStep ==
  ASSUME CheckoutInv, NEW c \in Calls, ReadCart(c)
  PROVE  CheckoutInv'
<1>1. /\ UNCHANGED <<rest, held, batch>> /\ mode' = mode /\ batch' = batch /\ key' = key
      /\ failed' = failed /\ outbox' = outbox /\ web' = web /\ cart' = cart /\ page' = page
      /\ version' = version
      /\ call[c] # NoCall /\ call[c].step = "cart"
  BY DEF ReadCart, rest, At
<1>2. CallOK(c) /\ (mode # "keys" => c = AnyCall) /\ call[c] \in CheckoutCalls
  BY <1>1, CallFields
<1>3. CompletedIsAnnounced' /\ WebOK'
  BY <1>1, CompletedKept, WebKept
<1>4. CASE Goes(c, "fail")
  <2>1. /\ call' \in [Calls -> CallStates] /\ call'[c] # NoCall
        /\ \A d \in Calls : d # c => call'[d] = call[d]
        /\ call'[c].key = call[c].key /\ call'[c].step = "fail" /\ call'[c].shipping = call[c].shipping
    BY <1>1, <1>4, GoesFacts
  <2>2. CallOK(c)'
    BY <1>1, <1>2, <2>1 DEF OnPage, CallOK, Past, ShipPrice
  <2>3. \A k \in Keys : KeyOK(k)'
    BY <1>1, <2>1, KeyPast DEF Past
  <2> QED BY <1>1, <1>2, <1>3, <2>1, <2>2, <2>3, CallStep, Rows
<1>5. CASE call' = [call EXCEPT ![c].step = "commit", ![c].lines = LinesOf(cart), ![c].version = version]
  <2>1. call \in [Calls -> CallStates] /\ LinesOf(cart) \in Lines /\ version \in Nat
    BY QtyOfLines DEF CheckoutInv, CheckoutTypeOK
  <2>2. PICK r : r = [call[c] EXCEPT !.step = "commit", !.lines = LinesOf(cart), !.version = version]
    OBVIOUS
  <2>3. /\ r \in CheckoutCalls /\ r.step = "commit" /\ r.key = call[c].key /\ r.shipping = call[c].shipping
        /\ r.version = version
    BY <1>2, <2>1, <2>2 DEF CheckoutCalls
  <2>4. call'[c] = r /\ call' = [call EXCEPT ![c] = r] /\ \A d \in Calls : d # c => call'[d] = call[d]
    BY <1>5, <2>1, <2>2
  <2>5. call' \in [Calls -> CallStates] /\ call'[c] # NoCall
    BY <2>1, <2>3, <2>4, AbsenceAssumption DEF CallStates
  <2>6. \A b \in DOMAIN batch : batch[b].version < version
    BY DEF OnPage, CheckoutInv, OrdersInv, BatchOK
  <2>7. CallOK(c)'
    BY <1>1, <1>2, <2>1, <2>3, <2>4, <2>6 DEF OnPage, CallOK, Past, ShipPrice
  <2>8. \A k \in Keys : KeyOK(k)'
    BY <1>1, <2>3, <2>4, <2>5, KeyPast DEF Past
  <2> QED BY <1>1, <1>2, <1>3, <2>4, <2>5, <2>7, <2>8, CallStep, Rows
<1> QED BY <1>4, <1>5 DEF ReadCart

\* An entry for an order; after the last one the orders of the call are announced.
LEMMA EnqueueStep ==
  ASSUME CheckoutInv, NEW c \in Calls, Enqueue(c)
  PROVE  CheckoutInv'
<1>1. /\ UNCHANGED <<rest, held, batch>> /\ mode' = mode /\ batch' = batch /\ key' = key
      /\ failed' = failed /\ web' = web /\ cart' = cart /\ page' = page /\ version' = version
      /\ call[c] # NoCall /\ call[c].step = "enqueue"
  BY DEF Enqueue, rest, At
<1>2. CallOK(c) /\ (mode # "keys" => c = AnyCall) /\ call[c] \in CheckoutCalls
  BY <1>1, CallFields
<1>3. PICK b : b = call[c].batch
  OBVIOUS
<1>4. b \in DOMAIN batch /\ batch[b].key = call[c].key
  BY <1>1, <1>2, <1>3 DEF OnPage, CallOK
<1>5. PICK s \in Unannounced(c) :
        /\ outbox' = outbox \cup {<<b, s>>}
        /\ IF Unannounced(c) = {s} THEN Goes(c, "complete") ELSE call' = call
  BY <1>3 DEF Enqueue
<1>6. outbox \subseteq outbox' /\ outbox' \subseteq (DOMAIN batch) \X Shops
  <2>1. s \in Shops
    BY DEF Unannounced
  <2> QED BY <1>4, <1>5, <2>1, Rows
<1>7. CompletedIsAnnounced' /\ WebOK'
  BY <1>1, <1>6, CompletedKept, WebKept
<1>8. CASE call' = call
  <2>1. CallOK(c)'
    BY <1>1, <1>2, <1>8 DEF OnPage, CallOK, ShipPrice
  <2>2. call' \in [Calls -> CallStates]
    BY <1>8 DEF CheckoutInv, CheckoutTypeOK
  <2>3. \A k \in Keys : KeyOK(k)'
    BY <1>1, <1>8, KeyPast DEF Past
  <2> QED BY <1>1, <1>2, <1>6, <1>7, <1>8, <2>1, <2>2, <2>3, CallStep, Rows
<1>9. CASE Unannounced(c) = {s} /\ Goes(c, "complete")
  <2>1. /\ call' \in [Calls -> CallStates] /\ call'[c] # NoCall
        /\ \A d \in Calls : d # c => call'[d] = call[d]
        /\ call'[c].key = call[c].key /\ call'[c].step = "complete" /\ call'[c].shipping = call[c].shipping
        /\ call'[c].batch = b
    BY <1>1, <1>3, <1>9, GoesFacts
  <2>2. \A t \in OrdersOf(batch[b]) : <<b, t>> \in outbox'
    <3> TAKE t \in OrdersOf(batch[b])
    <3>1. t \in Shops /\ batch[b].orders[t] # NoOrder
      BY DEF OrdersOf
    <3>2. CASE <<b, t>> \in outbox
      BY <1>6, <3>2
    <3>3. CASE <<b, t>> \notin outbox
      <4>1. t \in Unannounced(c)
        BY <1>3, <3>1, <3>3 DEF Unannounced
      <4> QED BY <1>5, <1>9, <4>1
    <3> QED BY <3>2, <3>3
  <2>3. CallOK(c)'
    BY <1>1, <1>2, <1>4, <2>1, <2>2 DEF OnPage, CallOK, Past, ShipPrice, OrdersOf
  <2>4. \A k \in Keys : KeyOK(k)'
    BY <1>1, <2>1, KeyPast DEF Past
  <2> QED BY <1>1, <1>2, <1>6, <1>7, <2>1, <2>3, <2>4, CallStep, Rows
<1> QED BY <1>5, <1>8, <1>9

\* An entry that cannot be written: the orders stay, the call fails.
LEMMA EnqueueFailsStep ==
  ASSUME CheckoutInv, NEW c \in Calls, EnqueueFails(c)
  PROVE  CheckoutInv'
<1>1. /\ UNCHANGED <<rest, held, batch>> /\ mode' = mode /\ batch' = batch /\ key' = key
      /\ failed' = failed /\ outbox' = outbox /\ web' = web /\ cart' = cart /\ page' = page
      /\ call[c] # NoCall /\ call[c].step = "enqueue" /\ Goes(c, "fail")
  BY DEF EnqueueFails, rest, At
<1>2. CallOK(c) /\ (mode # "keys" => c = AnyCall)
  BY <1>1, CallFields
<1>3. CompletedIsAnnounced' /\ WebOK'
  BY <1>1, CompletedKept, WebKept
<1>4. /\ call' \in [Calls -> CallStates] /\ call'[c] # NoCall
      /\ \A d \in Calls : d # c => call'[d] = call[d]
      /\ call'[c].key = call[c].key /\ call'[c].step = "fail" /\ call'[c].shipping = call[c].shipping
  BY <1>1, GoesFacts
<1>5. CallOK(c)'
  BY <1>1, <1>2, <1>4 DEF OnPage, CallOK, Past, ShipPrice
<1>6. \A k \in Keys : KeyOK(k)'
  BY <1>1, <1>4, KeyPast DEF Past
<1> QED BY <1>1, <1>2, <1>3, <1>4, <1>5, <1>6, CallStep, Rows

\* What marking does to the rows of the keys.
LEMMA MarkFacts ==
  ASSUME CheckoutInv, NEW c \in Calls, NEW s \in IdempotencyStatus, Mark(c, s)
  PROVE  /\ key' \in [Keys -> IdempotencyStatus]
         /\ \A k \in Keys : key'[k] = IF k = call[c].key /\ key[k] # "none" THEN s ELSE key[k]
BY Rows DEF Mark

\* COMPLETED: the orders made under the key are the call's own, and announced.
LEMMA CompleteStep ==
  ASSUME CheckoutInv, NEW c \in Calls, Complete(c)
  PROVE  CheckoutInv'
<1>1. /\ UNCHANGED <<rest, held, batch>> /\ mode' = mode /\ batch' = batch
      /\ failed' = failed /\ outbox' = outbox /\ cart' = cart /\ page' = page
      /\ web' = (IF OnPage THEN "clear" ELSE web)
      /\ call[c] # NoCall /\ call[c].step = "complete" /\ Mark(c, "COMPLETED")
      /\ call' = [call EXCEPT ![c] = NoCall]
  BY DEF Complete, rest, At
<1>2. CallOK(c) /\ (mode # "keys" => c = AnyCall)
  BY <1>1, CallFields
<1>3. /\ key' \in [Keys -> IdempotencyStatus]
      /\ \A k \in Keys : key'[k] = IF k = call[c].key /\ key[k] # "none" THEN "COMPLETED" ELSE key[k]
  <2>1. "COMPLETED" \in IdempotencyStatus
    BY DEF IdempotencyStatus
  <2> QED BY <1>1, <2>1, MarkFacts
<1>4. /\ call' \in [Calls -> CallStates] /\ call'[c] = NoCall
      /\ \A d \in Calls : d # c => call'[d] = call[d]
  BY <1>1, EndFacts
<1>5. CallOK(c)'
  BY <1>4 DEF OnPage, CallOK
<1>6. ASSUME NEW k \in Keys PROVE KeyOK(k)'
  <2>0. ~Has(c, k)'
    BY <1>4 DEF Has
  <2>1. CASE k # call[c].key
    <3>1. key'[k] = key[k]
      BY <1>3, <2>1
    <3> QED BY <1>1, <1>4, <2>0, <3>1, KeyKept
  <2>2. CASE k = call[c].key
    <3> SUFFICES ASSUME k \notin failed PROVE KeyOK(k)'
      BY <1>1 DEF KeyOK
    <3>1. KeyOK(k) /\ Has(c, k)
      BY <1>1, <2>2, Rows DEF Has
    <3>2. \A d \in Calls : Has(d, k)' => d # c /\ Has(d, k) /\ call'[d] = call[d]
      BY <1>4, <2>0 DEF Has
    <3>3. \A d \in Calls : Has(d, k)' => call'[d].step # "delete" /\ call'[d].step \notin Past
      BY <1>1, <3>1, <3>2 DEF KeyOK, Past
    <3>4. key'[k] = "COMPLETED"
      BY <1>1, <1>3, <2>2, <3>1 DEF KeyOK, Past
    <3> QED BY <1>1, <3>3, <3>4 DEF KeyOK, Has, Past
  <2> QED BY <2>1, <2>2
<1>7. CompletedIsAnnounced'
  <2>1. ASSUME NEW b \in DOMAIN batch, batch[b].key \in Keys, batch[b].key \notin failed,
               key'[batch[b].key] = "COMPLETED", NEW s \in OrdersOf(batch[b])
        PROVE  <<b, s>> \in outbox
    <3>1. CASE key[batch[b].key] = "COMPLETED"
      BY <2>1, <3>1, Rows DEF CompletedIsAnnounced
    <3>2. CASE key[batch[b].key] # "COMPLETED"
      <4>1. batch[b].key = call[c].key
        BY <1>3, <2>1, <3>2
      <4>2. call[c].batch \in DOMAIN batch /\ batch[call[c].batch].key = call[c].key
        BY <1>1, <1>2 DEF OnPage, CallOK
      <4>3. b = call[c].batch
        BY <2>1, <4>1, <4>2, Rows, CheckoutAssumption DEF OneCheckoutPerKey
      <4> QED BY <1>1, <1>2, <2>1, <4>3 DEF OnPage, CallOK
    <3> QED BY <3>1, <3>2
  <2> QED BY <1>1, <2>1 DEF CompletedIsAnnounced, OrdersOf
<1>8. WebOK' /\ web' \in {"idle", "refresh", "submitting", "clear"}
  BY <1>1, WebKept, Rows
<1> QED BY <1>1, <1>2, <1>3, <1>4, <1>5, <1>6, <1>7, <1>8, CallStep, Rows

\* A key whose attempt fails is FAILED, and counted as such.
LEMMA FailStep ==
  ASSUME CheckoutInv, NEW c \in Calls, Fail(c)
  PROVE  CheckoutInv'
<1>1. /\ UNCHANGED <<rest, held, batch>> /\ mode' = mode /\ batch' = batch
      /\ failed' = failed \cup ({call[c].key} \ {NoKey}) /\ outbox' = outbox /\ cart' = cart /\ page' = page
      /\ web' = (IF OnPage THEN "idle" ELSE web)
      /\ call[c] # NoCall /\ call[c].step = "fail" /\ Mark(c, "FAILED")
      /\ call' = [call EXCEPT ![c] = NoCall]
  BY DEF Fail, rest, At
<1>2. CallOK(c) /\ (mode # "keys" => c = AnyCall) /\ call[c].key \in Keys \cup {NoKey}
  BY <1>1, CallFields
<1>3. /\ key' \in [Keys -> IdempotencyStatus]
      /\ \A k \in Keys : key'[k] = IF k = call[c].key /\ key[k] # "none" THEN "FAILED" ELSE key[k]
  <2>1. "FAILED" \in IdempotencyStatus
    BY DEF IdempotencyStatus
  <2> QED BY <1>1, <2>1, MarkFacts
<1>4. /\ call' \in [Calls -> CallStates] /\ call'[c] = NoCall
      /\ \A d \in Calls : d # c => call'[d] = call[d]
  BY <1>1, EndFacts
<1>5. CallOK(c)'
  BY <1>4 DEF OnPage, CallOK
<1>6. failed \subseteq failed' /\ failed' \subseteq Keys
  BY <1>1, <1>2, Rows
<1>7. ASSUME NEW k \in Keys PROVE KeyOK(k)'
  <2>1. CASE k # call[c].key
    <3>1. key'[k] = key[k] /\ ~Has(c, k)'
      BY <1>3, <1>4, <2>1 DEF Has
    <3> QED BY <1>1, <1>4, <1>6, <3>1, KeyKept
  <2>2. CASE k = call[c].key
    <3>1. k \in failed'
      BY <1>1, <2>2, CheckoutAssumption
    <3> QED BY <3>1 DEF KeyOK
  <2> QED BY <2>1, <2>2
<1>8. CompletedIsAnnounced'
  BY <1>1, <1>3, <1>6, CompletedKept
<1>9. WebOK' /\ web' \in {"idle", "refresh", "submitting", "clear"}
  <2>1. OnPage => web = "submitting"
    BY <1>1, <1>2 DEF OnPage, CallOK
  <2> QED BY <1>1, <2>1, WebKept, Rows
<1> QED BY <1>1, <1>2, <1>3, <1>4, <1>5, <1>6, <1>7, <1>8, <1>9, CallStep, Rows

\* A call that is lost leaves its key as it is.
LEMMA CrashStep ==
  ASSUME CheckoutInv, NEW c \in Calls, Crash(c)
  PROVE  CheckoutInv'
<1>1. /\ UNCHANGED <<rest, held, batch>> /\ mode' = mode /\ batch' = batch /\ key' = key
      /\ failed' = failed /\ outbox' = outbox /\ cart' = cart /\ page' = page
      /\ web' = (IF OnPage THEN "idle" ELSE web)
      /\ call[c] # NoCall /\ call' = [call EXCEPT ![c] = NoCall]
  BY DEF Crash, rest
<1>2. CallOK(c) /\ (mode # "keys" => c = AnyCall)
  BY <1>1, CallFields
<1>3. /\ call' \in [Calls -> CallStates] /\ call'[c] = NoCall
      /\ \A d \in Calls : d # c => call'[d] = call[d]
  BY <1>1, EndFacts
<1>4. CallOK(c)'
  BY <1>3 DEF OnPage, CallOK
<1>5. ASSUME NEW k \in Keys PROVE KeyOK(k)'
  <2>1. ~Has(c, k)'
    BY <1>3 DEF Has
  <2> QED BY <1>1, <1>3, <2>1, KeyKept
<1>6. CompletedIsAnnounced'
  BY <1>1, CompletedKept
<1>7. WebOK' /\ web' \in {"idle", "refresh", "submitting", "clear"}
  <2>1. OnPage => web = "submitting"
    BY <1>1, <1>2 DEF OnPage, CallOK
  <2> QED BY <1>1, <2>1, WebKept, Rows
<1> QED BY <1>1, <1>2, <1>3, <1>4, <1>5, <1>6, <1>7, CallStep, Rows

-----------------------------------------------------------------------------
(* The transaction that makes the orders                                   *)

\* The order of a shop.
LEMMA ShopOrderFacts ==
  ASSUME CheckoutInv, NEW l \in Lines, NEW s \in Shops, NEW first, NEW ship \in Nat
  PROVE  LET o == ShopOrder(l, s, first, ship)
         IN  /\ o \in OrderRows /\ o # NoOrder
             /\ o.subtotal = Subtotal(l, ProductsOf(s))
             /\ o.lines = Subtotal(OrderLines(l), ProductsOf(s))
             /\ o.tax = Calculate(OrderLines(l), ProductsOf(s), percent)
             /\ o.shipping = IF s = first THEN ship ELSE 0
<1>1. percent \in Percents /\ price \in [Products -> Prices]
  BY DEF CheckoutInv, CheckoutTypeOK
<1>2. OrderLines(l) \in Lines
  BY <1>1, QtyOfLines DEF OrderLines
<1>3. ProductsOf(s) \in SUBSET Products
  BY DEF ProductsOf
<1>4. PICK a, b, t, h :
        /\ a = Subtotal(l, ProductsOf(s)) /\ b = Subtotal(OrderLines(l), ProductsOf(s))
        /\ t = Calculate(OrderLines(l), ProductsOf(s), percent) /\ h = IF s = first THEN ship ELSE 0
  OBVIOUS
<1>5. a \in Nat /\ b \in Nat /\ t \in Nat /\ h \in Nat
  BY <1>1, <1>2, <1>3, <1>4, SumsNat
<1>6. ShopOrder(l, s, first, ship) = [subtotal |-> a, lines |-> b, tax |-> t, shipping |-> h]
  BY <1>4 DEF ShopOrder, ShippingOf
<1>7. ShopOrder(l, s, first, ship) \in OrderRows
  BY <1>5, <1>6 DEF OrderRows
<1> QED BY <1>4, <1>6, <1>7, AbsenceAssumption

\* The orders of a checkout as CommitOrders makes them.
OrdersMade(l, first, ship) ==
  [s \in Shops |-> IF s \in ShopsOf(Qty(l)) THEN ShopOrder(l, s, first, ship) ELSE NoOrder]

\* The shipping price is charged once, and the lines are the subtotal when no price has changed.
LEMMA OrdersMadeFacts ==
  ASSUME CheckoutInv, NEW l \in Lines, NEW O, O = ShopsOf(Qty(l)), NEW first \in O, NEW ship \in Nat,
         NEW m, m = OrdersMade(l, first, ship)
  PROVE  /\ m \in [Shops -> OrderRows \cup {NoOrder}]
         /\ O = {s \in Shops : m[s] # NoOrder} /\ IsFiniteSet(O)
         /\ \A s \in O : m[s] = ShopOrder(l, s, first, ship)
         /\ SumFunctionOnSet([s \in O |-> m[s].shipping], O) = ship
         /\ l = LinesOf(Qty(l)) => \A s \in O : m[s].subtotal = m[s].lines
<1>1. O \subseteq Shops
  BY DEF ShopsOf
<1>2. \A s \in Shops : m[s] = IF s \in O THEN ShopOrder(l, s, first, ship) ELSE NoOrder
  BY DEF OrdersMade
<1>3. \A s \in Shops : ShopOrder(l, s, first, ship) \in OrderRows /\ ShopOrder(l, s, first, ship) # NoOrder
  BY ShopOrderFacts
<1>4. m \in [Shops -> OrderRows \cup {NoOrder}]
  BY <1>3 DEF OrdersMade
<1>5. O = {s \in Shops : m[s] # NoOrder} /\ \A s \in O : m[s] = ShopOrder(l, s, first, ship)
  BY <1>1, <1>2, <1>3
<1>6. IsFiniteSet(O)
  BY <1>1, CheckoutAssumption, FS_Subset
<1>7. \A s \in O : m[s].shipping = IF s = first THEN ship ELSE 0
  BY <1>1, <1>5, ShopOrderFacts
<1>8. SumFunctionOnSet([s \in O |-> m[s].shipping], O) = ship
  <2>1. PICK f : f = [s \in O |-> m[s].shipping]
    OBVIOUS
  <2>2. f[first] = ship /\ \A s \in O : s # first => f[s] = 0
    BY <1>7, <2>1
  <2>3. SumFunctionOnSet(f, O) = f[first]
    BY <1>6, <2>2, SumOfOneTerm
  <2> QED BY <2>1, <2>2, <2>3
<1>9. ASSUME l = LinesOf(Qty(l)), NEW s \in O PROVE m[s].subtotal = m[s].lines
  <2>1. OrderLines(l) = l
    BY <1>9 DEF OrderLines
  <2>2. m[s].subtotal = Subtotal(l, ProductsOf(s)) /\ m[s].lines = Subtotal(OrderLines(l), ProductsOf(s))
    BY <1>1, <1>5, ShopOrderFacts
  <2> QED BY <2>1, <2>2
<1> QED BY <1>4, <1>5, <1>6, <1>8, <1>9

\* What the orders of all shops cost together, when no price has changed.
LEMMA OrdersCost ==
  ASSUME CheckoutInv, NEW l \in Lines, NEW O, O = ShopsOf(Qty(l)), NEW first \in O, NEW ship \in Nat,
         NEW m, m = OrdersMade(l, first, ship), l = LinesOf(Qty(l))
  PROVE  SumFunctionOnSet([s \in O |-> TotalOf(m[s])], O)
           = Subtotal(l, Products) + Calculate(l, Products, percent) + ship
<1>0. percent \in Percents
  BY DEF CheckoutInv, CheckoutTypeOK
<1>1. /\ O \subseteq Shops /\ IsFiniteSet(O)
      /\ \A s \in O : m[s] = ShopOrder(l, s, first, ship)
      /\ SumFunctionOnSet([s \in O |-> m[s].shipping], O) = ship
  <2>1. O \subseteq Shops
    BY DEF ShopsOf
  <2>2. /\ IsFiniteSet(O) /\ \A s \in O : m[s] = ShopOrder(l, s, first, ship)
        /\ SumFunctionOnSet([s \in O |-> m[s].shipping], O) = ship
    BY OrdersMadeFacts
  <2> QED BY <2>1, <2>2
<1>2. OrderLines(l) = l
  BY DEF OrderLines
<1>3. PICK f, g, h, k :
        /\ f = [s \in O |-> Subtotal(l, ProductsOf(s))]
        /\ g = [s \in O |-> Calculate(l, ProductsOf(s), percent)]
        /\ h = [s \in O |-> m[s].shipping]
        /\ k = [s \in O |-> f[s] + g[s]]
  OBVIOUS
<1>4. \A s \in O : m[s].subtotal = f[s] /\ m[s].tax = g[s] /\ m[s].shipping = h[s] /\ h[s] \in Nat
  <2> TAKE s \in O
  <2>1. /\ m[s].subtotal = Subtotal(l, ProductsOf(s))
        /\ m[s].tax = Calculate(l, ProductsOf(s), percent)
        /\ m[s].shipping = IF s = first THEN ship ELSE 0
    BY <1>1, <1>2, ShopOrderFacts
  <2> QED BY <1>3, <2>1
<1>5. f \in [O -> Nat] /\ g \in [O -> Nat] /\ h \in [O -> Nat]
  <2>1. \A s \in O : ProductsOf(s) \in SUBSET Products
    BY DEF ProductsOf
  <2>2. \A s \in O : Subtotal(l, ProductsOf(s)) \in Nat /\ Calculate(l, ProductsOf(s), percent) \in Nat
    BY <1>0, <2>1, SumsNat
  <2>3. f \in [O -> Nat]
    BY <1>3, <2>2
  <2>4. g \in [O -> Nat]
    BY <1>3, <2>2
  <2>5. h \in [O -> Nat]
    BY <1>3, <1>4
  <2> QED BY <2>3, <2>4, <2>5
<1>6. k \in [O -> Nat] /\ \A s \in O : k[s] = f[s] + g[s]
  BY <1>3, <1>5
<1>7. SumFunctionOnSet(k, O) = SumFunctionOnSet(f, O) + SumFunctionOnSet(g, O)
  BY <1>1, <1>5, <1>6, SumOfSum
<1>8. PICK t : t = [s \in O |-> TotalOf(m[s])]
  OBVIOUS
<1>9. \A s \in O : t[s] = k[s] + h[s]
  BY <1>4, <1>6, <1>8 DEF TotalOf
<1>10. SumFunctionOnSet(t, O) = SumFunctionOnSet(k, O) + SumFunctionOnSet(h, O)
  BY <1>1, <1>5, <1>6, <1>9, SumOfSum
<1>11. /\ SumFunctionOnSet(f, O) = Subtotal(l, Products)
       /\ SumFunctionOnSet(g, O) = Calculate(l, Products, percent)
  <2>1. PICK u, v : u = [s \in Shops |-> Subtotal(l, ProductsOf(s))]
                    /\ v = [s \in Shops |-> Calculate(l, ProductsOf(s), percent)]
    OBVIOUS
  <2>2. /\ SumFunctionOnSet(u, O) = Subtotal(l, Products)
        /\ SumFunctionOnSet(v, O) = Calculate(l, Products, percent)
    BY <1>0, <2>1, ShopsAddUp
  <2>3. \A s \in O : u[s] = f[s] /\ v[s] = g[s]
    BY <1>1, <1>3, <2>1
  <2>4. SumFunctionOnSet(u, O) = SumFunctionOnSet(f, O) /\ SumFunctionOnSet(v, O) = SumFunctionOnSet(g, O)
    BY <1>1, <2>3, SumAgrees
  <2> QED BY <2>2, <2>4
<1>12. SumFunctionOnSet(h, O) = ship
  BY <1>1, <1>3
<1> QED BY <1>7, <1>8, <1>10, <1>11, <1>12

\* The total on the page is a number, and what it is when the quote is for its lines.
LEMMA GrandTotalFacts ==
  ASSUME CheckoutInv
  PROVE  /\ GrandTotal(page) \in Nat /\ ShipPrice \in Nat
         /\ page.quote = [lines |-> page.lines, pc |-> percent] =>
              GrandTotal(page) = Subtotal(page.lines, Products)
                                   + Calculate(page.lines, Products, percent) + ShipPrice
<1>1. page \in PageRows /\ percent \in Percents /\ Products \in SUBSET Products
  BY DEF CheckoutInv, CheckoutTypeOK
<1>2. page.lines \in Lines /\ (page.quote = NoQuote \/ page.quote \in Quotes)
      /\ (page.rate = NoRate \/ page.rate \in ChosenRates)
  BY <1>1 DEF PageRows
<1>3. ShipPrice \in Nat
  BY <1>1, PriceNat
<1>4. PICK x : x = IF page.quote = NoQuote THEN Subtotal(page.lines, Products)
                   ELSE Subtotal(page.quote.lines, Products)
                          + Calculate(page.quote.lines, Products, page.quote.pc)
  OBVIOUS
<1>5. GrandTotal(page) = x + ShipPrice
  BY <1>4 DEF GrandTotal, ShipPrice
<1>6. x \in Nat
  <2>1. CASE page.quote = NoQuote
    BY <1>1, <1>2, <1>4, <2>1, SumsNat
  <2>2. CASE page.quote # NoQuote
    <3>1. page.quote.lines \in Lines /\ page.quote.pc \in Percents
      BY <1>2, <2>2 DEF Quotes
    <3>2. Subtotal(page.quote.lines, Products) \in Nat /\ Calculate(page.quote.lines, Products, page.quote.pc) \in Nat
      BY <1>1, <3>1, SumsNat
    <3> QED BY <1>4, <2>2, <3>2
  <2> QED BY <2>1, <2>2
<1>7. ASSUME page.quote = [lines |-> page.lines, pc |-> percent]
      PROVE  x = Subtotal(page.lines, Products) + Calculate(page.lines, Products, percent)
  <2>1. page.quote \in Quotes
    BY <1>1, <1>2, <1>7 DEF Quotes
  <2>2. page.quote # NoQuote
    BY <2>1, AbsenceAssumption
  <2>3. page.quote.lines = page.lines /\ page.quote.pc = percent
    BY <1>7
  <2> QED BY <1>4, <2>2, <2>3
<1> QED BY <1>3, <1>5, <1>6, <1>7

\* The page that waits for its checkout was offered the rate it has sent.
LEMMA QuotedHolds ==
  ASSUME CheckoutInv, NEW c \in Calls, call[c] # NoCall, OnPage
  PROVE  Quoted(call[c].shipping)
<1>1. web = "submitting" /\ call[c].shipping = ShipPrice
  BY CallFields DEF OnPage, CallOK
<1>2. HasItems
  BY <1>1, Rows DEF OnPage, WebOK, HasItems
<1> QED BY <1>1, <1>2, Rows DEF RateOK, Offers, RatesForZones, ShipPrice, Quoted

\* The row CommitOrders adds.
LEMMA NewBatch ==
  ASSUME CheckoutInv, NEW c \in Calls, call[c] # NoCall, call[c].step = "commit", CommitOrders(c)
  PROVE  \E n \in BatchRows :
           /\ batch' = Append(batch, n) /\ n.key = call[c].key /\ n.version = call[c].version
           /\ SumFunctionOnSet([s \in OrdersOf(n) |-> n.orders[s].shipping], OrdersOf(n)) = n.shipping
           /\ ~n.repriced => \A s \in OrdersOf(n) : n.orders[s].subtotal = n.orders[s].lines
           /\ (n.fresh /\ ~n.repriced) =>
                SumFunctionOnSet([s \in OrdersOf(n) |-> TotalOf(n.orders[s])], OrdersOf(n)) = n.shown
           /\ OnPage => n.quoted
<1>1. PICK l : l = call[c].lines
  OBVIOUS
<1>2. PICK ship : ship = call[c].shipping
  OBVIOUS
<1>3. /\ l \in Lines /\ ship \in Nat /\ call[c].key \in Keys \cup {NoKey} /\ call[c].version \in Nat
      /\ CallOK(c)
  BY <1>1, <1>2, CallFields
<1>4. PICK O : O = ShopsOf(Qty(l))
  OBVIOUS
<1>5. PICK rp \in BOOLEAN : rp <=> l # LinesOf(Qty(l))
  OBVIOUS
<1>6. PICK fr \in BOOLEAN : fr <=> Fresh(l)
  OBVIOUS
<1>7. PICK qu \in BOOLEAN : qu <=> Quoted(ship)
  OBVIOUS
<1>8. rp = (l # LinesOf(Qty(l))) /\ fr = Fresh(l) /\ qu = Quoted(ship)
  BY <1>5, <1>6, <1>7 DEF Fresh, Quoted
<1>9. PICK first \in O :
        batch' = Append(batch,
         [key |-> call[c].key, version |-> call[c].version, orders |-> OrdersMade(l, first, ship),
          repriced |-> l # LinesOf(Qty(l)), shipping |-> ship,
          shown |-> GrandTotal(page), fresh |-> Fresh(l), quoted |-> Quoted(ship)])
  BY <1>1, <1>2, <1>4 DEF CommitOrders, OrdersMade
<1>10. PICK m : m = OrdersMade(l, first, ship)
  OBVIOUS
<1>11. PICK n :
         n = [key |-> call[c].key, version |-> call[c].version, orders |-> m,
              repriced |-> rp, shipping |-> ship, shown |-> GrandTotal(page), fresh |-> fr, quoted |-> qu]
  OBVIOUS
<1>12. batch' = Append(batch, n)
  BY <1>8, <1>9, <1>10, <1>11
<1>13. /\ m \in [Shops -> OrderRows \cup {NoOrder}]
       /\ O = {s \in Shops : m[s] # NoOrder}
       /\ SumFunctionOnSet([s \in O |-> m[s].shipping], O) = ship
       /\ l = LinesOf(Qty(l)) => \A s \in O : m[s].subtotal = m[s].lines
  BY <1>3, <1>4, <1>10, OrdersMadeFacts
<1>14. GrandTotal(page) \in Nat
  BY GrandTotalFacts
<1>15. n \in BatchRows
  BY <1>3, <1>11, <1>13, <1>14 DEF BatchRows
<1>16. /\ n.key = call[c].key /\ n.version = call[c].version /\ n.orders = m /\ n.repriced = rp
       /\ n.shipping = ship /\ n.shown = GrandTotal(page) /\ n.fresh = fr /\ n.quoted = qu
  BY <1>11
<1>17. OrdersOf(n) = O
  BY <1>13, <1>16 DEF OrdersOf
<1>18. SumFunctionOnSet([s \in OrdersOf(n) |-> n.orders[s].shipping], OrdersOf(n)) = n.shipping
  BY <1>13, <1>16, <1>17
<1>19. ~n.repriced => \A s \in OrdersOf(n) : n.orders[s].subtotal = n.orders[s].lines
  BY <1>5, <1>13, <1>16, <1>17
<1>20. ASSUME n.fresh, ~n.repriced
       PROVE  SumFunctionOnSet([s \in OrdersOf(n) |-> TotalOf(n.orders[s])], OrdersOf(n)) = n.shown
  <2>1. Fresh(l) /\ l = LinesOf(Qty(l))
    BY <1>5, <1>6, <1>16, <1>20
  <2>2. OnPage /\ page.lines = l /\ page.quote = [lines |-> page.lines, pc |-> percent]
    BY <2>1 DEF Fresh
  <2>3. ship = ShipPrice
    BY <1>2, <1>3, <2>2 DEF OnPage, CallOK
  <2>4. GrandTotal(page) = Subtotal(l, Products) + Calculate(l, Products, percent) + ship
    BY <2>2, <2>3, GrandTotalFacts
  <2>5. SumFunctionOnSet([s \in O |-> TotalOf(m[s])], O)
          = Subtotal(l, Products) + Calculate(l, Products, percent) + ship
    BY <1>3, <1>4, <1>10, <2>1, OrdersCost
  <2> QED BY <1>16, <1>17, <2>4, <2>5
<1>21. OnPage => n.quoted
  BY <1>2, <1>7, <1>16, QuotedHolds
<1> QED BY <1>12, <1>15, <1>16, <1>18, <1>19, <1>20, <1>21

\* The call that commits goes on to announce the orders it has made.
LEMMA CommitFacts ==
  ASSUME CheckoutInv, NEW c \in Calls, call[c] # NoCall, Len(batch) < MaxBatches,
         call' = [call EXCEPT ![c].step = "enqueue", ![c].batch = Len(batch) + 1]
  PROVE  /\ call' \in [Calls -> CallStates] /\ call'[c] # NoCall
         /\ \A d \in Calls : d # c => call'[d] = call[d]
         /\ call'[c].key = call[c].key /\ call'[c].shipping = call[c].shipping
         /\ call'[c].step = "enqueue" /\ call'[c].batch = Len(batch) + 1
<1>1. call \in [Calls -> CallStates] /\ call[c] \in CheckoutCalls /\ Len(batch) \in Nat
  BY CallFields DEF CheckoutInv, CheckoutTypeOK, OrdersInv
<1>2. Len(batch) + 1 \in 0..MaxBatches
  BY <1>1, CheckoutAssumption
<1>3. PICK r : r = [call[c] EXCEPT !.step = "enqueue", !.batch = Len(batch) + 1]
  OBVIOUS
<1>4. /\ r \in CheckoutCalls /\ r.step = "enqueue" /\ r.key = call[c].key /\ r.shipping = call[c].shipping
      /\ r.batch = Len(batch) + 1
  BY <1>1, <1>2, <1>3 DEF CheckoutCalls
<1>5. call'[c] = r /\ call' = [call EXCEPT ![c] = r] /\ \A d \in Calls : d # c => call'[d] = call[d]
  BY <1>1, <1>3
<1>6. r # NoCall
  BY <1>4, AbsenceAssumption
<1>7. call' \in [Calls -> CallStates]
  BY <1>1, <1>4, <1>5 DEF CallStates
<1> QED BY <1>4, <1>5, <1>6, <1>7

\* The orders are made: the cart was not ordered before, nor was the key used.
LEMMA CommitStep ==
  ASSUME CheckoutInv, NEW c \in Calls, Checkout(c), Enough(Qty(call[c].lines))
  PROVE  CheckoutInv'
<1>1. /\ mode' = mode /\ price' = price /\ percent' = percent /\ tariffs' = tariffs /\ sellable' = sellable
      /\ key' = key /\ failed' = failed /\ outbox' = outbox /\ page' = page
      /\ quotes' = quotes /\ asked' = asked /\ web' = web
      /\ call[c] # NoCall /\ call[c].step = "commit" /\ Len(batch) < MaxBatches
      /\ CommitOrders(c) /\ cart' = [p \in Products |-> 0] /\ version' = version + 1
  BY DEF Checkout, At, DeleteCartItems, EmptyCart
<1>2. /\ call[c].key \in Keys \cup {NoKey} /\ call[c].lines \in Lines /\ call[c].version \in Nat
      /\ CallOK(c) /\ (mode # "keys" => c = AnyCall) /\ call[c] \in CheckoutCalls
  BY <1>1, CallFields
<1>3. /\ held' = [p \in Products |-> held[p] + call[c].lines[p].qty]
      /\ call' = [call EXCEPT ![c].step = "enqueue", ![c].batch = Len(batch) + 1]
  BY <1>1 DEF CommitOrders
<1>4. /\ call' \in [Calls -> CallStates] /\ call'[c] # NoCall
      /\ \A d \in Calls : d # c => call'[d] = call[d]
      /\ call'[c].key = call[c].key /\ call'[c].shipping = call[c].shipping
      /\ call'[c].step = "enqueue" /\ call'[c].batch = Len(batch) + 1
  BY <1>1, <1>3, CommitFacts
<1>5. PICK n \in BatchRows :
           /\ batch' = Append(batch, n) /\ n.key = call[c].key /\ n.version = call[c].version
           /\ SumFunctionOnSet([s \in OrdersOf(n) |-> n.orders[s].shipping], OrdersOf(n)) = n.shipping
           /\ ~n.repriced => \A s \in OrdersOf(n) : n.orders[s].subtotal = n.orders[s].lines
           /\ (n.fresh /\ ~n.repriced) =>
                SumFunctionOnSet([s \in OrdersOf(n) |-> TotalOf(n.orders[s])], OrdersOf(n)) = n.shown
           /\ OnPage => n.quoted
  BY <1>1, NewBatch
<1>6. PICK a : a = Len(batch) + 1
  OBVIOUS
<1>7. /\ batch \in Seq(BatchRows) /\ version \in Nat /\ held \in [Products -> Nat]
      /\ price \in [Products -> Prices]
  BY DEF CheckoutInv, CheckoutTypeOK, OrdersInv
<1>8. /\ batch' \in Seq(BatchRows) /\ DOMAIN batch' = (DOMAIN batch) \cup {a} /\ a \notin DOMAIN batch
      /\ batch'[a] = n /\ \A b \in DOMAIN batch : batch'[b] = batch[b]
  BY <1>5, <1>6, <1>7
<1>9. version' \in Nat /\ version <= version' /\ call[c].version < version'
  <2>1. call[c].version <= version
    BY <1>1, <1>2 DEF OnPage, CallOK
  <2> QED BY <1>1, <1>2, <1>7, <2>1
<1>10. CheckoutTypeOK'
  <2>1. held' \in [Products -> Nat]
    <3>1. \A p \in Products : held[p] + call[c].lines[p].qty \in Nat
      <4> TAKE p \in Products
      <4>1. call[c].lines[p] \in [qty : 0..Stock, price : Prices]
        BY <1>2 DEF Lines
      <4>2. call[c].lines[p].qty \in Nat
        BY <4>1, CheckoutAssumption
      <4> QED BY <1>7, <4>2
    <3> QED BY <1>3, <3>1
  <2>2. \A b \in DOMAIN batch' : batch'[b] \in BatchRows
    <3>1. \A b \in DOMAIN batch : batch[b] \in BatchRows
      BY DEF CheckoutInv, CheckoutTypeOK
    <3> QED BY <1>5, <1>8, <3>1
  <2>3. outbox' \subseteq (DOMAIN batch') \X Shops
    BY <1>1, <1>8, Rows
  <2> QED BY <1>1, <1>4, <1>9, <2>1, <2>2, <2>3, NoCartTyped DEF CheckoutInv, CheckoutTypeOK
<1>11. ASSUME NEW d \in Calls PROVE CallOK(d)'
  <2>1. CASE d # c
    <3>1. \A b \in DOMAIN batch : b \in DOMAIN batch' /\ batch'[b] = batch[b]
      BY <1>8
    <3> QED BY <1>1, <1>2, <1>4, <1>9, <2>1, <3>1, OtherCallKept
  <2>2. CASE d = c
    <3>1. a \in DOMAIN batch' /\ batch'[a].key = call[c].key
      BY <1>5, <1>8
    <3> QED BY <1>1, <1>2, <1>4, <1>6, <2>2, <3>1 DEF OnPage, CallOK, Past, ShipPrice
  <2> QED BY <2>1, <2>2
<1>12. ASSUME NEW k \in Keys PROVE KeyOK(k)'
  <2>1. CASE call[c].key # k
    <3>1. ~Has(c, k)'
      BY <1>4, <2>1 DEF Has
    <3>2. \A b \in DOMAIN batch' : batch'[b].key = k => b \in DOMAIN batch /\ batch'[b] = batch[b]
      BY <1>5, <1>8, <2>1
    <3> QED BY <1>1, <1>4, <3>1, <3>2, KeyKept
  <2>2. CASE call[c].key = k
    <3> SUFFICES ASSUME k \notin failed PROVE KeyOK(k)'
      BY <1>1 DEF KeyOK
    <3>1. KeyOK(k) /\ Has(c, k)
      BY <1>1, <2>2, Rows DEF Has
    <3>2. \A d \in Calls : Has(d, k)' => d = c \/ (Has(d, k) /\ call'[d] = call[d])
      BY <1>4 DEF Has
    <3>3. /\ key[k] = "PROCESSING"
          /\ \A d \in Calls : Has(d, k) => call[d].step # "delete" /\ (call[d].step \in Past => d = c)
      BY <1>1, <3>1 DEF KeyOK, Past
    <3>4. \A d \in Calls : Has(d, k)' => /\ call'[d].step # "delete" /\ (call'[d].step \in Past => d = c)
                                         /\ call'[d].step \notin {"cart", "commit"}
      BY <1>4, <3>2, <3>3 DEF Past
    <3> QED BY <1>1, <3>3, <3>4 DEF KeyOK, Has
  <2> QED BY <2>1, <2>2
<1>13. ASSUME NEW b \in DOMAIN batch' PROVE BatchOK(batch[b])'
  <2>1. CASE b = a
    <3>1. batch'[b] = n /\ n.version < version'
      BY <1>5, <1>8, <1>9, <2>1
    <3> QED BY <1>1, <1>5, <3>1 DEF OnPage, BatchOK, OrdersOf
  <2>2. CASE b \in DOMAIN batch
    <3>1. BatchOK(batch[b]) /\ batch[b] \in BatchRows
      BY <2>2 DEF CheckoutInv, OrdersInv, CheckoutTypeOK
    <3>2. batch[b].version \in Nat
      BY <3>1 DEF BatchRows
    <3>3. batch[b].version < version'
      BY <1>7, <1>9, <3>1, <3>2 DEF OnPage, BatchOK
    <3>4. batch'[b] = batch[b]
      BY <1>8, <2>2
    <3> QED BY <1>1, <3>1, <3>3, <3>4 DEF OnPage, BatchOK, OrdersOf
  <2> QED BY <1>8, <2>1, <2>2
<1>14. VersionsDiffer'
  <2>1. ASSUME NEW b \in DOMAIN batch, n.key = NoKey PROVE batch[b].version # n.version
    <3>1. batch[b].version < call[c].version
      BY <1>1, <1>2, <1>5, <2>1 DEF OnPage, CallOK
    <3>2. batch[b] \in BatchRows
      BY DEF CheckoutInv, CheckoutTypeOK
    <3>3. batch[b].version \in Nat
      BY <3>2 DEF BatchRows
    <3> QED BY <1>2, <1>5, <3>1, <3>3
  <2>2. VersionsDiffer
    BY DEF CheckoutInv, OrdersInv
  <2> QED BY <1>8, <2>1, <2>2 DEF VersionsDiffer
<1>15. OneCheckoutPerKey'
  <2>1. ASSUME NEW b \in DOMAIN batch, batch[b].key = n.key PROVE n.key \in failed \cup {NoKey}
    <3>1. CASE n.key \in Keys /\ n.key \notin failed
      <4>1. KeyOK(n.key) /\ Has(c, n.key)
        BY <1>1, <1>5, <3>1, Rows DEF Has
      <4> QED BY <1>1, <2>1, <3>1, <4>1 DEF KeyOK
    <3> QED BY <1>2, <1>5, <3>1
  <2>2. OneCheckoutPerKey
    BY Rows
  <2> QED BY <1>1, <1>8, <2>1, <2>2 DEF OneCheckoutPerKey
<1>16. CompletedIsAnnounced'
  <2>1. CompletedIsAnnounced
    BY Rows
  <2>2. (n.key \in Keys /\ n.key \notin failed) => key[n.key] # "COMPLETED"
    BY <1>1, <1>5, Rows DEF KeyOK, Has, Past
  <2>3. ASSUME NEW b \in DOMAIN batch', batch'[b].key \in Keys, batch'[b].key \notin failed',
               key'[batch'[b].key] = "COMPLETED", NEW s \in OrdersOf(batch'[b])
        PROVE  <<b, s>> \in outbox'
    BY <1>1, <1>8, <2>1, <2>2, <2>3 DEF CompletedIsAnnounced
  <2> QED BY <2>3 DEF CompletedIsAnnounced, OrdersOf
<1>17. OrdersInv'
  BY <1>8, <1>11, <1>12, <1>13, <1>14, <1>15, <1>16 DEF OrdersInv
<1>18. RateOK'
  BY <1>1, RateKept
<1>19. WebOK'
  <2>1. Units(cart') = 0
    BY <1>1, NoUnits
  <2> QED BY <1>1, <2>1, Rows DEF OnPage, WebOK, HasItems
<1> QED BY <1>10, <1>17, <1>18, <1>19 DEF CheckoutInv

\* The transaction commits, or finds too little stock and makes nothing.
LEMMA CheckoutStep ==
  ASSUME CheckoutInv, NEW c \in Calls, Checkout(c)
  PROVE  CheckoutInv'
<1>1. CASE Enough(Qty(call[c].lines))
  BY <1>1, CommitStep
<1>2. CASE ~Enough(Qty(call[c].lines))
  <2>1. /\ UNCHANGED <<rest, held, batch>> /\ mode' = mode /\ batch' = batch /\ key' = key
        /\ failed' = failed /\ outbox' = outbox /\ web' = web /\ cart' = cart /\ page' = page
        /\ call[c] # NoCall /\ call[c].step = "commit" /\ Goes(c, "fail")
    BY <1>2 DEF Checkout, rest, At
  <2>2. CallOK(c) /\ (mode # "keys" => c = AnyCall)
    BY <2>1, CallFields
  <2>3. CompletedIsAnnounced' /\ WebOK'
    BY <2>1, CompletedKept, WebKept
  <2>4. /\ call' \in [Calls -> CallStates] /\ call'[c] # NoCall
        /\ \A d \in Calls : d # c => call'[d] = call[d]
        /\ call'[c].key = call[c].key /\ call'[c].step = "fail" /\ call'[c].shipping = call[c].shipping
    BY <2>1, GoesFacts
  <2>5. CallOK(c)'
    BY <2>1, <2>2, <2>4 DEF OnPage, CallOK, Past, ShipPrice
  <2>6. \A k \in Keys : KeyOK(k)'
    BY <2>1, <2>4, KeyPast DEF Past
  <2> QED BY <2>1, <2>2, <2>3, <2>4, <2>5, <2>6, CallStep, Rows
<1> QED BY <1>1, <1>2

-----------------------------------------------------------------------------
(* The invariant, and what it says                                         *)

\* Nothing is in the cart and nothing under way.
LEMMA CheckoutInitHolds ==
  ASSUME CheckoutInit
  PROVE  CheckoutInv
<1>1. PICK x : x = CHOOSE y \in Prices : \A z \in Prices : y <= z
  OBVIOUS
<1>2. x \in Prices
  BY <1>1, CheckoutAssumption, NatLeast
<1>3. price \in [Products -> Prices]
  BY <1>1, <1>2 DEF CheckoutInit
<1>4. /\ batch = <<>> /\ DOMAIN batch = {} /\ outbox = {} /\ failed = {} /\ version = 0 /\ web = "idle"
      /\ page = BlankPage /\ cart = [p \in Products |-> 0] /\ mode \in Modes
      /\ key = [k \in Keys |-> "none"] /\ call = [c \in Calls |-> NoCall]
      /\ held = [p \in Products |-> 0] /\ sellable = Products /\ tariffs = {} /\ percent \in Percents
      /\ asked = {} /\ quotes = {}
  BY DEF CheckoutInit
<1>5. PICK g : g = CHOOSE r \in Regions : TRUE
  OBVIOUS
<1>6. g \in Regions
  BY <1>5, CheckoutAssumption
<1>7. page = [lines |-> NoLines, quote |-> NoQuote, rate |-> NoRate,
                 region |-> g, came |-> FALSE, strayed |-> FALSE]
  BY <1>4, <1>5 DEF BlankPage
<1>8. page \in PageRows /\ page.rate = NoRate
  BY <1>6, <1>7, NoLinesFacts DEF PageRows
<1>9. CheckoutTypeOK
  <2>1. call \in [Calls -> CallStates] /\ key \in [Keys -> IdempotencyStatus] /\ held \in [Products -> Nat]
    BY <1>4 DEF CallStates, IdempotencyStatus
  <2> QED BY <1>3, <1>4, <1>8, <2>1, NoCartTyped DEF CheckoutTypeOK
<1>10. OrdersInv
  <2>1. batch \in Seq(BatchRows)
    BY <1>4
  <2>2. \A k \in Keys : KeyOK(k)
    BY <1>4 DEF KeyOK, Has
  <2>3. \A c \in Calls : CallOK(c)
    BY <1>4 DEF OnPage, CallOK
  <2>4. VersionsDiffer /\ OneCheckoutPerKey /\ CompletedIsAnnounced
    BY <1>4 DEF VersionsDiffer, OneCheckoutPerKey, CompletedIsAnnounced
  <2> QED BY <1>4, <2>1, <2>2, <2>3, <2>4 DEF OrdersInv
<1>11. RateOK
  BY <1>4, <1>8 DEF RateOK
<1>12. WebOK
  <2>1. Units(cart) = 0
    BY <1>4, NoUnits
  <2> QED BY <1>4, <2>1 DEF OnPage, WebOK, HasItems
<1> QED BY <1>9, <1>10, <1>11, <1>12 DEF CheckoutInv

\* A step that changes nothing.
LEMMA CheckoutStutter ==
  ASSUME CheckoutInv, UNCHANGED checkoutVars
  PROVE  CheckoutInv'
<1>1. /\ UNCHANGED <<mode, server, cart, version, web>> /\ page' = page /\ quotes' = quotes /\ asked' = asked
      /\ tariffs' = tariffs
  BY DEF checkoutVars, server
<1>2. page \in PageRows /\ asked \subseteq Lines /\ quotes \subseteq ShippingQuotes
  BY DEF CheckoutInv, CheckoutTypeOK
<1>3. RateOK'
  BY <1>1, RateKept
<1> QED BY <1>1, <1>2, <1>3, PageStep

\* The inductive invariant of carts, keys, calls, orders and the page: for any products,
\* shops, keys, requests, prices and tariffs.
THEOREM CheckoutInvariant == CheckoutSpec => []CheckoutInv
<1>1. CheckoutInit => CheckoutInv
  BY CheckoutInitHolds
<1>2. CheckoutInv /\ [CheckoutNext]_checkoutVars => CheckoutInv'
  <2> SUFFICES ASSUME CheckoutInv, [CheckoutNext]_checkoutVars PROVE CheckoutInv'
    OBVIOUS
  <2>1. CASE OrdersRoutes
    BY <2>1, AddItemStep, UpdateItemStep, ClearCartStep, OnSubmitStep, CheckoutWithoutKeyStep,
       CheckoutWithKeyStep DEF OrdersRoutes
  <2>2. CASE Page
    BY <2>2, RefreshStep, RefreshFailsStep, AddFallbackStep, QuoteExpiresStep, ShippingAnswerStep, SelectRateStep, ClearAfterCheckoutStep, TaxAnswerStep,
       TaxFailsStep, ChooseRegionStep DEF Page
  <2>3. ASSUME NEW c \in Calls, Steps(c) PROVE CheckoutInv'
    BY <2>3, DeleteKeyStep, CreateKeyStep, ReadCartStep, CheckoutStep, EnqueueStep, EnqueueFailsStep,
       CompleteStep, FailStep, CrashStep DEF Steps
  <2>4. CASE Administration
    BY <2>4, AdministrationStep
  <2>5. CASE UNCHANGED checkoutVars
    BY <2>5, CheckoutStutter
  <2> QED BY <2>1, <2>2, <2>3, <2>4, <2>5 DEF CheckoutNext
<1> QED BY <1>1, <1>2, PTL DEF CheckoutSpec

\* Nothing is ordered twice, neither under one key nor from one cart: however many requests
\* carry a key at once or again after a crash (IdempotencyService.start, OrdersService.checkout).
THEOREM CheckoutOrdersOnce == CheckoutSpec => []OrderedOnce
<1>1. CheckoutInv => OrderedOnce
  <2> SUFFICES ASSUME CheckoutInv PROVE OrderedOnce
    OBVIOUS
  <2>1. CheckoutTypeOK /\ OneCheckoutPerKey /\ VersionsDiffer
    BY DEF CheckoutInv, OrdersInv
  <2>2. CartSpentOnce
    BY <2>1 DEF CartSpentOnce, VersionsDiffer, OneCheckoutPerKey
  <2> QED BY <2>1, <2>2 DEF OrderedOnce
<1> QED BY <1>1, CheckoutInvariant, PTL

\* A key whose attempts have not failed is COMPLETED only when every order made under it
\* is in the outbox (CreateOrderHandler before idempotency.complete).
THEOREM CompletedAlwaysAnnounced == CheckoutSpec => []CompletedIsAnnounced
<1>1. CheckoutInv => CompletedIsAnnounced
  BY DEF CheckoutInv, OrdersInv
<1> QED BY <1>1, CheckoutInvariant, PTL

\* For any carts, prices, tax rates and shops: the orders of a checkout carry its shipping
\* price once, their lines are their subtotals, and together they cost what a page showed
\* that had the answer for the cart ordered.
THEOREM CheckoutChargesAsShown == CheckoutSpec => []ChargedAsShown
<1>1. CheckoutInv => ChargedAsShown
  <2> SUFFICES ASSUME CheckoutInv PROVE ChargedAsShown
    OBVIOUS
  <2>1. \A b \in Batches : BatchOK(b)
    BY DEF CheckoutInv, OrdersInv, Batches
  <2> QED BY <2>1 DEF OnPage, ChargedAsShown, ChargedOnce, LinesAddUp, ShownIsCharged, BatchOK
<1> QED BY <1>1, CheckoutInvariant, PTL

\* The shipping price a page sends was offered for its region and weight, unless it had their
\* quote when it came to them; and a page that waits for nothing and has not strayed shows the
\* server's cart (the calculator's query and effect, the store's refresh).
THEOREM PageAlwaysTrue == CheckoutSpec => []PageIsTrue
<1>1. CheckoutInv => PageIsTrue
  <2> SUFFICES ASSUME CheckoutInv PROVE PageIsTrue
    OBVIOUS
  <2>1. ShippingIsQuoted
    BY DEF OnPage, CheckoutInv, OrdersInv, Batches, BatchOK, ShippingIsQuoted
  <2>2. UiShowsCart
    BY DEF OnPage, CheckoutInv, WebOK, UiShowsCart
  <2> QED BY <2>1, <2>2 DEF PageIsTrue
<1> QED BY <1>1, CheckoutInvariant, PTL
=============================================================================
