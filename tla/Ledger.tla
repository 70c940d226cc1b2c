------------------------------- MODULE Ledger -------------------------------
(***************************************************************************)
(* The double-entry ledger of apps/api/src/finance/ledger.service.ts, seen *)
(* from one shop: every query of the service filters by shopId, and the    *)
(* platform accounts hold only what this shop's transactions put there.    *)
(*                                                                         *)
(* A FinancialTransaction is its reference (referenceType, referenceId)    *)
(* and its entries.  A posting has at most one entry per account, so its   *)
(* entries are a function from accounts to integers: a CREDIT is positive, *)
(* a DEBIT negative, 0 is no entry.  The entry table is kept as its sums   *)
(* by referenceType and account, which is all the queries look at.         *)
(***************************************************************************)
EXTENDS Integers, FiniteSets

CONSTANTS Orders,           \* orders that may be paid and refunded
          Payouts           \* ids of PayoutRequest rows

Accounts == {"PLATFORM_CLEARING", "PLATFORM_COMMISSION",
             "VENDOR_PAYABLE", "VENDOR_AVAILABLE"}

ReferenceTypes == {"Order", "Refund", "Payout", "PayoutRelease", "PayoutComplete"}

References == ({"Order", "Refund"} \X Orders)
                \cup ({"Payout", "PayoutRelease", "PayoutComplete"} \X Payouts)

NoEntries == [a \in Accounts |-> 0]

Total(e) == e["PLATFORM_CLEARING"] + e["PLATFORM_COMMISSION"]
              + e["VENDOR_PAYABLE"] + e["VENDOR_AVAILABLE"]

(***************************************************************************)
(* L.book[t][a]   sum of the POSTED entries of type t on account a         *)
(* L.posted[ref]  number of POSTED transactions with reference ref         *)
(* L.deCount      number of VENDOR_PAYABLE entries of the shop             *)
(***************************************************************************)
Ledgers == [book : [ReferenceTypes -> [Accounts -> Int]],
            posted : [References -> Nat],
            deCount : Nat]

EmptyLedger == [book |-> [t \in ReferenceTypes |-> NoEntries],
                posted |-> [ref \in References |-> 0],
                deCount |-> 0]

Balance(L, a) == L.book["Order"][a] + L.book["Refund"][a] + L.book["Payout"][a]
                   + L.book["PayoutRelease"][a] + L.book["PayoutComplete"][a]

VendorPayableBalanceCents(L) == Balance(L, "VENDOR_PAYABLE")

-----------------------------------------------------------------------------
(* Entries of the five postings.                                           *)

\* Commission is never negative and never more than the amount.
Capped(commission, amount) ==
  IF commission < 0 THEN 0 ELSE IF commission > amount THEN amount ELSE commission

PaymentEntries(amount, commission) ==
  [NoEntries EXCEPT !["PLATFORM_CLEARING"] = - amount,
                    !["VENDOR_PAYABLE"] = amount - Capped(commission, amount),
                    !["PLATFORM_COMMISSION"] = Capped(commission, amount)]

RefundEntries(amount, commission) ==
  [NoEntries EXCEPT !["PLATFORM_CLEARING"] = amount,
                    !["VENDOR_PAYABLE"] = Capped(commission, amount) - amount,
                    !["PLATFORM_COMMISSION"] = - Capped(commission, amount)]

PayoutReserveEntries(amount) ==
  [NoEntries EXCEPT !["VENDOR_PAYABLE"] = - amount, !["VENDOR_AVAILABLE"] = amount]

PayoutReleaseEntries(amount) ==
  [NoEntries EXCEPT !["VENDOR_AVAILABLE"] = - amount, !["VENDOR_PAYABLE"] = amount]

PayoutCompletedEntries(amount) ==
  [NoEntries EXCEPT !["VENDOR_AVAILABLE"] = - amount, !["PLATFORM_CLEARING"] = amount]

-----------------------------------------------------------------------------
(* postTransaction.                                                        *)

\* There is an entry, and debits equal credits; otherwise the call throws.
AssertBalanced(e) == e # NoEntries /\ Total(e) = 0

IsPosted(L, ref) == L.posted[ref] > 0

\* Mutant: the entries without a shopId are lost.
CreateVendorOnly(L, ref, e) ==
  [book |-> [L.book EXCEPT ![ref[1]] =
               [a \in Accounts |-> IF a \in {"VENDOR_PAYABLE", "VENDOR_AVAILABLE"}
                                    THEN L.book[ref[1]][a] + e[a] ELSE L.book[ref[1]][a]]],
   posted |-> [L.posted EXCEPT ![ref] = L.posted[ref] + 1],
   deCount |-> L.deCount + (IF e["VENDOR_PAYABLE"] = 0 THEN 0 ELSE 1)]

Create(L, ref, e) ==
  [book |-> [L.book EXCEPT ![ref[1]] = [a \in Accounts |-> L.book[ref[1]][a] + e[a]]],
   posted |-> [L.posted EXCEPT ![ref] = L.posted[ref] + 1],
   deCount |-> L.deCount + (IF e["VENDOR_PAYABLE"] = 0 THEN 0 ELSE 1)]

\* Idempotent by reference: a POSTED transaction is returned as it is.  The
\* lookup and the insert are one step only for callers that hold a lock.
PostTransaction(L, ref, e) ==
  IF ~AssertBalanced(e) \/ IsPosted(L, ref) THEN L ELSE Create(L, ref, e)

PostPayment(L, o, amount, commission) ==
  PostTransaction(L, <<"Order", o>>, PaymentEntries(amount, commission))

PostRefund(L, o, amount, commission) ==
  PostTransaction(L, <<"Refund", o>>, RefundEntries(amount, commission))

PostPayoutReserve(L, p, amount) ==
  PostTransaction(L, <<"Payout", p>>, PayoutReserveEntries(amount))

ReleasePayoutReserve(L, p, amount) ==
  PostTransaction(L, <<"PayoutRelease", p>>, PayoutReleaseEntries(amount))

PostPayoutCompleted(L, p, amount) ==
  PostTransaction(L, <<"PayoutComplete", p>>, PayoutCompletedEntries(amount))

Balanced(L) == \A t \in ReferenceTypes : Total(L.book[t]) = 0
=============================================================================
