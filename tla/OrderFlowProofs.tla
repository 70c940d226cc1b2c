--------------------------- MODULE OrderFlowProofs ---------------------------
(* Proofs about OrderFlow, for any orders, warehouses, calls and bounds and   *)
(* every interleaving.  GoodsOnlyAfterPayment is not inductive: a call that   *)
(* moves an order to PROCESSING or SHIPPED writes long after it read the      *)
(* order, so the earning must be tied to the call in flight (PaidMoves).      *)
(* With calls one at a time the books of the product are kept: SerialInv ties *)
(* the status of every order to that of its reservation, what the call in     *)
(* flight read to what is still there, and the tables to one place (Shape).   *)
EXTENDS MCOrderFlow, SumTheorems

-----------------------------------------------------------------------------
(* What the operators of Inventory preserve: the types of the tables, and   *)
(* that no warehouse row has more reserved than it has.                     *)

\* A warehouse that has a row has a record of two quantities.
LEMMA RowType ==
  ASSUME NEW I \in Inventories, NEW w \in Warehouses, HasRow(I, w)
  PROVE  I.rows[w] \in Rows
BY DEF Inventories, HasRow

\* The quantities summed by the database are integers.
LEMMA QuantitiesType ==
  ASSUME NEW I \in Inventories
  PROVE  Quantities(I) \in [Warehouses -> Int]
<1>1. ASSUME NEW w \in Warehouses
      PROVE  (IF HasRow(I, w) THEN I.rows[w].quantity ELSE 0) \in Int
  BY RowType DEF Rows, Column
<1> QED BY <1>1 DEF Quantities

LEMMA TotalIsSum == ASSUME NEW S, NEW f, DOMAIN f = S PROVE Total(f) = SumFunctionOnSet(f, S)
BY DEF Total, SumFunction, SumFunctionOnSet, FoldFunction

\* What the rows hold adds up to an integer.
LEMMA QuantitiesTotal == ASSUME NEW I \in Inventories PROVE Total(Quantities(I)) \in Int
<1>1. Quantities(I) \in [Warehouses -> Int]
  BY QuantitiesType
<1> HIDE DEF Quantities
<1>2. Total(Quantities(I)) = SumFunctionOnSet(Quantities(I), Warehouses)
  BY <1>1, TotalIsSum
<1> QED BY <1>1, <1>2, SumIsInt, WarehousesAssumption

\* syncProductStockAggregate only writes Product.stock.
LEMMA SyncEffect ==
  ASSUME NEW I \in Inventories
  PROVE  /\ SyncProductStockAggregate(I) \in Inventories
         /\ SyncProductStockAggregate(I).rows = I.rows
<1>1. Total(Quantities(I)) \in Int
  BY QuantitiesTotal
<1> QED BY <1>1 DEF SyncProductStockAggregate, Inventories

\* Decrementing Product.reservedStock touches no row.
LEMMA UnreserveEffect ==
  ASSUME NEW I \in Inventories, NEW q \in Nat
  PROVE  Unreserve(I, q) \in Inventories /\ Unreserve(I, q).rows = I.rows
<1>1. Max0(I.reservedStock - q) \in Nat
  BY DEF Max0, Inventories
<1> QED BY <1>1 DEF Unreserve, Inventories

\* Writing a reservation's status touches no row.
LEMMA HoldEffect ==
  ASSUME NEW I \in Inventories, NEW o \in Orders, NEW s \in ReservationStatus
  PROVE  /\ [I EXCEPT !.hold[o] = s] \in Inventories
         /\ [I EXCEPT !.hold[o] = s].rows = I.rows
BY DEF Inventories

\* Writing one row keeps the tables well typed, and covered if the new row is.
LEMMA RowEffect ==
  ASSUME NEW I \in Inventories, NEW w \in Warehouses, NEW r \in Rows,
         NEW J, J = [I EXCEPT !.rows[w] = r]
  PROVE  /\ J \in Inventories
         /\ Covered(I) /\ r.reserved <= r.quantity => Covered(J)
<1>1. J \in Inventories
  BY DEF Inventories
<1>2. ASSUME Covered(I), r.reserved <= r.quantity, NEW v \in Warehouses, HasRow(J, v)
      PROVE  J.rows[v].reserved <= J.rows[v].quantity
  <2>1. CASE v = w
    BY <1>2, <2>1 DEF Inventories
  <2>2. CASE v # w
    BY <1>2, <2>2 DEF Inventories, Covered, HasRow
  <2> QED BY <2>1, <2>2
<1> QED BY <1>1, <1>2 DEF Covered

\* Covered depends on the rows alone.
LEMMA SameRows ==
  ASSUME NEW I, NEW J, I.rows = J.rows, Covered(I)
  PROVE  Covered(J)
BY DEF Covered, HasRow

-----------------------------------------------------------------------------

\* The inline clean-up of reserve only changes statuses.
LEMMA ExpireStaleEffect ==
  ASSUME NEW I \in Inventories
  PROVE  /\ ExpireStale(I) \in Inventories
         /\ ExpireStale(I).rows = I.rows
         /\ ExpireStale(I).stock = I.stock
BY DEF ExpireStale, Inventories, ReservationStatus, Active

\* reserveStock, when it does not throw, stays within what the row has.
LEMMA ReserveStockEffect ==
  ASSUME NEW I \in Inventories, NEW w \in Warehouses, NEW q \in Nat \ {0},
         CanReserveStock(I, w, q)
  PROVE  /\ ReserveStock(I, w, q) \in Inventories
         /\ Covered(I) => Covered(ReserveStock(I, w, q))
<1>1. CASE HasRow(I, w)
  <2> DEFINE r == [I.rows[w] EXCEPT !.reserved = @ + q]
  <2>1. I.rows[w] \in Rows /\ I.rows[w].quantity - I.rows[w].reserved >= q
    BY <1>1, RowType DEF CanReserveStock
  <2>2. r \in Rows /\ r.reserved <= r.quantity
    BY <2>1, BoundsAssumption DEF Rows, Column
  <2>3. ReserveStock(I, w, q) = [I EXCEPT !.rows[w] = r]
    BY <1>1 DEF ReserveStock, Inventories
  <2> HIDE DEF r
  <2> QED BY <2>2, <2>3, RowEffect
<1>2. CASE ~HasRow(I, w)
  <2> DEFINE r == [quantity |-> I.stock, reserved |-> q]
  <2>1. r \in Rows /\ r.reserved <= r.quantity
    BY <1>2, BoundsAssumption DEF Rows, Column, CanReserveStock, Inventories
  <2>2. ReserveStock(I, w, q) = [I EXCEPT !.rows[w] = r]
    BY <1>2 DEF ReserveStock
  <2> HIDE DEF r
  <2> QED BY <2>1, <2>2, RowEffect
<1> QED BY <1>1, <1>2

\* reserve keeps the tables well typed and covered.
LEMMA ReserveEffect ==
  ASSUME NEW I \in Inventories, NEW o \in Orders,
         NEW w \in Warehouses \cup {NoWarehouse}, CanReserve(I, o, w)
  PROVE  /\ Reserve(I, o, w) \in Inventories
         /\ Covered(I) => Covered(Reserve(I, o, w))
<1> DEFINE J == ExpireStale(I)
<1>0. Quantity[o] \in Nat \ {0}
  BY QuantityAssumption
<1>1. J \in Inventories /\ J.rows = I.rows /\ J.stock = I.stock
  BY ExpireStaleEffect
<1> HIDE DEF J
<1>2. Covered(I) => Covered(J)
  BY <1>1, SameRows
<1>3. ASSUME NEW K \in Inventories
      PROVE  Held(K, o, w) \in Inventories /\ Held(K, o, w).rows = K.rows
  <2>1. K.reservedStock + Quantity[o] \in Nat
    BY <1>0 DEF Inventories
  <2>2. [K.hold EXCEPT ![o] = "ACTIVE"] \in [Orders -> ReservationStatus]
    BY DEF Inventories, ReservationStatus
  <2>3. [K.at EXCEPT ![o] = w] \in [Orders -> Warehouses \cup {NoWarehouse}]
    BY DEF Inventories
  <2> QED BY <2>1, <2>2, <2>3 DEF Held, Inventories
<1>4. CASE w = NoWarehouse
  <2>1. Reserve(I, o, w) = Held(J, o, w)
    BY <1>4 DEF Reserve, J
  <2> QED BY <2>1, <1>1, <1>2, <1>3, SameRows
<1>5. CASE w # NoWarehouse
  <2> DEFINE K == ReserveStock(J, w, Quantity[o])
  <2>1. w \in Warehouses /\ CanReserveStock(J, w, Quantity[o])
    BY <1>5, <1>1 DEF CanReserve, CanReserveStock, HasRow
  <2>2. K \in Inventories /\ (Covered(J) => Covered(K))
    BY <2>1, <1>0, <1>1, ReserveStockEffect
  <2>3. Reserve(I, o, w) = Held(K, o, w)
    BY <1>5 DEF Reserve, J
  <2> HIDE DEF K
  <2> QED BY <2>2, <2>3, <1>2, <1>3, SameRows
<1> QED BY <1>4, <1>5

-----------------------------------------------------------------------------

\* commitReservedStock takes the same from quantity and reserved.
LEMMA CommitReservedStockEffect ==
  ASSUME NEW I \in Inventories, NEW w \in Warehouses, NEW q \in Nat \ {0}, HasRow(I, w)
  PROVE  /\ CommitReservedStock(I, w, q) \in Inventories
         /\ Covered(I) => Covered(CommitReservedStock(I, w, q))
<1> DEFINE r == [quantity |-> I.rows[w].quantity - q, reserved |-> I.rows[w].reserved - q]
           J == [I EXCEPT !.rows[w] = r]
<1>1. I.rows[w] \in Rows
  BY RowType
<1>2. /\ r \in Rows
      /\ I.rows[w].reserved <= I.rows[w].quantity => r.reserved <= r.quantity
  BY <1>1, BoundsAssumption DEF Rows, Column
<1>3. Covered(I) => r.reserved <= r.quantity
  BY <1>1, <1>2 DEF Covered
<1>4. J \in Inventories /\ (Covered(I) => Covered(J))
  <2> HIDE DEF r
  <2> QED BY <1>2, <1>3, RowEffect
<1>5. CommitReservedStock(I, w, q) = SyncProductStockAggregate(J)
  BY DEF CommitReservedStock, Inventories
<1> HIDE DEF J
<1> QED BY <1>4, <1>5, SyncEffect, SameRows

\* confirm, when its updates find their rows, keeps the tables well typed and
\* covered, whatever the row has become since it was read.
LEMMA ConfirmEffect ==
  ASSUME NEW I \in Inventories, NEW o \in Orders, CanTakeUnits(I, o)
  PROVE  /\ Confirm(I, o) \in Inventories
         /\ Covered(I) => Covered(Confirm(I, o))
<1> DEFINE J == TakeUnits(I, o)
           K == [J EXCEPT !.hold[o] = "CONFIRMED"]
<1>0. Quantity[o] \in Nat \ {0}
  BY QuantityAssumption
<1>1. J \in Inventories /\ (Covered(I) => Covered(J))
  <2>1. CASE I.at[o] = NoWarehouse
    <3>1. J = [I EXCEPT !.stock = @ - Quantity[o]]
      BY <2>1 DEF TakeUnits
    <3>2. J \in Inventories /\ J.rows = I.rows
      BY <3>1, <1>0 DEF Inventories
    <3> HIDE DEF J
    <3> QED BY <3>2, SameRows
  <2>2. CASE I.at[o] # NoWarehouse
    <3>1. I.at[o] \in Warehouses
      BY <2>2 DEF Inventories
    <3> QED BY <2>2, <3>1, <1>0, CommitReservedStockEffect DEF TakeUnits, CanTakeUnits
  <2> QED BY <2>1, <2>2
<1> HIDE DEF J
<1>2. K \in Inventories /\ K.rows = J.rows
  BY <1>1, HoldEffect DEF ReservationStatus
<1> HIDE DEF K
<1>3. Unreserve(K, Quantity[o]) \in Inventories /\ Unreserve(K, Quantity[o]).rows = K.rows
  BY <1>0, <1>2, UnreserveEffect
<1>4. Confirm(I, o) = Unreserve(K, Quantity[o])
  BY DEF Confirm, J, K
<1> QED BY <1>1, <1>2, <1>3, <1>4, SameRows

-----------------------------------------------------------------------------

\* What releaseReservation reads is a number of units, or that there is no row.
LEMMA FreedType ==
  ASSUME NEW I \in Inventories, NEW w \in Warehouses \cup {NoWarehouse}, NEW q \in Nat
  PROVE  Freed(I, w, q) \in Nat \cup {NoRow}
<1>1. CASE w = NoWarehouse \/ ~HasRow(I, w)
  BY <1>1 DEF Freed
<1>2. CASE w # NoWarehouse /\ HasRow(I, w)
  <2>1. I.rows[w].reserved \in Int
    BY <1>2, RowType DEF Rows, Column
  <2> QED BY <1>2, <2>1 DEF Freed, Max0
<1> QED BY <1>1, <1>2

\* releaseReservation without restock keeps the tables well typed and covered,
\* whatever it read and whatever the reservation and the row have become.
LEMMA FreeReservedEffect ==
  ASSUME NEW I \in Inventories, NEW w \in Warehouses \cup {NoWarehouse},
         NEW freed \in Nat \cup {NoRow}
  PROVE  /\ FreeReserved(I, w, freed) \in Inventories
         /\ Covered(I) => Covered(FreeReserved(I, w, freed))
<1>1. CASE w = NoWarehouse \/ freed = NoRow \/ ~HasRow(I, w)
  BY <1>1 DEF FreeReserved
<1>2. CASE w # NoWarehouse /\ freed # NoRow /\ HasRow(I, w)
  <2> DEFINE r == [I.rows[w] EXCEPT !.reserved = @ - freed]
             J == [I EXCEPT !.rows[w] = r]
  <2>1. w \in Warehouses /\ freed \in Nat /\ I.rows[w] \in Rows
    BY <1>2, RowType
  <2>2. /\ r \in Rows
        /\ I.rows[w].reserved <= I.rows[w].quantity => r.reserved <= r.quantity
    BY <2>1, BoundsAssumption DEF Rows, Column
  <2>3. Covered(I) => r.reserved <= r.quantity
    BY <1>2, <2>1, <2>2 DEF Covered
  <2>4. J \in Inventories /\ (Covered(I) => Covered(J))
    <3> HIDE DEF r
    <3> QED BY <2>1, <2>2, <2>3, RowEffect
  <2>5. FreeReserved(I, w, freed) = SyncProductStockAggregate(J)
    BY <1>2, <2>1 DEF FreeReserved, Inventories
  <2> HIDE DEF J
  <2> QED BY <2>4, <2>5, SyncEffect, SameRows
<1> QED BY <1>1, <1>2

\* releaseReservation with restock keeps the tables well typed and covered.
LEMMA RestockEffect ==
  ASSUME NEW I \in Inventories, NEW w \in Warehouses \cup {NoWarehouse},
         NEW q \in Nat \ {0}, WithinBound(I, w, q)
  PROVE  /\ Restock(I, w, q) \in Inventories
         /\ Covered(I) => Covered(Restock(I, w, q))
<1>1. CASE w = NoWarehouse
  <2>1. Restock(I, w, q) = [I EXCEPT !.stock = @ + q]
    BY <1>1 DEF Restock
  <2>2. Restock(I, w, q) \in Inventories /\ Restock(I, w, q).rows = I.rows
    BY <2>1 DEF Inventories
  <2> QED BY <2>2, SameRows
<1>2. CASE w # NoWarehouse /\ ~HasRow(I, w)
  BY <1>2 DEF Restock
<1>3. CASE w # NoWarehouse /\ HasRow(I, w)
  <2> DEFINE r == [I.rows[w] EXCEPT !.quantity = @ + q]
             J == [I EXCEPT !.rows[w] = r]
  <2>1. /\ w \in Warehouses /\ I.rows[w] \in Rows
        /\ I.rows[w].quantity + q <= MaxUnits
    BY <1>3, RowType DEF WithinBound
  <2>2. /\ r \in Rows
        /\ I.rows[w].reserved <= I.rows[w].quantity => r.reserved <= r.quantity
    BY <2>1, BoundsAssumption DEF Rows, Column
  <2>3. Covered(I) => r.reserved <= r.quantity
    BY <1>3, <2>1, <2>2 DEF Covered
  <2>4. J \in Inventories /\ (Covered(I) => Covered(J))
    <3> HIDE DEF r
    <3> QED BY <2>1, <2>2, <2>3, RowEffect
  <2>5. Restock(I, w, q) = SyncProductStockAggregate(J)
    BY <1>3, <2>1 DEF Restock, Inventories
  <2> HIDE DEF J
  <2> QED BY <2>4, <2>5, SyncEffect, SameRows
<1> QED BY <1>1, <1>2, <1>3

\* Ending a reservation keeps the tables well typed and covered.
LEMMA EndHoldEffect ==
  ASSUME NEW I \in Inventories, NEW o \in Orders, NEW s \in ReservationStatus,
         NEW freed \in Nat \cup {NoRow}
  PROVE  /\ EndHold(I, o, s, freed) \in Inventories
         /\ Covered(I) => Covered(EndHold(I, o, s, freed))
<1> DEFINE J == FreeReserved(I, I.at[o], freed)
           K == [J EXCEPT !.hold[o] = s]
<1>0. Quantity[o] \in Nat \ {0} /\ I.at[o] \in Warehouses \cup {NoWarehouse}
  BY QuantityAssumption DEF Inventories
<1>1. J \in Inventories /\ (Covered(I) => Covered(J))
  BY <1>0, FreeReservedEffect
<1> HIDE DEF J
<1>2. K \in Inventories /\ K.rows = J.rows
  BY <1>1, HoldEffect
<1> HIDE DEF K
<1>3. Unreserve(K, Quantity[o]) \in Inventories /\ Unreserve(K, Quantity[o]).rows = K.rows
  BY <1>0, <1>2, UnreserveEffect
<1>4. EndHold(I, o, s, freed) = Unreserve(K, Quantity[o])
  BY DEF EndHold, J, K
<1> QED BY <1>1, <1>2, <1>3, <1>4, SameRows

-----------------------------------------------------------------------------
(* The orders                                                               *)

Goods == {"PAID", "PROCESSING", "SHIPPED"}

\* A call s on its way to write a status in Goods is for an order with an earning.
Backed(s, e) ==
  (s # NotCalling /\ s.op = "update" /\ s.to \in Goods) => e[s.order] > 0

PaidMoves == \A c \in Calls : Backed(call[c], earnings)

GoodsPaid == \A o \in Orders : status[o] \in Goods => earnings[o] > 0

Inv == TypeOK /\ GoodsPaid /\ PaidMoves

-----------------------------------------------------------------------------

\* A call that takes a well-typed, backed state disturbs no other call.
LEMMA CallChange ==
  ASSUME Inv, NEW c \in Calls, NEW s \in CallStates, Becomes(c, s),
         NEW e \in [Orders -> Nat], \A o \in Orders : e[o] >= earnings[o],
         Backed(s, e)
  PROVE  call' \in [Calls -> CallStates] /\ \A d \in Calls : Backed(call'[d], e)
<1>1. call' \in [Calls -> CallStates]
  BY DEF Inv, TypeOK, Becomes
<1>2. ASSUME NEW d \in Calls
      PROVE  Backed(call'[d], e)
  <2>1. CASE d = c
    BY <2>1 DEF Becomes, Inv, TypeOK
  <2>2. CASE d # c
    <3>1. call'[d] = call[d] /\ call[d] \in CallStates /\ Backed(call[d], earnings)
      BY <2>2 DEF Becomes, Inv, TypeOK, PaidMoves
    <3>2. call[d] # NotCalling /\ call[d].op = "update" => call[d].order \in Orders
      BY <3>1 DEF CallStates
    <3>3. earnings \in [Orders -> Nat]
      BY DEF Inv, TypeOK
    <3> QED BY <3>1, <3>2, <3>3 DEF Backed
  <2> QED BY <2>1, <2>2
<1> QED BY <1>1, <1>2

\* A step that only reads, and remembers s.
LEMMA ReadStep ==
  ASSUME Inv, NEW c \in Calls, NEW s \in CallStates, Becomes(c, s),
         Backed(s, earnings), UNCHANGED <<inv, status, earnings, default>>
  PROVE  Inv'
<1>1. earnings \in [Orders -> Nat]
  BY DEF Inv, TypeOK
<1>2. call' \in [Calls -> CallStates] /\ \A d \in Calls : Backed(call'[d], earnings)
  BY <1>1, CallChange
<1> QED BY <1>2 DEF Inv, TypeOK, GoodsPaid, PaidMoves

\* Returning is always safe.
LEMMA ReturnBacked ==
  ASSUME NEW e
  PROVE  NotCalling \in CallStates /\ Backed(NotCalling, e)
BY DEF CallStates, Backed

\* A step that writes the tables and status s of order o, and returns.
LEMMA WriteStep ==
  ASSUME Inv, NEW c \in Calls, Becomes(c, NotCalling),
         NEW o \in Orders, NEW s \in OrderStatus,
         inv' \in Inventories, status' = [status EXCEPT ![o] = s],
         s \in Goods => earnings[o] > 0, UNCHANGED <<earnings, default>>
  PROVE  Inv'
<1>1. earnings \in [Orders -> Nat]
  BY DEF Inv, TypeOK
<1>2. call' \in [Calls -> CallStates] /\ \A d \in Calls : Backed(call'[d], earnings)
  BY <1>1, CallChange, ReturnBacked
<1>3. /\ status' \in [Orders -> OrderStatus \cup {"none"}]
      /\ \A p \in Orders : status'[p] \in Goods => earnings[p] > 0
  BY DEF Inv, TypeOK, GoodsPaid
<1> QED BY <1>2, <1>3 DEF Inv, TypeOK, GoodsPaid, PaidMoves

\* A step that writes only the tables.
LEMMA TableStep ==
  ASSUME Inv, inv' \in Inventories, UNCHANGED <<status, earnings, default, call>>
  PROVE  Inv'
BY DEF Inv, TypeOK, GoodsPaid, PaidMoves

\* What a call in flight remembers is well typed.
LEMMA CallTypes ==
  ASSUME Inv, NEW c \in Calls
  PROVE  /\ \A op \in {"pay", "expire", "confirm", "commit", "update", "release", "free", "end"} :
              InStep(c, op) => call[c].order \in Orders
         /\ InStep(c, "confirm") => call[c].active \in BOOLEAN
         /\ InStep(c, "update") => call[c].from \in OrderStatus /\ call[c].to \in OrderStatus
         /\ InStep(c, "release") => call[c].to \in CancelLike /\ call[c].active \in BOOLEAN
         /\ InStep(c, "free") => call[c].to \in CancelLike /\ call[c].freed \in Nat \cup {NoRow}
         /\ InStep(c, "end") => call[c].freed \in Nat \cup {NoRow}
         /\ InStep(c, "sync") => call[c].total \in Int
<1>1. call[c] \in CallStates
  BY DEF Inv, TypeOK
<1> QED BY <1>1 DEF InStep, CallStates

\* Only an order read PAID or PROCESSING can be moved on to PROCESSING or SHIPPED.
LEMMA GoodsFromGoods ==
  ASSUME NEW role \in Roles, NEW from, NEW to, CanTransition(role, from, to)
  PROVE  from \in OrderStatus /\ to \in OrderStatus /\ (to \in Goods => from \in Goods)
BY DEF Roles, CanTransition, AllowedTransitions, MerchantTransitions,
       CustomerTransitions, AdminTransitions, OrderStatus, Goods

-----------------------------------------------------------------------------

LEMMA InitInv == Init => Inv
<1> SUFFICES ASSUME Init PROVE Inv
  OBVIOUS
<1>1. inv \in Inventories
  BY BoundsAssumption DEF Init, InitialInventory, Inventories, ReservationStatus
<1>2. default \in Warehouses \cup {NoWarehouse}
  BY EnvironmentAssumption DEF Init
<1>3. call \in [Calls -> CallStates] /\ PaidMoves
  BY ReturnBacked DEF Init, PaidMoves
<1> QED BY <1>1, <1>2, <1>3 DEF Init, Inv, TypeOK, GoodsPaid, Goods

-----------------------------------------------------------------------------

\* Every first step of a call keeps the invariant.
LEMMA StartInv ==
  ASSUME Inv, NEW c \in Calls, Start(c)
  PROVE  Inv'
<1>0. inv \in Inventories /\ default \in Warehouses \cup {NoWarehouse}
      /\ status \in [Orders -> OrderStatus \cup {"none"}] /\ earnings \in [Orders -> Nat]
  BY DEF Inv, TypeOK
<1>1. ASSUME NEW o \in Orders, Checkout(c, o)
      PROVE  Inv'
  <2>1. inv' \in Inventories
    BY <1>0, <1>1, ReserveEffect DEF Checkout
  <2>2. /\ status' \in [Orders -> OrderStatus \cup {"none"}]
        /\ \A p \in Orders : status'[p] \in Goods => status[p] \in Goods
    BY <1>0, <1>1 DEF Checkout, OrderStatus, Goods
  <2> QED BY <1>1, <2>1, <2>2 DEF Checkout, Inv, TypeOK, GoodsPaid, PaidMoves
<1>2. ASSUME NEW o \in Orders, MarkPaidRead(c, o)
      PROVE  Inv'
  <2>1. Paying(o) \in CallStates /\ Backed(Paying(o), earnings)
    BY DEF Paying, CallStates, Backed
  <2> QED BY <1>2, <2>1, ReadStep DEF MarkPaidRead
<1>3. ASSUME NEW o \in Orders, ReleaseExpiredRead(c, o)
      PROVE  Inv'
  <2>1. Expiring(o) \in CallStates /\ Backed(Expiring(o), earnings)
    BY DEF Expiring, CallStates, Backed
  <2> QED BY <1>3, <2>1, ReadStep DEF ReleaseExpiredRead
<1>4. ASSUME NEW o \in Orders, MarkDisputed(c, o)
      PROVE  Inv'
  <2>1. /\ status' \in [Orders -> OrderStatus \cup {"none"}]
        /\ \A p \in Orders : status'[p] \in Goods => status[p] \in Goods
    BY <1>0, <1>4 DEF MarkDisputed, OrderStatus, Goods
  <2> QED BY <1>4, <2>1 DEF MarkDisputed, Inv, TypeOK, GoodsPaid, PaidMoves
<1>5. ASSUME NEW o \in Orders, NEW role \in Roles, NEW to \in Targets,
             UpdateStatusRead(c, o, role, to)
      PROVE  Inv'
  <2> DEFINE s == Updating(o, status[o], to)
  <2>1. /\ CanTransition(role, status[o], to) /\ Becomes(c, s)
        /\ UNCHANGED <<inv, status, earnings, default>>
    BY <1>5 DEF UpdateStatusRead
  <2>2. /\ status[o] \in OrderStatus /\ to \in OrderStatus
        /\ to \in Goods => status[o] \in Goods
    BY <2>1, GoodsFromGoods
  <2>3. s \in CallStates
    BY <2>2 DEF Updating, CallStates
  <2>4. s.to \in Goods => earnings[s.order] > 0
    BY <2>2 DEF Updating, Inv, GoodsPaid
  <2>5. Backed(s, earnings)
    BY <2>4 DEF Backed
  <2> HIDE DEF s
  <2> QED BY <2>1, <2>3, <2>5, ReadStep
<1>6. ASSUME NEW n \in StockEdits, UpdateProduct(c, n)
      PROVE  Inv'
  <2>1. n \in Nat
    BY EnvironmentAssumption, BoundsAssumption
  <2>2. inv' \in Inventories
    BY <1>0, <1>6, <2>1 DEF UpdateProduct, Inventories
  <2> QED BY <1>6, <2>2, TableStep DEF UpdateProduct
<1>7. ASSUME NEW n \in StockEdits, NEW w \in Warehouses, UpsertProductStock(c, w, n)
      PROVE  Inv'
  <2> DEFINE r == [quantity |-> n,
                   reserved |-> IF HasRow(inv, w) THEN inv.rows[w].reserved ELSE 0]
             t == Total(Quantities(inv'))
  <2>1. n \in 0..MaxUnits /\ 0 \in 0..MaxUnits
    BY EnvironmentAssumption, BoundsAssumption
  <2>2. r \in Rows
    BY <1>0, <2>1, RowType DEF Rows, Column
  <2>3. inv' = [inv EXCEPT !.rows[w] = r]
    BY <1>0, <1>7 DEF UpsertProductStock, Inventories
  <2>4. inv' \in Inventories
    <3> HIDE DEF r
    <3> QED BY <1>0, <2>2, <2>3, RowEffect
  <2>5. t \in Int
    BY <2>4, QuantitiesTotal
  <2> HIDE DEF t, r
  <2>6. Syncing(t) \in CallStates /\ Backed(Syncing(t), earnings)
    BY <2>5 DEF Syncing, CallStates, Backed
  <2>7. Becomes(c, Syncing(t)) /\ UNCHANGED <<status, earnings, default>>
    BY <1>7 DEF UpsertProductStock, t
  <2>8. call' \in [Calls -> CallStates] /\ \A d \in Calls : Backed(call'[d], earnings)
    BY <1>0, <2>6, <2>7, CallChange
  <2> QED BY <2>4, <2>7, <2>8 DEF Inv, TypeOK, GoodsPaid, PaidMoves
<1>8. ASSUME NEW w \in DefaultMoves, ChangeDefaultWarehouse(c, w)
      PROVE  Inv'
  <2>1. default' \in Warehouses \cup {NoWarehouse}
    BY <1>8, EnvironmentAssumption DEF ChangeDefaultWarehouse
  <2> QED BY <1>8, <2>1 DEF ChangeDefaultWarehouse, Inv, TypeOK, GoodsPaid, PaidMoves
<1> QED BY <1>1, <1>2, <1>3, <1>4, <1>5, <1>6, <1>7, <1>8
        DEF Start, CreateDispute, HandleStripeDispute, CreateWarehouse, UpdateWarehouse

\* Every later step of a call keeps the invariant.
LEMMA ContinueInv ==
  ASSUME Inv, NEW c \in Calls, Continue(c)
  PROVE  Inv'
<1>0. inv \in Inventories /\ status \in [Orders -> OrderStatus \cup {"none"}]
      /\ earnings \in [Orders -> Nat]
  BY DEF Inv, TypeOK
<1> DEFINE o == call[c].order
<1>1. CASE MarkPaidBegin(c)
  <2>1. o \in Orders
    BY <1>1, CallTypes DEF MarkPaidBegin
  <2> DEFINE a == o \in Active(inv)
  <2>2. Becomes(c, Confirming(o, a)) /\ a \in BOOLEAN
    BY <1>1 DEF MarkPaidBegin
  <2> HIDE DEF a
  <2>3. Confirming(o, a) \in CallStates /\ Backed(Confirming(o, a), earnings)
    BY <2>1, <2>2 DEF Confirming, CallStates, Backed
  <2> QED BY <1>1, <2>2, <2>3, ReadStep DEF MarkPaidBegin
<1>2. ASSUME inv' \in Inventories, o \in Orders, MarkPaid(c) PROVE Inv'
  <2>3. /\ earnings' = [earnings EXCEPT ![o] = @ + 1]
        /\ status' = [status EXCEPT ![o] = "PAID"]
        /\ Becomes(c, NotCalling) /\ UNCHANGED default
    BY <1>2 DEF MarkPaid
  <2>4. /\ earnings' \in [Orders -> Nat] /\ earnings'[o] > 0
        /\ \A p \in Orders : earnings'[p] >= earnings[p]
    BY <1>0, <1>2, <2>3
  <2>5. call' \in [Calls -> CallStates] /\ \A d \in Calls : Backed(call'[d], earnings')
    <3> HIDE DEF o
    <3>1. NotCalling \in CallStates /\ Backed(NotCalling, earnings')
      BY ReturnBacked
    <3> QED BY <2>3, <2>4, <3>1, CallChange
  <2>6. status' \in [Orders -> OrderStatus \cup {"none"}]
    BY <1>0, <2>3 DEF OrderStatus
  <2>7. ASSUME NEW p \in Orders, status'[p] \in Goods
        PROVE  earnings'[p] > 0
    <3>1. CASE p = o
      BY <3>1, <2>4
    <3>2. CASE p # o
      <4>1. earnings[p] > 0
        BY <1>0, <2>3, <2>7, <3>2 DEF Inv, GoodsPaid
      <4> QED BY <4>1, <2>4, <1>0
    <3> QED BY <3>1, <3>2
  <2> QED BY <1>2, <2>3, <2>4, <2>5, <2>6, <2>7 DEF Inv, TypeOK, GoodsPaid, PaidMoves
<1>10. CASE MarkPaidLock(c)
  <2>1. o \in Orders
    BY <1>10, CallTypes DEF MarkPaidLock
  <2>2. Committing(o) \in CallStates /\ Backed(Committing(o), earnings)
    BY <2>1 DEF Committing, CallStates, Backed
  <2> QED BY <1>10, <2>2, ReadStep DEF MarkPaidLock
<1>11. CASE MarkPaidCommit(c)
  <2>1. o \in Orders
    BY <1>11, CallTypes DEF MarkPaidCommit
  <2>2. inv' \in Inventories
    BY <1>0, <1>11, <2>1, ConfirmEffect DEF MarkPaidCommit
  <2> QED BY <1>2, <1>11, <2>1, <2>2 DEF MarkPaidCommit
<1>12. CASE MarkPaidLate(c)
  <2>1. o \in Orders /\ inv' \in Inventories
    BY <1>0, <1>12, CallTypes DEF MarkPaidLate
  <2> QED BY <1>2, <1>12, <2>1 DEF MarkPaidLate
<1>3. CASE UpdateStatusPlain(c)
  <2>1. o \in Orders /\ call[c].to \in OrderStatus
    BY <1>3, CallTypes DEF UpdateStatusPlain
  <2>2. call[c].to \in Goods => earnings[o] > 0
    BY <1>3 DEF UpdateStatusPlain, InStep, Inv, PaidMoves, Backed
  <2>3. inv' \in Inventories
    BY <1>0, <1>3 DEF UpdateStatusPlain
  <2> QED BY <1>3, <2>1, <2>2, <2>3, WriteStep DEF UpdateStatusPlain
<1>4. CASE UpdateStatusRestock(c)
  <2>1. o \in Orders /\ call[c].to \in OrderStatus /\ call[c].to \notin Goods
    BY <1>4, CallTypes DEF UpdateStatusRestock, CancelLike, Goods
  <2>2. inv.at[o] \in Warehouses \cup {NoWarehouse} /\ Quantity[o] \in Nat \ {0}
    BY <1>0, <2>1, QuantityAssumption DEF Inventories
  <2>3. inv' \in Inventories
    BY <1>0, <1>4, <2>2, RestockEffect DEF UpdateStatusRestock
  <2> QED BY <1>4, <2>1, <2>3, WriteStep DEF UpdateStatusRestock
<1>5. CASE UpdateStatusBegin(c)
  <2>1. o \in Orders /\ call[c].to \in CancelLike
    BY <1>5, CallTypes DEF UpdateStatusBegin
  <2> DEFINE a == o \in Active(inv)
  <2>2. Becomes(c, Releasing(o, call[c].to, a)) /\ a \in BOOLEAN
    BY <1>5 DEF UpdateStatusBegin
  <2> HIDE DEF a
  <2>3. /\ Releasing(o, call[c].to, a) \in CallStates
        /\ Backed(Releasing(o, call[c].to, a), earnings)
    BY <2>1, <2>2 DEF Releasing, CallStates, Backed
  <2> QED BY <1>5, <2>2, <2>3, ReadStep DEF UpdateStatusBegin
<1>6. CASE UpdateStatusRelease(c)
  <2>1. /\ o \in Orders /\ call[c].to \in OrderStatus /\ call[c].to \notin Goods
        /\ call[c].freed \in Nat \cup {NoRow}
    BY <1>6, CallTypes DEF UpdateStatusRelease, CancelLike, Goods, OrderStatus
  <2>2. inv' \in Inventories
    BY <1>0, <1>6, <2>1, EndHoldEffect DEF UpdateStatusRelease, ReleaseOrder, ReservationStatus
  <2> QED BY <1>6, <2>1, <2>2, WriteStep DEF UpdateStatusRelease
<1>7. CASE ReleaseExpiredCommit(c)
  <2>1. o \in Orders /\ call[c].freed \in Nat \cup {NoRow}
    BY <1>7, CallTypes DEF ReleaseExpiredCommit
  <2>2. inv' \in Inventories
    BY <1>0, <1>7, <2>1, EndHoldEffect DEF ReleaseExpiredCommit, ReleaseExpired, ReservationStatus
  <2>3. call' \in [Calls -> CallStates] /\ \A d \in Calls : Backed(call'[d], earnings)
    BY <1>0, <1>7, CallChange, ReturnBacked DEF ReleaseExpiredCommit
  <2> QED BY <1>7, <2>2, <2>3 DEF ReleaseExpiredCommit, Inv, TypeOK, GoodsPaid, PaidMoves
<1>13. ASSUME o \in Orders
       PROVE  Freed(inv, inv.at[o], Quantity[o]) \in Nat \cup {NoRow}
  <2>1. inv.at[o] \in Warehouses \cup {NoWarehouse} /\ Quantity[o] \in Nat
    BY <1>0, <1>13, QuantityAssumption DEF Inventories
  <2> QED BY <1>0, <2>1, FreedType
<1>14. CASE UpdateStatusReadRow(c)
  <2> DEFINE f == Freed(inv, inv.at[o], Quantity[o])
  <2>1. o \in Orders /\ call[c].to \in CancelLike
    BY <1>14, CallTypes DEF UpdateStatusReadRow
  <2>2. f \in Nat \cup {NoRow} /\ Becomes(c, Freeing(o, call[c].to, f))
    BY <1>13, <1>14, <2>1 DEF UpdateStatusReadRow
  <2> HIDE DEF f
  <2>3. Freeing(o, call[c].to, f) \in CallStates /\ Backed(Freeing(o, call[c].to, f), earnings)
    BY <2>1, <2>2 DEF Freeing, CallStates, Backed
  <2> QED BY <1>14, <2>2, <2>3, ReadStep DEF UpdateStatusReadRow
<1>15. CASE ReleaseExpiredReadRow(c)
  <2> DEFINE f == Freed(inv, inv.at[o], Quantity[o])
  <2>1. o \in Orders
    BY <1>15, CallTypes DEF ReleaseExpiredReadRow
  <2>2. f \in Nat \cup {NoRow} /\ Becomes(c, Ending(o, f))
    BY <1>13, <1>15, <2>1 DEF ReleaseExpiredReadRow
  <2> HIDE DEF f
  <2>3. Ending(o, f) \in CallStates /\ Backed(Ending(o, f), earnings)
    BY <2>1, <2>2 DEF Ending, CallStates, Backed
  <2> QED BY <1>15, <2>2, <2>3, ReadStep DEF ReleaseExpiredReadRow
<1>16. CASE UpdateStatusNothing(c)
  <2>1. /\ o \in Orders /\ call[c].to \in OrderStatus /\ call[c].to \notin Goods
        /\ inv' \in Inventories
    BY <1>0, <1>16, CallTypes DEF UpdateStatusNothing, CancelLike, Goods, OrderStatus
  <2> QED BY <1>16, <2>1, WriteStep DEF UpdateStatusNothing
<1>8. CASE WriteProductStock(c)
  <2>1. call[c].total \in Int
    BY <1>8, CallTypes DEF WriteProductStock
  <2>2. inv' \in Inventories
    BY <1>0, <1>8, <2>1 DEF WriteProductStock, Inventories
  <2>3. call' \in [Calls -> CallStates] /\ \A d \in Calls : Backed(call'[d], earnings)
    BY <1>0, <1>8, CallChange, ReturnBacked DEF WriteProductStock
  <2> QED BY <1>8, <2>2, <2>3 DEF WriteProductStock, Inv, TypeOK, GoodsPaid, PaidMoves
<1>9. CASE Abandon(c)
  BY <1>9, ReturnBacked, ReadStep DEF Abandon
<1> QED BY <1>1, <1>3, <1>4, <1>5, <1>6, <1>7, <1>8, <1>9, <1>10, <1>11, <1>12, <1>14, <1>15, <1>16
        DEF Continue

\* So does every step of the specification.
LEMMA NextInv == Inv /\ [Next]_vars => Inv'
<1> SUFFICES ASSUME Inv, [Next]_vars PROVE Inv'
  OBVIOUS
<1>1. ASSUME NEW o \in Orders, PassExpiry(o)
      PROVE  Inv'
  <2>1. inv' \in Inventories
    BY <1>1 DEF PassExpiry, Inv, TypeOK, Inventories
  <2> QED BY <1>1, <2>1, TableStep DEF PassExpiry
<1>2. CASE UNCHANGED vars
  BY <1>2 DEF vars, Inv, TypeOK, GoodsPaid, PaidMoves
<1> QED BY <1>1, <1>2, StartInv, ContinueInv DEF Next

\* The inductive invariant: types, paid goods, and calls in flight that are
\* about to move an order on only if it was paid.
THEOREM Invariance == Spec => []Inv
BY InitInv, NextInv, PTL DEF Spec

\* reservedStock, which every writer clamps, never goes negative, and no call
\* remembers an ill-typed value; the columns of the rows may go negative.
THEOREM TypeCorrect == Spec => []TypeOK
<1>1. Inv => TypeOK
  BY DEF Inv
<1> QED BY Invariance, <1>1, PTL

\* Whatever calls are in flight, an order in PAID, PROCESSING or SHIPPED has a
\* posted vendor earning (updateStatus writes on a stale read of the order).
THEOREM GoodsArePaid == Spec => []GoodsOnlyAfterPayment
<1>1. Inv => GoodsOnlyAfterPayment
  BY DEF Inv, GoodsPaid, Goods, GoodsOnlyAfterPayment
<1> QED BY Invariance, <1>1, PTL

-----------------------------------------------------------------------------

\* Unless merchants enter a lower quantity, a step keeps every warehouse row covered.
LEMMA CoveredStep ==
  ASSUME Inv, Covered(inv), StockEdits \subseteq {MaxUnits}, Next
  PROVE  Covered(inv')
<1>0. inv \in Inventories /\ default \in Warehouses \cup {NoWarehouse}
  BY DEF Inv, TypeOK
<1>1. ASSUME NEW o \in Orders, PassExpiry(o)
      PROVE  Covered(inv')
  <2>1. inv'.rows = inv.rows
    BY <1>0, <1>1 DEF PassExpiry, Inventories
  <2> QED BY <2>1, SameRows
<1>2. ASSUME NEW c \in Calls, Start(c)
      PROVE  Covered(inv')
  <2>1. CASE \E o \in Orders : Checkout(c, o)
    BY <1>0, <2>1, ReserveEffect DEF Checkout
  <2>2. CASE UNCHANGED inv
    BY <2>2, SameRows
  <2>3. ASSUME NEW n \in StockEdits, UpdateProduct(c, n)
        PROVE  Covered(inv')
    <3>1. inv'.rows = inv.rows
      BY <1>0, <2>3 DEF UpdateProduct, Inventories
    <3> QED BY <3>1, SameRows
  <2>4. ASSUME NEW n \in StockEdits, NEW w \in Warehouses, UpsertProductStock(c, w, n)
        PROVE  Covered(inv')
    <3> DEFINE row == [quantity |-> n, reserved |-> IF HasRow(inv, w) THEN inv.rows[w].reserved ELSE 0]
    <3>1. inv.rows \in [Warehouses -> Rows \cup {NoRow}] /\ inv'.rows = [inv.rows EXCEPT ![w] = row]
      BY <1>0, <2>4 DEF UpsertProductStock, Inventories, HasRow
    <3>2. n = MaxUnits
      OBVIOUS
    <3>3. row.reserved <= row.quantity
      BY <3>1, <3>2, BoundsAssumption DEF HasRow, Rows, Column
    <3> HIDE DEF row
    <3>4. ASSUME NEW x \in Warehouses, HasRow(inv', x)
          PROVE  inv'.rows[x].reserved <= inv'.rows[x].quantity
      <4>1. CASE x = w
        BY <3>1, <3>3, <4>1
      <4>2. CASE x # w
        BY <3>1, <3>4, <4>2 DEF Covered, HasRow
      <4> QED BY <4>1, <4>2
    <3> QED BY <3>4 DEF Covered
  <2> QED BY <1>2, <2>1, <2>2, <2>3, <2>4
          DEF Start, MarkPaidRead, ReleaseExpiredRead, CreateDispute, HandleStripeDispute,
              MarkDisputed, UpdateStatusRead, CreateWarehouse, UpdateWarehouse,
              ChangeDefaultWarehouse
<1>3. ASSUME NEW c \in Calls, Continue(c)
      PROVE  Covered(inv')
  <2> DEFINE o == call[c].order
  <2>1. CASE MarkPaidCommit(c)
    <3>1. o \in Orders
      BY <2>1, CallTypes DEF MarkPaidCommit
    <3> QED BY <1>0, <2>1, <3>1, ConfirmEffect DEF MarkPaidCommit
  <2>2. CASE UpdateStatusRestock(c)
    <3>1. o \in Orders
      BY <2>2, CallTypes DEF UpdateStatusRestock
    <3>2. inv.at[o] \in Warehouses \cup {NoWarehouse} /\ Quantity[o] \in Nat \ {0}
      BY <1>0, <3>1, QuantityAssumption DEF Inventories
    <3> QED BY <1>0, <2>2, <3>2, RestockEffect DEF UpdateStatusRestock
  <2>3. CASE UpdateStatusRelease(c)
    <3>1. o \in Orders /\ call[c].freed \in Nat \cup {NoRow}
      BY <2>3, CallTypes DEF UpdateStatusRelease
    <3> QED BY <1>0, <2>3, <3>1, EndHoldEffect DEF UpdateStatusRelease, ReleaseOrder, ReservationStatus
  <2>4. CASE ReleaseExpiredCommit(c)
    <3>1. o \in Orders /\ call[c].freed \in Nat \cup {NoRow}
      BY <2>4, CallTypes DEF ReleaseExpiredCommit
    <3> QED BY <1>0, <2>4, <3>1, EndHoldEffect DEF ReleaseExpiredCommit, ReleaseExpired, ReservationStatus
  <2>5. CASE WriteProductStock(c)
    <3>1. inv'.rows = inv.rows
      BY <1>0, <2>5 DEF WriteProductStock, Inventories
    <3> QED BY <3>1, SameRows
  <2>6. CASE UNCHANGED inv
    BY <2>6, SameRows
  <2> QED BY <1>3, <2>1, <2>2, <2>3, <2>4, <2>5, <2>6
          DEF Continue, MarkPaidBegin, MarkPaidLock, MarkPaidLate, UpdateStatusPlain,
              UpdateStatusBegin, UpdateStatusReadRow, UpdateStatusNothing,
              ReleaseExpiredReadRow, Abandon
<1> QED BY <1>1, <1>2, <1>3 DEF Next

\* As long as merchants do not lower quantities under what may be reserved, no
\* warehouse ever has more units reserved than it has: concurrent checkouts, payments, cancellations and
\* expiries, stale reads and lost calls included.
THEOREM NeverOverReserved ==
  ASSUME StockEdits \subseteq {MaxUnits}
  PROVE  Spec => []NoOverReserve
<1>1. Init => NoOverReserve
  BY DEF Init, InitialInventory, NoOverReserve, Covered, HasRow
<1>2. Inv /\ NoOverReserve /\ [Next]_vars => NoOverReserve'
  <2> SUFFICES ASSUME Inv, NoOverReserve, [Next]_vars PROVE Covered(inv')
    BY DEF NoOverReserve, Covered, HasRow
  <2>1. CASE Next
    BY <2>1, CoveredStep DEF NoOverReserve
  <2>2. CASE UNCHANGED vars
    BY <2>2 DEF vars, NoOverReserve
  <2> QED BY <2>1, <2>2
<1> QED BY Invariance, <1>1, <1>2, PTL DEF Spec

-----------------------------------------------------------------------------
(* One call at a time: the books of the product.                            *)

\* What a set of orders has in its lines.
UnitsOf(S) == [o \in Orders |-> IF o \in S THEN Quantity[o] ELSE 0]

LEMMA UnitsSum ==
  ASSUME NEW S
  PROVE  /\ UnitsOf(S) \in [Orders -> Nat] /\ Units(S) \in Nat
         /\ Units(S) = SumFunctionOnSet(UnitsOf(S), Orders)
<1>1. UnitsOf(S) \in [Orders -> Nat] /\ DOMAIN UnitsOf(S) = Orders
  BY QuantityAssumption DEF UnitsOf
<1>2. Units(S) = Total(UnitsOf(S))
  BY DEF Units, UnitsOf
<1> HIDE DEF UnitsOf
<1>3. Total(UnitsOf(S)) = SumFunctionOnSet(UnitsOf(S), Orders)
  BY <1>1, TotalIsSum
<1>4. SumFunctionOnSet(UnitsOf(S), Orders) \in Nat
  BY <1>1, SumIsNat, QuantityAssumption
<1> QED BY <1>1, <1>2, <1>3, <1>4

\* An order more, or one less.
LEMMA UnitsAdd ==
  ASSUME NEW S, NEW o \in Orders, o \notin S
  PROVE  Units(S \cup {o}) = Units(S) + Quantity[o]
<1> DEFINE T == S \cup {o}
<1>1. /\ UnitsOf(S)[o] = 0 /\ UnitsOf(T)[o] = Quantity[o]
      /\ \A p \in Orders : p # o => UnitsOf(T)[p] = UnitsOf(S)[p]
  BY DEF UnitsOf
<1> HIDE DEF T
<1>2. SumFunctionOnSet(UnitsOf(T), Orders)
        = SumFunctionOnSet(UnitsOf(S), Orders) - UnitsOf(S)[o] + UnitsOf(T)[o]
  BY <1>1, UnitsSum, SumChanges, QuantityAssumption
<1>3. Units(T) = Units(S) + Quantity[o]
  BY <1>1, <1>2, UnitsSum, QuantityAssumption
<1> QED BY <1>3 DEF T

LEMMA UnitsDrop ==
  ASSUME NEW S, NEW o \in Orders, o \in S
  PROVE  Units(S \ {o}) = Units(S) - Quantity[o]
<1>1. Units((S \ {o}) \cup {o}) = Units(S \ {o}) + Quantity[o]
  BY UnitsAdd
<1>2. (S \ {o}) \cup {o} = S
  OBVIOUS
<1>3. Units(S) = Units(S \ {o}) + Quantity[o]
  BY <1>1, <1>2
<1>4. Units(S \ {o}) \in Nat /\ Quantity[o] \in Nat
  BY UnitsSum, QuantityAssumption
<1> QED BY <1>3, <1>4

\* Fewer orders have no more units.
LEMMA UnitsLess ==
  ASSUME NEW S, NEW T, \A o \in Orders : o \in S => o \in T
  PROVE  Units(S) <= Units(T)
<1>1. \A o \in Orders : UnitsOf(S)[o] <= UnitsOf(T)[o]
  BY QuantityAssumption DEF UnitsOf
<1> QED BY <1>1, UnitsSum, SumMonotone, QuantityAssumption

\* The same orders have the same units.
LEMMA UnitsSame ==
  ASSUME NEW S, NEW T, \A o \in Orders : o \in S <=> o \in T
  PROVE  Units(S) = Units(T)
<1>1. UnitsOf(S) = UnitsOf(T)
  BY DEF UnitsOf
<1> QED BY <1>1, UnitsSum

LEMMA UnitsNone == Units({}) = 0
<1>1. \A o \in Orders : UnitsOf({})[o] = 0
  BY DEF UnitsOf
<1> QED BY <1>1, UnitsSum, SumOfZeroes, QuantityAssumption

\* The total of a function that is zero everywhere, or everywhere but at one place.
LEMMA TotalOfZeroes ==
  ASSUME NEW f \in [Warehouses -> Nat], \A w \in Warehouses : f[w] = 0
  PROVE  Total(f) = 0
BY TotalIsSum, SumOfZeroes, WarehousesAssumption

LEMMA TotalOfOne ==
  ASSUME NEW f \in [Warehouses -> Nat], NEW D \in Warehouses, \A w \in Warehouses : w # D => f[w] = 0
  PROVE  Total(f) = f[D]
<1> DEFINE z == [w \in Warehouses |-> 0]
<1>1. z \in [Warehouses -> Nat] /\ \A w \in Warehouses : z[w] = 0
  OBVIOUS
<1> HIDE DEF z
<1>2. SumFunctionOnSet(z, Warehouses) = 0
  BY <1>1, SumOfZeroes, WarehousesAssumption
<1>3. SumFunctionOnSet(f, Warehouses) = SumFunctionOnSet(z, Warehouses) - z[D] + f[D]
  BY <1>1, SumChanges, WarehousesAssumption
<1>4. Total(f) = SumFunctionOnSet(f, Warehouses)
  BY TotalIsSum
<1> QED BY <1>1, <1>2, <1>3, <1>4

-----------------------------------------------------------------------------

\* The tables of a product whose units are all at D: a warehouse, or no warehouse.
Shape(I, D) ==
  /\ \A w \in Warehouses : HasRow(I, w) => w = D
  /\ \A o \in Orders : I.hold[o] # "none" => I.at[o] = D
  /\ D \in Warehouses /\ ~HasRow(I, D) => \A o \in Orders : I.hold[o] = "none"
  /\ D \in Warehouses /\ HasRow(I, D) =>
       /\ I.rows[D].quantity = I.stock
       /\ Units(Active(I)) <= I.rows[D].reserved /\ I.rows[D].reserved <= I.stock
  /\ D = NoWarehouse => Units(Active(I)) <= I.stock

\* A row at D is written, or there are no rows.
LEMMA ShapeOfRow ==
  ASSUME NEW I \in Inventories, NEW J \in Inventories, NEW D \in Warehouses, Shape(I, D), NEW r \in Rows,
         J.rows = [I.rows EXCEPT ![D] = r], r.quantity = J.stock,
         Units(Active(J)) <= r.reserved, r.reserved <= r.quantity,
         \A o \in Orders : J.hold[o] # "none" => J.at[o] = D
  PROVE  Shape(J, D)
<1>1. I.rows \in [Warehouses -> Rows \cup {NoRow}] /\ r # NoRow
  BY RowAssumption DEF Inventories, Rows
<1>2. J.rows[D] = r /\ HasRow(J, D) /\ \A w \in Warehouses : w # D => J.rows[w] = I.rows[w]
  BY <1>1 DEF HasRow
<1>3. \A w \in Warehouses : HasRow(J, w) => w = D
  BY <1>2 DEF HasRow, Shape
<1> QED BY <1>2, <1>3, WarehousesAssumption DEF Shape

LEMMA ShapeOfNone ==
  ASSUME NEW I \in Inventories, NEW J \in Inventories, NEW D, D = NoWarehouse, Shape(I, D),
         J.rows = I.rows, Units(Active(J)) <= J.stock,
         \A o \in Orders : J.hold[o] # "none" => J.at[o] = D
  PROVE  Shape(J, D)
BY WarehousesAssumption DEF Shape, HasRow

\* A row at D is written and Product.stock brought in line.
LEMMA SyncOfRow ==
  ASSUME NEW I \in Inventories, NEW D \in Warehouses, \A w \in Warehouses : HasRow(I, w) => w = D,
         NEW r \in Rows, r.quantity \in Nat
  PROVE  LET J == SyncProductStockAggregate([I EXCEPT !.rows[D] = r])
         IN  /\ J.stock = r.quantity /\ J.rows = [I.rows EXCEPT ![D] = r]
             /\ J.hold = I.hold /\ J.at = I.at /\ J.late = I.late
<1> DEFINE K == [I EXCEPT !.rows[D] = r]
           J == SyncProductStockAggregate(K)
<1>1. K \in Inventories
  BY RowEffect
<1>2. I.rows \in [Warehouses -> Rows \cup {NoRow}] /\ r # NoRow
  BY RowAssumption DEF Inventories, Rows
<1>3. /\ K.rows = [I.rows EXCEPT ![D] = r]
      /\ K.hold = I.hold /\ K.at = I.at /\ K.late = I.late
  BY DEF Inventories
<1> HIDE DEF K
<1>4. K.rows[D] = r /\ HasRow(K, D) /\ \A w \in Warehouses : w # D => ~HasRow(K, w)
  BY <1>2, <1>3 DEF HasRow
<1>5. J = [K EXCEPT !.stock = Total(Quantities(K))]
  BY <1>4 DEF SyncProductStockAggregate
<1>6. Total(Quantities(K)) = r.quantity
  <2>1. Quantities(K) = [w \in Warehouses |-> IF w = D THEN r.quantity ELSE 0]
    BY <1>4 DEF Quantities
  <2>2. /\ Quantities(K) \in [Warehouses -> Nat]
        /\ Quantities(K)[D] = r.quantity /\ \A w \in Warehouses : w # D => Quantities(K)[w] = 0
    BY <2>1
  <2> HIDE DEF Quantities
  <2> QED BY <2>2, TotalOfOne
<1>7. /\ J.stock = r.quantity /\ J.rows = K.rows
      /\ J.hold = K.hold /\ J.at = K.at /\ J.late = K.late
  BY <1>1, <1>5, <1>6 DEF Inventories
<1> QED BY <1>3, <1>7 DEF K

\* The status of a reservation and the counter of Product are written.
LEMMA EndOfHold ==
  ASSUME NEW K \in Inventories, NEW o \in Orders, NEW s \in ReservationStatus, s # "ACTIVE",
         NEW J, J = Unreserve([K EXCEPT !.hold[o] = s], Quantity[o])
  PROVE  /\ J.stock = K.stock /\ J.rows = K.rows /\ J.at = K.at /\ J.late = K.late
         /\ J.hold = [K.hold EXCEPT ![o] = s] /\ Active(J) = Active(K) \ {o}
<1> DEFINE L == [K EXCEPT !.hold[o] = s]
<1>1. /\ L \in Inventories /\ L.stock = K.stock /\ L.rows = K.rows /\ L.at = K.at /\ L.late = K.late
      /\ L.hold = [K.hold EXCEPT ![o] = s]
  BY HoldEffect DEF Inventories
<1> HIDE DEF L
<1>2. J = Unreserve(L, Quantity[o])
  BY DEF L
<1>3. /\ J.stock = L.stock /\ J.rows = L.rows /\ J.at = L.at /\ J.late = L.late /\ J.hold = L.hold
  BY <1>1, <1>2 DEF Unreserve, Inventories
<1>4. K.hold \in [Orders -> ReservationStatus]
  BY DEF Inventories
<1>5. Active(J) = Active(K) \ {o}
  BY <1>1, <1>3, <1>4 DEF Active
<1> QED BY <1>1, <1>3, <1>5

\* The units of an order leave with its payment.
LEMMA ShapeConfirm ==
  ASSUME NEW I \in Inventories, NEW D \in Warehouses \cup {NoWarehouse}, Shape(I, D),
         NEW o \in Orders, o \in Active(I), CanConfirm(I, o)
  PROVE  LET J == Confirm(I, o)
         IN  /\ Shape(J, D) /\ J.stock = I.stock - Quantity[o] /\ J.at = I.at /\ J.late = I.late
             /\ J.hold = [I.hold EXCEPT ![o] = "CONFIRMED"] /\ Active(J) = Active(I) \ {o}
<1> DEFINE q == Quantity[o]
           K == TakeUnits(I, o)
           J == Confirm(I, o)
<1>1. q \in Nat \ {0} /\ Units(Active(I)) \in Nat /\ Units(Active(I) \ {o}) = Units(Active(I)) - q
  BY QuantityAssumption, UnitsSum, UnitsDrop
<1>2. I.at[o] = D
  BY DEF Shape, Active
<1>3. J \in Inventories
  <2>1. CanTakeUnits(I, o)
    BY DEF CanTakeUnits, CanConfirm, CanCommitReservedStock
  <2> QED BY <2>1, ConfirmEffect
<1>4. \A p \in Orders : [I.hold EXCEPT ![o] = "CONFIRMED"][p] # "none" => I.at[p] = D
  BY <1>2 DEF Shape, Inventories
<1>5. ASSUME K \in Inventories, K.hold = I.hold, K.at = I.at, K.late = I.late
      PROVE  /\ J.stock = K.stock /\ J.rows = K.rows /\ J.at = I.at /\ J.late = I.late
             /\ J.hold = [I.hold EXCEPT ![o] = "CONFIRMED"] /\ Active(J) = Active(I) \ {o}
  <2>1. J = Unreserve([K EXCEPT !.hold[o] = "CONFIRMED"], Quantity[o])
    BY DEF Confirm
  <2>2. Active(K) = Active(I)
    BY <1>5 DEF Active
  <2>3. "CONFIRMED" \in ReservationStatus /\ "CONFIRMED" # "ACTIVE"
    BY DEF ReservationStatus
  <2> HIDE DEF J, K
  <2> QED BY <1>5, <2>1, <2>2, <2>3, EndOfHold
<1>6. CASE D = NoWarehouse
  <2>1. K = [I EXCEPT !.stock = @ - q] /\ I.stock >= q
    BY <1>2, <1>6 DEF TakeUnits, CanConfirm
  <2>2. I.stock \in Int /\ K \in Inventories /\ K.stock = I.stock - q /\ K.rows = I.rows
        /\ K.hold = I.hold /\ K.at = I.at /\ K.late = I.late
    BY <1>1, <2>1 DEF Inventories
  <2>3. Units(Active(I)) <= I.stock
    BY <1>6 DEF Shape
  <2> HIDE DEF J, K
  <2>4. Units(Active(J)) <= J.stock
    <3>1. Units(Active(J)) = Units(Active(I)) - q /\ J.stock = I.stock - q
      BY <1>1, <1>5, <2>2
    <3> QED BY <1>1, <2>2, <2>3, <3>1
  <2>5. Shape(J, D)
    <3>1. J.rows = I.rows /\ \A p \in Orders : J.hold[p] # "none" => J.at[p] = D
      BY <1>4, <1>5, <2>2
    <3> QED BY <1>3, <1>6, <2>4, <3>1, ShapeOfNone
  <2> QED BY <1>5, <2>2, <2>5 DEF J
<1>7. CASE D # NoWarehouse
  <2> DEFINE r == [quantity |-> I.rows[D].quantity - q, reserved |-> I.rows[D].reserved - q]
  <2>1. /\ D \in Warehouses /\ HasRow(I, D) /\ I.rows[D] \in Rows
        /\ I.rows[D].reserved >= q /\ I.rows[D].quantity >= q
    BY <1>2, <1>7, RowType DEF CanConfirm, CanCommitReservedStock
  <2>2. /\ I.rows[D].quantity = I.stock /\ Units(Active(I)) <= I.rows[D].reserved
        /\ I.rows[D].reserved <= I.stock
    BY <2>1 DEF Shape
  <2>3. /\ r \in Rows /\ r.quantity = I.stock - q /\ Units(Active(I)) - q <= r.reserved
        /\ r.reserved <= r.quantity
        /\ r.quantity \in Nat
    BY <1>1, <2>1, <2>2, BoundsAssumption DEF Rows, Column
  <2>4. K = SyncProductStockAggregate([I EXCEPT !.rows[D] = r])
    BY <1>2, <1>7 DEF TakeUnits, CommitReservedStock
  <2> HIDE DEF r, J
  <2>5. /\ K.stock = r.quantity /\ K.rows = [I.rows EXCEPT ![D] = r]
        /\ K.hold = I.hold /\ K.at = I.at /\ K.late = I.late /\ K \in Inventories
    <3>1. [I EXCEPT !.rows[D] = r] \in Inventories
      BY <2>1, <2>3, RowEffect
    <3> QED BY <2>1, <2>3, <2>4, <3>1, SyncOfRow, SyncEffect DEF Shape
  <2> HIDE DEF K
  <2>6. Shape(J, D)
    <3>1. J.rows = [I.rows EXCEPT ![D] = r] /\ r.quantity = J.stock /\ Units(Active(J)) <= r.reserved
      BY <1>1, <1>5, <2>3, <2>5
    <3>2. \A p \in Orders : J.hold[p] # "none" => J.at[p] = D
      BY <1>4, <1>5, <2>5
    <3> QED BY <1>3, <2>1, <2>3, <3>1, <3>2, ShapeOfRow
  <2> QED BY <1>5, <2>3, <2>5, <2>6 DEF J
<1> QED BY <1>6, <1>7

\* Its units are freed when its reservation ends.
LEMMA ShapeEnd ==
  ASSUME NEW I \in Inventories, NEW D \in Warehouses \cup {NoWarehouse}, Shape(I, D),
         NEW o \in Orders, o \in Active(I), NEW s \in {"RELEASED", "EXPIRED"}
  PROVE  LET J == EndHold(I, o, s, Freed(I, I.at[o], Quantity[o]))
         IN  /\ Shape(J, D) /\ J.stock = I.stock /\ J.at = I.at /\ J.late = I.late
             /\ J.hold = [I.hold EXCEPT ![o] = s] /\ Active(J) = Active(I) \ {o}
<1> DEFINE q == Quantity[o]
           f == Freed(I, I.at[o], q)
           K == FreeReserved(I, I.at[o], f)
           J == EndHold(I, o, s, f)
<1>1. q \in Nat \ {0} /\ Units(Active(I)) \in Nat /\ Units(Active(I) \ {o}) = Units(Active(I)) - q
      /\ Units(Active(I) \ {o}) \in Nat
  BY QuantityAssumption, UnitsSum, UnitsDrop
<1>2. I.at[o] = D /\ I.hold[o] # "none"
  BY DEF Shape, Active
<1>3. J \in Inventories
  <2>1. f \in Nat \cup {NoRow}
    BY <1>1, <1>2, FreedType
  <2> HIDE DEF f
  <2> QED BY <2>1, EndHoldEffect DEF ReservationStatus
<1>4. \A p \in Orders : [I.hold EXCEPT ![o] = s][p] # "none" => I.at[p] = D
  BY <1>2 DEF Shape, Inventories
<1>5. ASSUME K \in Inventories, K.hold = I.hold, K.at = I.at, K.late = I.late
      PROVE  /\ J.stock = K.stock /\ J.rows = K.rows /\ J.at = I.at /\ J.late = I.late
             /\ J.hold = [I.hold EXCEPT ![o] = s] /\ Active(J) = Active(I) \ {o}
  <2>1. J = Unreserve([K EXCEPT !.hold[o] = s], Quantity[o])
    BY DEF EndHold
  <2>2. Active(K) = Active(I)
    BY <1>5 DEF Active
  <2>3. s \in ReservationStatus /\ s # "ACTIVE"
    BY DEF ReservationStatus
  <2> HIDE DEF J, K, f
  <2> QED BY <1>5, <2>1, <2>2, <2>3, EndOfHold
<1>6. CASE D = NoWarehouse
  <2>1. K = I
    BY <1>2, <1>6 DEF FreeReserved
  <2>2. Units(Active(I)) <= I.stock /\ I.stock \in Int
    BY <1>6 DEF Shape, Inventories
  <2> HIDE DEF J, K, f
  <2>3. Units(Active(J)) <= J.stock
    <3>1. Active(J) = Active(I) \ {o} /\ J.stock = I.stock
      BY <1>5, <2>1
    <3> QED BY <1>1, <2>2, <3>1
  <2>4. Shape(J, D)
    <3>1. J.rows = I.rows /\ \A p \in Orders : J.hold[p] # "none" => J.at[p] = D
      BY <1>4, <1>5, <2>1
    <3> QED BY <1>3, <1>6, <2>3, <3>1, ShapeOfNone
  <2> QED BY <1>5, <2>1, <2>4 DEF J, f
<1>7. CASE D # NoWarehouse
  <2> DEFINE r == [I.rows[D] EXCEPT !.reserved = @ - f]
  <2>1. D \in Warehouses /\ HasRow(I, D) /\ I.rows[D] \in Rows
    BY <1>2, <1>7, RowType DEF Shape
  <2>2. /\ I.rows[D].quantity = I.stock /\ Units(Active(I)) <= I.rows[D].reserved
        /\ I.rows[D].reserved <= I.stock
    BY <2>1 DEF Shape
  <2>7. f = q
    <3>1. f = Max0(IF I.rows[D].reserved < q THEN I.rows[D].reserved ELSE q)
      BY <1>2, <1>7, <2>1 DEF Freed
    <3>2. I.rows[D].reserved \in Int /\ I.rows[D].reserved >= q
      BY <1>1, <2>1, <2>2 DEF Rows, Column
    <3> QED BY <1>1, <3>1, <3>2 DEF Max0
  <2> HIDE DEF f
  <2>3. /\ r \in Rows /\ r.quantity = I.stock /\ r.quantity \in Nat /\ Units(Active(I)) - q <= r.reserved
        /\ r.reserved <= r.quantity
    BY <1>1, <2>1, <2>2, <2>7, BoundsAssumption DEF Rows, Column
  <2>4. K = SyncProductStockAggregate([I EXCEPT !.rows[D] = r])
    BY <1>1, <1>2, <1>7, <2>1, <2>7, RowAssumption DEF FreeReserved, Inventories
  <2> HIDE DEF r, J
  <2>5. /\ K.stock = r.quantity /\ K.rows = [I.rows EXCEPT ![D] = r]
        /\ K.hold = I.hold /\ K.at = I.at /\ K.late = I.late /\ K \in Inventories
    <3>1. [I EXCEPT !.rows[D] = r] \in Inventories
      BY <2>1, <2>3, RowEffect
    <3> QED BY <2>1, <2>3, <2>4, <3>1, SyncOfRow, SyncEffect DEF Shape
  <2> HIDE DEF K
  <2>6. Shape(J, D)
    <3>1. J.rows = [I.rows EXCEPT ![D] = r] /\ r.quantity = J.stock /\ Units(Active(J)) <= r.reserved
      BY <1>1, <1>5, <2>3, <2>5
    <3>2. \A p \in Orders : J.hold[p] # "none" => J.at[p] = D
      BY <1>4, <1>5, <2>5
    <3> QED BY <1>3, <2>1, <2>3, <3>1, <3>2, ShapeOfRow
  <2> QED BY <1>5, <2>3, <2>5, <2>6 DEF J, f
<1> QED BY <1>6, <1>7

\* The units of a paid order come back with its cancellation.
LEMMA ShapeRestock ==
  ASSUME NEW I \in Inventories, NEW D \in Warehouses \cup {NoWarehouse}, Shape(I, D),
         NEW o \in Orders, I.hold[o] # "none", WithinBound(I, I.at[o], Quantity[o])
  PROVE  LET J == Restock(I, I.at[o], Quantity[o])
         IN  /\ Shape(J, D) /\ J.stock = I.stock + Quantity[o]
             /\ J.hold = I.hold /\ J.at = I.at /\ J.late = I.late
<1> DEFINE q == Quantity[o]
           J == Restock(I, I.at[o], q)
<1>1. q \in Nat \ {0} /\ Units(Active(I)) \in Nat /\ I.stock \in Int
  BY QuantityAssumption, UnitsSum DEF Inventories
<1>2. I.at[o] = D
  BY DEF Shape
<1>3. J \in Inventories
  BY <1>1, <1>2, RestockEffect
<1>4. CASE D = NoWarehouse
  <2>1. J = [I EXCEPT !.stock = @ + q]
    BY <1>2, <1>4 DEF Restock
  <2>2. J.stock = I.stock + q /\ J.rows = I.rows /\ J.hold = I.hold /\ J.at = I.at /\ J.late = I.late
    BY <2>1 DEF Inventories
  <2> HIDE DEF J
  <2>3. Units(Active(J)) <= J.stock
    <3>1. Active(J) = Active(I) /\ Units(Active(I)) <= I.stock
      BY <1>4, <2>2 DEF Active, Shape
    <3> QED BY <1>1, <2>2, <3>1
  <2>4. Shape(J, D)
    BY <1>3, <1>4, <2>2, <2>3, ShapeOfNone DEF Shape
  <2> QED BY <2>2, <2>4 DEF J
<1>5. CASE D # NoWarehouse
  <2> DEFINE r == [I.rows[D] EXCEPT !.quantity = @ + q]
  <2>1. D \in Warehouses /\ HasRow(I, D) /\ I.rows[D] \in Rows
    BY <1>2, <1>5, RowType DEF Shape
  <2>2. /\ I.rows[D].quantity = I.stock /\ Units(Active(I)) <= I.rows[D].reserved
        /\ I.rows[D].reserved <= I.stock /\ I.rows[D].quantity + q <= MaxUnits
    BY <1>2, <1>5, <2>1 DEF Shape, WithinBound
  <2>3. /\ r \in Rows /\ r.quantity = I.stock + q /\ r.quantity \in Nat /\ Units(Active(I)) <= r.reserved
        /\ r.reserved <= r.quantity
    BY <1>1, <2>1, <2>2, BoundsAssumption DEF Rows, Column
  <2>4. J = SyncProductStockAggregate([I EXCEPT !.rows[D] = r])
    BY <1>2, <1>5, <2>1 DEF Restock, Inventories
  <2> HIDE DEF r
  <2>5. /\ J.stock = r.quantity /\ J.rows = [I.rows EXCEPT ![D] = r]
        /\ J.hold = I.hold /\ J.at = I.at /\ J.late = I.late
    BY <2>1, <2>3, <2>4, SyncOfRow DEF Shape
  <2> HIDE DEF J
  <2>6. Active(J) = Active(I)
    BY <2>5 DEF Active
  <2>7. Shape(J, D)
    <3>1. \A p \in Orders : J.hold[p] # "none" => J.at[p] = D
      BY <2>5 DEF Shape
    <3> QED BY <1>3, <2>1, <2>3, <2>5, <2>6, <3>1, ShapeOfRow
  <2> QED BY <2>3, <2>5, <2>7 DEF J
<1> QED BY <1>4, <1>5

\* A checkout holds units that nobody else holds; the stale reservations end with it.
LEMMA ShapeReserve ==
  ASSUME NEW I \in Inventories, NEW D \in Warehouses \cup {NoWarehouse}, Shape(I, D),
         NEW o \in Orders, I.hold[o] = "none", CanReserve(I, o, D)
  PROVE  LET J == Reserve(I, o, D)
         IN  /\ Shape(J, D) /\ J.stock = I.stock /\ J.late = I.late
             /\ \A p \in Orders :
                  J.hold[p] = IF p = o THEN "ACTIVE"
                              ELSE IF p \in Active(I) \cap I.late THEN "EXPIRED" ELSE I.hold[p]
<1> DEFINE q == Quantity[o]
           E == ExpireStale(I)
           J == Reserve(I, o, D)
           A == Active(I) \ I.late
<1>1. E \in Inventories /\ E.rows = I.rows /\ E.stock = I.stock /\ E.at = I.at /\ E.late = I.late
  BY ExpireStaleEffect DEF ExpireStale, Inventories
<1>2. E.hold = [p \in Orders |-> IF p \in Active(I) \cap I.late THEN "EXPIRED" ELSE I.hold[p]]
  BY DEF ExpireStale, Inventories
<1>3. Active(E) = A
  BY <1>2 DEF Active
<1>4. /\ q \in Nat \ {0} /\ o \notin A /\ Units(A) \in Nat /\ Units(A \cup {o}) = Units(A) + q
      /\ Units(Active(I)) \in Nat /\ Units(A) <= Units(Active(I)) /\ I.stock \in Int
  <2>1. o \notin A
    BY DEF Active
  <2>2. Units(A \cup {o}) = Units(A) + q
    BY <2>1, UnitsAdd
  <2>3. Units(A) <= Units(Active(I))
    BY UnitsLess
  <2> QED BY <2>1, <2>2, <2>3, UnitsSum, QuantityAssumption DEF Inventories
<1>5. J \in Inventories
  BY ReserveEffect
<1> HIDE DEF E
<1>6. ASSUME NEW K \in Inventories, J = Held(K, o, D), K.hold = E.hold, K.at = E.at,
             K.late = E.late, K.stock = E.stock
      PROVE  /\ J.stock = I.stock /\ J.late = I.late /\ J.rows = K.rows /\ Active(J) = A \cup {o}
             /\ \A p \in Orders :
                  /\ J.hold[p] = IF p = o THEN "ACTIVE"
                              ELSE IF p \in Active(I) \cap I.late THEN "EXPIRED" ELSE I.hold[p]
                  /\ J.hold[p] # "none" => J.at[p] = D
  <2>1. /\ J.stock = K.stock /\ J.late = K.late /\ J.rows = K.rows
        /\ J.hold = [K.hold EXCEPT ![o] = "ACTIVE"] /\ J.at = [K.at EXCEPT ![o] = D]
    BY <1>6 DEF Held, Inventories
  <2> HIDE DEF J
  <2>2. I.hold \in [Orders -> ReservationStatus] /\ I.at \in [Orders -> Warehouses \cup {NoWarehouse}]
    BY DEF Inventories
  <2>3. ASSUME NEW p \in Orders
        PROVE  /\ J.hold[p] = IF p = o THEN "ACTIVE"
                              ELSE IF p \in Active(I) \cap I.late THEN "EXPIRED" ELSE I.hold[p]
               /\ J.hold[p] # "none" => J.at[p] = D
    <3>1. J.hold[p] = IF p = o THEN "ACTIVE"
                      ELSE IF p \in Active(I) \cap I.late THEN "EXPIRED" ELSE I.hold[p]
      BY <1>2, <1>6, <2>1
    <3>2. J.at[p] = IF p = o THEN D ELSE I.at[p]
      BY <1>1, <1>6, <2>1, <2>2
    <3>3. I.hold[p] # "none" => I.at[p] = D
      BY DEF Shape
    <3> QED BY <3>1, <3>2, <3>3 DEF Active
  <2>4. Active(J) = A \cup {o}
    BY <2>3 DEF Active
  <2> QED BY <1>1, <1>6, <2>1, <2>3, <2>4
<1>7. CASE D = NoWarehouse
  <2>1. J = Held(E, o, D)
    BY <1>7 DEF Reserve, E
  <2>2. Units(A) + q <= I.stock
    <3>1. \A w \in Warehouses : ~HasRow(E, w)
      BY <1>1, <1>7, WarehousesAssumption DEF Shape, HasRow
    <3>2. GetAvailable(E) = Max0(E.stock - Units(Active(E) \ E.late))
      BY <3>1 DEF GetAvailable
    <3>3. Active(E) \ E.late = A
      BY <1>1, <1>3
    <3>4. Max0(I.stock - Units(A)) >= q
      BY <1>1, <3>2, <3>3 DEF CanReserve, E
    <3> HIDE DEF A
    <3> QED BY <1>4, <3>4 DEF Max0
  <2> HIDE DEF J
  <2>3. /\ J.stock = I.stock /\ J.late = I.late /\ J.rows = I.rows /\ Active(J) = A \cup {o}
        /\ \A p \in Orders :
             /\ J.hold[p] = IF p = o THEN "ACTIVE"
                            ELSE IF p \in Active(I) \cap I.late THEN "EXPIRED" ELSE I.hold[p]
             /\ J.hold[p] # "none" => J.at[p] = D
    BY <1>1, <1>6, <2>1
  <2>4. Units(Active(J)) <= J.stock
    BY <1>4, <2>2, <2>3
  <2>5. Shape(J, D)
    BY <1>5, <1>7, <2>3, <2>4, ShapeOfNone
  <2> QED BY <2>3, <2>5 DEF J
<1>8. ASSUME D # NoWarehouse, NEW r \in Rows, ReserveStock(E, D, q) = [E EXCEPT !.rows[D] = r],
             r.quantity = I.stock, Units(A) + q <= r.reserved, r.reserved <= r.quantity
      PROVE  LET M == Reserve(I, o, D)
             IN  /\ Shape(M, D) /\ M.stock = I.stock /\ M.late = I.late
                 /\ \A p \in Orders :
                      M.hold[p] = IF p = o THEN "ACTIVE"
                              ELSE IF p \in Active(I) \cap I.late THEN "EXPIRED" ELSE I.hold[p]
  <2> DEFINE K == [E EXCEPT !.rows[D] = r]
  <2>1. D \in Warehouses /\ J = Held(K, o, D)
    BY <1>8 DEF Reserve, E
  <2>2. K \in Inventories
    BY <1>1, <2>1, RowEffect
  <2>3. /\ K.hold = E.hold /\ K.at = E.at /\ K.late = E.late /\ K.stock = E.stock
        /\ K.rows = [I.rows EXCEPT ![D] = r]
    BY <1>1 DEF Inventories
  <2> HIDE DEF J, K
  <2>4. /\ J.stock = I.stock /\ J.late = I.late /\ J.rows = K.rows /\ Active(J) = A \cup {o}
        /\ \A p \in Orders :
             /\ J.hold[p] = IF p = o THEN "ACTIVE"
                            ELSE IF p \in Active(I) \cap I.late THEN "EXPIRED" ELSE I.hold[p]
             /\ J.hold[p] # "none" => J.at[p] = D
    BY <1>6, <2>1, <2>2, <2>3
  <2>5. Units(Active(J)) <= r.reserved
    BY <1>4, <1>8, <2>4
  <2>6. Shape(J, D)
    <3>1. J.rows = [I.rows EXCEPT ![D] = r] /\ r.quantity = J.stock /\ r.reserved <= r.quantity
      BY <1>8, <2>3, <2>4
    <3>2. \A p \in Orders : J.hold[p] # "none" => J.at[p] = D
      BY <2>4
    <3> QED BY <1>5, <2>1, <2>5, <3>1, <3>2, ShapeOfRow
  <2> QED BY <2>4, <2>6 DEF J
<1>9. CASE D # NoWarehouse /\ HasRow(I, D)
  <2> DEFINE r == [I.rows[D] EXCEPT !.reserved = @ + q]
  <2>1. /\ D \in Warehouses /\ I.rows[D] \in Rows /\ I.rows[D].quantity - I.rows[D].reserved >= q
    BY <1>9, RowType DEF CanReserve, CanReserveStock
  <2>2. /\ I.rows[D].quantity = I.stock /\ Units(Active(I)) <= I.rows[D].reserved
    BY <1>9, <2>1 DEF Shape
  <2> HIDE DEF A
  <2>3. /\ r \in Rows /\ r.quantity = I.stock /\ Units(A) + q <= r.reserved
        /\ r.reserved <= r.quantity
    BY <1>4, <2>1, <2>2, BoundsAssumption DEF Rows, Column
  <2>4. ReserveStock(E, D, q) = [E EXCEPT !.rows[D] = r]
    BY <1>1, <1>9, <2>1 DEF ReserveStock, HasRow, Inventories
  <2> HIDE DEF r
  <2> QED BY <1>8, <1>9, <2>3, <2>4 DEF A
<1>10. CASE D # NoWarehouse /\ ~HasRow(I, D)
  <2> DEFINE r == [quantity |-> I.stock, reserved |-> q]
  <2>1. D \in Warehouses /\ q <= I.stock /\ I.stock <= MaxUnits
    BY <1>10 DEF CanReserve, CanReserveStock
  <2>2. Active(I) = {}
    BY <1>10, <2>1 DEF Shape, Active
  <2>3. Units(A) = 0
    BY <2>2, UnitsNone
  <2>4. r \in Rows /\ r.quantity = I.stock /\ Units(A) + q <= r.reserved /\ r.reserved <= r.quantity
    BY <1>4, <2>1, <2>3, BoundsAssumption DEF Rows, Column
  <2>5. ReserveStock(E, D, q) = [E EXCEPT !.rows[D] = r]
    BY <1>1, <1>10 DEF ReserveStock, HasRow
  <2> HIDE DEF r
  <2> QED BY <1>8, <1>10, <2>4, <2>5
<1> QED BY <1>7, <1>9, <1>10

-----------------------------------------------------------------------------
(* The states of one call at a time.                                        *)

\* Where an order is, its reservation is; only the orders of late expire.
SerialOrder(o, late) ==
  /\ status[o] = "none" <=> inv.hold[o] = "none"
  /\ inv.hold[o] = "ACTIVE" => status[o] = "PENDING_PAYMENT"
  /\ inv.hold[o] = "EXPIRED" => o \in late
  /\ status[o] = "PENDING_PAYMENT" => inv.hold[o] \in {"ACTIVE", "EXPIRED"}
  /\ status[o] \in PaidStatuses \cup {"PARTIALLY_REFUNDED"} => inv.hold[o] = "CONFIRMED"
  /\ earnings[o] = IF inv.hold[o] = "CONFIRMED" THEN 1 ELSE 0

\* What the call in flight has read still holds.
SerialCall(c, late) ==
  ~Free(c) =>
    /\ call[c].op # "sync"
    /\ call[c].op \in {"pay", "confirm", "commit"} =>
         call[c].order \notin late /\ status[call[c].order] = "PENDING_PAYMENT"
    /\ call[c].op = "confirm" => call[c].active
    /\ call[c].op = "update" =>
         /\ status[call[c].order] = call[c].from
         /\ \E role \in Roles : CanTransition(role, call[c].from, call[c].to)
    /\ call[c].op = "release" =>
         /\ status[call[c].order] = "PENDING_PAYMENT"
         /\ call[c].active <=> call[c].order \in Active(inv)
    /\ call[c].op = "commit" => CanConfirm(inv, call[c].order)
    /\ call[c].op = "free" => status[call[c].order] = "PENDING_PAYMENT"
    /\ call[c].op \in {"expire", "end"} => call[c].order \in late
    /\ call[c].op \in {"expire", "free", "end"} => call[c].order \in Active(inv)
    /\ call[c].op \in {"free", "end"} =>
         call[c].freed = Freed(inv, inv.at[call[c].order], Quantity[call[c].order])

SerialInv(c, late) ==
  /\ Inv /\ inv.late \subseteq late
  /\ \A d \in Calls : d # c => Free(d)
  /\ SerialCall(c, late)
  /\ \A o \in Orders : SerialOrder(o, late)
  /\ Shape(inv, default)
  /\ Conservation

\* The moves that a role allows.
LEMMA Moves ==
  ASSUME NEW role \in Roles, NEW from, NEW to, CanTransition(role, from, to)
  PROVE  /\ from \in PaidStatuses \cup {"PENDING_PAYMENT"}
         /\ from = "PENDING_PAYMENT" => to = "CANCELLED"
         /\ to \in OrderStatus \ {"PENDING_PAYMENT"}
         /\ to \in CancelLike \cup PaidStatuses \cup {"PARTIALLY_REFUNDED"}
BY DEF Roles, CanTransition, AllowedTransitions, MerchantTransitions,
       CustomerTransitions, AdminTransitions, OrderStatus, PaidStatuses, CancelLike

\* A step that reads.
LEMMA SerialRead ==
  ASSUME NEW c \in Calls, NEW late, SerialInv(c, late), Inv', NEW s, Becomes(c, s),
         UNCHANGED <<inv, status, earnings, default>>, SerialCall(c, late)'
  PROVE  SerialInv(c, late)'
<1>1. \A d \in Calls : d # c => call'[d] = call[d]
  BY DEF Becomes, SerialInv, Inv, TypeOK
<1>2. \A d \in Calls : d # c => Free(d)'
  BY <1>1 DEF SerialInv, Free
<1>3. ASSUME NEW o \in Orders PROVE SerialOrder(o, late)'
  BY DEF SerialInv, SerialOrder
<1>4. Conservation' /\ Shape(inv', default')
  BY DEF SerialInv, Conservation, Out
<1> QED BY <1>2, <1>3, <1>4 DEF SerialInv

\* A step that writes what is about order o and leaves no call.
LEMMA SerialWrite ==
  ASSUME NEW c \in Calls, NEW late, SerialInv(c, late), Inv', NEW o \in Orders,
         Becomes(c, NotCalling) \/ (Free(c) /\ call' = call),
         \A p \in Orders : p # o =>
           status'[p] = status[p] /\ earnings'[p] = earnings[p] /\ inv'.hold[p] = inv.hold[p],
         SerialOrder(o, late)', inv'.late = inv.late, default' = default,
         Shape(inv', default), Conservation'
  PROVE  SerialInv(c, late)'
<1>1. \A d \in Calls : Free(d)'
  BY DEF Becomes, SerialInv, Inv, TypeOK, Free
<1>2. ASSUME NEW p \in Orders, p # o PROVE SerialOrder(p, late)'
  <2>1. SerialOrder(p, late)
    BY DEF SerialInv
  <2> QED BY <1>2, <2>1 DEF SerialOrder
<1>3. SerialCall(c, late)'
  BY <1>1 DEF SerialCall
<1> QED BY <1>1, <1>2, <1>3 DEF SerialInv

\* Which orders have units, when one of them changes.
LEMMA OutSame ==
  ASSUME Conservation, inv'.stock = inv.stock,
         \A p \in Orders : p \in Out' <=> p \in Out
  PROVE  Conservation'
<1>1. Units(Out') = Units(Out)
  BY UnitsSame
<1> QED BY <1>1 DEF Conservation

\* The first steps of calls; only orders that were paid are disputed.
SerialStart(c, late) ==
  \E o \in Orders :
    \/ Checkout(c, o) \/ ReleaseExpiredRead(c, o)
    \/ o \notin late /\ MarkPaidRead(c, o)
    \/ \E role \in Roles, to \in Targets : UpdateStatusRead(c, o, role, to)
    \/ status[o] \in AfterPayment /\ MarkDisputed(c, o)

LEMMA SerialStarts ==
  ASSUME NEW c \in Calls, NEW late, SerialInv(c, late), Inv', SerialStart(c, late)
  PROVE  SerialInv(c, late)'
<1>0. /\ TypeOK /\ inv \in Inventories /\ default \in Warehouses \cup {NoWarehouse}
      /\ call \in [Calls -> CallStates] /\ status \in [Orders -> OrderStatus \cup {"none"}]
  BY DEF SerialInv, Inv, TypeOK
<1>1. PICK o \in Orders :
        \/ Checkout(c, o) \/ ReleaseExpiredRead(c, o)
        \/ o \notin late /\ MarkPaidRead(c, o)
        \/ \E role \in Roles, to \in Targets : UpdateStatusRead(c, o, role, to)
        \/ status[o] \in AfterPayment /\ MarkDisputed(c, o)
  BY DEF SerialStart
<1>2. SerialOrder(o, late)
  BY DEF SerialInv
<1>3. CASE Checkout(c, o)
  <2>1. /\ Free(c) /\ status[o] = "none" /\ CanReserve(inv, o, default)
        /\ inv' = Reserve(inv, o, default)
        /\ status' = [status EXCEPT ![o] = "PENDING_PAYMENT"]
        /\ earnings' = earnings /\ default' = default /\ call' = call
    BY <1>3 DEF Checkout
  <2>2. inv.hold[o] = "none" /\ Shape(inv, default)
    BY <1>2, <2>1 DEF SerialOrder, SerialInv
  <2>3. /\ Shape(inv', default) /\ inv'.stock = inv.stock /\ inv'.late = inv.late
        /\ \A p \in Orders :
             inv'.hold[p] = IF p = o THEN "ACTIVE"
                            ELSE IF p \in Active(inv) \cap inv.late THEN "EXPIRED" ELSE inv.hold[p]
    BY <1>0, <2>1, <2>2, ShapeReserve
  <2>4. ASSUME NEW p \in Orders PROVE SerialOrder(p, late)' /\ (p \in Out' <=> p \in Out)
    <3>1. SerialOrder(p, late) /\ inv.late \subseteq late
      BY DEF SerialInv
    <3>2. CASE p = o
      BY <1>0, <1>2, <2>1, <2>2, <2>3, <3>2 DEF SerialOrder, Out, PaidStatuses
    <3>3. CASE p # o
      <4>1. status'[p] = status[p] /\ earnings'[p] = earnings[p]
        BY <1>0, <2>1, <3>3
      <4>2. CASE p \in Active(inv) \cap inv.late
        <5>1. inv'.hold[p] = "EXPIRED" /\ inv.hold[p] = "ACTIVE"
          BY <2>3, <3>3, <4>2 DEF Active
        <5> QED BY <3>1, <4>1, <4>2, <5>1 DEF SerialOrder, Out, PaidStatuses
      <4>3. CASE p \notin Active(inv) \cap inv.late
        <5>1. inv'.hold[p] = inv.hold[p]
          BY <2>3, <3>3, <4>3
        <5> QED BY <3>1, <4>1, <5>1 DEF SerialOrder, Out
      <4> QED BY <4>2, <4>3
    <3> QED BY <3>2, <3>3
  <2>5. Conservation'
    BY <2>3, <2>4, OutSame DEF SerialInv
  <2>6. SerialCall(c, late)' /\ \A d \in Calls : d # c => Free(d)'
    BY <2>1 DEF SerialCall, Free, SerialInv
  <2> QED BY <2>1, <2>3, <2>4, <2>5, <2>6 DEF SerialInv
<1>4. CASE ReleaseExpiredRead(c, o)
  <2>1. /\ Becomes(c, Expiring(o)) /\ UNCHANGED <<inv, status, earnings, default>>
        /\ o \in Active(inv) /\ o \in late
    BY <1>4 DEF ReleaseExpiredRead, SerialInv
  <2>2. call'[c] = Expiring(o)
    BY <1>0, <2>1 DEF Becomes
  <2>3. SerialCall(c, late)'
    BY <2>1, <2>2 DEF SerialCall, Expiring
  <2> QED BY <2>1, <2>3, SerialRead
<1>5. CASE o \notin late /\ MarkPaidRead(c, o)
  <2>1. /\ Becomes(c, Paying(o)) /\ UNCHANGED <<inv, status, earnings, default>>
        /\ status[o] = "PENDING_PAYMENT"
    BY <1>5 DEF MarkPaidRead
  <2>2. call'[c] = Paying(o)
    BY <1>0, <2>1 DEF Becomes
  <2>3. SerialCall(c, late)'
    BY <1>5, <2>1, <2>2 DEF SerialCall, Paying
  <2> QED BY <2>1, <2>3, SerialRead
<1>6. ASSUME NEW role \in Roles, NEW to \in Targets, UpdateStatusRead(c, o, role, to)
      PROVE  SerialInv(c, late)'
  <2> DEFINE s == Updating(o, status[o], to)
  <2>1. /\ Becomes(c, s) /\ UNCHANGED <<inv, status, earnings, default>>
        /\ CanTransition(role, status[o], to)
    BY <1>6 DEF UpdateStatusRead
  <2>2. call'[c] = s
    BY <1>0, <2>1 DEF Becomes
  <2>3. s.op = "update" /\ s.order = o /\ s.from = status[o] /\ s.to = to
    BY DEF Updating
  <2> HIDE DEF s
  <2>4. SerialCall(c, late)'
    BY <2>1, <2>2, <2>3 DEF SerialCall
  <2> QED BY <2>1, <2>4, SerialRead
<1>7. CASE status[o] \in AfterPayment /\ MarkDisputed(c, o)
  <2>1. /\ Free(c) /\ status' = [status EXCEPT ![o] = "DISPUTED"]
        /\ inv' = inv /\ earnings' = earnings /\ default' = default /\ call' = call
    BY <1>7 DEF MarkDisputed
  <2>2. status'[o] = "DISPUTED" /\ \A p \in Orders : p # o => status'[p] = status[p]
    BY <1>0, <2>1
  <2>3. inv.hold[o] = "CONFIRMED"
    BY <1>2, <1>7 DEF SerialOrder, AfterPayment, PaidStatuses
  <2>4. SerialOrder(o, late)'
    BY <1>2, <2>1, <2>2, <2>3 DEF SerialOrder, PaidStatuses
  <2>5. \A p \in Orders : p \in Out' <=> p \in Out
    BY <1>7, <2>1, <2>2 DEF Out, CancelLike, AfterPayment
  <2>6. Conservation'
    BY <2>1, <2>5, OutSame DEF SerialInv
  <2> QED BY <2>1, <2>2, <2>4, <2>6, SerialWrite DEF SerialInv
<1> QED BY <1>1, <1>3, <1>4, <1>5, <1>6, <1>7

\* A reservation passes its expiresAt.
LEMMA SerialExpiry ==
  ASSUME NEW c \in Calls, NEW late, SerialInv(c, late), Inv', NEW o \in Orders, o \in late, PassExpiry(o)
  PROVE  SerialInv(c, late)'
<1>1. inv \in Inventories
  BY DEF SerialInv, Inv, TypeOK
<1>2. /\ inv'.stock = inv.stock /\ inv'.rows = inv.rows /\ inv'.hold = inv.hold /\ inv'.at = inv.at
      /\ inv'.late = inv.late \cup {o}
      /\ status' = status /\ earnings' = earnings /\ default' = default /\ call' = call
  BY <1>1 DEF PassExpiry, Inventories
<1>3. Active(inv') = Active(inv)
  BY <1>2 DEF Active
<1>4. ASSUME NEW p \in Orders PROVE SerialOrder(p, late)'
  <2>1. SerialOrder(p, late)
    BY DEF SerialInv
  <2> QED BY <1>2, <2>1 DEF SerialOrder
<1>5. Shape(inv', default')
  BY <1>2, <1>3 DEF SerialInv, Shape, HasRow
<1>6. Conservation'
  BY <1>2 DEF SerialInv, Conservation, Out
<1>7. SerialCall(c, late)' /\ \A d \in Calls : d # c => Free(d)'
  <2>1. \A d \in Calls : d # c => Free(d)'
    BY <1>2 DEF SerialInv, Free
  <2>2. \A p : CanConfirm(inv', p) <=> CanConfirm(inv, p)
    BY <1>2 DEF CanConfirm, CanCommitReservedStock, HasRow
  <2>3. \A p : Freed(inv', inv'.at[p], Quantity[p]) = Freed(inv, inv.at[p], Quantity[p])
    BY <1>2 DEF Freed, HasRow
  <2>4. SerialCall(c, late)
    BY DEF SerialInv
  <2>5. SerialCall(c, late)'
    BY <1>2, <1>3, <2>2, <2>3, <2>4 DEF SerialCall, Free
  <2> QED BY <2>1, <2>5
<1> QED BY <1>2, <1>4, <1>5, <1>6, <1>7 DEF SerialInv

\* The later steps of the one call: what it read is what it writes on.
LEMMA SerialContinues ==
  ASSUME NEW c \in Calls, NEW late, SerialInv(c, late), Inv', Continue(c)
  PROVE  SerialInv(c, late)'
<1>0. /\ Inv /\ inv \in Inventories /\ default \in Warehouses \cup {NoWarehouse}
      /\ call \in [Calls -> CallStates] /\ status \in [Orders -> OrderStatus \cup {"none"}]
      /\ earnings \in [Orders -> Nat] /\ inv.stock \in Int /\ Shape(inv, default) /\ Conservation
      /\ SerialCall(c, late) /\ \A o \in Orders : SerialOrder(o, late) /\ Quantity[o] \in Nat
  BY QuantityAssumption DEF SerialInv, Inv, TypeOK, Inventories
<1>1. Units(Out) \in Nat /\ inv.stock + Units(Out) = InitialStock /\ InitialStock \in Nat
  BY <1>0, UnitsSum, BoundsAssumption DEF Conservation
<1>2. CASE MarkPaidBegin(c)
  <2> DEFINE a == call[c].order \in Active(inv)
  <2>1. /\ InStep(c, "pay") /\ Becomes(c, Confirming(call[c].order, a)) /\ a \in BOOLEAN
        /\ UNCHANGED <<inv, status, earnings, default>>
    BY <1>2 DEF MarkPaidBegin
  <2>2. call[c].order \in Orders
    BY <1>0, <2>1, CallTypes
  <2>3. /\ call[c].order \notin late /\ status[call[c].order] = "PENDING_PAYMENT"
    BY <1>0, <2>1 DEF SerialCall, InStep, Free
  <2>4. a
    BY <1>0, <2>2, <2>3 DEF SerialOrder, Active
  <2> HIDE DEF a
  <2>5. call'[c] = Confirming(call[c].order, a)
    BY <1>0, <2>1 DEF Becomes
  <2>6. SerialCall(c, late)'
    BY <2>1, <2>3, <2>4, <2>5 DEF SerialCall, Confirming
  <2> QED BY <2>1, <2>6, SerialRead
<1>3. CASE MarkPaidCommit(c)
  <2>1. PICK o \in Orders : o = call[c].order
    BY <1>0, <1>3, CallTypes DEF MarkPaidCommit
  <2>2. o \notin late /\ status[o] = "PENDING_PAYMENT" /\ CanConfirm(inv, o)
    BY <1>0, <1>3, <2>1 DEF SerialCall, InStep, Free, MarkPaidCommit
  <2>3. o \in Active(inv) /\ earnings[o] = 0
    BY <1>0, <2>2 DEF SerialOrder, Active
  <2>4. /\ CanConfirm(inv, o) /\ inv' = Confirm(inv, o)
        /\ status' = [status EXCEPT ![o] = "PAID"] /\ earnings' = [earnings EXCEPT ![o] = @ + 1]
        /\ Becomes(c, NotCalling) /\ default' = default
    BY <1>3, <2>1, <2>2 DEF MarkPaidCommit, MarkPaid
  <2>5. /\ Shape(inv', default) /\ inv'.stock = inv.stock - Quantity[o] /\ inv'.late = inv.late
        /\ inv'.hold = [inv.hold EXCEPT ![o] = "CONFIRMED"]
    BY <1>0, <2>3, <2>4, ShapeConfirm
  <2>6. /\ status'[o] = "PAID" /\ earnings'[o] = 1 /\ inv'.hold[o] = "CONFIRMED"
        /\ \A p \in Orders : p # o =>
             status'[p] = status[p] /\ earnings'[p] = earnings[p] /\ inv'.hold[p] = inv.hold[p]
    BY <1>0, <2>3, <2>4, <2>5 DEF Inventories
  <2>7. SerialOrder(o, late)'
    BY <2>6 DEF SerialOrder
  <2>8. Out' = Out \cup {o} /\ o \notin Out
    BY <2>3, <2>6 DEF Out, CancelLike, Active
  <2>9. Units(Out') = Units(Out) + Quantity[o]
    BY <2>8, UnitsAdd
  <2>10. inv'.stock + Units(Out') = InitialStock
    BY <1>0, <1>1, <2>5, <2>9
  <2> QED BY <2>4, <2>5, <2>6, <2>7, <2>10, SerialWrite DEF Conservation
<1>11. CASE MarkPaidLock(c)
  <2>1. /\ InStep(c, "confirm") /\ CanConfirm(inv, call[c].order)
        /\ Becomes(c, Committing(call[c].order)) /\ UNCHANGED <<inv, status, earnings, default>>
    BY <1>11 DEF MarkPaidLock
  <2>2. /\ call[c].order \notin late /\ status[call[c].order] = "PENDING_PAYMENT"
    BY <1>0, <2>1 DEF SerialCall, InStep, Free
  <2>3. call'[c] = Committing(call[c].order)
    BY <1>0, <2>1 DEF Becomes
  <2>4. SerialCall(c, late)'
    BY <2>1, <2>2, <2>3 DEF SerialCall, Committing
  <2> QED BY <2>1, <2>4, SerialRead
<1>12. CASE MarkPaidLate(c)
  BY <1>0, <1>12 DEF MarkPaidLate, SerialCall, InStep, Free
<1>4. CASE UpdateStatusPlain(c)
  <2>1. PICK o \in Orders : o = call[c].order
    BY <1>0, <1>4, CallTypes DEF UpdateStatusPlain
  <2>2. PICK role \in Roles : CanTransition(role, status[o], call[c].to)
    BY <1>0, <1>4, <2>1 DEF SerialCall, InStep, Free, UpdateStatusPlain
  <2>3. /\ call[c].to \notin CancelLike /\ status' = [status EXCEPT ![o] = call[c].to]
        /\ Becomes(c, NotCalling) /\ inv' = inv /\ earnings' = earnings /\ default' = default
    BY <1>4, <2>1 DEF UpdateStatusPlain
  <2>4. status[o] \in PaidStatuses /\ call[c].to \in PaidStatuses \cup {"PARTIALLY_REFUNDED"}
    BY <2>2, <2>3, Moves DEF CancelLike
  <2>5. status'[o] = call[c].to /\ \A p \in Orders : p # o => status'[p] = status[p]
    BY <1>0, <2>3
  <2>6. SerialOrder(o, late)'
    BY <1>0, <2>3, <2>4, <2>5 DEF SerialOrder, PaidStatuses
  <2>7. \A p \in Orders : p \in Out' <=> p \in Out
    BY <2>3, <2>4, <2>5 DEF Out, CancelLike, PaidStatuses
  <2>8. Conservation'
    BY <1>0, <2>3, <2>7, OutSame
  <2> QED BY <1>0, <2>3, <2>5, <2>6, <2>8, SerialWrite
<1>5. CASE UpdateStatusRestock(c)
  <2>1. PICK o \in Orders : o = call[c].order
    BY <1>0, <1>5, CallTypes DEF UpdateStatusRestock
  <2>2. status[o] \in PaidStatuses
    BY <1>0, <1>5, <2>1 DEF SerialCall, InStep, Free, UpdateStatusRestock
  <2>3. /\ call[c].to \in CancelLike /\ status' = [status EXCEPT ![o] = call[c].to]
        /\ WithinBound(inv, inv.at[o], Quantity[o]) /\ inv' = Restock(inv, inv.at[o], Quantity[o])
        /\ Becomes(c, NotCalling) /\ earnings' = earnings /\ default' = default
    BY <1>5, <2>1 DEF UpdateStatusRestock
  <2>4. inv.hold[o] = "CONFIRMED" /\ earnings[o] = 1
    BY <1>0, <2>2 DEF SerialOrder
  <2>5. /\ Shape(inv', default) /\ inv'.stock = inv.stock + Quantity[o]
        /\ inv'.hold = inv.hold /\ inv'.late = inv.late
    BY <1>0, <2>3, <2>4, ShapeRestock
  <2>6. status'[o] \in CancelLike /\ \A p \in Orders : p # o => status'[p] = status[p]
    BY <1>0, <2>3
  <2>7. SerialOrder(o, late)'
    BY <2>3, <2>4, <2>5, <2>6 DEF SerialOrder, CancelLike, PaidStatuses
  <2>8. o \in Out /\ Out' = Out \ {o}
    BY <2>2, <2>4, <2>5, <2>6 DEF Out, CancelLike, PaidStatuses
  <2>9. Units(Out') = Units(Out) - Quantity[o]
    BY <2>8, UnitsDrop
  <2>10. inv'.stock + Units(Out') = InitialStock
    BY <1>0, <1>1, <2>5, <2>9
  <2> QED BY <2>3, <2>5, <2>6, <2>7, <2>10, SerialWrite DEF Conservation
<1>6. CASE UpdateStatusBegin(c)
  <2> DEFINE a == call[c].order \in Active(inv)
             s == Releasing(call[c].order, call[c].to, a)
  <2>1. /\ InStep(c, "update") /\ Becomes(c, s) /\ call[c].from \notin PaidStatuses
        /\ UNCHANGED <<inv, status, earnings, default>>
    BY <1>6 DEF UpdateStatusBegin
  <2>2. call[c].from \in PaidStatuses \cup {"PENDING_PAYMENT"} /\ status[call[c].order] = call[c].from
    BY <1>0, <2>1, Moves DEF SerialCall, InStep, Free
  <2>3. status[call[c].order] = "PENDING_PAYMENT"
    BY <2>1, <2>2
  <2>4. s.op = "release" /\ s.order = call[c].order /\ s.active = a
    BY DEF Releasing
  <2>5. call'[c] = s
    BY <1>0, <2>1 DEF Becomes
  <2>6. a <=> call[c].order \in Active(inv')
    BY <2>1
  <2> HIDE DEF s, a
  <2>7. SerialCall(c, late)'
    BY <2>1, <2>3, <2>4, <2>5, <2>6 DEF SerialCall
  <2> QED BY <2>1, <2>7, SerialRead
<1>13. CASE UpdateStatusReadRow(c)
  <2> DEFINE f == Freed(inv, inv.at[call[c].order], Quantity[call[c].order])
             s == Freeing(call[c].order, call[c].to, f)
  <2>1. /\ InStep(c, "release") /\ call[c].active /\ Becomes(c, s)
        /\ UNCHANGED <<inv, status, earnings, default>>
    BY <1>13 DEF UpdateStatusReadRow
  <2>2. status[call[c].order] = "PENDING_PAYMENT" /\ call[c].order \in Active(inv)
    BY <1>0, <2>1 DEF SerialCall, InStep, Free
  <2>3. s.op = "free" /\ s.order = call[c].order /\ s.freed = f
    BY DEF Freeing
  <2>4. call'[c] = s
    BY <1>0, <2>1 DEF Becomes
  <2>5. f = Freed(inv', inv'.at[call[c].order], Quantity[call[c].order])
    BY <2>1
  <2> HIDE DEF s, f
  <2>6. SerialCall(c, late)'
    BY <2>1, <2>2, <2>3, <2>4, <2>5 DEF SerialCall
  <2> QED BY <2>1, <2>6, SerialRead
<1>14. CASE ReleaseExpiredReadRow(c)
  <2> DEFINE f == Freed(inv, inv.at[call[c].order], Quantity[call[c].order])
             s == Ending(call[c].order, f)
  <2>1. InStep(c, "expire") /\ Becomes(c, s) /\ UNCHANGED <<inv, status, earnings, default>>
    BY <1>14 DEF ReleaseExpiredReadRow
  <2>2. call[c].order \in late /\ call[c].order \in Active(inv)
    BY <1>0, <2>1 DEF SerialCall, InStep, Free
  <2>3. s.op = "end" /\ s.order = call[c].order /\ s.freed = f
    BY DEF Ending
  <2>4. call'[c] = s
    BY <1>0, <2>1 DEF Becomes
  <2>5. f = Freed(inv', inv'.at[call[c].order], Quantity[call[c].order])
    BY <2>1
  <2> HIDE DEF s, f
  <2>6. SerialCall(c, late)'
    BY <2>1, <2>2, <2>3, <2>4, <2>5 DEF SerialCall
  <2> QED BY <2>1, <2>6, SerialRead
<1>15. ASSUME NEW o \in Orders, status[o] = "PENDING_PAYMENT", Becomes(c, NotCalling),
              status' = [status EXCEPT ![o] = call[c].to], call[c].to \in CancelLike,
              earnings' = earnings, default' = default,
              Shape(inv', default), inv'.stock = inv.stock, inv'.late = inv.late,
              inv'.hold[o] \in {"RELEASED", "EXPIRED"}, inv'.hold[o] = "EXPIRED" => o \in late,
              \A p \in Orders : p # o => inv'.hold[p] = inv.hold[p]
       PROVE  SerialInv(c, late)'
  <2>1. inv.hold[o] \in {"ACTIVE", "EXPIRED"} /\ earnings[o] = 0
    BY <1>0, <1>15 DEF SerialOrder
  <2>2. status'[o] \in CancelLike /\ \A p \in Orders : p # o => status'[p] = status[p]
    BY <1>0, <1>15
  <2>3. SerialOrder(o, late)'
    BY <1>15, <2>1, <2>2 DEF SerialOrder, CancelLike, PaidStatuses
  <2>4. \A p \in Orders : p \in Out' <=> p \in Out
    BY <1>15, <2>1, <2>2 DEF Out
  <2>5. Conservation'
    BY <1>0, <1>15, <2>4, OutSame
  <2> QED BY <1>15, <2>2, <2>3, <2>5, SerialWrite
<1>7. CASE UpdateStatusRelease(c)
  <2>1. PICK o \in Orders : o = call[c].order
    BY <1>0, <1>7, CallTypes DEF UpdateStatusRelease
  <2>2. /\ status[o] = "PENDING_PAYMENT" /\ o \in Active(inv)
        /\ call[c].freed = Freed(inv, inv.at[o], Quantity[o])
    BY <1>0, <1>7, <2>1 DEF SerialCall, InStep, Free, UpdateStatusRelease
  <2>3. /\ call[c].to \in CancelLike /\ status' = [status EXCEPT ![o] = call[c].to]
        /\ inv' = EndHold(inv, o, "RELEASED", Freed(inv, inv.at[o], Quantity[o]))
        /\ Becomes(c, NotCalling) /\ earnings' = earnings /\ default' = default
    BY <1>0, <1>7, <2>1, <2>2, CallTypes DEF UpdateStatusRelease, ReleaseOrder
  <2>4. /\ Shape(inv', default) /\ inv'.stock = inv.stock /\ inv'.late = inv.late
        /\ inv'.hold = [inv.hold EXCEPT ![o] = "RELEASED"]
    BY <1>0, <2>2, <2>3, ShapeEnd
  <2>5. inv'.hold[o] = "RELEASED" /\ \A p \in Orders : p # o => inv'.hold[p] = inv.hold[p]
    BY <1>0, <2>4 DEF Inventories
  <2> QED BY <1>15, <2>2, <2>3, <2>4, <2>5
<1>16. CASE UpdateStatusNothing(c)
  <2>1. PICK o \in Orders : o = call[c].order
    BY <1>0, <1>16, CallTypes DEF UpdateStatusNothing
  <2>2. status[o] = "PENDING_PAYMENT" /\ o \notin Active(inv)
    BY <1>0, <1>16, <2>1 DEF SerialCall, InStep, Free, UpdateStatusNothing
  <2>3. /\ call[c].to \in CancelLike /\ status' = [status EXCEPT ![o] = call[c].to]
        /\ inv' = inv /\ Becomes(c, NotCalling) /\ earnings' = earnings /\ default' = default
    BY <1>0, <1>16, <2>1, CallTypes DEF UpdateStatusNothing
  <2>4. inv.hold[o] = "EXPIRED" /\ o \in late
    BY <1>0, <2>2 DEF SerialOrder, Active
  <2>5. Shape(inv', default)
    BY <1>0, <2>3
  <2> QED BY <1>15, <2>2, <2>3, <2>4, <2>5
<1>8. CASE ReleaseExpiredCommit(c)
  <2>1. PICK o \in Orders : o = call[c].order
    BY <1>0, <1>8, CallTypes DEF ReleaseExpiredCommit
  <2>2. o \in Active(inv) /\ o \in late /\ call[c].freed = Freed(inv, inv.at[o], Quantity[o])
    BY <1>0, <1>8, <2>1 DEF SerialCall, InStep, Free, ReleaseExpiredCommit
  <2>3. /\ inv' = EndHold(inv, o, "EXPIRED", Freed(inv, inv.at[o], Quantity[o]))
        /\ Becomes(c, NotCalling) /\ status' = status /\ earnings' = earnings /\ default' = default
    BY <1>8, <2>1, <2>2 DEF ReleaseExpiredCommit, ReleaseExpired
  <2>4. /\ Shape(inv', default) /\ inv'.stock = inv.stock /\ inv'.late = inv.late
        /\ inv'.hold = [inv.hold EXCEPT ![o] = "EXPIRED"]
    BY <1>0, <2>2, <2>3, ShapeEnd
  <2>5. inv.hold[o] = "ACTIVE" /\ inv'.hold[o] = "EXPIRED" /\ \A p \in Orders : p # o => inv'.hold[p] = inv.hold[p]
    BY <1>0, <2>2, <2>4 DEF Inventories, Active
  <2>6. SerialOrder(o, late) /\ SerialOrder(o, late)'
    BY <1>0, <2>2, <2>3, <2>5 DEF SerialOrder, PaidStatuses
  <2>7. \A p \in Orders : p \in Out' <=> p \in Out
    BY <2>3, <2>5 DEF Out
  <2>8. Conservation'
    BY <1>0, <2>4, <2>7, OutSame
  <2> QED BY <2>3, <2>4, <2>5, <2>6, <2>8, SerialWrite
<1>9. CASE WriteProductStock(c)
  BY <1>0, <1>9 DEF WriteProductStock, SerialCall, InStep, Free
<1>10. CASE Abandon(c)
  <2>1. call'[c] = NotCalling
    BY <1>0, <1>10 DEF Abandon, Becomes
  <2>2. SerialCall(c, late)'
    BY <2>1 DEF SerialCall, Free
  <2> QED BY <1>10, <2>2, SerialRead DEF Abandon
<1> QED BY <1>2, <1>3, <1>4, <1>5, <1>6, <1>7, <1>8, <1>9, <1>10, <1>11, <1>12, <1>13, <1>14, <1>16
        DEF Continue

\* Nothing is held at first.
LEMMA SerialInit ==
  ASSUME NEW c \in Calls, NEW late, Init
  PROVE  SerialInv(c, late)
<1>1. Inv
  BY InitInv
<1>2. /\ inv.stock = InitialStock /\ inv.late = {} /\ \A w \in Warehouses : inv.rows[w] = NoRow
      /\ \A o \in Orders : inv.hold[o] = "none" /\ status[o] = "none" /\ earnings[o] = 0
      /\ \A d \in Calls : Free(d)
  BY DEF Init, InitialInventory, Free
<1>3. \A o \in Orders : SerialOrder(o, late)
  BY <1>2 DEF SerialOrder, PaidStatuses
<1>4. Out = {} /\ Active(inv) = {}
  BY <1>2 DEF Out, Active
<1>5. Conservation
  BY <1>2, <1>4, UnitsNone, BoundsAssumption DEF Conservation
<1>6. Shape(inv, default)
  BY <1>2, <1>4, UnitsNone, BoundsAssumption DEF Shape, HasRow
<1> QED BY <1>1, <1>2, <1>3, <1>5, <1>6 DEF SerialInv, SerialCall

\* The books of the product.
Books == StockIsSumOfRows /\ NoneNegative /\ Conservation /\ HoldsBacked /\ PaidHasUnits /\ PaidOnce

LEMMA SerialKeepsBooks ==
  ASSUME NEW c \in Calls, NEW late, SerialInv(c, late)
  PROVE  Books
<1>1. /\ inv \in Inventories /\ default \in Warehouses \cup {NoWarehouse} /\ Shape(inv, default)
      /\ inv.stock \in Int /\ \A o \in Orders : SerialOrder(o, late)
  BY DEF SerialInv, Inv, TypeOK, Inventories
<1>2. PaidHasUnits /\ PaidOnce
  BY <1>1 DEF PaidHasUnits, PaidOnce, SerialOrder, PaidStatuses
<1>3. Reserveds(inv) \in [Warehouses -> Nat] /\ Quantities(inv) \in [Warehouses -> Nat]
  <2>1. ASSUME NEW w \in Warehouses
        PROVE  /\ (IF HasRow(inv, w) THEN inv.rows[w].reserved ELSE 0) \in Nat
               /\ (IF HasRow(inv, w) THEN inv.rows[w].quantity ELSE 0) \in Nat
    <3> SUFFICES ASSUME HasRow(inv, w) PROVE inv.rows[w].reserved \in Nat /\ inv.rows[w].quantity \in Nat
      OBVIOUS
    <3>1. /\ w = default /\ inv.rows[w].quantity = inv.stock
          /\ Units(Active(inv)) <= inv.rows[w].reserved /\ inv.rows[w].reserved <= inv.stock
      BY <1>1 DEF Shape
    <3>2. inv.rows[w].reserved \in Int
      BY <1>1, RowType DEF Rows, Column
    <3>3. Units(Active(inv)) \in Nat
      BY UnitsSum
    <3> QED BY <1>1, <3>1, <3>2, <3>3
  <2> QED BY <1>1, <2>1 DEF Reserveds, Quantities
<1>4. \A w \in Warehouses : w # default => Reserveds(inv)[w] = 0 /\ Quantities(inv)[w] = 0
  BY <1>1 DEF Shape, Reserveds, Quantities
<1>5. Units(Active(inv)) \in Nat /\ Units({}) = 0
  BY UnitsSum, UnitsNone
<1>6. ASSUME NEW w, w # default
      PROVE  Units({o \in Active(inv) : inv.at[o] = w}) = 0
  <2>1. {o \in Active(inv) : inv.at[o] = w} = {}
    BY <1>1, <1>6 DEF Shape, Active
  <2> QED BY <1>5, <2>1
<1>7. Units({o \in Active(inv) : inv.at[o] = default}) = Units(Active(inv))
  <2>1. {o \in Active(inv) : inv.at[o] = default} = Active(inv)
    BY <1>1 DEF Shape, Active
  <2> QED BY <2>1
<1>10. ASSUME inv.stock >= 0
       PROVE  NoneNegative
  <2>1. ASSUME NEW w \in Warehouses, HasRow(inv, w)
        PROVE  inv.rows[w].quantity >= 0 /\ inv.rows[w].reserved >= 0
    <3>1. Quantities(inv)[w] = inv.rows[w].quantity /\ Reserveds(inv)[w] = inv.rows[w].reserved
      BY <2>1 DEF Quantities, Reserveds
    <3>2. Quantities(inv)[w] \in Nat /\ Reserveds(inv)[w] \in Nat
      BY <1>3
    <3> QED BY <3>1, <3>2
  <2> QED BY <1>10, <2>1 DEF NoneNegative
<1>8. CASE default = NoWarehouse
  <2>1. \A w \in Warehouses : ~HasRow(inv, w) /\ w # default
    BY <1>1, <1>8, WarehousesAssumption DEF Shape
  <2>2. Total(Reserveds(inv)) = 0
    BY <1>3, <1>4, <2>1, TotalOfZeroes
  <2>3. StockIsSumOfRows
    BY <2>1 DEF StockIsSumOfRows
  <2>4. Units(Active(inv)) <= inv.stock
    BY <1>1, <1>8 DEF Shape
  <2>7. NoneNegative
    BY <1>1, <1>5, <1>10, <2>4
  <2>5. ASSUME NEW w \in Warehouses
        PROVE  Units({o \in Active(inv) : inv.at[o] = w}) <= Reserveds(inv)[w]
    <3>1. w # default
      BY <2>1
    <3>2. Units({o \in Active(inv) : inv.at[o] = w}) = 0
      BY <1>6, <3>1
    <3>3. Reserveds(inv)[w] \in Nat
      BY <1>3
    <3> QED BY <3>2, <3>3
  <2>6. Units({o \in Active(inv) : inv.at[o] = NoWarehouse}) <= inv.stock - Total(Reserveds(inv))
    BY <1>1, <1>5, <1>7, <1>8, <2>2, <2>4
  <2> QED BY <1>2, <2>3, <2>5, <2>6, <2>7 DEF Books, HoldsBacked, SerialInv
<1>9. CASE default \in Warehouses
  <2>1. NoWarehouse # default
    BY <1>9, WarehousesAssumption
  <2>2. Total(Reserveds(inv)) = Reserveds(inv)[default] /\ Total(Quantities(inv)) = Quantities(inv)[default]
    BY <1>3, <1>4, <1>9, TotalOfOne
  <2>3. StockIsSumOfRows
    <3> SUFFICES ASSUME NEW w \in Warehouses, HasRow(inv, w) PROVE inv.stock = Total(Quantities(inv))
      BY DEF StockIsSumOfRows
    <3>1. HasRow(inv, default)
      BY <1>1 DEF Shape
    <3>2. Quantities(inv)[default] = inv.rows[default].quantity
      BY <1>9, <3>1 DEF Quantities
    <3> QED BY <1>1, <1>9, <2>2, <3>1, <3>2 DEF Shape
  <2>4. Units(Active(inv)) <= Reserveds(inv)[default] /\ Reserveds(inv)[default] <= inv.stock
    <3>1. CASE HasRow(inv, default)
      BY <1>1, <1>9, <3>1 DEF Shape, Reserveds
    <3>2. CASE ~HasRow(inv, default)
      <4>1. Active(inv) = {} /\ Out = {}
        BY <1>1, <1>9, <3>2 DEF Shape, Active, Out
      <4>2. Reserveds(inv)[default] = 0
        BY <1>9, <3>2 DEF Reserveds
      <4>3. inv.stock + 0 = InitialStock /\ InitialStock \in Nat
        BY <1>5, <4>1, BoundsAssumption DEF SerialInv, Conservation
      <4> QED BY <1>1, <1>5, <4>1, <4>2, <4>3
    <3> QED BY <3>1, <3>2
  <2>7. NoneNegative
    <3>1. Reserveds(inv)[default] \in Nat
      BY <1>3, <1>9
    <3> QED BY <1>1, <1>10, <2>4, <3>1
  <2>5. ASSUME NEW w \in Warehouses
        PROVE  Units({o \in Active(inv) : inv.at[o] = w}) <= Reserveds(inv)[w]
    <3>1. CASE w = default
      BY <1>7, <2>4, <3>1
    <3>2. CASE w # default
      <4>1. Units({o \in Active(inv) : inv.at[o] = w}) = 0
        BY <1>6, <3>2
      <4>2. Reserveds(inv)[w] \in Nat
        BY <1>3
      <4> QED BY <4>1, <4>2
    <3> QED BY <3>1, <3>2
  <2>6. Units({o \in Active(inv) : inv.at[o] = NoWarehouse}) <= inv.stock - Total(Reserveds(inv))
    <3>1. Reserveds(inv)[default] \in Nat
      BY <1>3, <1>9
    <3>2. Units({o \in Active(inv) : inv.at[o] = NoWarehouse}) = 0
      BY <1>6, <2>1
    <3>3. Reserveds(inv)[default] <= inv.stock /\ inv.stock \in Int
      BY <1>1, <2>4
    <3> QED BY <2>2, <3>1, <3>2, <3>3
  <2> QED BY <1>2, <2>3, <2>5, <2>6, <2>7 DEF Books, HoldsBacked, SerialInv
<1> QED BY <1>1, <1>8, <1>9

\* Nothing happens.
LEMMA SerialStutter ==
  ASSUME NEW c \in Calls, NEW late, SerialInv(c, late), UNCHANGED vars
  PROVE  SerialInv(c, late)'
<1>1. inv' = inv /\ status' = status /\ earnings' = earnings /\ default' = default /\ call' = call
  BY DEF vars
<1>2. Inv'
  BY NextInv DEF SerialInv
<1>3. ASSUME NEW o \in Orders PROVE SerialOrder(o, late)'
  BY <1>1 DEF SerialInv, SerialOrder
<1>4. SerialCall(c, late)' /\ \A d \in Calls : d # c => Free(d)'
  BY <1>1 DEF SerialInv, SerialCall, Free
<1>5. Conservation' /\ Shape(inv', default')
  BY <1>1 DEF SerialInv, Conservation, Out
<1> QED BY <1>1, <1>2, <1>3, <1>4, <1>5 DEF SerialInv

(* When calls come one at a time, merchants leave stock and warehouses     *)
(* alone, the orders that are paid do not expire and only paid orders are  *)
(* disputed, the books of a product are kept for any orders, quantities    *)
(* and stock: Product.stock is the sum of the rows, units are neither lost *)
(* nor made up, every ACTIVE reservation is backed, a paid order has its   *)
(* units and is paid once, calls that are lost halfway included.           *)
THEOREM BooksAreKept ==
  ASSUME NEW c, Calls = {c}, Payable \cap Expirable = {}, DisputeFrom \subseteq AfterPayment,
         StockEdits = {}, DefaultMoves = {}
  PROVE  Spec => []Books
<1>1. Init => SerialInv(c, Expirable)
  BY SerialInit
<1>2. SerialInv(c, Expirable) /\ [Next]_vars => SerialInv(c, Expirable)'
  <2> SUFFICES ASSUME SerialInv(c, Expirable), [Next]_vars PROVE SerialInv(c, Expirable)'
    OBVIOUS
  <2>1. Inv' /\ c \in Calls
    BY NextInv DEF SerialInv
  <2>2. CASE Start(c)
    <3>1. SerialStart(c, Expirable)
      BY <2>2 DEF Start, SerialStart, MarkPaidRead, CreateDispute, HandleStripeDispute, MarkDisputed
    <3> QED BY <2>1, <3>1, SerialStarts
  <2>3. ASSUME NEW o \in Orders, PassExpiry(o) PROVE SerialInv(c, Expirable)'
    BY <2>1, <2>3, SerialExpiry DEF PassExpiry
  <2> QED BY <2>1, <2>2, <2>3, SerialContinues, SerialStutter DEF Next
<1>3. SerialInv(c, Expirable) => Books
  BY SerialKeepsBooks
<1> QED BY <1>1, <1>2, <1>3, PTL DEF Spec

(* The scene of the run in which calls do not overlap.                     *)
THEOREM SerialBooksAreKept == MCSpec => []SerialBooks
<1> DEFINE Kept == scene = Serial => SerialInv(c1, {o2})
<1>0. c1 \in Calls
  BY MCAssumption
<1>1. MCInit => Kept
  BY <1>0, SerialInit DEF MCInit
<1>2. Kept /\ [MCNext]_<<vars, scene>> => Kept'
  <2> SUFFICES ASSUME Kept, [MCNext]_<<vars, scene>>, scene' = Serial PROVE SerialInv(c1, {o2})'
    OBVIOUS
  <2>1. scene = Serial /\ SerialInv(c1, {o2})
    BY DEF MCNext
  <2>2. /\ scene.calls = {c1} /\ scene.orders = {o1, o2, o3} /\ scene.payable = {o1, o3} /\ scene.late = {o2}
        /\ scene.targets = Targets /\ scene.disputes = AfterPayment /\ scene.moves = {} /\ scene.edits = {}
    BY <2>1 DEF Serial
  <2>3. CASE MCStart(c1)
    <3>1. SerialStart(c1, {o2})
      BY <2>2, <2>3, MCAssumption DEF MCStart, SerialStart, CreateDispute, HandleStripeDispute
    <3>2. Start(c1)
      BY <2>2, <2>3, MCAssumption DEF MCStart, Start
    <3>3. Inv'
      BY <1>0, <2>1, <3>2, StartInv DEF SerialInv
    <3> QED BY <1>0, <2>1, <3>1, <3>3, SerialStarts
  <2>4. CASE Continue(c1)
    <3>1. Inv'
      BY <1>0, <2>1, <2>4, ContinueInv DEF SerialInv
    <3> QED BY <1>0, <2>1, <2>4, <3>1, SerialContinues
  <2>5. ASSUME NEW o \in scene.late, PassExpiry(o) PROVE SerialInv(c1, {o2})'
    <3>1. o \in Orders /\ o \in {o2}
      BY <2>2, MCAssumption
    <3>2. Inv'
      BY <2>1, <2>5, <3>1, NextInv DEF SerialInv, Next
    <3> QED BY <1>0, <2>1, <2>5, <3>1, <3>2, SerialExpiry
  <2>6. CASE UNCHANGED <<vars, scene>>
    BY <1>0, <2>1, <2>6, SerialStutter
  <2> QED BY <2>2, <2>3, <2>4, <2>5, <2>6 DEF MCNext
<1>3. Kept => SerialBooks
  BY <1>0, SerialKeepsBooks DEF SerialBooks, Books
<1> QED BY <1>1, <1>2, <1>3, PTL DEF MCSpec
=============================================================================
