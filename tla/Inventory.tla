------------------------------ MODULE Inventory ------------------------------
(***************************************************************************)
(* Stock of one product: InventoryService (warehouse/inventory.service.ts) *)
(* and the helpers of warehouse/warehouse-stock.util.ts.                   *)
(*                                                                         *)
(* An order has one line for the product; its InventoryReservation is      *)
(* hold[o], taken at warehouse at[o].  Other lines of the order belong to  *)
(* other products and change nothing here.  Each operator maps the tables  *)
(* before a group of statements of one transaction to the tables after it. *)
(* Nothing in the schema keeps a column from going negative, and the       *)
(* helpers decrement by what an earlier statement read: quantities are     *)
(* integers.                                                               *)
(***************************************************************************)
EXTENDS Integers, FiniteSets, Functions

CONSTANTS Orders, Quantity,         \* quantity of each order's line
          Warehouses, NoWarehouse,  \* a null warehouseId
          NoRow,                    \* no ProductStock row for a warehouse
          InitialStock, MaxUnits    \* bound on the quantity of a row

ASSUME QuantityAssumption == IsFiniteSet(Orders) /\ Quantity \in [Orders -> Nat \ {0}]

ASSUME WarehousesAssumption == IsFiniteSet(Warehouses) /\ NoWarehouse \notin Warehouses

ASSUME BoundsAssumption == InitialStock \in Nat /\ MaxUnits \in Nat


-----------------------------------------------------------------------------

\* "none": the order has not checked out.
ReservationStatus == {"none", "ACTIVE", "CONFIRMED", "EXPIRED", "RELEASED"}

Column == {n \in Int : n <= MaxUnits}

Rows == [quantity : Column, reserved : Column]

ASSUME RowAssumption == NoRow \notin Rows /\ NoRow \notin Nat

\* stock, reservedStock: columns of Product.  rows: ProductStock.  late: the
\* reservations whose expiresAt has passed.
Inventories ==
  [stock : Int, reservedStock : Nat,
   rows  : [Warehouses -> Rows \cup {NoRow}],
   hold  : [Orders -> ReservationStatus],
   at    : [Orders -> Warehouses \cup {NoWarehouse}],
   late  : SUBSET Orders]

InitialInventory ==
  [stock |-> InitialStock, reservedStock |-> 0,
   rows  |-> [w \in Warehouses |-> NoRow],
   hold  |-> [o \in Orders |-> "none"],
   at    |-> [o \in Orders |-> NoWarehouse],
   late  |-> {}]

Max0(n) == IF n > 0 THEN n ELSE 0

HasRow(I, w) == I.rows[w] # NoRow

\* The database's SUM.
Total(f) == SumFunction(f)

Quantities(I) == [w \in Warehouses |-> IF HasRow(I, w) THEN I.rows[w].quantity ELSE 0]

Reserveds(I) == [w \in Warehouses |-> IF HasRow(I, w) THEN I.rows[w].reserved ELSE 0]

\* No row has more units reserved than it has.
Covered(I) == \A w \in Warehouses : HasRow(I, w) => I.rows[w].reserved <= I.rows[w].quantity

\* What the orders in S have in their lines.
Units(S) == Total([o \in Orders |-> IF o \in S THEN Quantity[o] ELSE 0])

Active(I) == {o \in Orders : I.hold[o] = "ACTIVE"}

GetAvailable(I) ==
  IF \E w \in Warehouses : HasRow(I, w)
    THEN Max0(Total(Quantities(I)) - Total(Reserveds(I)))
    ELSE Max0(I.stock - Units(Active(I) \ I.late))

\* Product.stock becomes the sum of the rows, if there are any.
SyncProductStockAggregate(I) ==
  IF \E w \in Warehouses : HasRow(I, w)
    THEN [I EXCEPT !.stock = Total(Quantities(I))]
    ELSE I

\* Mutant: the counter is not clamped.
UnreserveUnclamped(I, q) == [I EXCEPT !.reservedStock = @ - q]

\* Product.reservedStock is decremented and clamped at zero.
Unreserve(I, q) == [I EXCEPT !.reservedStock = Max0(@ - q)]

-----------------------------------------------------------------------------
(* reserve                                                                 *)

\* The inline clean-up: only the status changes; reserved units stay.
ExpireStale(I) ==
  [I EXCEPT !.hold = [o \in Orders |->
     IF o \in Active(I) \cap I.late THEN "EXPIRED" ELSE I.hold[o]]]

CanReserveStock(I, w, q) ==
  IF HasRow(I, w) THEN I.rows[w].quantity - I.rows[w].reserved >= q
                  ELSE q <= I.stock /\ I.stock <= MaxUnits

\* Mutant: reserved is set instead of incremented.
ReserveStockOverwrites(I, w, q) ==
  IF HasRow(I, w)
    THEN [I EXCEPT !.rows[w].reserved = q]
    ELSE [I EXCEPT !.rows[w] = [quantity |-> I.stock, reserved |-> q]]

\* A missing row is seeded with the whole Product.stock.
ReserveStock(I, w, q) ==
  IF HasRow(I, w)
    THEN [I EXCEPT !.rows[w].reserved = @ + q]
    ELSE [I EXCEPT !.rows[w] = [quantity |-> I.stock, reserved |-> q]]

CanReserve(I, o, w) ==
  /\ GetAvailable(ExpireStale(I)) >= Quantity[o]
  /\ w # NoWarehouse => CanReserveStock(I, w, Quantity[o])

Held(I, o, w) ==
  [I EXCEPT !.hold[o] = "ACTIVE", !.at[o] = w, !.reservedStock = @ + Quantity[o]]

Reserve(I, o, w) ==
  IF w = NoWarehouse
    THEN Held(ExpireStale(I), o, w)
    ELSE Held(ReserveStock(ExpireStale(I), w, Quantity[o]), o, w)

-----------------------------------------------------------------------------
(* confirm, given that the order's reservation was read ACTIVE: the row is *)
(* read and checked under the Product row lock, then decremented.          *)

CanCommitReservedStock(I, w, q) ==
  HasRow(I, w) /\ I.rows[w].reserved >= q /\ I.rows[w].quantity >= q

\* Mutant: Product.stock is not brought in line.
CommitReservedStockNoSync(I, w, q) ==
  [I EXCEPT !.rows[w] = [quantity |-> @.quantity - q, reserved |-> @.reserved - q]]

\* Mutant: the units leave but stay reserved.
CommitReservedStockHalf(I, w, q) ==
  SyncProductStockAggregate([I EXCEPT !.rows[w].quantity = @ - q])

CommitReservedStock(I, w, q) ==
  SyncProductStockAggregate(
    [I EXCEPT !.rows[w] = [quantity |-> @.quantity - q, reserved |-> @.reserved - q]])

CanConfirm(I, o) ==
  IF I.at[o] = NoWarehouse
    THEN I.stock >= Quantity[o]
    ELSE CanCommitReservedStock(I, I.at[o], Quantity[o])

\* The update of a row that is not there throws.
CanTakeUnits(I, o) == I.at[o] # NoWarehouse => HasRow(I, I.at[o])

TakeUnits(I, o) ==
  IF I.at[o] = NoWarehouse
    THEN [I EXCEPT !.stock = @ - Quantity[o]]
    ELSE CommitReservedStock(I, I.at[o], Quantity[o])

Confirm(I, o) ==
  Unreserve([TakeUnits(I, o) EXCEPT !.hold[o] = "CONFIRMED"], Quantity[o])

-----------------------------------------------------------------------------
(* releaseReservation, and the operations built on it                      *)

\* restock: false.  What the row is to be decremented by, as first read;
Freed(I, w, q) ==
  IF w = NoWarehouse \/ ~HasRow(I, w)
    THEN NoRow
    ELSE Max0(IF I.rows[w].reserved < q THEN I.rows[w].reserved ELSE q)

\* and the decrement, by whatever was read.
FreeReserved(I, w, freed) ==
  IF w = NoWarehouse \/ freed = NoRow \/ ~HasRow(I, w)
    THEN I
    ELSE SyncProductStockAggregate([I EXCEPT !.rows[w].reserved = @ - freed])

\* restock: true
Restock(I, w, q) ==
  IF w = NoWarehouse
    THEN [I EXCEPT !.stock = @ + q]
    ELSE IF HasRow(I, w)
           THEN SyncProductStockAggregate([I EXCEPT !.rows[w].quantity = @ + q])
           ELSE I

\* Restocking stays within the bound on quantities.
WithinBound(I, w, q) ==
  IF w = NoWarehouse
    THEN I.stock + q <= MaxUnits
    ELSE HasRow(I, w) => I.rows[w].quantity + q <= MaxUnits

\* The reservation of o ends with status s and its units are freed.
EndHold(I, o, s, freed) ==
  Unreserve([FreeReserved(I, I.at[o], freed) EXCEPT !.hold[o] = s], Quantity[o])

ReleaseOrder(I, o, freed) == EndHold(I, o, "RELEASED", freed)

ReleaseExpired(I, o, freed) == EndHold(I, o, "EXPIRED", freed)
=============================================================================
