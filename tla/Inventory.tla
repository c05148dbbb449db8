----------------------------- MODULE Inventory -----------------------------
(***************************************************************************)
(* Stock, serialised devices and counter sales (backend/inventory).        *)
(*                                                                         *)
(* Every operation but one is a transaction that locks the item, device    *)
(* and sale rows it changes before it reads them, so each is one action.   *)
(* The edit of an item reads its row without a lock and saves it whole, in *)
(* two steps, and records no movement.  The StockMovement rows of an item  *)
(* are summed by movement type: what matters of them is by how much each   *)
(* type changed the quantity it is about.                                  *)
(***************************************************************************)
EXTENDS Integers, Functions, FiniteSets

CONSTANTS
    Items,       \* InventoryItem rows
    Devices,     \* InventoryDevice rows
    Sales,       \* PosSale rows that may be made
    Editors,     \* requests that edit an item
    None,        \* the item of a request that edits none
    Editable,    \* the quantities an edit may set: the serializer takes both
    Opening,     \* quantity an item is created with
    MaxStock,    \* bound on what is on hand of an item
    MaxTotal,    \* bound on the total of a sale
    MaxMoved,    \* bound on what the stock operations move, per item and type
    MaxEdits     \* bound on edits

ASSUME SalesAssumption == IsFiniteSet(Sales)
ASSUME NoneAssumption == None \notin Items
ASSUME EditableAssumption == Editable \subseteq {"on_hand", "damaged"}
ASSUME OpeningAssumption == Opening \in Nat
ASSUME MaxStockAssumption == MaxStock \in Nat
ASSUME MaxTotalAssumption == MaxTotal \in Nat
ASSUME MaxMovedAssumption == MaxMoved \in Nat
ASSUME MaxEditsAssumption == MaxEdits \in Nat

VARIABLES
    stock,       \* InventoryItem.quantity_on_hand and quantity_damaged
    movements,   \* movements[i][type]: new_quantity - previous_quantity, summed
    device,      \* InventoryDevice.status
    assigned,    \* devices with a DeviceAssignment that is not returned
    sale,        \* PosSale rows with their lines
    cash,        \* balance of the payment accounts 1000, 1010 and 1020
    editing,     \* what each edit has read: the item and its quantities
    edits,       \* edits that were begun
    unrecorded   \* by how much edits have changed the quantities of each item

edited == <<editing, edits, unrecorded>>
vars == <<stock, movements, device, assigned, sale, cash, editing, edits, unrecorded>>

Quantity == 0 .. MaxStock
Stock == [on_hand : Nat, damaged : Nat]
MovementType == {"PURCHASE_RESTOCK", "SALE_DEDUCTION", "SERVICE_RETURN", "DAMAGE_TRANSFER",
                 "DAMAGE_DISPOSAL", "MANUAL_ADJUSTMENT"}
DeviceStatus == {"AVAILABLE", "ASSIGNED", "FAULTY", "SOLD"}
Sale == [status : {"NONE", "COMPLETED", "CANCELLED"}, lines : [Items -> Nat],
         devices : SUBSET Devices, total : Nat]
NoSale == [status |-> "NONE", lines |-> [i \in Items |-> 0], devices |-> {}, total |-> 0]

NoEdit == [item |-> None, on_hand |-> 0, damaged |-> 0]

Completed == {k \in Sales : sale[k].status = "COMPLETED"}

Init ==
    /\ stock = [i \in Items |-> [on_hand |-> Opening, damaged |-> 0]]
    /\ movements = [i \in Items |-> [t \in MovementType |-> 0]]
    /\ device = [d \in Devices |-> "AVAILABLE"]
    /\ assigned = {}
    /\ sale = [k \in Sales |-> NoSale]
    /\ cash = 0
    /\ editing = [e \in Editors |-> NoEdit]
    /\ edits = 0
    /\ unrecorded = [i \in Items |-> [on_hand |-> 0, damaged |-> 0]]

-----------------------------------------------------------------------------
(* Devices *)

\* Mutant: only an open assignment keeps a device from being assigned.
AssignDevice_AnyStatus(d) ==
    /\ d \notin assigned
    /\ device' = [device EXCEPT ![d] = "ASSIGNED"]
    /\ assigned' = assigned \cup {d}
    /\ UNCHANGED <<stock, movements, sale, cash, edited>>

\* assign_device_to_service
AssignDevice(d) ==
    /\ device[d] = "AVAILABLE"
    /\ d \notin assigned
    /\ device' = [device EXCEPT ![d] = "ASSIGNED"]
    /\ assigned' = assigned \cup {d}
    /\ UNCHANGED <<stock, movements, sale, cash, edited>>

\* return_device_from_service
ReturnDevice(d) ==
    /\ d \in assigned
    /\ \E status \in {"AVAILABLE", "FAULTY"} : device' = [device EXCEPT ![d] = status]
    /\ assigned' = assigned \ {d}
    /\ UNCHANGED <<stock, movements, sale, cash, edited>>

-----------------------------------------------------------------------------
(* Stock *)

\* Item i gets the row "new" and a movement of that type and size.
Move(i, new, type, change) ==
    /\ movements[i][type] + change \in (0 - MaxMoved) .. MaxMoved
    /\ stock' = [stock EXCEPT ![i] = new]
    /\ movements' = [movements EXCEPT ![i][type] = @ + change]
    /\ UNCHANGED <<device, assigned, sale, cash, edited>>

\* record_stock_restock
Restock(i, quantity) ==
    /\ quantity > 0
    /\ stock[i].on_hand + quantity <= MaxStock
    /\ Move(i, [stock[i] EXCEPT !.on_hand = @ + quantity], "PURCHASE_RESTOCK", quantity)

\* Mutant: the movement has the absolute difference as its change.
Adjust_Unsigned(i, target) ==
    Move(i, [stock[i] EXCEPT !.on_hand = target], "MANUAL_ADJUSTMENT",
         IF target > stock[i].on_hand THEN target - stock[i].on_hand
         ELSE stock[i].on_hand - target)

\* record_stock_adjustment
Adjust(i, target) ==
    Move(i, [stock[i] EXCEPT !.on_hand = target], "MANUAL_ADJUSTMENT",
         target - stock[i].on_hand)

\* mark_stock_as_damaged
MarkDamaged(i, quantity) ==
    /\ quantity > 0
    /\ stock[i].on_hand >= quantity
    /\ stock[i].damaged + quantity <= MaxStock
    /\ Move(i, [on_hand |-> stock[i].on_hand - quantity,
                damaged |-> stock[i].damaged + quantity], "DAMAGE_TRANSFER", 0 - quantity)

\* dispose_damaged_stock: the quantities of its movement are the damaged ones.
DisposeDamaged(i, quantity) ==
    /\ quantity > 0
    /\ stock[i].damaged >= quantity
    /\ Move(i, [stock[i] EXCEPT !.damaged = @ - quantity], "DAMAGE_DISPOSAL", 0 - quantity)

-----------------------------------------------------------------------------
(* Edits *)

\* InventoryItemDetailView.patch reads the item, without a lock ...
EditRead(e, i) ==
    /\ editing[e] = NoEdit
    /\ edits < MaxEdits
    /\ editing' = [editing EXCEPT ![e] = [item |-> i, on_hand |-> stock[i].on_hand,
                                         damaged |-> stock[i].damaged]]
    /\ edits' = edits + 1
    /\ UNCHANGED <<stock, movements, device, assigned, sale, cash, unrecorded>>

\* The quantities an edit may save: those it read, or those it was given.
Saved(e) ==
    [on_hand : IF "on_hand" \in Editable THEN Quantity ELSE {editing[e].on_hand},
     damaged : IF "damaged" \in Editable THEN Quantity ELSE {editing[e].damaged}]

\* ... and saves the whole row.
EditSave(e) ==
    LET i == editing[e].item IN
    /\ i # None
    /\ \E new \in Saved(e) :
         /\ stock' = [stock EXCEPT ![i] = new]
         /\ unrecorded' = [unrecorded EXCEPT
                ![i] = [on_hand |-> @.on_hand + new.on_hand - stock[i].on_hand,
                        damaged |-> @.damaged + new.damaged - stock[i].damaged]]
    /\ editing' = [editing EXCEPT ![e] = NoEdit]
    /\ UNCHANGED <<movements, device, assigned, sale, cash, edits>>

-----------------------------------------------------------------------------
(* Counter sales *)

\* post_pos_sale_journal_entry; a total of zero is not posted.
PostSale(total) == cash' = cash + total

\* post_pos_sale_cancellation_journal_entry swaps the lines of the sale's entry.
PostCancellation(k) == cash' = cash - sale[k].total

\* Each line of an item finds enough on hand, before any of them is deducted (two lines of
\* one item stand for more).
LinesFit(lines) ==
    \A i \in Items : \E first \in 0 .. lines[i] :
        first <= stock[i].on_hand /\ lines[i] - first <= stock[i].on_hand

\* Mutant: the table takes what the lines leave.
NonNegative_Unchecked(lines) == TRUE

\* The check constraint of the table on what the lines of an item leave together.
NonNegative(lines) == \A i \in Items : stock[i].on_hand - lines[i] >= 0

\* create_pos_sale
CreateSale(k, lines, devices, total) ==
    /\ sale[k].status = "NONE"
    /\ \E i \in Items : lines[i] > 0
    /\ LinesFit(lines)
    /\ NonNegative(lines)
    /\ \A d \in devices : device[d] = "AVAILABLE"
    /\ sale' = [sale EXCEPT ![k] = [status |-> "COMPLETED", lines |-> lines,
                                    devices |-> devices, total |-> total]]
    /\ stock' = [i \in Items |-> [stock[i] EXCEPT !.on_hand = @ - lines[i]]]
    /\ movements' = [i \in Items |-> [movements[i] EXCEPT !["SALE_DEDUCTION"] = @ - lines[i]]]
    /\ device' = [d \in Devices |-> IF d \in devices THEN "SOLD" ELSE device[d]]
    /\ PostSale(total)
    /\ UNCHANGED <<assigned, edited>>

\* Mutant: the cancellation does not look at the status of the sale.
CancelSale_Again(k) ==
    /\ sale[k].status # "NONE"
    /\ \A i \in Items : stock[i].on_hand + sale[k].lines[i] <= MaxStock
    /\ sale' = [sale EXCEPT ![k].status = "CANCELLED"]
    /\ stock' = [i \in Items |-> [stock[i] EXCEPT !.on_hand = @ + sale[k].lines[i]]]
    /\ movements' = [i \in Items |->
            [movements[i] EXCEPT !["SERVICE_RETURN"] = @ + sale[k].lines[i]]]
    /\ device' = [d \in Devices |-> IF d \in sale[k].devices THEN "AVAILABLE" ELSE device[d]]
    /\ PostCancellation(k)
    /\ UNCHANGED <<assigned, edited>>

\* cancel_pos_sale: stock and devices come back and the entry is reversed; a
\* second cancellation returns the sale as it is.
CancelSale(k) ==
    /\ sale[k].status = "COMPLETED"
    /\ \A i \in Items : stock[i].on_hand + sale[k].lines[i] <= MaxStock
    /\ sale' = [sale EXCEPT ![k].status = "CANCELLED"]
    /\ stock' = [i \in Items |-> [stock[i] EXCEPT !.on_hand = @ + sale[k].lines[i]]]
    /\ movements' = [i \in Items |->
            [movements[i] EXCEPT !["SERVICE_RETURN"] = @ + sale[k].lines[i]]]
    /\ device' = [d \in Devices |-> IF d \in sale[k].devices THEN "AVAILABLE" ELSE device[d]]
    /\ PostCancellation(k)
    /\ UNCHANGED <<assigned, edited>>

Next ==
    \/ \E d \in Devices : AssignDevice(d) \/ ReturnDevice(d)
    \/ \E i \in Items, quantity \in Quantity :
         \/ Restock(i, quantity) \/ Adjust(i, quantity)
         \/ MarkDamaged(i, quantity) \/ DisposeDamaged(i, quantity)
    \/ \E k \in Sales :
         \/ CancelSale(k)
         \/ \E lines \in [Items -> Quantity], devices \in SUBSET Devices, total \in 0 .. MaxTotal :
              CreateSale(k, lines, devices, total)
    \/ \E e \in Editors : EditSave(e) \/ \E i \in Items : EditRead(e, i)

Spec == Init /\ [][Next]_vars

-----------------------------------------------------------------------------
TypeOK ==
    /\ stock \in [Items -> Stock]
    /\ movements \in [Items -> [MovementType -> Int]]
    /\ device \in [Devices -> DeviceStatus]
    /\ assigned \subseteq Devices
    /\ sale \in [Sales -> Sale]
    /\ cash \in Int
    /\ editing \in [Editors -> [item : Items \cup {None}, on_hand : Nat, damaged : Nat]]
    /\ edits \in 0 .. MaxEdits
    /\ unrecorded \in [Items -> [on_hand : Int, damaged : Int]]

\* A device is with a customer, sold or in the warehouse, and never two of them:
\* the status the device lists show is backed by the assignment and sale rows.
CustodyIsExclusive ==
    \A d \in Devices :
        /\ device[d] = "ASSIGNED" <=> d \in assigned
        /\ device[d] = "SOLD" <=> \E k \in Completed : d \in sale[k].devices
        /\ \A j, k \in Completed : d \in sale[j].devices \cap sale[k].devices => j = k

\* The quantities that the movements of an item add up to.
Recorded(i) ==
    LET m == movements[i]
    IN  [on_hand |-> Opening + m["PURCHASE_RESTOCK"] + m["SALE_DEDUCTION"]
                       + m["SERVICE_RETURN"] + m["DAMAGE_TRANSFER"] + m["MANUAL_ADJUSTMENT"],
         damaged |-> m["DAMAGE_DISPOSAL"] - m["DAMAGE_TRANSFER"]]

\* "Every stock change writes immutable StockMovement ledger entry"
\* (docs/reports/FINAL_NEXORA_E2E_QA_REPORT.md:186): the quantities on hand and damaged
\* are what an item was created with plus all its movements.
StockIsItsMovements ==
    \A i \in Items : stock[i].on_hand = Recorded(i).on_hand
                    /\ stock[i].damaged = Recorded(i).damaged

\* The quantities of an item differ from its movements by what edits have changed, and
\* by nothing else: no operation of inventory/services.py makes them part, in whatever
\* order it runs between the two steps of an edit.
OnlyEditsAreUnrecorded ==
    \A i \in Items :
        /\ stock[i].on_hand = Recorded(i).on_hand + unrecorded[i].on_hand
        /\ stock[i].damaged = Recorded(i).damaged + unrecorded[i].damaged

\* What the movements say was sold and not taken back is on the lines of the
\* sales that stand, and the payment accounts hold their totals.
SoldIsOnSales ==
    /\ \A i \in Items :
         SumFunction([k \in Sales |-> IF k \in Completed THEN sale[k].lines[i] ELSE 0])
             = 0 - movements[i]["SALE_DEDUCTION"] - movements[i]["SERVICE_RETURN"]
    /\ cash = SumFunction([k \in Sales |-> IF k \in Completed THEN sale[k].total ELSE 0])
=============================================================================
