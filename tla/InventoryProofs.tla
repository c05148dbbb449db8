-------------------------- MODULE InventoryProofs --------------------------
(***************************************************************************)
(* What holds of Inventory for any items, devices, sales and bounds.       *)
(***************************************************************************)
EXTENDS Inventory, Sums, TLAPS

\* The stock of one item is its movements and what edits changed.
Backed(row, m, u) ==
    /\ row.on_hand = Opening + m["PURCHASE_RESTOCK"] + m["SALE_DEDUCTION"]
           + m["SERVICE_RETURN"] + m["DAMAGE_TRANSFER"] + m["MANUAL_ADJUSTMENT"] + u.on_hand
    /\ row.damaged = m["DAMAGE_DISPOSAL"] - m["DAMAGE_TRANSFER"] + u.damaged

LEMMA StockBacked ==
    OnlyEditsAreUnrecorded <=> \A i \in Items : Backed(stock[i], movements[i], unrecorded[i])
  BY DEF OnlyEditsAreUnrecorded, Recorded, Backed

Edit == [item : Items \cup {None}, on_hand : Nat, damaged : Nat]
Difference == [on_hand : Int, damaged : Int]

LEMMA EditTypes ==
    ASSUME TypeOK
    PROVE  /\ editing \in [Editors -> Edit] /\ edits \in 0 .. MaxEdits
           /\ unrecorded \in [Items -> Difference]
  BY DEF TypeOK, Edit, Difference

LEMMA RowTypes ==
    ASSUME stock' \in [Items -> Stock], movements' \in [Items -> [MovementType -> Int]],
           device' \in [Devices -> DeviceStatus], assigned' \subseteq Devices,
           sale' \in [Sales -> Sale], cash' \in Int, TypeOK, UNCHANGED edited
    PROVE  TypeOK'
  BY DEF TypeOK, edited

-----------------------------------------------------------------------------
LEMMA InitType == Init => TypeOK
  <1> SUFFICES ASSUME Init PROVE TypeOK
    OBVIOUS
  <1>1. /\ stock \in [Items -> Stock] /\ movements \in [Items -> [MovementType -> Int]]
        /\ device \in [Devices -> DeviceStatus] /\ assigned \subseteq Devices
        /\ sale \in [Sales -> Sale] /\ cash \in Int
    BY OpeningAssumption DEF Init, Stock, MovementType, DeviceStatus, Sale, NoSale
  <1>2. /\ editing \in [Editors -> Edit] /\ edits \in 0 .. MaxEdits
        /\ unrecorded \in [Items -> Difference]
    BY MaxEditsAssumption DEF Init, NoEdit, Edit, Difference
  <1> QED
    BY <1>1, <1>2 DEF TypeOK, Edit, Difference

LEMMA MoveType ==
    ASSUME TypeOK, NEW i \in Items, NEW new \in Stock, NEW type \in MovementType,
           NEW change \in Int, Move(i, new, type, change)
    PROVE  TypeOK'
  <1>1. stock' \in [Items -> Stock]
    BY DEF Move, TypeOK
  <1>2. movements' \in [Items -> [MovementType -> Int]]
    <2>1. movements[i][type] + change \in Int
      BY DEF TypeOK
    <2>2. movements' = [movements EXCEPT ![i] =
                          [movements[i] EXCEPT ![type] = movements[i][type] + change]]
      BY DEF Move
    <2> QED
      BY <2>1, <2>2 DEF TypeOK
  <1>3. UNCHANGED <<device, assigned, sale, cash, edited>>
    BY DEF Move
  <1> QED
    BY <1>1, <1>2, <1>3, RowTypes DEF TypeOK

\* The stock operations leave a row that is well typed, and record a movement
\* of the type and size that backs it.
LEMMA StockOperations ==
    ASSUME TypeOK, NEW i \in Items, NEW quantity \in Quantity,
           \/ Restock(i, quantity)
           \/ Adjust(i, quantity)
           \/ MarkDamaged(i, quantity)
           \/ DisposeDamaged(i, quantity)
    PROVE  \E new \in Stock, type \in MovementType, change \in Int :
             /\ Move(i, new, type, change)
             /\ \/ /\ type \in {"PURCHASE_RESTOCK", "MANUAL_ADJUSTMENT"}
                   /\ new.on_hand = stock[i].on_hand + change
                   /\ new.damaged = stock[i].damaged
                \/ /\ type = "DAMAGE_TRANSFER"
                   /\ new.on_hand = stock[i].on_hand + change
                   /\ new.damaged = stock[i].damaged - change
                \/ /\ type = "DAMAGE_DISPOSAL"
                   /\ new.on_hand = stock[i].on_hand
                   /\ new.damaged = stock[i].damaged + change
  <1>1. /\ quantity \in Nat /\ stock[i] \in Stock
        /\ stock[i].on_hand \in Nat /\ stock[i].damaged \in Nat
    BY MaxStockAssumption DEF Quantity, TypeOK, Stock
  <1>2. CASE Restock(i, quantity)
    <2> DEFINE new == [stock[i] EXCEPT !.on_hand = @ + quantity]
    <2>1. /\ new \in Stock /\ new.on_hand = stock[i].on_hand + quantity
          /\ new.damaged = stock[i].damaged
      BY <1>1 DEF Stock
    <2>2. Move(i, new, "PURCHASE_RESTOCK", quantity)
      BY <1>2 DEF Restock
    <2> HIDE DEF new
    <2> QED
      BY <1>1, <2>1, <2>2 DEF MovementType
  <1>3. CASE Adjust(i, quantity)
    <2> DEFINE new == [stock[i] EXCEPT !.on_hand = quantity]
    <2>1. new \in Stock /\ new.on_hand = quantity /\ new.damaged = stock[i].damaged
      BY <1>1 DEF Stock
    <2>2. Move(i, new, "MANUAL_ADJUSTMENT", quantity - stock[i].on_hand)
      BY <1>3 DEF Adjust
    <2>3. /\ quantity - stock[i].on_hand \in Int
          /\ quantity = stock[i].on_hand + (quantity - stock[i].on_hand)
      BY <1>1
    <2> HIDE DEF new
    <2> QED
      BY <2>1, <2>2, <2>3 DEF MovementType
  <1>4. CASE MarkDamaged(i, quantity)
    <2> DEFINE new == [on_hand |-> stock[i].on_hand - quantity,
                       damaged |-> stock[i].damaged + quantity]
    <2>1. new \in Stock
      BY <1>1, <1>4 DEF Stock, MarkDamaged
    <2>2. Move(i, new, "DAMAGE_TRANSFER", 0 - quantity)
      BY <1>4 DEF MarkDamaged
    <2>3. /\ 0 - quantity \in Int
          /\ new.on_hand = stock[i].on_hand + (0 - quantity)
          /\ new.damaged = stock[i].damaged - (0 - quantity)
      BY <1>1
    <2> HIDE DEF new
    <2> QED
      BY <2>1, <2>2, <2>3 DEF MovementType
  <1>5. CASE DisposeDamaged(i, quantity)
    <2> DEFINE new == [stock[i] EXCEPT !.damaged = @ - quantity]
    <2>1. /\ new \in Stock /\ new.on_hand = stock[i].on_hand
          /\ new.damaged = stock[i].damaged - quantity
      BY <1>1, <1>5 DEF Stock, DisposeDamaged
    <2>2. Move(i, new, "DAMAGE_DISPOSAL", 0 - quantity)
      BY <1>5 DEF DisposeDamaged
    <2>3. 0 - quantity \in Int /\ stock[i].damaged - quantity = stock[i].damaged + (0 - quantity)
      BY <1>1
    <2> HIDE DEF new
    <2> QED
      BY <2>1, <2>2, <2>3 DEF MovementType
  <1> QED
    BY <1>2, <1>3, <1>4, <1>5

LEMMA DeviceType ==
    ASSUME TypeOK, NEW d \in Devices, AssignDevice(d) \/ ReturnDevice(d)
    PROVE  TypeOK'
  <1>1. /\ device' \in [Devices -> DeviceStatus] /\ assigned' \subseteq Devices
        /\ UNCHANGED <<stock, movements, sale, cash, edited>>
    BY DEF TypeOK, AssignDevice, ReturnDevice, DeviceStatus
  <1> QED
    BY <1>1, RowTypes DEF TypeOK

\* The rows a sale changes: its own, the stock of its lines with a deduction each,
\* and the status of its devices.
LEMMA CreateRows ==
    ASSUME TypeOK, NEW k \in Sales, NEW lines \in [Items -> Quantity],
           NEW devices \in SUBSET Devices, NEW total \in 0 .. MaxTotal,
           CreateSale(k, lines, devices, total)
    PROVE  /\ TypeOK'
           /\ sale[k].status = "NONE"
           /\ sale'[k].status = "COMPLETED" /\ sale'[k].devices = devices
           /\ \A j \in Sales : j # k => sale'[j] = sale[j]
           /\ \A i \in Items :
                /\ lines[i] \in Nat
                /\ stock'[i].on_hand = stock[i].on_hand - lines[i]
                /\ stock'[i].damaged = stock[i].damaged
                /\ movements'[i]["SALE_DEDUCTION"] = movements[i]["SALE_DEDUCTION"] - lines[i]
                /\ \A t \in MovementType :
                     t # "SALE_DEDUCTION" => movements'[i][t] = movements[i][t]
           /\ \A d \in Devices : device'[d] = IF d \in devices THEN "SOLD" ELSE device[d]
           /\ \A d \in devices : device[d] = "AVAILABLE"
           /\ assigned' = assigned
  <1> DEFINE new == [status |-> "COMPLETED", lines |-> lines, devices |-> devices, total |-> total]
             row(i) == [stock[i] EXCEPT !.on_hand = @ - lines[i]]
             moved(i) == [movements[i] EXCEPT !["SALE_DEDUCTION"] = @ - lines[i]]
  <1>1. \A i \in Items : /\ lines[i] \in Nat /\ lines[i] <= stock[i].on_hand
                         /\ stock[i] \in Stock /\ movements[i] \in [MovementType -> Int]
    <2>1. \A i \in Items : /\ lines[i] \in Nat /\ stock[i] \in Stock
                           /\ movements[i] \in [MovementType -> Int]
      BY MaxStockAssumption DEF Quantity, TypeOK
    <2>2. \A i \in Items : stock[i].on_hand - lines[i] >= 0
      BY DEF CreateSale, NonNegative
    <2> QED
      BY <2>1, <2>2 DEF Stock
  <1>2. new \in Sale
    <2>1. total \in Nat /\ lines \in [Items -> Nat]
      BY <1>1, MaxTotalAssumption
    <2> QED
      BY <2>1 DEF Sale
  <1>3. \A i \in Items : /\ row(i) \in Stock
                         /\ row(i).on_hand = stock[i].on_hand - lines[i]
                         /\ row(i).damaged = stock[i].damaged
    BY <1>1 DEF Stock
  <1>4. \A i \in Items :
          /\ moved(i) \in [MovementType -> Int]
          /\ moved(i)["SALE_DEDUCTION"] = movements[i]["SALE_DEDUCTION"] - lines[i]
          /\ \A t \in MovementType : t # "SALE_DEDUCTION" => moved(i)[t] = movements[i][t]
    BY <1>1 DEF MovementType
  <1>5. /\ sale' = [sale EXCEPT ![k] = new]
        /\ stock' = [i \in Items |-> row(i)]
        /\ movements' = [i \in Items |-> moved(i)]
    BY DEF CreateSale
  <1>6. sale'[k].status = "COMPLETED" /\ sale'[k].devices = devices
    BY <1>5 DEF TypeOK
  <1> HIDE DEF new, row, moved
  <1>7. TypeOK'
    <2>1. sale' \in [Sales -> Sale]
      BY <1>2, <1>5 DEF TypeOK
    <2>2. stock' \in [Items -> Stock] /\ movements' \in [Items -> [MovementType -> Int]]
      BY <1>3, <1>4, <1>5
    <2>3. device' \in [Devices -> DeviceStatus] /\ assigned' \subseteq Devices /\ cash' \in Int
      BY MaxTotalAssumption DEF TypeOK, CreateSale, PostSale, DeviceStatus
    <2>4. UNCHANGED edited
      BY DEF CreateSale
    <2> QED
      BY <2>1, <2>2, <2>3, <2>4, RowTypes
  <1>8. \A i \in Items :
          /\ stock'[i] = row(i)
          /\ movements'[i] = moved(i)
    BY <1>5
  <1>9. /\ sale[k].status = "NONE"
        /\ \A j \in Sales : j # k => sale'[j] = sale[j]
        /\ \A d \in Devices : device'[d] = IF d \in devices THEN "SOLD" ELSE device[d]
        /\ \A d \in devices : device[d] = "AVAILABLE"
        /\ assigned' = assigned
    BY DEF CreateSale, TypeOK
  <1> QED
    BY <1>1, <1>3, <1>4, <1>6, <1>7, <1>8, <1>9

\* A cancellation gives back exactly that.
LEMMA CancelRows ==
    ASSUME TypeOK, NEW k \in Sales, CancelSale(k)
    PROVE  /\ TypeOK'
           /\ sale[k].status = "COMPLETED"
           /\ sale'[k].status = "CANCELLED" /\ sale'[k].devices = sale[k].devices
           /\ \A j \in Sales : j # k => sale'[j] = sale[j]
           /\ \A i \in Items :
                /\ sale[k].lines[i] \in Nat
                /\ stock'[i].on_hand = stock[i].on_hand + sale[k].lines[i]
                /\ stock'[i].damaged = stock[i].damaged
                /\ movements'[i]["SERVICE_RETURN"] =
                     movements[i]["SERVICE_RETURN"] + sale[k].lines[i]
                /\ \A t \in MovementType :
                     t # "SERVICE_RETURN" => movements'[i][t] = movements[i][t]
           /\ \A d \in Devices :
                device'[d] = IF d \in sale[k].devices THEN "AVAILABLE" ELSE device[d]
           /\ assigned' = assigned
  <1> DEFINE new == [sale[k] EXCEPT !.status = "CANCELLED"]
             lines == sale[k].lines
             row(i) == [stock[i] EXCEPT !.on_hand = @ + lines[i]]
             moved(i) == [movements[i] EXCEPT !["SERVICE_RETURN"] = @ + lines[i]]
  <1>1. /\ sale[k] \in Sale /\ lines \in [Items -> Nat] /\ sale[k].total \in Nat
        /\ \A i \in Items : /\ lines[i] \in Nat
                            /\ stock[i] \in Stock /\ movements[i] \in [MovementType -> Int]
    BY DEF TypeOK, Sale
  <1>2. new \in Sale /\ new.status = "CANCELLED" /\ new.devices = sale[k].devices
    BY <1>1 DEF Sale
  <1>3. \A i \in Items : /\ row(i) \in Stock
                         /\ row(i).on_hand = stock[i].on_hand + lines[i]
                         /\ row(i).damaged = stock[i].damaged
    BY <1>1 DEF Stock
  <1>4. \A i \in Items :
          /\ moved(i) \in [MovementType -> Int]
          /\ moved(i)["SERVICE_RETURN"] = movements[i]["SERVICE_RETURN"] + lines[i]
          /\ \A t \in MovementType : t # "SERVICE_RETURN" => moved(i)[t] = movements[i][t]
    BY <1>1 DEF MovementType
  <1>5. /\ sale' = [sale EXCEPT ![k] = new]
        /\ stock' = [i \in Items |-> row(i)]
        /\ movements' = [i \in Items |-> moved(i)]
    BY DEF CancelSale
  <1>6. sale'[k] = new
    BY <1>5 DEF TypeOK
  <1> HIDE DEF new, row, moved
  <1>7. TypeOK'
    <2>1. sale' \in [Sales -> Sale]
      BY <1>2, <1>5 DEF TypeOK
    <2>2. stock' \in [Items -> Stock] /\ movements' \in [Items -> [MovementType -> Int]]
      BY <1>3, <1>4, <1>5
    <2>3. device' \in [Devices -> DeviceStatus] /\ assigned' \subseteq Devices /\ cash' \in Int
      BY <1>1 DEF TypeOK, CancelSale, PostCancellation, DeviceStatus
    <2>4. UNCHANGED edited
      BY DEF CancelSale
    <2> QED
      BY <2>1, <2>2, <2>3, <2>4, RowTypes
  <1>8. \A i \in Items :
          /\ stock'[i] = row(i)
          /\ movements'[i] = moved(i)
    BY <1>5
  <1>9. /\ sale[k].status = "COMPLETED"
        /\ \A j \in Sales : j # k => sale'[j] = sale[j]
        /\ \A d \in Devices :
             device'[d] = IF d \in sale[k].devices THEN "AVAILABLE" ELSE device[d]
        /\ assigned' = assigned
    BY DEF CancelSale, TypeOK
  <1> QED
    BY <1>1, <1>2, <1>3, <1>4, <1>6, <1>7, <1>8, <1>9

\* An edit changes the quantities of one item, and nothing else but its own memory.
LEMMA EditRows ==
    ASSUME TypeOK, NEW e \in Editors, EditSave(e)
    PROVE  \E i \in Items, new \in Stock, u \in Difference :
             /\ stock' = [stock EXCEPT ![i] = new]
             /\ unrecorded' = [unrecorded EXCEPT ![i] = u]
             /\ u.on_hand = unrecorded[i].on_hand + new.on_hand - stock[i].on_hand
             /\ u.damaged = unrecorded[i].damaged + new.damaged - stock[i].damaged
             /\ editing' = [editing EXCEPT ![e] = NoEdit]
             /\ UNCHANGED <<movements, device, assigned, sale, cash, edits>>
  <1>1. PICK i : i = editing[e].item
    OBVIOUS
  <1>2. i \in Items /\ editing[e].on_hand \in Nat /\ editing[e].damaged \in Nat
    BY <1>1, EditTypes DEF EditSave, Edit
  <1>3. PICK new \in Saved(e) :
          /\ stock' = [stock EXCEPT ![i] = new]
          /\ unrecorded' = [unrecorded EXCEPT
                ![i] = [on_hand |-> @.on_hand + new.on_hand - stock[i].on_hand,
                        damaged |-> @.damaged + new.damaged - stock[i].damaged]]
    BY <1>1 DEF EditSave
  <1>4. new \in Stock
    <2>1. Quantity \subseteq Nat
      BY MaxStockAssumption DEF Quantity
    <2> QED
      BY <1>2, <1>3, <2>1 DEF Saved, Stock
  <1>5. PICK u : u = [on_hand |-> unrecorded[i].on_hand + new.on_hand - stock[i].on_hand,
                      damaged |-> unrecorded[i].damaged + new.damaged - stock[i].damaged]
    OBVIOUS
  <1>6. u \in Difference
    <2>1. /\ unrecorded[i].on_hand \in Int /\ unrecorded[i].damaged \in Int
          /\ new.on_hand \in Int /\ new.damaged \in Int
          /\ stock[i].on_hand \in Int /\ stock[i].damaged \in Int
      BY <1>2, <1>4, EditTypes DEF TypeOK, Stock, Difference
    <2> QED
      BY <1>5, <2>1 DEF Difference
  <1>7. unrecorded' = [unrecorded EXCEPT ![i] = u]
    BY <1>2, <1>3, <1>5, EditTypes
  <1>8. /\ editing' = [editing EXCEPT ![e] = NoEdit]
        /\ UNCHANGED <<movements, device, assigned, sale, cash, edits>>
    BY DEF EditSave
  <1> QED
    BY <1>2, <1>3, <1>4, <1>5, <1>6, <1>7, <1>8

LEMMA EditType ==
    ASSUME TypeOK, NEW e \in Editors, EditSave(e) \/ \E i \in Items : EditRead(e, i)
    PROVE  TypeOK'
  <1>1. NoEdit \in Edit
    BY DEF NoEdit, Edit
  <1>2. CASE EditSave(e)
    <2>1. PICK i \in Items, new \in Stock, u \in Difference :
            /\ stock' = [stock EXCEPT ![i] = new]
            /\ unrecorded' = [unrecorded EXCEPT ![i] = u]
            /\ editing' = [editing EXCEPT ![e] = NoEdit]
            /\ UNCHANGED <<movements, device, assigned, sale, cash, edits>>
      BY <1>2, EditRows
    <2>2. /\ stock' \in [Items -> Stock] /\ unrecorded' \in [Items -> Difference]
          /\ editing' \in [Editors -> Edit] /\ edits' \in 0 .. MaxEdits
      BY <1>1, <2>1, EditTypes DEF TypeOK
    <2> QED
      BY <2>1, <2>2 DEF TypeOK, Edit, Difference
  <1>3. ASSUME NEW i \in Items, EditRead(e, i) PROVE TypeOK'
    <2>1. /\ editing' = [editing EXCEPT ![e] = [item |-> i, on_hand |-> stock[i].on_hand,
                                               damaged |-> stock[i].damaged]]
          /\ edits' = edits + 1 /\ edits < MaxEdits
          /\ UNCHANGED <<stock, movements, device, assigned, sale, cash, unrecorded>>
      BY <1>3 DEF EditRead
    <2>2. [item |-> i, on_hand |-> stock[i].on_hand, damaged |-> stock[i].damaged] \in Edit
      BY DEF TypeOK, Stock, Edit
    <2>3. editing' \in [Editors -> Edit]
      BY <2>1, <2>2, EditTypes
    <2>4. edits' \in 0 .. MaxEdits
      BY <2>1, EditTypes, MaxEditsAssumption
    <2> QED
      BY <2>1, <2>3, <2>4, EditTypes DEF TypeOK, Edit, Difference
  <1> QED
    BY <1>2, <1>3

-----------------------------------------------------------------------------
LEMMA NextType == TypeOK /\ [Next]_vars => TypeOK'
  <1> SUFFICES ASSUME TypeOK, [Next]_vars PROVE TypeOK'
    OBVIOUS
  <1>1. ASSUME NEW d \in Devices, AssignDevice(d) \/ ReturnDevice(d) PROVE TypeOK'
    BY <1>1, DeviceType
  <1>2. ASSUME NEW i \in Items, NEW quantity \in Quantity,
               \/ Restock(i, quantity)
               \/ Adjust(i, quantity)
               \/ MarkDamaged(i, quantity)
               \/ DisposeDamaged(i, quantity)
        PROVE TypeOK'
    BY <1>2, StockOperations, MoveType
  <1>3. ASSUME NEW k \in Sales, CancelSale(k) PROVE TypeOK'
    BY <1>3, CancelRows
  <1>4. ASSUME NEW k \in Sales, NEW lines \in [Items -> Quantity],
               NEW devices \in SUBSET Devices, NEW total \in 0 .. MaxTotal,
               CreateSale(k, lines, devices, total)
        PROVE TypeOK'
    BY <1>4, CreateRows
  <1>5. ASSUME NEW e \in Editors, EditSave(e) \/ \E i \in Items : EditRead(e, i)
        PROVE TypeOK'
    BY <1>5, EditType
  <1>6. CASE UNCHANGED vars
    BY <1>6 DEF vars, TypeOK
  <1> QED
    BY <1>1, <1>2, <1>3, <1>4, <1>5, <1>6 DEF Next

\* The rows of Inventory are well typed; in particular no quantity is negative.
THEOREM RowsAreTyped == Spec => []TypeOK
  BY InitType, NextType, PTL DEF Spec

-----------------------------------------------------------------------------
LEMMA MoveBacked ==
    ASSUME TypeOK, NEW i \in Items, NEW new \in Stock, NEW type \in MovementType,
           NEW change \in Int, Move(i, new, type, change),
           \/ /\ type \in {"PURCHASE_RESTOCK", "MANUAL_ADJUSTMENT"}
              /\ new.on_hand = stock[i].on_hand + change
              /\ new.damaged = stock[i].damaged
           \/ /\ type = "DAMAGE_TRANSFER"
              /\ new.on_hand = stock[i].on_hand + change
              /\ new.damaged = stock[i].damaged - change
           \/ /\ type = "DAMAGE_DISPOSAL"
              /\ new.on_hand = stock[i].on_hand
              /\ new.damaged = stock[i].damaged + change,
           NEW j \in Items, Backed(stock[j], movements[j], unrecorded[j])
    PROVE  Backed(stock'[j], movements'[j], unrecorded'[j])
  <1>1. CASE j # i
    BY <1>1 DEF Move, TypeOK, edited
  <1>2. CASE j = i
    <2> DEFINE m == movements[i]
               n == [m EXCEPT ![type] = m[type] + change]
    <2>1. m \in [MovementType -> Int]
      BY DEF TypeOK
    <2>2. \A t \in MovementType : n[t] = IF t = type THEN m[t] + change ELSE m[t]
      BY <2>1
    <2>3. stock'[i] = new /\ movements'[i] = n
      BY DEF Move, TypeOK
    <2>4. \A t \in MovementType : m[t] \in Int
      BY <2>1
    <2>5. stock[i].on_hand \in Int /\ stock[i].damaged \in Int
      BY DEF TypeOK, Stock
    <2>8. PICK u \in Difference : u = unrecorded[i] /\ u = unrecorded'[i]
      BY EditTypes DEF Move, edited
    <2>9. u.on_hand \in Int /\ u.damaged \in Int
      BY <2>8 DEF Difference
    <2> HIDE DEF m, n
    <2>6. Backed(stock[i], m, u)
      BY <1>2, <2>8 DEF m
    <2>7. Backed(new, n, u)
      <3>1. /\ "PURCHASE_RESTOCK" \in MovementType /\ "SALE_DEDUCTION" \in MovementType
            /\ "SERVICE_RETURN" \in MovementType /\ "DAMAGE_TRANSFER" \in MovementType
            /\ "MANUAL_ADJUSTMENT" \in MovementType /\ "DAMAGE_DISPOSAL" \in MovementType
        BY DEF MovementType
      <3> QED
        BY <2>2, <2>4, <2>5, <2>6, <2>9, <3>1, OpeningAssumption DEF Backed
    <2> QED
      BY <1>2, <2>3, <2>7, <2>8
  <1> QED
    BY <1>1, <1>2

LEMMA InitStock == Init => OnlyEditsAreUnrecorded
  BY OpeningAssumption DEF Init, OnlyEditsAreUnrecorded, Recorded, MovementType

LEMMA NextStock == TypeOK /\ OnlyEditsAreUnrecorded /\ [Next]_vars => OnlyEditsAreUnrecorded'
  <1> SUFFICES ASSUME TypeOK, OnlyEditsAreUnrecorded, [Next]_vars, NEW j \in Items
               PROVE  Backed(stock'[j], movements'[j], unrecorded'[j])
    BY DEF OnlyEditsAreUnrecorded, Recorded, Backed
  <1> DEFINE Goal == Backed(stock'[j], movements'[j], unrecorded'[j])
  <1>1. Backed(stock[j], movements[j], unrecorded[j])
    BY StockBacked
  <1>2. ASSUME UNCHANGED <<stock, movements, unrecorded>> PROVE Goal
    BY <1>1, <1>2
  <1>3. ASSUME NEW d \in Devices, AssignDevice(d) \/ ReturnDevice(d) PROVE Goal
    BY <1>2, <1>3 DEF AssignDevice, ReturnDevice, edited
  <1>4. ASSUME NEW i \in Items, NEW quantity \in Quantity,
               \/ Restock(i, quantity)
               \/ Adjust(i, quantity)
               \/ MarkDamaged(i, quantity)
               \/ DisposeDamaged(i, quantity)
        PROVE Goal
    BY <1>1, <1>4, StockOperations, MoveBacked
  <1>5. /\ \A t \in MovementType : movements[j][t] \in Int
        /\ stock[j].on_hand \in Int /\ stock[j].damaged \in Int
        /\ unrecorded[j].on_hand \in Int /\ unrecorded[j].damaged \in Int
        /\ "PURCHASE_RESTOCK" \in MovementType /\ "SALE_DEDUCTION" \in MovementType
        /\ "SERVICE_RETURN" \in MovementType /\ "DAMAGE_TRANSFER" \in MovementType
        /\ "MANUAL_ADJUSTMENT" \in MovementType /\ "DAMAGE_DISPOSAL" \in MovementType
    BY EditTypes DEF TypeOK, Stock, MovementType, Difference
  <1>6. ASSUME NEW k \in Sales, CancelSale(k) PROVE Goal
    <2>1. /\ sale[k].lines[j] \in Nat
          /\ stock'[j].on_hand = stock[j].on_hand + sale[k].lines[j]
          /\ stock'[j].damaged = stock[j].damaged
          /\ movements'[j]["SERVICE_RETURN"] = movements[j]["SERVICE_RETURN"] + sale[k].lines[j]
          /\ \A t \in MovementType : t # "SERVICE_RETURN" => movements'[j][t] = movements[j][t]
      BY <1>6, CancelRows
    <2>2. unrecorded'[j] = unrecorded[j]
      BY <1>6 DEF CancelSale, edited
    <2> QED
      BY <1>1, <1>5, <2>1, <2>2, OpeningAssumption DEF Backed
  <1>7. ASSUME NEW k \in Sales, NEW lines \in [Items -> Quantity],
               NEW devices \in SUBSET Devices, NEW total \in 0 .. MaxTotal,
               CreateSale(k, lines, devices, total)
        PROVE Goal
    <2>1. /\ lines[j] \in Nat
          /\ stock'[j].on_hand = stock[j].on_hand - lines[j]
          /\ stock'[j].damaged = stock[j].damaged
          /\ movements'[j]["SALE_DEDUCTION"] = movements[j]["SALE_DEDUCTION"] - lines[j]
          /\ \A t \in MovementType : t # "SALE_DEDUCTION" => movements'[j][t] = movements[j][t]
      BY <1>7, CreateRows
    <2>2. unrecorded'[j] = unrecorded[j]
      BY <1>7 DEF CreateSale, edited
    <2> QED
      BY <1>1, <1>5, <2>1, <2>2, OpeningAssumption DEF Backed
  <1>8. ASSUME NEW e \in Editors, EditSave(e) PROVE Goal
    <2>1. PICK i \in Items, new \in Stock, u \in Difference :
            /\ stock' = [stock EXCEPT ![i] = new]
            /\ unrecorded' = [unrecorded EXCEPT ![i] = u]
            /\ u.on_hand = unrecorded[i].on_hand + new.on_hand - stock[i].on_hand
            /\ u.damaged = unrecorded[i].damaged + new.damaged - stock[i].damaged
            /\ movements' = movements
      BY <1>8, EditRows
    <2>2. CASE j # i
      BY <1>1, <2>1, <2>2
    <2>3. CASE j = i
      <3>1. stock'[j] = new /\ unrecorded'[j] = u /\ movements'[j] = movements[j]
        BY <2>1, <2>3, EditTypes DEF TypeOK
      <3>2. /\ new.on_hand \in Int /\ new.damaged \in Int
            /\ u.on_hand = unrecorded[j].on_hand + new.on_hand - stock[j].on_hand
            /\ u.damaged = unrecorded[j].damaged + new.damaged - stock[j].damaged
        BY <2>1, <2>3 DEF Stock
      <3>3. PICK m, r, v : m = movements[j] /\ r = stock[j] /\ v = unrecorded[j]
        OBVIOUS
      <3>4. /\ m["PURCHASE_RESTOCK"] \in Int /\ m["SALE_DEDUCTION"] \in Int
            /\ m["SERVICE_RETURN"] \in Int /\ m["DAMAGE_TRANSFER"] \in Int
            /\ m["MANUAL_ADJUSTMENT"] \in Int /\ m["DAMAGE_DISPOSAL"] \in Int
            /\ r.on_hand \in Int /\ r.damaged \in Int /\ v.on_hand \in Int /\ v.damaged \in Int
        BY <1>5, <3>3
      <3>5. Backed(r, m, v)
        BY <1>1, <3>3
      <3>6. Backed(new, m, u)
        <4>1. PICK sum, lost : /\ sum = Opening + m["PURCHASE_RESTOCK"] + m["SALE_DEDUCTION"]
                                      + m["SERVICE_RETURN"] + m["DAMAGE_TRANSFER"]
                                      + m["MANUAL_ADJUSTMENT"]
                               /\ lost = m["DAMAGE_DISPOSAL"] - m["DAMAGE_TRANSFER"]
          OBVIOUS
        <4>2. sum \in Int /\ lost \in Int
          BY <3>4, <4>1, OpeningAssumption
        <4>3. r.on_hand = sum + v.on_hand /\ r.damaged = lost + v.damaged
          BY <3>5, <4>1 DEF Backed
        <4>4. /\ u.on_hand = v.on_hand + new.on_hand - r.on_hand
              /\ u.damaged = v.damaged + new.damaged - r.damaged
          BY <3>2, <3>3
        <4>5. new.on_hand = sum + u.on_hand /\ new.damaged = lost + u.damaged
          BY <3>2, <3>4, <4>2, <4>3, <4>4
        <4> QED
          BY <4>1, <4>5 DEF Backed
      <3> QED
        BY <3>1, <3>3, <3>6
    <2> QED
      BY <2>2, <2>3
  <1>9. ASSUME NEW e \in Editors, NEW i \in Items, EditRead(e, i) PROVE Goal
    BY <1>2, <1>9 DEF EditRead
  <1> HIDE DEF Goal
  <1>10. Goal
    BY <1>2, <1>3, <1>4, <1>6, <1>7, <1>8, <1>9 DEF Next, vars
  <1> QED
    BY <1>10 DEF Goal

\* The quantities of an item are the sum of its movements and of what edits changed,
\* through any history of restocks, adjustments, damage, disposal, sales, cancellations and
\* edits that other operations run into.
THEOREM StockFollowsMovements == Spec => []OnlyEditsAreUnrecorded
  BY InitType, NextType, InitStock, NextStock, PTL DEF Spec

-----------------------------------------------------------------------------
LEMMA InitCustody == Init => CustodyIsExclusive
  BY DEF Init, CustodyIsExclusive, Completed, NoSale

LEMMA NextCustody == TypeOK /\ CustodyIsExclusive /\ [Next]_vars => CustodyIsExclusive'
  <1> SUFFICES ASSUME TypeOK, CustodyIsExclusive, [Next]_vars PROVE CustodyIsExclusive'
    OBVIOUS
  <1> USE DEF Completed
  <1>1. ASSUME UNCHANGED <<device, assigned, sale>> PROVE CustodyIsExclusive'
    BY <1>1 DEF CustodyIsExclusive
  <1>2. ASSUME NEW d \in Devices, AssignDevice(d) PROVE CustodyIsExclusive'
    <2>1. /\ device[d] = "AVAILABLE" /\ sale' = sale /\ assigned' = assigned \cup {d}
          /\ \A e \in Devices : device'[e] = IF e = d THEN "ASSIGNED" ELSE device[e]
      BY <1>2 DEF AssignDevice, TypeOK
    <2> QED
      BY <2>1 DEF CustodyIsExclusive
  <1>3. ASSUME NEW d \in Devices, ReturnDevice(d) PROVE CustodyIsExclusive'
    <2>1. /\ d \in assigned /\ sale' = sale /\ assigned' = assigned \ {d}
          /\ device'[d] \in {"AVAILABLE", "FAULTY"}
          /\ \A e \in Devices : e # d => device'[e] = device[e]
      BY <1>3 DEF ReturnDevice, TypeOK
    <2>2. device[d] = "ASSIGNED"
      BY <2>1 DEF CustodyIsExclusive
    <2> QED
      BY <2>1, <2>2 DEF CustodyIsExclusive
  <1>4. ASSUME NEW i \in Items, NEW quantity \in Quantity,
               \/ Restock(i, quantity)
               \/ Adjust(i, quantity)
               \/ MarkDamaged(i, quantity)
               \/ DisposeDamaged(i, quantity)
        PROVE CustodyIsExclusive'
    BY <1>1, <1>4 DEF Restock, Adjust, MarkDamaged, DisposeDamaged, Move
  <1>5. ASSUME NEW k \in Sales, CancelSale(k) PROVE CustodyIsExclusive'
    <2>1. /\ sale[k].status = "COMPLETED"
          /\ sale'[k].status = "CANCELLED" /\ sale'[k].devices = sale[k].devices
          /\ \A j \in Sales : j # k => sale'[j] = sale[j]
          /\ \A d \in Devices :
               device'[d] = IF d \in sale[k].devices THEN "AVAILABLE" ELSE device[d]
          /\ assigned' = assigned
      BY <1>5, CancelRows
    <2>2. \A d \in sale[k].devices : d \in Devices => device[d] = "SOLD"
      BY <2>1 DEF CustodyIsExclusive
    <2>3. Completed' = Completed \ {k}
      BY <2>1
    <2> QED
      BY <2>1, <2>2, <2>3 DEF CustodyIsExclusive
  <1>6. ASSUME NEW k \in Sales, NEW lines \in [Items -> Quantity],
               NEW devices \in SUBSET Devices, NEW total \in 0 .. MaxTotal,
               CreateSale(k, lines, devices, total)
        PROVE CustodyIsExclusive'
    <2>1. /\ sale[k].status = "NONE"
          /\ sale'[k].status = "COMPLETED" /\ sale'[k].devices = devices
          /\ \A j \in Sales : j # k => sale'[j] = sale[j]
          /\ \A d \in Devices : device'[d] = IF d \in devices THEN "SOLD" ELSE device[d]
          /\ \A d \in devices : device[d] = "AVAILABLE"
          /\ assigned' = assigned
      BY <1>6, CreateRows
    <2>2. Completed' = Completed \cup {k} /\ k \notin Completed
      BY <2>1
    <2> QED
      BY <2>1, <2>2 DEF CustodyIsExclusive
  <1>7. ASSUME NEW e \in Editors, EditSave(e) \/ \E i \in Items : EditRead(e, i)
        PROVE CustodyIsExclusive'
    BY <1>1, <1>7 DEF EditSave, EditRead
  <1> QED
    BY <1>1, <1>2, <1>3, <1>4, <1>5, <1>6, <1>7 DEF Next, vars

\* Assignments, returns, sales and cancellations of any number of devices never
\* leave one in two places, or a status its rows do not back.
THEOREM CustodyStaysExclusive == Spec => []CustodyIsExclusive
  BY InitType, NextType, InitCustody, NextCustody, PTL DEF Spec

-----------------------------------------------------------------------------
(* What stands on the sales. *)

\* What is sold of an item, and for how much, on the sales that stand.
LinesOf(i) == [k \in Sales |-> IF k \in Completed THEN sale[k].lines[i] ELSE 0]
Totals == [k \in Sales |-> IF k \in Completed THEN sale[k].total ELSE 0]

LEMMA SaleRows ==
    ASSUME TypeOK
    PROVE  /\ Totals \in [Sales -> Int]
           /\ \A i \in Items : LinesOf(i) \in [Sales -> Int]
  BY DEF TypeOK, Sale, Totals, LinesOf

\* One sale more or less: the sums change by what is on it.
LEMMA OneSaleChanges ==
    ASSUME TypeOK, TypeOK', NEW k \in Sales, \A j \in Sales : j # k => sale'[j] = sale[j]
    PROVE  /\ SumFunction(Totals') = SumFunction(Totals) + (Totals'[k] - Totals[k])
           /\ \A i \in Items :
                SumFunction(LinesOf(i)') = SumFunction(LinesOf(i)) + (LinesOf(i)'[k] - LinesOf(i)[k])
  <1>1. IsFiniteSet(Sales)
    BY SalesAssumption
  <1>2. \A j \in Sales : j # k => (j \in Completed' <=> j \in Completed)
    BY DEF Completed
  <1>3. PICK f, g : f = Totals /\ g = Totals'
    OBVIOUS
  <1>4. /\ f \in [Sales -> Int] /\ g \in [Sales -> Int]
        /\ \A j \in Sales : j # k => g[j] = f[j]
    BY <1>2, <1>3 DEF TypeOK, Sale, Totals
  <1>5. SumFunction(g) = SumFunction(f) + (g[k] - f[k])
    BY <1>1, <1>4, SumChanges
  <1>6. ASSUME NEW i \in Items
        PROVE  SumFunction(LinesOf(i)') = SumFunction(LinesOf(i)) + (LinesOf(i)'[k] - LinesOf(i)[k])
    <2>1. PICK p, q : p = LinesOf(i) /\ q = LinesOf(i)'
      OBVIOUS
    <2>2. /\ p \in [Sales -> Int] /\ q \in [Sales -> Int]
          /\ \A j \in Sales : j # k => q[j] = p[j]
      BY <1>2, <2>1 DEF TypeOK, Sale, LinesOf
    <2>3. SumFunction(q) = SumFunction(p) + (q[k] - p[k])
      BY <1>1, <2>2, SumChanges
    <2> QED
      BY <2>1, <2>3
  <1> QED
    BY <1>3, <1>5, <1>6

LEMMA InitSold == Init => SoldIsOnSales
  <1> SUFFICES ASSUME Init PROVE SoldIsOnSales
    OBVIOUS
  <1>1. TypeOK /\ IsFiniteSet(Sales)
    BY InitType, SalesAssumption
  <1>2. Completed = {}
    BY DEF Init, Completed, NoSale
  <1>3. ASSUME NEW f \in [Sales -> Int], \A k \in Sales : f[k] = 0 PROVE SumFunction(f) = 0
    BY <1>1, <1>3, SumOfNone
  <1>4. SumFunction(Totals) = 0
    <2>1. Totals \in [Sales -> Int] /\ \A k \in Sales : Totals[k] = 0
      BY <1>1, <1>2, SaleRows DEF Totals
    <2> QED
      BY <1>3, <2>1
  <1>5. ASSUME NEW i \in Items PROVE SumFunction(LinesOf(i)) = 0
    <2>1. LinesOf(i) \in [Sales -> Int] /\ \A k \in Sales : LinesOf(i)[k] = 0
      BY <1>1, <1>2, SaleRows DEF LinesOf
    <2> QED
      BY <1>3, <2>1
  <1>6. ASSUME NEW i \in Items
        PROVE  movements[i]["SALE_DEDUCTION"] = 0 /\ movements[i]["SERVICE_RETURN"] = 0
    BY DEF Init, MovementType
  <1> QED
    BY <1>4, <1>5, <1>6 DEF SoldIsOnSales, Totals, LinesOf, Init

\* The other movements are neither deductions nor returns.
LEMMA SoldStays ==
    ASSUME SoldIsOnSales, sale' = sale, cash' = cash,
           \A i \in Items, t \in {"SALE_DEDUCTION", "SERVICE_RETURN"} :
             movements'[i][t] = movements[i][t]
    PROVE  SoldIsOnSales'
  BY DEF SoldIsOnSales, Completed

\* A sale deducts what is on its lines and brings in its total.
LEMMA CreateSold ==
    ASSUME TypeOK, SoldIsOnSales, NEW k \in Sales, NEW lines \in [Items -> Quantity],
           NEW devices \in SUBSET Devices, NEW total \in 0 .. MaxTotal,
           CreateSale(k, lines, devices, total)
    PROVE  SoldIsOnSales'
  <1>1. /\ TypeOK' /\ sale[k].status = "NONE" /\ sale'[k].status = "COMPLETED"
        /\ \A j \in Sales : j # k => sale'[j] = sale[j]
        /\ \A i \in Items :
             /\ lines[i] \in Nat
             /\ stock'[i].on_hand = stock[i].on_hand - lines[i]
             /\ stock'[i].damaged = stock[i].damaged
             /\ movements'[i]["SALE_DEDUCTION"] = movements[i]["SALE_DEDUCTION"] - lines[i]
             /\ \A t \in MovementType : t # "SALE_DEDUCTION" => movements'[i][t] = movements[i][t]
    BY CreateRows, Zenon
  <1>2. sale'[k].lines = lines /\ sale'[k].total = total /\ cash' = cash + total
    BY DEF CreateSale, PostSale, TypeOK
  <1>3. Totals[k] = 0 /\ Totals'[k] = total
    BY <1>1, <1>2 DEF Totals, Completed
  <1>4. \A i \in Items : LinesOf(i)[k] = 0 /\ LinesOf(i)'[k] = lines[i]
    BY <1>1, <1>2 DEF LinesOf, Completed
  <1>5. /\ SumFunction(Totals') = SumFunction(Totals) + (Totals'[k] - Totals[k])
        /\ \A i \in Items :
             SumFunction(LinesOf(i)') = SumFunction(LinesOf(i)) + (LinesOf(i)'[k] - LinesOf(i)[k])
    BY <1>1, OneSaleChanges
  <1>6. cash = SumFunction(Totals) /\ cash \in Int /\ total \in Int
    BY DEF SoldIsOnSales, Totals, TypeOK
  <1>7. cash' = SumFunction(Totals')
    BY <1>2, <1>3, <1>5, <1>6
  <1>8. ASSUME NEW i \in Items
        PROVE  SumFunction(LinesOf(i)')
                 = 0 - movements'[i]["SALE_DEDUCTION"] - movements'[i]["SERVICE_RETURN"]
    <2>1. PICK s, r, l : /\ s = movements[i]["SALE_DEDUCTION"] /\ r = movements[i]["SERVICE_RETURN"]
                         /\ l = lines[i]
      OBVIOUS
    <2>2. s \in Int /\ r \in Int /\ l \in Int
      BY <1>1, <2>1 DEF TypeOK, MovementType
    <2>3. movements'[i]["SALE_DEDUCTION"] = s - l /\ movements'[i]["SERVICE_RETURN"] = r
      BY <1>1, <2>1 DEF MovementType
    <2>4. SumFunction(LinesOf(i)) = 0 - s - r
      BY <2>1 DEF SoldIsOnSales, LinesOf
    <2>5. SumFunction(LinesOf(i)') = (0 - s - r) + (l - 0)
      BY <1>4, <1>5, <2>1, <2>4
    <2> QED
      BY <2>2, <2>3, <2>5
  <1> QED
    BY <1>7, <1>8 DEF SoldIsOnSales, Totals, LinesOf

\* A cancellation returns what is on the lines and gives the total back.
LEMMA CancelSold ==
    ASSUME TypeOK, SoldIsOnSales, NEW k \in Sales, CancelSale(k)
    PROVE  SoldIsOnSales'
  <1>1. /\ TypeOK' /\ sale[k].status = "COMPLETED" /\ sale'[k].status = "CANCELLED"
        /\ \A j \in Sales : j # k => sale'[j] = sale[j]
        /\ \A i \in Items :
             /\ sale[k].lines[i] \in Nat
             /\ movements'[i]["SERVICE_RETURN"] = movements[i]["SERVICE_RETURN"] + sale[k].lines[i]
             /\ \A t \in MovementType : t # "SERVICE_RETURN" => movements'[i][t] = movements[i][t]
    BY CancelRows
  <1>2. cash' = cash - sale[k].total /\ sale[k].total \in Int
    BY DEF CancelSale, PostCancellation, TypeOK, Sale
  <1>3. Totals[k] = sale[k].total /\ Totals'[k] = 0
    BY <1>1 DEF Totals, Completed
  <1>4. \A i \in Items : LinesOf(i)[k] = sale[k].lines[i] /\ LinesOf(i)'[k] = 0
    BY <1>1 DEF LinesOf, Completed
  <1>5. /\ SumFunction(Totals') = SumFunction(Totals) + (Totals'[k] - Totals[k])
        /\ \A i \in Items :
             SumFunction(LinesOf(i)') = SumFunction(LinesOf(i)) + (LinesOf(i)'[k] - LinesOf(i)[k])
    BY <1>1, OneSaleChanges
  <1>6. cash = SumFunction(Totals) /\ cash \in Int
    BY DEF SoldIsOnSales, Totals, TypeOK
  <1>7. cash' = SumFunction(Totals')
    BY <1>2, <1>3, <1>5, <1>6
  <1>8. ASSUME NEW i \in Items
        PROVE  SumFunction(LinesOf(i)')
                 = 0 - movements'[i]["SALE_DEDUCTION"] - movements'[i]["SERVICE_RETURN"]
    <2>1. PICK s, r, l : /\ s = movements[i]["SALE_DEDUCTION"] /\ r = movements[i]["SERVICE_RETURN"]
                         /\ l = sale[k].lines[i]
      OBVIOUS
    <2>2. s \in Int /\ r \in Int /\ l \in Int
      BY <1>1, <2>1 DEF TypeOK, MovementType
    <2>3. movements'[i]["SALE_DEDUCTION"] = s /\ movements'[i]["SERVICE_RETURN"] = r + l
      BY <1>1, <2>1 DEF MovementType
    <2>4. SumFunction(LinesOf(i)) = 0 - s - r
      BY <2>1 DEF SoldIsOnSales, LinesOf
    <2>5. SumFunction(LinesOf(i)') = (0 - s - r) + (0 - l)
      BY <1>4, <1>5, <2>1, <2>4
    <2> QED
      BY <2>2, <2>3, <2>5
  <1> QED
    BY <1>7, <1>8 DEF SoldIsOnSales, Totals, LinesOf

LEMMA NextSold == TypeOK /\ SoldIsOnSales /\ [Next]_vars => SoldIsOnSales'
  <1> SUFFICES ASSUME TypeOK, SoldIsOnSales, [Next]_vars PROVE SoldIsOnSales'
    OBVIOUS
  <1>1. ASSUME UNCHANGED <<sale, cash, movements>> PROVE SoldIsOnSales'
    BY <1>1, SoldStays
  <1>2. ASSUME NEW d \in Devices, AssignDevice(d) \/ ReturnDevice(d) PROVE SoldIsOnSales'
    BY <1>1, <1>2 DEF AssignDevice, ReturnDevice
  <1>3. ASSUME NEW i \in Items, NEW quantity \in Quantity,
               \/ Restock(i, quantity)
               \/ Adjust(i, quantity)
               \/ MarkDamaged(i, quantity)
               \/ DisposeDamaged(i, quantity)
        PROVE SoldIsOnSales'
    <2>1. PICK new, type, change :
            /\ Move(i, new, type, change)
            /\ type \in {"PURCHASE_RESTOCK", "MANUAL_ADJUSTMENT", "DAMAGE_TRANSFER",
                         "DAMAGE_DISPOSAL"}
      BY <1>3 DEF Restock, Adjust, MarkDamaged, DisposeDamaged
    <2>2. /\ sale' = sale /\ cash' = cash
          /\ movements' = [movements EXCEPT ![i][type] = @ + change]
      BY <2>1 DEF Move
    <2>3. \A j \in Items, t \in {"SALE_DEDUCTION", "SERVICE_RETURN"} :
            movements'[j][t] = movements[j][t]
      BY <2>1, <2>2 DEF TypeOK, MovementType
    <2> QED
      BY <2>2, <2>3, SoldStays
  <1>4. ASSUME NEW k \in Sales, CancelSale(k) PROVE SoldIsOnSales'
    BY <1>4, CancelSold
  <1>5. ASSUME NEW k \in Sales, NEW lines \in [Items -> Quantity],
               NEW devices \in SUBSET Devices, NEW total \in 0 .. MaxTotal,
               CreateSale(k, lines, devices, total)
        PROVE SoldIsOnSales'
    BY <1>5, CreateSold
  <1>6. ASSUME NEW e \in Editors, EditSave(e) \/ \E i \in Items : EditRead(e, i)
        PROVE SoldIsOnSales'
    BY <1>1, <1>6 DEF EditSave, EditRead
  <1>7. CASE UNCHANGED vars
    BY <1>1, <1>7 DEF vars
  <1> QED
    BY <1>2, <1>3, <1>4, <1>5, <1>6, <1>7 DEF Next

\* Of every item what was deducted for sales and not returned is on the lines of
\* the sales that stand, and the accounts hold exactly their totals, however many
\* sales are made and cancelled between other movements (create_pos_sale,
\* cancel_pos_sale and their journal entries).
THEOREM SalesExplainStockAndCash == Spec => []SoldIsOnSales
  BY InitType, NextType, InitSold, NextSold, PTL DEF Spec
=============================================================================
