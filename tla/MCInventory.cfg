\* One item, two devices, two sales, one edit: a sale is cancelled and another follows.
CONSTANTS
    Items = {i1}
    Devices = {d1, d2}
    Sales = {k1, k2}
    Editors = {e1}
    None = None
    Editable = {"on_hand", "damaged"}
    Opening = 1
    MaxStock = 2
    MaxTotal = 1
    MaxMoved = 2
    MaxEdits = 1
SPECIFICATION Spec
SYMMETRY Symmetry
CHECK_DEADLOCK FALSE
INVARIANTS TypeOK CustodyIsExclusive OnlyEditsAreUnrecorded SoldIsOnSales
