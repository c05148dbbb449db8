------------------------------ MODULE StockScreens ------------------------------
(***************************************************************************)
(* The inventory and point-of-sale pages of the web client.                *)
(***************************************************************************)
EXTENDS ScreenParts, TLC

-----------------------------------------------------------------------------
(* app/(dashboard)/pos/page.tsx *)

\* The catalogue and the customers; the checkout reads the catalogue again in
\* its own try, where a failure is reported as that of the sale.
PosLoads ==
    [data |-> Keeping(Load({"loading"}, {"loading"})),
     freshCatalog |-> Keeping(Throwing(Load({}, {})))]

\* A cart that is not empty is the dialog "cart".
PosTasks ==
    [loadData |-> Reads({}, {"data"}),
     handleCheckout |-> Handler({"submitting"},
         <<Call("createSale"), Close("cart"), Await({"freshCatalog"})>>)]

PosTerminal == {Button("loadData", {}), Opens("cart", {"loading"})}

\* The cart does not cover the page: its refresh stays in reach.
PosCart == Form("cart", "handleCheckout", {"submitting"}, {})
           \cup In("cart", {Button("loadData", {})})

PosScreen ==
    Screen({"loading"}, {"data"}, PosLoads, PosTasks, PosTerminal \cup PosCart)

-----------------------------------------------------------------------------
(* app/(dashboard)/pos/sales/page.tsx *)

SalesLoads ==
    [sales |-> Keeping(Load({"refreshing"}, {"loading", "refreshing"}))]

SalesTasks ==
    [loadSales |-> Reads({"loading"}, {"sales"}), refresh |-> Reads({}, {"sales"}),
     handleCancelSale |-> Saves("cancelling", "cancelSale", "cancel", {"sales"})]

SalesFilters ==
    {Button("refresh", {"refreshing"}), Asks({"sales"}, "loadSales", {}),
     Asks({"sales"}, "refresh", {})}

SalesRows     == {Opens("receipt", {"loading"}), Opens("cancel", {"loading"})}
ReceiptOfSale == In("receipt", {Cancel({})})
CancelSale    == Form("cancel", "handleCancelSale", {"cancelling"}, {})

SalesScreen ==
    Screen({"loading"}, {"sales"}, SalesLoads, SalesTasks,
           SalesFilters \cup SalesRows \cup ReceiptOfSale \cup CancelSale)

-----------------------------------------------------------------------------
(* app/(dashboard)/inventory/page.tsx *)

InventoryLoads ==
    [items |-> Keeping(Load({"itemsLoading"}, {"itemsLoading"})),
     devices |-> Keeping(Load({"devicesLoading"}, {"devicesLoading"})),
     movements |-> Keeping(Load({"movementsLoading"}, {"movementsLoading"}))]

InventoryReads ==
    [loadItems |-> Reads({}, {"items"}), loadDevices |-> Reads({}, {"devices"}),
     loadMovements |-> Reads({}, {"movements"})]

CreateAndRestock ==
    [handleCreateItem |-> Saves("submitting", "createItem", "createItem", {"items"}),
     handleRestock |-> Saves("submitting", "restockItem", "restock", {"items"})]

AdjustAndDamage ==
    [handleAdjust |-> Saves("submitting", "adjustItem", "adjust", {"items"}),
     handleDamage |-> Saves("submitting", "damageItem", "damage", {"items"})]

DisposeAndReturn ==
    [handleDispose |-> Saves("submitting", "disposeItem", "dispose", {"items"}),
     handleReturnDevice |->
         Saves("submitting", "returnDevice", "return", {"devices"})]

\* Coming to a tab reads its list, as its filters do.
InventoryTabs ==
    {Button(t, {}) : t \in DOMAIN InventoryReads}
    \cup {Asks({"items"}, "loadItems", {})}

ItemRows == {Opens("createItem", {})}
            \cup {Opens(d, {"itemsLoading"}) : d \in {"restock", "adjust", "damage",
                                                      "dispose"}}
DeviceRows == {Opens("return", {"devicesLoading"})}

StockForm(dialog, submit) == Form(dialog, submit, {"submitting"}, {})

CreateItemDialog == StockForm("createItem", "handleCreateItem")
RestockDialog    == StockForm("restock", "handleRestock")
AdjustDialog     == StockForm("adjust", "handleAdjust")
DamageDialog     == StockForm("damage", "handleDamage")
DisposeDialog    == StockForm("dispose", "handleDispose")
ReturnStockDialog == StockForm("return", "handleReturnDevice")

InventoryScreen ==
    Screen({"itemsLoading"}, {"items"}, InventoryLoads,
        InventoryReads @@ CreateAndRestock @@ AdjustAndDamage @@ DisposeAndReturn,
        InventoryTabs \cup ItemRows \cup DeviceRows \cup CreateItemDialog
            \cup RestockDialog \cup AdjustDialog \cup DamageDialog
            \cup DisposeDialog \cup ReturnStockDialog)

-----------------------------------------------------------------------------
StockPages ==
    [pos |-> PosScreen, sales |-> SalesScreen, inventory |-> InventoryScreen]
=============================================================================
