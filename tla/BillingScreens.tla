----------------------------- MODULE BillingScreens -----------------------------
(***************************************************************************)
(* The billing and recovery pages of the web client.                       *)
(***************************************************************************)
EXTENDS ScreenParts, TLC

-----------------------------------------------------------------------------
(* app/(dashboard)/invoices/page.tsx *)

\* The list is read at every change of a filter; its reads set no flag, and
\* each of them clears both.
InvoicesLoads ==
    [invoices |-> Load({}, {"loading", "refreshing"}),
     detail |-> Throwing(Load({"detailLoading"}, {"detailLoading"})),
     customersList |-> Keeping(Load({}, {})), customerDetail |-> Load({}, {})]

InvoicesOpenings ==
    [loadData |-> Reads({}, {"invoices"}), refresh |-> Reads({"refreshing"}, {"invoices"}),
     handleOpenCustomInvoiceModal |-> Reads({}, {"customersList"}),
     handleOpenDetail |-> Quits(Reads({}, {"detail"}), {"detail"}),
     chooseCustomer |-> Reads({}, {"customerDetail"})]

InvoicePaymentTasks ==
    [handleRecordPayment |->
         Saving("submittingPayment", "recordInvoicePayment", "pay", {"invoices"}),
     handleCancelInvoice |->
         Saving("submittingCancel", "cancelInvoice", "cancel", {"invoices"})]

InvoiceBadDebtTasks ==
    [handleWriteOffInvoice |->
         Saving("submittingWriteOff", "writeOffInvoice", "writeOff", {"invoices"}),
     handleRecoverBadDebt |->
         Saving("submittingRecovery", "recoverBadDebt", "recover", {"invoices"})]

InvoiceRunTasks ==
    [handleCreateCustomInvoice |->
         Saving("submittingCustomInv", "createCustomInvoice", "custom", {"invoices"}),
     handleRunMonthlyBilling |->
         Saving("submittingMonthlyRun", "runMonthlyBilling", "monthlyRun", {"invoices"})]

InvoicesHeader ==
    {Button("refresh", {"refreshing"}), Opens("monthlyRun", {}),
     OpensWith("custom", {}, "handleOpenCustomInvoiceModal", {})}

InvoicesFilters == {Asks({"invoices"}, "loadData", {})}

InvoicesRows ==
    {OpensWith("detail", {"detail"}, "handleOpenDetail", {"loading"})}
    \cup {Opens(d, {"loading"}) : d \in {"pay", "cancel", "writeOff", "recover"}}

DetailDrawer     == In("detail", {Cancel({})})
PayDialog        == Form("pay", "handleRecordPayment", {"submittingPayment"}, {})
CancelDialog     == Form("cancel", "handleCancelInvoice", {"submittingCancel"}, {})
WriteOffDialog   == Form("writeOff", "handleWriteOffInvoice", {"submittingWriteOff"}, {})
RecoverDialog    == Form("recover", "handleRecoverBadDebt", {"submittingRecovery"}, {})
MonthlyRunDialog ==
    Form("monthlyRun", "handleRunMonthlyBilling", {"submittingMonthlyRun"}, {})

\* The service of the customer chosen before is kept until the answer comes.
CustomInvoiceCustomer ==
    In("custom", {Asks({"customerDetail"}, "chooseCustomer", {})})
CustomInvoiceDialog ==
    Form("custom", "handleCreateCustomInvoice", {"submittingCustomInv"}, {})

InvoicesScreen ==
    Screen({"loading"}, {"invoices"}, InvoicesLoads,
        InvoicesOpenings @@ InvoicePaymentTasks @@ InvoiceBadDebtTasks
            @@ InvoiceRunTasks,
        InvoicesHeader \cup InvoicesFilters \cup InvoicesRows \cup DetailDrawer
            \cup PayDialog \cup CancelDialog \cup WriteOffDialog
            \cup RecoverDialog \cup MonthlyRunDialog
            \cup CustomInvoiceCustomer \cup CustomInvoiceDialog)

-----------------------------------------------------------------------------
(* app/(dashboard)/billing/page.tsx *)

\* The list is read with one flag at a filter and with another at a refresh.
BillingLoads ==
    [billing |-> Keeping(Load({}, {"loading", "refreshing"})), expiring |-> Load({}, {}),
     customers |-> Keeping(Load({"loadingCustomers"}, {"loadingCustomers"})),
     serviceAccounts |-> Keeping(Load({}, {}))]

BillingReads ==
    [loadBillingData |-> Reads({"loading"}, {"billing"}),
     refresh |-> Reads({"refreshing"}, {"billing"})]

Refreshing == AwaitUnder({"refreshing"}, {"billing"})

BillingPaymentTask ==
    [handlePaymentSubmit |-> Handler({"paymentSubmitting"},
         <<Call("recordInvoicePayment"), Close("payment"), Refreshing>>)]

GenerateOpenings ==
    [openGenerateInvoiceModal |-> Reads({}, {"customers"}),
     handleCustomerChange |-> Reads({}, {"serviceAccounts"})]

\* The dialog stays open until a timer closes it, 1.2 s after the flag is cleared.
GenerateTask ==
    [handleGenerateInvoice |-> Detached(Handler({"generatingInvoice"},
         <<Call("generateInvoice"), Refreshing, Pause, Close("generate")>>))]

BillingHeader ==
    {OpensWith("generate", {}, "openGenerateInvoiceModal", {"generatingInvoice"}),
     Button("refresh", {"refreshing"})}

BillingFilters == {Asks({"billing"}, "loadBillingData", {})}
BillingRows    == {Opens("payment", {"loading"})}

PaymentDialog ==
    Form("payment", "handlePaymentSubmit", {"paymentSubmitting"}, {"paymentSubmitting"})

GenerateDialog ==
    Form("generate", "handleGenerateInvoice", {"generatingInvoice"}, {"generatingInvoice"})
    \cup In("generate", {Asks({"serviceAccounts"}, "handleCustomerChange",
                              {"loadingCustomers"})})

BillingScreen ==
    Screen({"loading"}, {"billing"}, BillingLoads,
        BillingReads @@ BillingPaymentTask @@ GenerateOpenings @@ GenerateTask,
        BillingHeader \cup BillingFilters \cup BillingRows \cup PaymentDialog
            \cup GenerateDialog)

-----------------------------------------------------------------------------
(* app/(dashboard)/collections/page.tsx *)

CollectionsLoads ==
    [payments |-> Load({}, {"loading", "refreshing"}),
     receipt |-> Throwing(Load({"receiptLoading"}, {"receiptLoading"})),
     customersList |-> Keeping(Load({}, {})), customerDetail |-> Throwing(Load({}, {})),
     unpaidInvoices |-> Keeping(Throwing(Load({"invoicesLoading"}, {"invoicesLoading"})))]

\* The customer's service, which the payment will be for, and then the
\* invoices of that service: whichever customer's answers come last.
CustomerChange ==
    [handleCustomerChange |-> [Handler({}, <<Await({"customerDetail"}),
         Await({"unpaidInvoices"})>>) EXCEPT !.frees = {"invoicesLoading"}]]

CollectionsTasks ==
    [loadPayments |-> Reads({}, {"payments"}),
     refresh |-> Reads({"refreshing"}, {"payments"}),
     handleViewReceipt |-> Quits(Reads({}, {"receipt"}), {"receipt"}),
     handleConfirmReversal |->
         Saving("submittingReversal", "reversePayment", "reversal", {"payments"}),
     handleOpenNewCollection |-> Reads({}, {"customersList"})]

RecordCollection ==
    [handleRecordCollection |-> Saving("submittingCollection",
         "recordPaymentWithAllocations", "collection", {"payments"})]

CollectionsHeader ==
    {Button("refresh", {"refreshing"}), Asks({"payments"}, "loadPayments", {}),
     OpensWith("collection", {}, "handleOpenNewCollection", {})}

CollectionsRows ==
    {OpensWith("receipt", {"receipt"}, "handleViewReceipt", {"loading"}),
     Opens("reversal", {"loading"})}

CollectionReceipt == In("receipt", {Cancel({})})
ReversalDialog    == Form("reversal", "handleConfirmReversal", {"submittingReversal"}, {})
CollectionDialog  ==
    Form("collection", "handleRecordCollection", {"submittingCollection"}, {})
    \cup In("collection", {[Asks({"customerDetail", "unpaidInvoices"},
                "handleCustomerChange", {}) EXCEPT !.blanks = {"unpaidInvoices"}]})

CollectionsScreen ==
    Screen({"loading"}, {"payments"}, CollectionsLoads,
        CollectionsTasks @@ CustomerChange @@ RecordCollection,
        CollectionsHeader \cup CollectionsRows \cup CollectionReceipt
            \cup ReversalDialog \cup CollectionDialog)

-----------------------------------------------------------------------------
(* app/(dashboard)/defaulters/page.tsx and allocations/page.tsx *)

OneList(load, flag) == load :> Load({flag}, {flag})

\* An error is shown above the rows of before, not in their place.
KeptList(load, flag) == load :> Keeping(Load({flag}, {flag}))

DefaultersTasks ==
    [loadDefaulters |-> Reads({}, {"defaulters"}),
     handleAllocate |->
         Detached(Saving("isAllocating", "createAllocation", "allocate", {"defaulters"}))]

DefaultersControls ==
    {Button("loadDefaulters", {}), Asks({"defaulters"}, "loadDefaulters", {}),
     Opens("allocate", {"isLoading"})}

AllocateDialog == Form("allocate", "handleAllocate", {"isAllocating"}, {})

DefaultersScreen ==
    Screen({"isLoading"}, {"defaulters"}, KeptList("defaulters", "isLoading"),
           DefaultersTasks, DefaultersControls \cup AllocateDialog)

AllocationsTasks ==
    [loadAllocations |-> Reads({}, {"allocations"}),
     handleStatusTransition |->
         Detached(Saving("isTransitioning", "transitionStatus", "status", {"allocations"})),
     handleReassign |->
         Detached(Saving("isReassigning", "reassignAllocation", "reassign", {"allocations"}))]

AllocationsControls ==
    {Button("loadAllocations", {}), Asks({"allocations"}, "loadAllocations", {})}
    \cup {Opens(d, {"isLoading"}) : d \in {"view", "status", "reassign"}}

ViewDialog     == In("view", {Cancel({})})
StatusDialog   == Form("status", "handleStatusTransition", {"isTransitioning"}, {})
ReassignDialog == Form("reassign", "handleReassign", {"isReassigning"}, {})

AllocationsScreen ==
    Screen({"isLoading"}, {"allocations"}, KeptList("allocations", "isLoading"),
           AllocationsTasks,
           AllocationsControls \cup ViewDialog \cup StatusDialog \cup ReassignDialog)

-----------------------------------------------------------------------------
(* app/(dashboard)/promises/page.tsx and reversals/page.tsx *)

\* Two forms share a flag; their submit buttons both wait for it.
PromisesTasks ==
    [fetchPromises |-> Reads({}, {"promises"}),
     handleCreatePromise |->
         Detached(Saving("formSubmitting", "createPromise", "create", {"promises"})),
     handleTransitionSubmit |->
         Detached(Saving("formSubmitting", "transitionStatus", "transition", {"promises"}))]

PromisesControls ==
    {Button("fetchPromises", {}), Asks({"promises"}, "fetchPromises", {}),
     Opens("create", {}), Opens("transition", {"loading"})}

CreatePromiseDialog == Form("create", "handleCreatePromise", {"formSubmitting"}, {})
TransitionDialog    == Form("transition", "handleTransitionSubmit", {"formSubmitting"}, {})

PromisesScreen ==
    Screen({"loading"}, {"promises"}, OneList("promises", "loading"), PromisesTasks,
           PromisesControls \cup CreatePromiseDialog \cup TransitionDialog)

ReversalsTasks ==
    [load |-> Reads({}, {"report"}),
     exportCsv |-> Handler({"exporting"}, <<Get("downloadReversalsCsv")>>)]

ReversalsControls ==
    {Button("exportCsv", {"exporting"}), Button("load", {"loading"}),
     Asks({"report"}, "load", {})}

ReversalsScreen ==
    Screen({"loading"}, {"report"}, KeptList("report", "loading"), ReversalsTasks,
           ReversalsControls)

-----------------------------------------------------------------------------
(* app/(dashboard)/suspensions/page.tsx *)

SuspensionsTasks ==
    [loadData |-> Reads({}, {"data"}),
     handleManualSuspend |->
         Saving("isSubmittingSuspend", "suspendService", "suspend", {"data"}),
     handleManualRestore |->
         Saving("isSubmittingRestore", "restoreService", "restore", {"data"})]

\* The result takes the place of the form that started the engine.
EngineTasks ==
    [handleRunAutomatedEngine |->
         Saving("isRunningEngine", "runAutomatedEngine", "run", {"data"}),
     handleSavePolicy |-> Handler({"isSavingPolicy"},
         <<Call("updatePolicy"), Await({"data"})>>)]

SuspensionsHeader == {Button("loadData", {"isLoading"}), Opens("run", {})}
EligibilityTab    == {Opens(d, {"isLoading"}) : d \in {"suspend", "restore"}}
PolicyTab         == {Button("handleSavePolicy", {"isSavingPolicy"})}
SuspendForm       == Form("suspend", "handleManualSuspend", {"isSubmittingSuspend"}, {})
RestoreForm       == Form("restore", "handleManualRestore", {"isSubmittingRestore"}, {})
RunForm           == Form("run", "handleRunAutomatedEngine", {"isRunningEngine"}, {})

SuspensionsScreen ==
    Screen({"isLoading"}, {"data"}, KeptList("data", "isLoading"),
        SuspensionsTasks @@ EngineTasks,
        SuspensionsHeader \cup EligibilityTab \cup PolicyTab \cup SuspendForm
            \cup RestoreForm \cup RunForm)

-----------------------------------------------------------------------------
(* app/(dashboard)/packages/page.tsx *)

\* The switch of a row has no flag: the server turns it at every call.
PackagesTasks ==
    [loadPackages |-> Reads({}, {"packages"}),
     handleSavePackage |->
         Detached(Saving("submitting", "saveInternetPackage", "package", {"packages"})),
     handleToggleStatus |-> Handler({},
         <<Call("toggleInternetPackageStatus"), Put({"packages"})>>),
     handleDeletePackage |->
         Detached(Saving("deleting", "deleteInternetPackage", "delete", {"packages"}))]

PackagesControls ==
    {Asks({"packages"}, "loadPackages", {}), Opens("package", {}),
     Button("handleToggleStatus", {"loading"}), Opens("delete", {"loading"})}

PackageForm == Form("package", "handleSavePackage", {"submitting"}, {"submitting"})
DeleteForm  == Form("delete", "handleDeletePackage", {"deleting"}, {"deleting"})

PackagesScreen ==
    Screen({"loading"}, {"packages"}, OneList("packages", "loading"), PackagesTasks,
           PackagesControls \cup PackageForm \cup DeleteForm)

-----------------------------------------------------------------------------
BillingPages ==
    [invoices |-> InvoicesScreen, billing |-> BillingScreen,
     collections |-> CollectionsScreen, defaulters |-> DefaultersScreen,
     allocations |-> AllocationsScreen, promises |-> PromisesScreen,
     reversals |-> ReversalsScreen, suspensions |-> SuspensionsScreen,
     packages |-> PackagesScreen]
=============================================================================
