---------------------------- MODULE CustomerScreens ----------------------------
(***************************************************************************)
(* The customer pages of the web client: the list, a customer's record,    *)
(* the import, the onboarding wizard.                                      *)
(***************************************************************************)
EXTENDS ScreenParts, TLC

-----------------------------------------------------------------------------
(* app/(dashboard)/customers/[id]/page.tsx *)

\* The record and the packages; then, not awaited, what belongs to the record:
\* lists each of which stays as it was, without a word, when its read is refused.
CustomerLoads ==
    [customer |-> Load({"loading"}, {"loading"}), context |-> Keeping(Load({}, {})),
     receipt |-> Throwing(Load({"receiptLoading"}, {"receiptLoading"}))]

Reload == <<Await({"customer"}), Then({"context"})>>

\* One flag for every action of the page; the record is read again at the end.
Acting(steps) == Detached(Handler({"actionLoading"}, steps \o Reload))

CustomerServiceTasks ==
    [loadCustomerData |-> Detached(Handler({}, Reload)),
     handleToggleStatus |-> Handler({"actionLoading"},
         <<Call("toggleCustomerStatus"), Put({"customer"})>>),
     handleSuspendService |-> Acting(<<Call("requestSuspension"), Close("suspend")>>),
     handleRestoreService |-> Acting(<<Call("requestRestore"), Close("restore")>>),
     handleRetryProvisioning |-> Acting(<<Call("retryProvisioningRequest")>>)]

\* The proof's own catch takes its failure; the flag is cleared before the read.
CustomerProofTasks ==
    [handleAttachProofFile |->
         Detached(Handler({"actionLoading"},
                          <<Call("uploadPaymentProof"), Await({"customer"})>>)),
     handleViewProof |-> Handler({}, <<Get("getPaymentProofUrl")>>)]

CustomerBillingTasks ==
    [handleRechargeService |-> Acting(<<Call("rechargeService"),
         Try("uploadPaymentProof"), Close("recharge")>>),
     handleChangeBillingMode |-> Acting(<<Call("changeBillingMode"),
         Close("billingMode")>>)]

CustomerDeviceTasks ==
    [handleChangePackage |-> Acting(<<Call("requestPackageChange"), Close("package")>>),
     handleAssignDevice |-> Acting(<<Call("assignDevice"), Close("assign")>>),
     handleReturnDevice |-> Acting(<<Call("returnDevice"), Close("return")>>)]

CollectPaymentTask ==
    [collectPayment |-> Acting(<<Call("recordPaymentWithAllocations"),
         Try("uploadPaymentProof"), Close("collect")>>)]

\* The dialog closes, but stays open and editable when the receipt is refused.
ReceiptTask ==
    [getReceipt |-> Quits(Handler({}, <<Await({"receipt"})>>), {"receipt"})]

EditCustomerTask ==
    [updateCustomer |-> Local(Handler({"saving"},
         <<Call("updateCustomer"), Put({"customer"}), Close("edit")>>))]

\* A skeleton replaces the page, dialogs included, while the record is read;
\* the form of EditCustomerModal comes back with a flag of its own.
Unless(flags) == {"loading"} \cup flags

CustomerHeader ==
    {Button("handleToggleStatus", Unless({"actionLoading"})),
     Button("loadCustomerData", Unless({})), Opens("edit", Unless({}))}

ConnectionsTab ==
    {Opens(d, Unless({})) : d \in {"recharge", "billingMode", "suspend", "restore",
                                   "package"}}
    \cup {Button("handleRetryProvisioning", Unless({"actionLoading"}))}

DevicesTab == {Opens("assign", Unless({})), Opens("return", Unless({}))}

PaymentsTab ==
    {Opens("collect", Unless({})),
     Button("handleAttachProofFile", Unless({"actionLoading"})),
     Button("handleViewProof", Unless({})),
     OpensWith("receipt", {"receipt"}, "getReceipt", Unless({}))}

ActionForm(dialog, submit) ==
    Form(dialog, submit, Unless({"actionLoading"}), Unless({}))

SuspendDialog     == ActionForm("suspend", "handleSuspendService")
RechargeDialog    == ActionForm("recharge", "handleRechargeService")
BillingModeDialog == ActionForm("billingMode", "handleChangeBillingMode")
RestoreDialog     == ActionForm("restore", "handleRestoreService")
PackageDialog     == ActionForm("package", "handleChangePackage")
AssignDialog      == ActionForm("assign", "handleAssignDevice")
ReturnDialog      == ActionForm("return", "handleReturnDevice")
CollectDialog     == ActionForm("collect", "collectPayment")
ReceiptDialog     == In("receipt", {Cancel(Unless({}))})
EditDialog        == Form("edit", "updateCustomer", Unless({"saving"}), Unless({}))

CustomerScreen ==
    UnderSkeleton(Screen({"loading"}, {"customer", "context"}, CustomerLoads,
        CustomerServiceTasks @@ CustomerProofTasks @@ CustomerBillingTasks
            @@ CustomerDeviceTasks @@ CollectPaymentTask @@ ReceiptTask
            @@ EditCustomerTask,
        CustomerHeader \cup ConnectionsTab \cup DevicesTab \cup PaymentsTab
            \cup SuspendDialog \cup RechargeDialog \cup BillingModeDialog
            \cup RestoreDialog \cup PackageDialog \cup AssignDialog
            \cup ReturnDialog \cup CollectDialog \cup ReceiptDialog
            \cup EditDialog), {"loading"})

-----------------------------------------------------------------------------
(* app/(dashboard)/customers/page.tsx *)

CustomersLoads ==
    [customers |-> Load({"loading"}, {"loading"}), areas |-> Load({}, {})]

\* Six filters read the list again; choosing a city also reads its areas.
CustomersTasks ==
    [loadCustomers |-> Reads({}, {"customers"}),
     cityFilter |-> Reads({}, {"customers", "areas"})]

CustomersFilters ==
    {Button("loadCustomers", {"loading"}),
     Asks({"customers"}, "loadCustomers", {}),
     Asks({"customers", "areas"}, "cityFilter", {})}

CustomersScreen ==
    Screen({"loading"}, {"customers"}, CustomersLoads, CustomersTasks,
           CustomersFilters)

-----------------------------------------------------------------------------
(* app/(dashboard)/customers/import/page.tsx *)

ImportLoads ==
    [history |-> Load({}, {}), preview |-> Load({"checking"}, {"checking"})]

\* The file that is imported is the one chosen when the import starts; the
\* preview may be of an earlier one.
ImportTasks ==
    [checkFile |-> Reads({}, {"preview"}),
     runImport |-> Handler({"importing"}, <<Call("run"), Await({"history"})>>),
     downloadTemplate |-> Handler({"downloading"}, <<Get("downloadTemplate")>>)]

ImportControls ==
    {Blanks(Asks({"preview"}, NoTask, {})),
     Button("checkFile", {"checking"}), Button("runImport", {"importing"}),
     Button("downloadTemplate", {"downloading"})}

ImportScreen ==
    Screen({}, {"history"}, ImportLoads, ImportTasks, ImportControls)

-----------------------------------------------------------------------------
(* components/customers/CustomerOnboarding.tsx *)

\* The mount effect drops its answers once it is unmounted; the cities of a
\* country and the areas of a city are shown whichever answer comes last.  The
\* cities of the last country stay until those of the new one come.
OnboardingLoads ==
    [options |-> Guarded(Load({"loadingOptions"}, {"loadingOptions"})),
     cities |-> Keeping(Load({}, {})),
     areas |-> Load({"loadingAreas"}, {"loadingAreas"})]

OnboardingReads ==
    [handleCountryChange |-> Reads({}, {"cities"}),
     handleCityChange |-> Reads({}, {"areas"})]

\* The credentials of a new PPPoE account take the place of the wizard at once;
\* otherwise the customer's page does, once it has been navigated to.
ActivateTasks ==
    [activateCustomer |-> Leaving("submitting", "activateCustomer", "wizard"),
     setActivatedCredentials |->
         Handler({"submitting"}, <<Call("activateCustomer"), Close("wizard")>>)]

AddressStep ==
    In("wizard",
       {[Asks({"cities", "areas"}, "handleCountryChange", {"loadingOptions"})
            EXCEPT !.blanks = {"areas"}],
        Blanks(Asks({"areas"}, "handleCityChange", {"loadingOptions"}))})

ReviewStep ==
    In("wizard", {Button(t, {"loadingOptions", "submitting"}) :
                    t \in DOMAIN ActivateTasks})

OnboardingScreen ==
    Screen({"loadingOptions"}, {"options"}, OnboardingLoads,
        OnboardingReads @@ ActivateTasks,
        {Opens("wizard", {"loadingOptions"})} \cup AddressStep \cup ReviewStep)

-----------------------------------------------------------------------------
CustomerPages ==
    [customer |-> CustomerScreen, customers |-> CustomersScreen,
     import |-> ImportScreen, onboarding |-> OnboardingScreen]
=============================================================================
