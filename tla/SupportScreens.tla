----------------------------- MODULE SupportScreens -----------------------------
(***************************************************************************)
(* The support, field work, staff and dealer pages of the web client.      *)
(***************************************************************************)
EXTENDS ScreenParts, TLC

-----------------------------------------------------------------------------
(* app/(dashboard)/support/page.tsx *)

\* The ticket in the drawer is the row of the list until it is read again,
\* which opens the drawer when it has been closed meanwhile.
SupportLoads ==
    [data |-> Keeping(Load({}, {"loading", "refreshing"})),
     customers |-> Keeping(Load({}, {})),
     complaint |-> Keeping(Also(Raising(Load({}, {}), {"drawer"}), {"data"})),
     metrics |-> Keeping(Load({}, {}))]

SupportReads ==
    [refresh |-> Reads({"refreshing"}, {"data", "metrics"}),
     getCustomers |-> Reads({}, {"customers"})]

\* The new ticket is put in the drawer once the list has been read again.
CreateComplaintTask ==
    [handleCreateComplaint |-> Handler({"submitting"},
         <<Call("createComplaint"), Close("newTicket"),
           AwaitUnder({"refreshing"}, {"data", "metrics"}), Put({"complaint"}),
           Raise("drawer")>>)]

OnTicket(operation, dialog) ==
    Handler({"submitting"}, <<Call(operation), Close(dialog), Await({"complaint"}),
                              Then({"metrics"})>>)

AssignAndTransition ==
    [handleAssignSubmit |-> OnTicket("assignComplaint", "assign"),
     handleTransitionSubmit |-> OnTicket("transitionComplaint", "transition")]

EscalateAndResolve ==
    [handleEscalateSubmit |-> OnTicket("escalateComplaint", "escalate"),
     handleResolveSubmit |-> OnTicket("resolveComplaint", "resolve")]

CloseAndNote ==
    [handleCloseSubmit |-> OnTicket("closeComplaint", "close"),
     handleAddNote |-> OnTicket("addInternalNote", NoDialog)]

SupportHeader == {Button("refresh", {"refreshing"}),
                  OpensWith("newTicket", {}, "getCustomers", {})}

TicketRows == {Picks("drawer", "complaint", "data", {"loading"})}

TicketDrawer ==
    In("drawer", {Cancel({}), Button("handleAddNote", {"submitting"})}
                 \cup {Opens(d, {}) : d \in {"assign", "transition", "escalate",
                                             "resolve", "close"}})

TicketForm(dialog, submit) == Form(dialog, submit, {"submitting"}, {})

NewTicketDialog  == TicketForm("newTicket", "handleCreateComplaint")
AssignDialog     == TicketForm("assign", "handleAssignSubmit")
TransitionDialog == TicketForm("transition", "handleTransitionSubmit")
EscalateDialog   == TicketForm("escalate", "handleEscalateSubmit")
ResolveDialog    == TicketForm("resolve", "handleResolveSubmit")
CloseDialog      == TicketForm("close", "handleCloseSubmit")

SupportScreen ==
    Screen({"loading"}, {"data", "metrics"}, SupportLoads,
        SupportReads @@ CreateComplaintTask @@ AssignAndTransition
            @@ EscalateAndResolve @@ CloseAndNote,
        SupportHeader \cup TicketRows \cup TicketDrawer \cup NewTicketDialog
            \cup AssignDialog \cup TransitionDialog \cup EscalateDialog
            \cup ResolveDialog \cup CloseDialog)

-----------------------------------------------------------------------------
(* app/(dashboard)/inquiries/page.tsx *)

InquiriesLoads ==
    [inquiries |-> Load({"loading"}, {"loading"}), areas |-> Load({}, {})]

InquiriesReads ==
    [fetchInquiries |-> Reads({}, {"inquiries"}),
     cityFilter |-> Reads({}, {"inquiries", "areas"})]

CreateInquiryTask ==
    [handleCreateInquiry |->
         Saves("formSubmitting", "createInquiry", "create", {"inquiries"})]
FeasibilityTask ==
    [handleRecordFeasibility |->
         Saves("formSubmitting", "createFeasibility", "feasibility", {"inquiries"})]
TransitionTask ==
    [handleStatusTransition |->
         Saves("formSubmitting", "transitionStatus", "status", {"inquiries"})]

\* The success message keeps the button disabled until a timer, which the
\* handler does not wait for, closes the dialog and reads the list again.
ConvertTask ==
    [handleConvertInquiry |-> Detached(Handler({"formSubmitting"},
         <<Call("convertInquiry"), PauseUnder({"formSuccess"}), Close("convert"),
           Frees({"formSuccess"}), Await({"inquiries"})>>))]

InquiriesHeader == {Button("fetchInquiries", {}), Opens("create", {})}

InquiriesFilters ==
    {Asks({"inquiries"}, "fetchInquiries", {}),
     Asks({"inquiries", "areas"}, "cityFilter", {})}

InquiriesRows == {Opens(d, {"loading"}) : d \in {"feasibility", "convert", "status"}}

InquiryForm(dialog, submit) == Form(dialog, submit, {"formSubmitting"}, {})

CreateInquiryDialog == InquiryForm("create", "handleCreateInquiry")
FeasibilityDialog   == InquiryForm("feasibility", "handleRecordFeasibility")
ConvertDialog       ==
    Form("convert", "handleConvertInquiry", {"formSubmitting", "formSuccess"}, {})
StatusDialog        == InquiryForm("status", "handleStatusTransition")

InquiriesScreen ==
    Screen({"loading"}, {"inquiries"}, InquiriesLoads,
        InquiriesReads @@ CreateInquiryTask @@ FeasibilityTask @@ TransitionTask
            @@ ConvertTask,
        InquiriesHeader \cup InquiriesFilters \cup InquiriesRows
            \cup CreateInquiryDialog \cup FeasibilityDialog \cup ConvertDialog
            \cup StatusDialog)

-----------------------------------------------------------------------------
(* app/(dashboard)/inquiries/[id]/page.tsx *)

InquiryScreen ==
    Screen({"loading"}, {"inquiry"}, [inquiry |-> Load({"loading"}, {"loading"})],
        [loadData |-> Reads({}, {"inquiry"})], {Button("loadData", {"loading"})})

-----------------------------------------------------------------------------
(* app/(dashboard)/field-operations/page.tsx *)

FieldLoads == [data |-> Keeping(Load({}, {"loading", "refreshing"}))]
FieldReads == [refresh |-> Reads({"refreshing"}, {"data"})]

RefreshField == AwaitUnder({"refreshing"}, {"data"})

CreateWorkOrderTask ==
    [handleCreate |-> Handler({"creating"},
         <<Call("createAndAssignWorkOrder"), Close("create"), RefreshField>>)]

\* Four orders, one in each state that has a button; actionId names the order
\* whose button is replaced by a spinner.
ActionIds == {"created", "assigned", "dispatched", "onsite"}

OnOrder(order, operation) ==
    Replacing(Handler({order}, <<Call(operation), RefreshField>>), ActionIds)

AssignAndDispatch ==
    [handleAssign |-> OnOrder("created", "assignTechnician"),
     handleDispatch |-> OnOrder("assigned", "dispatchWorkOrder")]

OnsiteAndComplete ==
    [handleOnsite |-> OnOrder("dispatched", "markOnsite"),
     handleComplete |-> OnOrder("onsite", "completeWorkOrder")]

FieldHeader == {Button("refresh", {"loading", "refreshing"}),
                Opens("create", {"loading"})}

OrderRows == {Button("handleAssign", {"loading", "created"}),
              Button("handleDispatch", {"loading", "assigned"}),
              Button("handleOnsite", {"loading", "dispatched"}),
              Button("handleComplete", {"loading", "onsite"})}

CreateWorkOrderDialog == Form("create", "handleCreate", {"creating"}, {})

FieldScreen ==
    Screen({"loading"}, {"data"}, FieldLoads,
        FieldReads @@ CreateWorkOrderTask @@ AssignAndDispatch @@ OnsiteAndComplete,
        FieldHeader \cup OrderRows \cup CreateWorkOrderDialog)

-----------------------------------------------------------------------------
(* app/(dashboard)/operators/page.tsx, staff/page.tsx, staff/add/page.tsx *)

OperatorsLoads ==
    [operators |-> Keeping(Load({"isLoading"}, {"isLoading"})),
     detail |-> Keeping(Load({"isLoadingDetail"}, {"isLoadingDetail"}))]

OperatorsTasks == [loadOperators |-> Reads({}, {"operators"}),
                   viewWorkload |-> Reads({}, {"detail"})]

OperatorsList ==
    {Button("loadOperators", {}), Asks({"operators"}, "loadOperators", {}),
     OpensWith("workload", {"detail"}, "viewWorkload", {"isLoading"})}

WorkloadDialog == In("workload", {Cancel({})})

OperatorsScreen ==
    Screen({"isLoading"}, {"operators"}, OperatorsLoads, OperatorsTasks,
           OperatorsList \cup WorkloadDialog)

StaffLoads == [staff |-> Keeping(Load({"isLoading"}, {"isLoading"}))]

\* The member as the server has it now takes its place in the list.
StaffTasks ==
    [loadStaff |-> Reads({}, {"staff"}),
     handleStatusChange |-> Handler({}, <<Call("setStatus"), Put({"staff"})>>),
     handleSaveEdit |-> Handler({"isSaving"},
         <<Call("updateStaff"), Put({"staff"}), Close("edit")>>)]

StaffFilters == {Button("loadStaff", {}), Asks({"staff"}, "loadStaff", {})}
StaffRows    == {Button("handleStatusChange", {"isLoading"}),
                 Opens("edit", {"isLoading"})}
EditStaffDialog == Form("edit", "handleSaveEdit", {"isSaving"}, {})

StaffScreen ==
    Screen({"isLoading"}, {"staff"}, StaffLoads, StaffTasks,
           StaffFilters \cup StaffRows \cup EditStaffDialog)

AddStaffTask == [handleSubmit |-> Leaving("isSubmitting", "createStaff", "form")]
AddStaffForm == In("form", {Button("handleSubmit", {"isSubmitting"})})

AddStaffScreen ==
    Screen({}, {"areas"}, [areas |-> Load({}, {})], AddStaffTask,
           {Opens("form", {})} \cup AddStaffForm)

-----------------------------------------------------------------------------
(* app/(dashboard)/dealers/page.tsx, dealers/[id]/page.tsx *)

DealersLoads ==
    [dealers |-> Load({"loading"}, {"loading"}), areas |-> Load({}, {})]

DealersReads ==
    [fetchDealers |-> Reads({}, {"dealers"}),
     cityFilter |-> Reads({}, {"dealers", "areas"})]

CreateDealerTask ==
    [handleCreateDealer |->
         Saves("formSubmitting", "createDealer", "create", {"dealers"})]

\* Two dealers; togglingId names the one whose button is disabled.
TogglingIds == {"this dealer", "that dealer"}
OnDealer(id) ==
    Replacing(Detached(Handler({id}, <<Call("toggleStatus"), Await({"dealers"})>>)),
              TogglingIds)

ToggleDealerTasks == [toggleThis |-> OnDealer("this dealer"),
                      toggleThat |-> OnDealer("that dealer")]

DealersHeader ==
    {Button("fetchDealers", {}), Opens("create", {}),
     Asks({"dealers"}, "fetchDealers", {}),
     Asks({"dealers", "areas"}, "cityFilter", {})}

DealersRows == {Button("toggleThis", {"loading", "this dealer"}),
                Button("toggleThat", {"loading", "that dealer"})}

CreateDealerDialog == Form("create", "handleCreateDealer", {"formSubmitting"}, {})

DealersScreen ==
    Screen({"loading"}, {"dealers"}, DealersLoads,
        DealersReads @@ CreateDealerTask @@ ToggleDealerTasks,
        DealersHeader \cup DealersRows \cup CreateDealerDialog)

DealerTasks ==
    [loadData |-> Reads({}, {"dealer"}),
     handleToggleStatus |-> Handler({"toggling"},
         <<Call("toggleStatus"), Await({"dealer"})>>)]

DealerScreen ==
    Screen({"loading"}, {"dealer"}, [dealer |-> Load({"loading"}, {"loading"})],
        DealerTasks,
        {Button("handleToggleStatus", {"loading", "toggling"}),
         Button("loadData", {"loading"})})

-----------------------------------------------------------------------------
SupportPages ==
    [support |-> SupportScreen, inquiries |-> InquiriesScreen,
     inquiry |-> InquiryScreen, field |-> FieldScreen,
     operators |-> OperatorsScreen, staff |-> StaffScreen,
     addStaff |-> AddStaffScreen, dealers |-> DealersScreen,
     dealer |-> DealerScreen]
=============================================================================
