----------------------------- MODULE AccountScreens -----------------------------
(***************************************************************************)
(* The accounting, reporting and settings pages of the web client, and its *)
(* pages for providers that register.                                      *)
(***************************************************************************)
EXTENDS ScreenParts, TLC

-----------------------------------------------------------------------------
(* app/(dashboard)/accounting/page.tsx *)

\* Every part of the base data catches its own error and is empty then; its
\* flag puts a skeleton in the place of the page.
BaseData   == [base |-> Load({"loading"}, {"loading"})]
Statements == [ledger |-> Keeping(Load({"ledgerLoading"}, {"ledgerLoading"})),
               trialBalance |-> Keeping(Load({"tbLoading"}, {"tbLoading"}))]

AccountingReads == [loadBaseData |-> Reads({}, {"base"})]
StatementReads  == [loadLedger |-> Reads({}, {"ledger"}),
                    loadTrialBalance |-> Reads({}, {"trialBalance"})]

\* No flag of their own: the reload disables what started them.
ReverseJournal == [handleReverseJournal |->
                      Handler({}, <<Call("reverseJournalEntry"), Await({"base"})>>)]
TogglePeriod   == [handleTogglePeriod |->
                      Handler({}, <<Call("closeFinancialPeriod"), Await({"base"})>>)]

ExpenseTask  == [expense |-> Saving("submitting", "createExpense", "expense", {"base"})]
IncomeTask   == [income |-> Saving("submitting", "createDirectIncome", "income", {"base"})]
TransferTask ==
    [transfer |-> Saving("submitting", "createFundTransfer", "transfer", {"base"})]

\* A component of its own: its flag goes with it.
JournalTask == [handleSubmitJournal |->
                   Local(Saves("posting", "createJournalEntry", "journal", {"base"}))]

AccountingHeader ==
    {Opens(d, {"loading"}) : d \in {"expense", "income", "transfer", "journal"}}
    \cup {Button("loadBaseData", {"loading"})}

JournalRows == {Opens("journalDetail", {"loading"}),
                Button("handleReverseJournal", {"loading"})}
LedgerTab   == {Asks({"ledger"}, "loadLedger", {"loading"})}
TrialTab    == {Button("loadTrialBalance", {"loading"})}
PeriodsTab  == {Button("handleTogglePeriod", {"loading"})}

JournalDetail  == In("journalDetail", {Cancel({"loading"})})
ExpenseDialog  == Form("expense", "expense", {"loading", "submitting"}, {"loading"})
IncomeDialog   == Form("income", "income", {"loading", "submitting"}, {"loading"})
TransferDialog == Form("transfer", "transfer", {"loading", "submitting"}, {"loading"})
JournalDialog  == Form("journal", "handleSubmitJournal", {"loading", "posting"}, {"loading"})

AccountingScreen ==
    UnderSkeleton(Screen({"loading"}, {"base"}, BaseData @@ Statements,
        AccountingReads @@ StatementReads @@ ReverseJournal @@ TogglePeriod
            @@ ExpenseTask @@ IncomeTask @@ TransferTask @@ JournalTask,
        AccountingHeader \cup JournalRows \cup LedgerTab \cup TrialTab
            \cup PeriodsTab \cup JournalDetail \cup ExpenseDialog
            \cup IncomeDialog \cup TransferDialog \cup JournalDialog), {"loading"})

-----------------------------------------------------------------------------
(* app/(dashboard)/expenses/page.tsx *)

\* Every read sets the flag of the refresh button; an error is a notice above
\* the rows of before.
ExpensesLoads    ==
    [expenses |-> Keeping(Load({"refreshing"}, {"loading", "refreshing"}))]
ExpensesReads    == [refresh |-> Reads({}, {"expenses"}),
                     loadData |-> Reads({"loading"}, {"expenses"})]
ExpenseRecord    ==
    [handleCreateExpense |-> Saves("submitting", "createExpense", "create", {"expenses"})]
ExpensesControls == {Button("refresh", {"refreshing"}), Opens("create", {}),
                     Asks({"expenses"}, "loadData", {})}
NewExpenseDialog == Form("create", "handleCreateExpense", {"submitting"}, {})

ExpensesScreen ==
    Screen({"loading"}, {"expenses"}, ExpensesLoads, ExpensesReads @@ ExpenseRecord,
           ExpensesControls \cup NewExpenseDialog)

-----------------------------------------------------------------------------
(* app/(dashboard)/reports/page.tsx, audit-logs/page.tsx *)

\* One read for all sixteen reports: it asks for the one that is open, and its
\* answer goes where that one is kept.  They share one flag, which hides none,
\* and an error, which is shown above them; two of them stand for all.
Reports == {"this report", "that report"}

FetchReport    == [r \in Reports |-> Keeping(Load({"loading"}, {"loading"}))]
ReportReads    == [r \in Reports |-> Reads({}, {r})]

\* Opening a report, and every change of its dates, filters or page.
ReportTabs     == {Asks({r}, r, {}) : r \in Reports}
ReportRefresh  == {Button(r, {}) : r \in Reports}

ReportsScreen ==
    Screen({}, {"this report"}, FetchReport, ReportReads, ReportTabs \cup ReportRefresh)

AuditLoads    == [logs |-> Keeping(Load({}, {"loading", "refreshing"}))]
AuditReads    == [loadAuditLogs |-> Reads({"loading"}, {"logs"}),
                  refresh |-> Reads({"refreshing"}, {"logs"})]
AuditControls == {Button("refresh", {"refreshing"}),
                  Asks({"logs"}, "loadAuditLogs", {}), Opens("inspector", {"loading"})}
AuditDetail   == In("inspector", {Cancel({})})

AuditScreen ==
    Screen({"loading"}, {"logs"}, AuditLoads, AuditReads,
           AuditControls \cup AuditDetail)

-----------------------------------------------------------------------------
(* app/(dashboard)/settings/page.tsx: four components of components/settings *)

PolicyLoad    == [policy |-> Load({"loadingPolicy"}, {"loadingPolicy"})]
PolicySave    ==
    [savePolicy |-> Handler({"savingPolicy"}, <<Call("updatePolicy"), Put({"policy"})>>)]
PolicyControl == Button("savePolicy", {"loadingPolicy", "savingPolicy"})

ChannelsLoad == [channels |-> Load({"loadingChannels"}, {"loadingChannels"})]

ProfileLoad    == [profile |-> Load({"loadingProfile"}, {"loadingProfile"})]
ProfileSave    ==
    [saveProfile |-> Handler({"savingProfile"}, <<Call("updateProfile"), Put({"profile"})>>)]
ProfileControl == Button("saveProfile", {"loadingProfile", "savingProfile"})

MembersLoad == [members |-> Keeping(Load({"loadingMembers"}, {"loadingMembers"}))]
MemberSave  ==
    [createMember |-> Saving("creating", "createStaff", "member", {"members"})]
MemberToggle ==
    [toggleStaff |-> Handler({}, <<Call("setActiveState"), Await({"members"})>>)]

\* The form is part of the page: what is beside it can be used meanwhile.
MemberRow  == Button("toggleStaff", {"loadingMembers"})
MemberForm == Form("member", "createMember", {"creating"}, {})

SettingsControls ==
    {Beside(c) : c \in {PolicyControl, ProfileControl, MemberRow}}
    \cup {Opens("member", {})} \cup MemberForm

SettingsScreen ==
    Screen({"loadingPolicy", "loadingChannels", "loadingProfile", "loadingMembers"},
        {"policy", "channels", "profile", "members"},
        PolicyLoad @@ ChannelsLoad @@ ProfileLoad @@ MembersLoad,
        PolicySave @@ ProfileSave @@ MemberSave @@ MemberToggle, SettingsControls)

-----------------------------------------------------------------------------
(* The command center and the pages of the assistant. *)

CommandLoads == [summary |-> Load({}, {"loadingSummary"})]

\* The handler returns at once while it is under way, and so does its form.
AskCopilot == [answer |-> Load({"loading"}, {"loading"})]
AskTask    == [askCopilot |-> Reads({}, {"answer"})]
AskForm    == {Blanks(Asks({"answer"}, "askCopilot", {"loading"}))}

CommandScreen ==
    Screen({"loadingSummary"}, {"summary"}, CommandLoads @@ AskCopilot, AskTask, AskForm)

AlertLoads   == [alerts |-> Guarded(Load({}, {"loadingAlerts"}))]
PromptAnswer == [answer |-> Load({"loading"}, {"loading"})]
PromptTask   == [handleSubmit |-> Reads({}, {"answer"})]
PromptForm   == {Blanks(Asks({"answer"}, "handleSubmit", {"loading"}))}

IntelligenceScreen ==
    Screen({"loadingAlerts"}, {"alerts"}, AlertLoads @@ PromptAnswer, PromptTask, PromptForm)

-----------------------------------------------------------------------------
(* app/superadmin, registration, signup, apply *)

RegistrationsLoads ==
    [registrations |-> Keeping(Load({}, {"loading"})),
     receipt |-> Keeping(Raising(Load({}, {}), {"receipt"}))]

\* Two registrations; busyId names the one whose buttons are disabled.
Deciding == {"this registration", "that registration"}

\* The list is polled, unless a poll or a decision is under way.
SyncTask  == [syncRegistrations |-> Handler({"isPolling"}, <<Await({"registrations"})>>)]
SyncTimer == {[Timer("syncRegistrations") EXCEPT !.waits = {"isPolling"} \cup Deciding]}

DecisionTasks ==
    LET On(id, decision) ==
            Replacing(Handler({id}, <<Call(decision), Put({"registrations"})>>), Deciding)
    IN [approveThis |-> On("this registration", "approve"),
        approveThat |-> On("that registration", "approve"),
        rejectThis |-> On("this registration", "reject")]
ReceiptRead == [viewReceipt |-> Reads({}, {"receipt"})]

RegistrationRows ==
    {Button(n, {"loading", "this registration"}) : n \in {"approveThis", "rejectThis"}}
    \cup {Button("approveThat", {"loading", "that registration"}),
          Asks({"receipt"}, "viewReceipt", {"loading"})}
ReceiptOverlay == In("receipt", {Cancel({})})

AdminScreen ==
    Screen({"loading"}, {"registrations"}, RegistrationsLoads,
        SyncTask @@ DecisionTasks @@ ReceiptRead,
        SyncTimer \cup RegistrationRows \cup ReceiptOverlay)

\* The button needs a file, which success takes away.
RegistrationLoad == [registration |-> Keeping(Load({}, {"loading"}))]
SubmitReceipt    ==
    [submitReceipt |-> Saving("uploading", "uploadReceipt", "file", {"registration"})]
ReceiptUpload    == {Opens("file", {"loading"})}
                    \cup In("file", {Button("submitReceipt", {"uploading"})})

RegistrationScreen ==
    Screen({"loading"}, {"registration"}, RegistrationLoad, SubmitReceipt, ReceiptUpload)

\* A form that is all of its page: {"form"} is what it is to be sent from.
EntryScreen(task) ==
    Screen({}, {}, << >>, task,
           {Opens("form", {})}
           \cup In("form", {Button(n, task[n].sets) : n \in DOMAIN task}))

SignupScreen == EntryScreen([submit |-> Leaving("loading", "registerISP", "form")])
ApplyScreen  ==
    EntryScreen([submit |-> Handler({"submitting"},
                                    <<Call("submitPublicInquiry"), Close("form")>>)])

-----------------------------------------------------------------------------
AccountPages ==
    [accounting |-> AccountingScreen, expenses |-> ExpensesScreen,
     reports |-> ReportsScreen, audit |-> AuditScreen, settings |-> SettingsScreen,
     command |-> CommandScreen, intelligence |-> IntelligenceScreen,
     superadmin |-> AdminScreen, registration |-> RegistrationScreen,
     signup |-> SignupScreen, apply |-> ApplyScreen]
=============================================================================
