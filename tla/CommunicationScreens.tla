-------------------------- MODULE CommunicationScreens --------------------------
(***************************************************************************)
(* The communication pages of the web client.                              *)
(***************************************************************************)
EXTENDS ScreenParts, TLC

-----------------------------------------------------------------------------
(* app/(dashboard)/communications/page.tsx, logs, schedules *)

OverviewScreen ==
    Screen({"loading"}, {"dashboard"},
        [dashboard |-> Keeping(Load({"loading"}, {"loading"}))],
        [loadDashboard |-> Reads({}, {"dashboard"})], {Button("loadDashboard", {})})

\* A timer reads the log every 30 seconds.
LogsLoads == [logs |-> Keeping(Load({}, {"loading", "refreshing"}))]
LogsReads == [poll |-> Reads({"refreshing"}, {"logs"})]

\* Two messages; retryingId names the one whose button is disabled.
RetryingIds == {"this message", "that message"}
OnMessage(id) ==
    Replacing(Handler({id}, <<Call("retryLog"), AwaitUnder({"refreshing"}, {"logs"})>>),
              RetryingIds)

RetryTasks == [retryThis |-> OnMessage("this message"),
               retryThat |-> OnMessage("that message")]

LogsRows == {Opens("details", {"loading"}),
             Button("retryThis", {"loading", "this message"}),
             Button("retryThat", {"loading", "that message"})}

LogDetails == In("details", {Cancel({})})

LogsScreen ==
    Screen({"loading"}, {"logs"}, LogsLoads, LogsReads @@ RetryTasks,
        {Timer("poll"), Button("poll", {"refreshing"})} \cup LogsRows \cup LogDetails)

SchedulesScreen ==
    Screen({"loading"}, {"schedules"},
        [schedules |-> Keeping(Throwing(Load({}, {"loading"})))],
        [loadSchedules |-> Reads({}, {"schedules"})], {})

-----------------------------------------------------------------------------
(* app/(dashboard)/communications/automations *)

AutomationsLoads == [automations |-> Keeping(Load({"loading"}, {"loading"}))]

AutomationsReads == [loadAutomations |-> Reads({}, {"automations"})]

\* No flag: nothing on the page is disabled while these are under way.
Unflagged(operation, load) == Detached(Handler({}, <<Call(operation), Await({load})>>))

AutomationToggle == [toggleAutomation |-> Unflagged("enableAutomation", "automations")]

ExecuteTask ==
    [executeAutomationNow |-> Detached(Handler({},
         <<Call("executeAutomation"), Close("execute"), Await({"automations"})>>))]

AutomationDelete == [handleDelete |-> Unflagged("deleteAutomation", "automations")]

AutomationsFilters == {Asks({"automations"}, "loadAutomations", {})}

AutomationsRows == {Opens("execute", {"loading"}),
                    Button("toggleAutomation", {"loading"}),
                    Button("handleDelete", {"loading"})}

ExecuteDialog == Form("execute", "executeAutomationNow", {}, {})

AutomationsScreen ==
    Screen({"loading"}, {"automations"}, AutomationsLoads,
        AutomationsReads @@ AutomationToggle @@ ExecuteTask @@ AutomationDelete,
        AutomationsFilters \cup AutomationsRows \cup ExecuteDialog)

\* The pages with one form: it is read, edited, saved, and left.
FormScreen(initially, mounts, loads, task, flag) ==
    Screen(initially, mounts, loads, task,
           {Opens("form", initially)}
           \cup In("form", {Button(n, {flag}) : n \in DOMAIN task}))

EditAutomationScreen ==
    FormScreen({"loading"}, {"page"}, [page |-> Load({"loading"}, {"loading"})],
        [handleUpdate |-> Leaving("saving", "updateAutomation", "form")], "saving")

CreateAutomationScreen ==
    FormScreen({}, {"templates"}, [templates |-> Load({}, {})],
        [handleSubmit |-> Leaving("saving", "createAutomation", "form")], "saving")

-----------------------------------------------------------------------------
(* app/(dashboard)/communications/templates *)

TemplatesLoads == [templates |-> Keeping(Load({"loading"}, {"loading"})),
                   preview |-> Keeping(Raising(Throwing(Load({}, {})), {"preview"}))]

TemplatesReads == [loadTemplates |-> Reads({}, {"templates"}),
                   handlePreview |-> Reads({}, {"preview"})]

\* The list is awaited, but there is no flag to clear.
TemplateWrites ==
    [handleDuplicate |-> Handler({}, <<Call("duplicateTemplate"), Await({"templates"})>>),
     handleDelete |-> Handler({}, <<Call("deleteTemplate"), Await({"templates"})>>),
     toggleStatus |-> Handler({}, <<Call("enableTemplate"), Await({"templates"})>>)]

\* The preview opens when its answer comes, whichever row asked last.
TemplatesRows ==
    {Button(n, {"loading"}) : n \in DOMAIN TemplateWrites}
    \cup {Asks({"preview"}, "handlePreview", {"loading"})}

TemplatesFilters == {Asks({"templates"}, "loadTemplates", {})}
PreviewDialog    == In("preview", {Cancel({})})

TemplatesScreen ==
    Screen({"loading"}, {"templates"}, TemplatesLoads,
        TemplatesReads @@ TemplateWrites,
        TemplatesFilters \cup TemplatesRows \cup PreviewDialog)

\* components/communications/template-form.tsx is the form of both pages.
EditTemplateScreen ==
    FormScreen({"loading"}, {"page"}, [page |-> Throwing(Load({"loading"}, {"loading"}))],
        [handleSave |-> Leaving("saving", "updateTemplate", "form")], "saving")

CreateTemplateScreen ==
    FormScreen({}, {"providers"}, [providers |-> Load({}, {})],
        [handleSave |-> Leaving("loading", "createTemplate", "form")], "loading")

-----------------------------------------------------------------------------
(* app/(dashboard)/communications/providers, settings, broadcast *)

ProvidersLoads == [providers |-> Keeping(Load({"loading"}, {"loading"}))]
ProvidersReads == [loadProviders |-> Reads({}, {"providers"})]

ProviderSave ==
    [handleSave |-> Saving("saving", "createProvider", "form", {"providers"})]

\* Two providers; busyId names the one whose buttons are disabled.  The test
\* reads the list after its finally, whether the test passed or not.
BusyIds == {"this provider", "that provider"}

ProviderTests ==
    LET OnProvider(id) == Replacing(Detached(Handler({id},
            <<Try("testProviderConnection"), Await({"providers"})>>)), BusyIds)
    IN [testThis |-> OnProvider("this provider"), testThat |-> OnProvider("that provider")]

ProviderDeletes ==
    LET OnProvider(id) == Replacing(Handler({id},
            <<Call("deleteProvider"), Await({"providers"})>>), BusyIds)
    IN [deleteThis |-> OnProvider("this provider"),
        deleteThat |-> OnProvider("that provider")]

ProvidersHeader == {Button("loadProviders", {}), Opens("form", {})}

ProvidersRows == {Button(n, {"this provider"}) : n \in {"testThis", "deleteThis"}}
                 \cup {Button(n, {"that provider"}) : n \in {"testThat", "deleteThat"}}

ProviderDialog == Form("form", "handleSave", {"saving"}, {})

ProvidersScreen ==
    Screen({"loading"}, {"providers"}, ProvidersLoads,
        ProvidersReads @@ ProviderSave @@ ProviderTests @@ ProviderDeletes,
        ProvidersHeader \cup ProvidersRows \cup ProviderDialog)

\* Reading the settings again replaces what is edited on the page.
ChannelLoads == [providers |-> Keeping(Throwing(Load({}, {"loading"})))]

ChannelTasks ==
    [saveAll |-> Handler({"saving"}, <<Call("updateProviderSettings"),
                                       Await({"providers"})>>),
     setupWhatsApp |-> Handler({}, <<Call("createProvider"), Await({"providers"})>>),
     handleTestConnection |-> Handler({}, <<Try("testProviderConnection"),
                                            Await({"providers"})>>)]

ChannelControls == {Button("saveAll", {"saving"}), Button("setupWhatsApp", {"loading"}),
                    Button("handleTestConnection", {"loading"})}

ChannelScreen ==
    Screen({"loading"}, {"providers"}, ChannelLoads, ChannelTasks, ChannelControls)

\* Success empties the form, which cannot be sent again until it is filled.
BroadcastScreen ==
    FormScreen({"loading"}, {"options"}, [options |-> Throwing(Load({}, {"loading"}))],
        [handleSend |-> Handler({"sending"}, <<Call("createBroadcast"), Close("form")>>)],
        "sending")

-----------------------------------------------------------------------------
(* app/(dashboard)/notifications/page.tsx *)

NotificationsScreen ==
    Screen({"loading"}, {"jobs"}, [jobs |-> Keeping(Load({"loading"}, {"loading"}))],
        [loadNotifications |-> Reads({}, {"jobs"})],
        {Button("loadNotifications", {"loading"}),
         Asks({"jobs"}, "loadNotifications", {})})

-----------------------------------------------------------------------------
CommunicationPages ==
    [overview |-> OverviewScreen, logs |-> LogsScreen, schedules |-> SchedulesScreen,
     automations |-> AutomationsScreen, automation |-> EditAutomationScreen,
     newAutomation |-> CreateAutomationScreen, templates |-> TemplatesScreen,
     template |-> EditTemplateScreen, newTemplate |-> CreateTemplateScreen,
     providers |-> ProvidersScreen, channels |-> ChannelScreen,
     broadcast |-> BroadcastScreen, notifications |-> NotificationsScreen]
=============================================================================
