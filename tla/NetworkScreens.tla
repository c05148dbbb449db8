----------------------------- MODULE NetworkScreens -----------------------------
(***************************************************************************)
(* The pages of the web client for the network and for its areas.          *)
(***************************************************************************)
EXTENDS ScreenParts, TLC

-----------------------------------------------------------------------------
(* app/(dashboard)/network/page.tsx and components/network *)

\* One read for nodes and POPs; it sets a flag only when told to.
NetworkLoads == [network |-> Keeping(Load({}, {"loading", "refreshing"}))]
NetworkReads == [refresh |-> Reads({"refreshing"}, {"network"})]
NetworkHeader == {Button("refresh", {"loading", "refreshing"})}

\* NetworkNodesTable: one dialog for a new node and for every node there is.
NodeSave ==
    [handleSubmitNode |->
         Detached(Handler({"submittingNode"},
             <<Call("updateNode"), Close("node"), AwaitUnder({"refreshing"}, {"network"})>>))]

\* The result of a connection test is shown in whatever dialog is open.
NodeTestLoads == [connectionResult |-> Load({"testingConnection"}, {"testingConnection"})]
NodeTest      == [handleTestConnection |-> Reads({}, {"connectionResult"})]

NodeRows   == {Blanks(OpensWith("node", {"connectionResult"}, NoTask, {"loading"}))}
NodeDialog == Form("node", "handleSubmitNode", {"submittingNode"}, {})
              \cup In("node", {Button("handleTestConnection", {"testingConnection"})})

\* PopsTable
PopSave ==
    [handleSubmitPop |->
         Detached(Handler({"submittingPop"},
             <<Call("updatePop"), Close("pop"), AwaitUnder({"refreshing"}, {"network"})>>))]

PopRows   == {Opens("pop", {"loading"})}
PopDialog == Form("pop", "handleSubmitPop", {"submittingPop"}, {})

\* ProvisioningRequestsTable: its own read, at every change of a filter.
RequestsLoads   == [requests |-> Keeping(Load({}, {}))]
RequestsReads   == [loadRequests |-> Reads({}, {"requests"})]
RequestsFilters == {Asks({"requests"}, "loadRequests", {"loading"})}

\* Two requests; retryingId names the one whose button is disabled.  The list
\* is read again after a failure too, with the flag already cleared.
RetriedIds == {"this request", "that request"}
RequestRetries ==
    LET OnRequest(id) == Replacing(Detached(Handler({id},
            <<Try("retryProvisioningRequest"), Await({"requests"})>>)), RetriedIds)
    IN [retryThis |-> OnRequest("this request"), retryThat |-> OnRequest("that request")]
RequestRows == {Button("retryThis", {"loading", "this request"}),
                Button("retryThat", {"loading", "that request"})}

\* NetworkAssignmentsTable
AssignmentsLoads   == [assignments |-> Keeping(Load({}, {}))]
AssignmentsReads   == [loadAssignments |-> Reads({}, {"assignments"})]
AssignmentsFilters == {Asks({"assignments"}, "loadAssignments", {"loading"})}

NetworkScreen ==
    Screen({"loading"}, {"network", "requests", "assignments"},
        NetworkLoads @@ NodeTestLoads @@ RequestsLoads @@ AssignmentsLoads,
        NetworkReads @@ NodeSave @@ NodeTest @@ PopSave @@ RequestsReads
            @@ RequestRetries @@ AssignmentsReads,
        NetworkHeader \cup NodeRows \cup NodeDialog \cup PopRows \cup PopDialog
            \cup RequestsFilters \cup RequestRows \cup AssignmentsFilters)

-----------------------------------------------------------------------------
(* app/(dashboard)/areas/page.tsx *)

AreasLoads == [areas |-> Load({"loading"}, {"loading"})]
AreasReads == [loadData |-> Reads({}, {"areas"})]

\* A change of tab reads the lists again, a change of filter asks for others.
AreasFilters == {Button("loadData", {}), Asks({"areas"}, "loadData", {})}

\* A toggle has no flag, and puts its answer in the list.
Toggle(operation) == Handler({}, <<Call(operation), Put({"areas"})>>)

AreaSave      == [handleSaveArea |-> Saves("submitting", "updateArea", "area", {"areas"})]
AreaToggle    == [handleToggleAreaStatus |-> Toggle("toggleAreaStatus")]
CitySave      == [handleSaveCity |-> Saves("submitting", "updateCity", "city", {"areas"})]
CityToggle    == [handleToggleCityStatus |-> Toggle("toggleCityStatus")]
CountrySave   ==
    [handleSaveCountry |-> Saves("submitting", "updateCountry", "country", {"areas"})]
CountryToggle == [handleToggleCountryStatus |-> Toggle("toggleCountryStatus")]
PlaceDelete   == [handleConfirmDelete |-> Saves("deleting", "deletePlace", "delete", {"areas"})]

\* The buttons that open a new one are in the header, which is never hidden.
NewPlaces   == {Opens(d, {}) : d \in {"area", "city", "country"}}
AreaRows    == {Opens("area", {"loading"}), Opens("delete", {"loading"}),
                Button("handleToggleAreaStatus", {"loading"})}
CityRows    == {Opens("city", {"loading"}), Opens("delete", {"loading"}),
                Button("handleToggleCityStatus", {"loading"})}
CountryRows == {Opens("country", {"loading"}), Opens("delete", {"loading"}),
                Button("handleToggleCountryStatus", {"loading"})}

\* Cancel is disabled while a form is saved, the cross above it is not; the
\* dialog that confirms a deletion has no cross.
AreaDialog    == Form("area", "handleSaveArea", {"submitting"}, {})
CityDialog    == Form("city", "handleSaveCity", {"submitting"}, {})
CountryDialog == Form("country", "handleSaveCountry", {"submitting"}, {})
DeleteDialog  == Form("delete", "handleConfirmDelete", {"deleting"}, {"deleting"})

AreasScreen ==
    Screen({"loading"}, {"areas"}, AreasLoads,
        AreasReads @@ AreaSave @@ AreaToggle @@ CitySave @@ CityToggle
            @@ CountrySave @@ CountryToggle @@ PlaceDelete,
        AreasFilters \cup NewPlaces \cup AreaRows \cup CityRows \cup CountryRows
            \cup AreaDialog \cup CityDialog \cup CountryDialog \cup DeleteDialog)

-----------------------------------------------------------------------------
NetworkPages == [network |-> NetworkScreen, areas |-> AreasScreen]
=============================================================================
