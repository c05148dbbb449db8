------------------------------- MODULE MCScreens -------------------------------
EXTENDS Screens, TLC

Accounts      == INSTANCE AccountScreens
Billings      == INSTANCE BillingScreens
Communication == INSTANCE CommunicationScreens
Customers     == INSTANCE CustomerScreens
Networks      == INSTANCE NetworkScreens
Stocks        == INSTANCE StockScreens
Support       == INSTANCE SupportScreens

MCPages ==
    LET office   == Accounts!AccountPages @@ Billings!BillingPages
                        @@ Customers!CustomerPages @@ Stocks!StockPages
        contacts == Communication!CommunicationPages @@ Support!SupportPages
    IN office @@ contacts @@ Networks!NetworkPages

MCSlots == 1..2

-----------------------------------------------------------------------------
(* Where the code does not keep a property. *)

\* The flags that two handlers may have at a time.  Most are a variable that
\* names one record, and is cleared or taken over by a handler for another;
\* two belong to a dialog, which loses them when it is put aside.
MCUnlocked ==
    {<<"logs", f>> : f \in {"this message", "that message"}}
    \cup {<<"providers", f>> : f \in {"this provider", "that provider"}}
    \cup {<<"network", f>> : f \in {"this request", "that request"}}
    \cup {<<"superadmin", f>> : f \in {"this registration", "that registration"}}
    \cup {<<"dealers", f>> : f \in {"this dealer", "that dealer"}}
    \cup {<<"field", f>> : f \in {"created", "assigned", "dispatched", "onsite"}}
    \cup {<<"accounting", "posting">>, <<"customer", "saving">>}

\* The dialogs and forms that can be sent again: while they wait for the page
\* they lead to, for a timer that closes them, or with no flag at all.  Notes
\* are meant to be added to a ticket again and again.  The customer's record and
\* a journal entry have a form with a flag of its own, which a reload of the page
\* brings back with its button enabled while the first is still on its way.
MCRepeatable ==
    {<<p, "form">> : p \in {"addStaff", "automation", "newAutomation", "template",
                            "newTemplate", "signup"}}
    \cup {<<"onboarding", "wizard">>, <<"billing", "generate">>,
          <<"automations", "execute">>, <<"support", "drawer">>,
          <<"customer", "edit">>, <<"accounting", "journal">>}

\* The dialogs with no way out while their answer is awaited.  From every other
\* one that is submitted the user can turn to another record before it comes.
MCModal ==
    {<<"areas", "delete">>, <<"packages", "package">>, <<"packages", "delete">>,
     <<"billing", "payment">>, <<"broadcast", "form">>, <<"apply", "form">>,
     <<"registration", "file">>}
=============================================================================
