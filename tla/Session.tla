-------------------------------- MODULE Session --------------------------------
(***************************************************************************)
(* The session of the web client: the two tokens and the user that the     *)
(* tabs of a browser share in localStorage (services/auth-storage.ts), the *)
(* requests of the tabs and the renewal of an expired access token         *)
(* (services/api-client.ts), the guard of the dashboard                    *)
(* (app/(dashboard)/layout.tsx) and the server's rotation of refresh       *)
(* tokens (accounts/api/serializers.py).  A token pair is a number; its    *)
(* access token expires and its refresh token is spent when it is used.    *)
(***************************************************************************)
EXTENDS Naturals, Sequences

CONSTANTS
    Tabs,       \* tabs of one browser
    Slots,      \* places for requests of a tab that are under way
    MaxActs     \* bound on what users do: sign in, open a tab, send

ASSUME MaxActsAssumption == MaxActs \in Nat

VARIABLES
    access,     \* localStorage: the pair whose access token it has, or None
    refresh,    \* localStorage: the pair whose refresh token it has, or None
    who,        \* localStorage: the sign-in whose user it has, or None
    login,      \* [pair issued -> the sign-in it comes from]
    stale,      \* pairs whose access token has expired
    spent,      \* pairs whose refresh token is blacklisted
    view,       \* [tab -> what it shows]
    renewal,    \* [tab -> its refreshPromise, or Idle]
    request,    \* [tab, slot -> the request under way, or Idle]
    overtaken,  \* an answer from before the last sign-in or sign-out was stored
    acts        \* what the users did so far

storage == <<access, refresh, who, overtaken>>
vars == <<access, refresh, who, login, stale, spent, view, renewal, request,
          overtaken, acts>>

-----------------------------------------------------------------------------
None   == 0
Idle   == [state |-> "idle"]
Places == Tabs \X Slots
Kinds  == {"session", "call", "blob"}     \* getCurrentSession, apiRequest, apiBlob

\* late: the storage was replaced, or an older answer was stored in it, since.
Sent(kind, late) ==
    [kind |-> kind, state |-> "sent", token |-> access, retried |-> FALSE,
     by |-> IF access = None THEN None ELSE login[access],
     done |-> 0, late |-> late]

Late(r)  == IF r = Idle THEN Idle ELSE [r EXCEPT !.late = TRUE]
AllLate(f) == [x \in DOMAIN f |-> Late(f[x])]

\* The requests when those at these places are no more.
Without(places) == [x \in Places |-> IF x \in places THEN Idle ELSE request[x]]
Of(t) == {t} \X Slots

Valid(pair)  == pair # None /\ pair \notin stale
Waiting(t)   == {x \in Of(t) : request[x].state = "waiting"}

\* The place a request takes: the first of its tab that is free.
Free(x) == /\ request[x] = Idle
           /\ \A y \in Of(x[1]) : y[2] < x[2] => request[y] # Idle

Acting == acts < MaxActs /\ acts' = acts + 1

-----------------------------------------------------------------------------
Init ==
    /\ access = None /\ refresh = None /\ who = None /\ overtaken = FALSE
    /\ login = <<>> /\ stale = {} /\ spent = {}
    /\ view = [t \in Tabs |-> "login"]
    /\ renewal = [t \in Tabs |-> Idle]
    /\ request = [x \in Places |-> Idle]
    /\ acts = 0

\* What is stored is replaced; whatever is under way was begun before.
Store(pair, user, requests, renewals) ==
    /\ access' = pair /\ refresh' = pair /\ who' = user /\ overtaken' = FALSE
    /\ request' = AllLate(requests)
    /\ renewal' = AllLate(renewals)

\* clearAuthTokens, which leaves the user
Clear(requests, renewals) == Store(None, who, requests, renewals)

-----------------------------------------------------------------------------
(* The pages. *)

\* Mutant: a refresh token that is there is kept.
SignIn_KeepsRefresh(t) ==
    /\ view[t] = "login"
    /\ Acting
    /\ login' = Append(login, Len(login) + 1)
    /\ access' = Len(login') /\ who' = Len(login') /\ overtaken' = FALSE
    /\ refresh' = IF refresh = None THEN Len(login') ELSE refresh
    /\ request' = AllLate(request)
    /\ renewal' = AllLate(renewal)
    /\ view' = [view EXCEPT ![t] = "opening"]
    /\ UNCHANGED <<stale, spent>>

\* login: a new pair, and the dashboard opens in the tab.
SignIn(t) ==
    /\ view[t] = "login"
    /\ Acting
    /\ login' = Append(login, Len(login) + 1)
    /\ Store(Len(login'), Len(login'), request, renewal)
    /\ view' = [view EXCEPT ![t] = "opening"]
    /\ UNCHANGED <<stale, spent>>

\* Mutant: only the access token is removed.
SignOut_KeepsRefresh(t) ==
    /\ view[t] = "ready"
    /\ access' = None /\ who' = None /\ overtaken' = FALSE
    /\ request' = AllLate(request)
    /\ renewal' = AllLate(renewal)
    /\ view' = [view EXCEPT ![t] = "login"]
    /\ UNCHANGED <<refresh, login, stale, spent, acts>>

\* handleLogout: the tab goes to the sign-in page without a reload, so its
\* requests stay under way; the server is not told.
SignOut(t) ==
    /\ view[t] = "ready"
    /\ Store(None, None, request, renewal)
    /\ view' = [view EXCEPT ![t] = "login"]
    /\ UNCHANGED <<login, stale, spent, acts>>

\* Mutant: what the tab had under way goes on.
Open_GoesOn(t) ==
    /\ Acting
    /\ view' = [view EXCEPT ![t] = "opening"]
    /\ UNCHANGED <<storage, login, stale, spent, request, renewal>>

\* A page of the dashboard is opened or reloaded.  The tab forgets what it had
\* under way; a renewal may have been served all the same.
Open(t) ==
    /\ Acting
    /\ view' = [view EXCEPT ![t] = "opening"]
    /\ request' = Without(Of(t))
    /\ renewal' = [renewal EXCEPT ![t] = Idle]
    /\ \/ UNCHANGED spent
       \/ renewal[t] # Idle /\ spent' = spent \cup {renewal[t].token}
    /\ UNCHANGED <<storage, login, stale>>

\* restoreSession, the mount effect of the dashboard
Restore(t) ==
    /\ view[t] = "opening"
    /\ IF access = None /\ refresh = None
       THEN /\ view' = [view EXCEPT ![t] = "login"]
            /\ Clear(request, renewal)
       ELSE /\ view' = [view EXCEPT ![t] = "restoring"]
            /\ \E x \in Of(t) :
                 /\ Free(x)
                 /\ request' = [request EXCEPT ![x] = Sent("session", overtaken)]
            /\ UNCHANGED <<storage, renewal>>
    /\ UNCHANGED <<login, stale, spent, acts>>

\* A page that is shown sends a request.
Send(x, kind) ==
    /\ view[x[1]] = "ready"
    /\ Free(x)
    /\ Acting
    /\ request' = [request EXCEPT ![x] = Sent(kind, overtaken)]
    /\ UNCHANGED <<storage, login, stale, spent, view, renewal>>

-----------------------------------------------------------------------------
(* Requests. *)

\* The server does what is asked, or answers 401.
Serve(x) ==
    /\ request[x].state = "sent"
    /\ request' = IF Valid(request[x].token)
                  THEN [request EXCEPT ![x].state = "served", ![x].done = @ + 1]
                  ELSE [request EXCEPT ![x].state = "unauthorized"]
    /\ UNCHANGED <<storage, login, stale, spent, view, renewal, acts>>

\* The caller gets an error.  The guard of the dashboard signs out.
Throws(x) ==
    IF request[x].kind = "session"
    THEN /\ view' = [view EXCEPT ![x[1]] = "login"]
         /\ Clear(Without({x}), renewal)
    ELSE /\ request' = Without({x})
         /\ UNCHANGED <<storage, view, renewal>>

\* Mutant: after 30 seconds the request is sent again.
Fail_SendsAgain(x) ==
    /\ request[x].state \in {"sent", "served"}
    /\ ~ request[x].retried
    /\ request' = [request EXCEPT ![x].state = "sent", ![x].retried = TRUE]
    /\ UNCHANGED <<storage, login, stale, spent, view, renewal, acts>>

\* The network fails, or 30 seconds pass, before or after the request is served.
Fail(x) ==
    /\ request[x].state \in {"sent", "served"}
    /\ Throws(x)
    /\ UNCHANGED <<login, stale, spent, acts>>

\* getCurrentSession stores the user, then the guard shows the page.
Answered(x) ==
    /\ request[x].state = "served"
    /\ IF request[x].kind = "session"
       THEN /\ who' = login[request[x].token]
            /\ overtaken' = (overtaken \/ request[x].late)
            /\ view' = [view EXCEPT ![x[1]] = "ready"]
            /\ request' = IF request[x].late THEN AllLate(Without({x}))
                                             ELSE Without({x})
       ELSE /\ request' = Without({x})
            /\ UNCHANGED <<who, overtaken, view>>
    /\ UNCHANGED <<access, refresh, login, stale, spent, renewal, acts>>

-----------------------------------------------------------------------------
(* Renewals. *)

\* The tab's renewal came to nothing: apiRequest loads the sign-in page, which
\* ends all that the tab has under way; apiBlob only throws.
NotRenewed(t, waiting) ==
    LET toSignIn == \E x \in waiting : request[x].kind # "blob"
    IN /\ Clear(Without(IF toSignIn THEN Of(t) ELSE waiting),
                [renewal EXCEPT ![t] = Idle])
       /\ view' = IF toSignIn THEN [view EXCEPT ![t] = "login"] ELSE view

\* The answer 401.  The first time the request waits for the tab's renewal,
\* which it starts with the stored refresh token unless it is under way.
Unauthorized(x) ==
    LET t == x[1]
    IN /\ request[x].state = "unauthorized"
       /\ \/ /\ request[x].retried
             /\ Throws(x)
          \/ /\ ~ request[x].retried /\ renewal[t] = Idle /\ refresh = None
             /\ NotRenewed(t, {x})
          \/ /\ ~ request[x].retried
             /\ renewal[t] # Idle \/ refresh # None
             /\ request' = [request EXCEPT ![x].state = "waiting"]
             /\ renewal' = IF renewal[t] # Idle THEN renewal
                           ELSE [renewal EXCEPT ![t] =
                                   [token |-> refresh, state |-> "sent",
                                    pair |-> None, late |-> overtaken]]
             /\ UNCHANGED <<storage, view>>
       /\ UNCHANGED <<login, stale, spent, acts>>

\* The server looks the refresh token up in the blacklist,
RenewalChecked(t) ==
    /\ renewal[t].state = "sent"
    /\ renewal' = [renewal EXCEPT ![t].state =
                     IF renewal[t].token \in spent THEN "refused" ELSE "checked"]
    /\ UNCHANGED <<storage, login, stale, spent, view, request, acts>>

\* and then adds it to the blacklist and issues a new pair.
RenewalServed(t) ==
    /\ renewal[t].state = "checked"
    /\ spent' = spent \cup {renewal[t].token}
    /\ login' = Append(login, login[renewal[t].token])
    /\ renewal' = [renewal EXCEPT ![t].state = "served", ![t].pair = Len(login')]
    /\ UNCHANGED <<storage, stale, view, request, acts>>

\* Mutant: only the request that started the renewal is sent again.
RenewalAnswered_First(t) ==
    LET first == CHOOSE x \in Waiting(t) : TRUE
    IN /\ renewal[t].state = "served"
       /\ Waiting(t) # {}
       /\ access' = renewal[t].pair
       /\ overtaken' = (overtaken \/ renewal[t].late)
       /\ renewal' = [renewal EXCEPT ![t] = Idle]
       /\ request' = [request EXCEPT ![first].state = "sent", ![first].retried = TRUE,
                                    ![first].token = access']
       /\ UNCHANGED <<refresh, who, login, stale, spent, view, acts>>

\* Only the access token of the new pair is stored.  The requests that waited
\* are sent again in the same turn, with what is stored then.
RenewalAnswered(t) ==
    LET pair == renewal[t].pair
        resent == [x \in Places |->
                     IF x \in Waiting(t)
                     THEN [request[x] EXCEPT !.state = "sent", !.token = pair,
                                             !.retried = TRUE]
                     ELSE request[x]]
    IN /\ renewal[t].state = "served"
       /\ access' = pair
       /\ overtaken' = (overtaken \/ renewal[t].late)
       /\ renewal' = [renewal EXCEPT ![t] = Idle]
       /\ request' = IF renewal[t].late THEN AllLate(resent) ELSE resent
       /\ UNCHANGED <<refresh, who, login, stale, spent, view, acts>>

\* Mutant: a refused renewal is not answered to those that wait for it.
RenewalFails_NotRefused(t) ==
    /\ renewal[t] # Idle
    /\ renewal[t].state # "refused"
    /\ NotRenewed(t, Waiting(t))
    /\ UNCHANGED <<login, stale, spent, acts>>

\* The renewal is refused, or its call fails at any point.
RenewalFails(t) ==
    /\ renewal[t] # Idle
    /\ NotRenewed(t, Waiting(t))
    /\ UNCHANGED <<login, stale, spent, acts>>

\* 15 minutes pass: an access token that is stored, or sent, expires.
Expire(pair) ==
    /\ pair \notin stale
    /\ pair = access \/ \E x \in Places : request[x].state = "sent" /\ request[x].token = pair
    /\ stale' = stale \cup {pair}
    /\ UNCHANGED <<storage, login, spent, view, renewal, request, acts>>

-----------------------------------------------------------------------------
GoesOn(x) == Serve(x) \/ Fail(x) \/ Answered(x) \/ Unauthorized(x)
Renews(t) == RenewalChecked(t) \/ RenewalServed(t) \/ RenewalAnswered(t) \/ RenewalFails(t)

Next ==
    \/ \E t \in Tabs : SignIn(t) \/ SignOut(t) \/ Open(t) \/ Restore(t) \/ Renews(t)
    \/ \E x \in Places : GoesOn(x) \/ \E kind \in {"call", "blob"} : Send(x, kind)
    \/ \E pair \in 1..Len(login) : Expire(pair)

Spec == /\ Init /\ [][Next]_vars
        /\ \A t \in Tabs : WF_vars(Restore(t)) /\ WF_vars(Renews(t))
        /\ \A x \in Places : WF_vars(GoesOn(x))

-----------------------------------------------------------------------------
Pairs == 1..Len(login)

\* Every token and user in use was issued, and a tab restores its session
\* with a request of its own.
TypeOK ==
    /\ access \in Pairs \cup {None} /\ refresh \in Pairs \cup {None}
    /\ who \in {None} \cup {login[p] : p \in Pairs}
    /\ stale \subseteq Pairs /\ spent \subseteq Pairs
    /\ \A x \in Places : request[x] # Idle =>
         /\ request[x].kind \in Kinds /\ request[x].token \in Pairs \cup {None}
         /\ request[x].state \in {"sent", "served", "unauthorized", "waiting"}
    /\ \A t \in Tabs :
         /\ view[t] \in {"login", "opening", "restoring", "ready"}
         /\ renewal[t] # Idle => renewal[t].token \in Pairs
         /\ view[t] = "restoring" <=> \E x \in Of(t) : /\ request[x] # Idle
                                                       /\ request[x].kind = "session"

\* The tokens and the user that are stored are of one sign-in, and signed out
\* means that no token is stored; only an answer to what was begun before the
\* last sign-in or sign-out can mix them.
StoredIsOfOneSession ==
    ~ overtaken =>
        /\ refresh = None => access = None
        /\ access # None /\ refresh # None => login[access] = login[refresh]
        /\ access # None => who = login[access]

\* A request is carried out for the user it was sent for, also when it is sent
\* again with another token; only one that a sign-in, a sign-out or an answer
\* to what was begun before overlaps may be carried out for another.
ServedForItsSender ==
    \A x \in Places :
        request[x] # Idle /\ request[x].done > 0 /\ ~ request[x].late
            => login[request[x].token] = request[x].by

\* A request is carried out once at most, though it may be sent twice.
DoneAtMostOnce == \A x \in Places : request[x] # Idle => request[x].done <= 1

\* A request that waits has a renewal to wait for: when one ends, all that
\* wait for it go on.
WaitersHaveARenewal == \A t \in Tabs : Waiting(t) # {} => renewal[t] # Idle

\* Every tab comes to show the dashboard or the sign-in page.
EveryTabSettles ==
    \A t \in Tabs : view[t] \in {"opening", "restoring"} ~> view[t] \in {"ready", "login"}

\* The stored refresh token can be used, when no renewal is under way.
StoredRefreshIsLive ==
    refresh # None /\ (\A t \in Tabs : renewal[t] = Idle) => refresh \notin spent
=============================================================================
