------------------------------ MODULE SessionProofs ------------------------------
(***************************************************************************)
(* Proofs about Session, for any tabs, slots and number of acts.           *)
(*                                                                         *)
(* Coherent is the inductive invariant.  A request or a renewal that       *)
(* nothing overtook was begun with what is stored now, or with what a      *)
(* renewal of the same sign-in has replaced since: that is why its answer  *)
(* may be stored, and why it may be sent again with the new token.         *)
(* Placed says where the tabs restore their sessions: it needs that no tab *)
(* asks for its session twice, since the first answer ends the restoring.  *)
(***************************************************************************)
EXTENDS Session, TLAPS

Request ==
    [kind : Kinds, state : {"sent", "served", "unauthorized", "waiting"},
     token : Nat, retried : BOOLEAN, by : Nat, done : Nat, late : BOOLEAN]

Renewal ==
    [token : Nat, state : {"sent", "checked", "refused", "served"}, pair : Nat,
     late : BOOLEAN]

\* A request is done when it has been served, with a token that was issued.
Counted(r) ==
    /\ r.done = IF r.state = "served" THEN 1 ELSE 0
    /\ r.state = "served" => r.token # None
    /\ r.token \in Pairs \cup {None}

\* One that nothing overtook belongs to the sign-in whose tokens are stored,
\* or was sent signed out.
Carried(r) ==
    /\ Counted(r)
    /\ ~ r.late =>
         /\ ~ overtaken
         /\ r.token = None => access = None /\ refresh = None
         /\ r.token # None => /\ access # None
                              /\ login[r.token] = login[access]
                              /\ r.by = login[r.token]

\* A renewal that nothing overtook spends the refresh token that is stored.
Renewing(n) ==
    /\ n.token \in Pairs
    /\ ~ n.late => n.token = refresh
    /\ n.state = "served" => n.pair \in Pairs /\ login[n.pair] = login[n.token]

Typed ==
    /\ login \in Seq(Nat)
    /\ access \in Pairs \cup {None} /\ refresh \in Pairs \cup {None}
    /\ overtaken \in BOOLEAN
    /\ request \in [Places -> Request \cup {Idle}]
    /\ renewal \in [Tabs -> Renewal \cup {Idle}]

Coherent ==
    /\ Typed
    /\ \A x \in Places : request[x] # Idle => Carried(request[x])
    /\ \A t \in Tabs : renewal[t] # Idle => Renewing(renewal[t])
    /\ \A x \in Places : request[x].state = "waiting" => renewal[x[1]] # Idle
    /\ refresh # None => access # None
    /\ StoredIsOfOneSession

-----------------------------------------------------------------------------
(* Records and the list of pairs. *)

LEMMA IdleIsNone == Idle \notin Request /\ Idle \notin Renewal
<1>1. Idle.state = "idle"
  BY DEF Idle
<1>. QED
  BY <1>1 DEF Request, Renewal

LEMMA LateRequest ==
    ASSUME NEW r \in Request
    PROVE  /\ Late(r) \in Request /\ Late(r).late
           /\ Late(r).kind = r.kind /\ Late(r).state = r.state /\ Late(r).token = r.token
           /\ Late(r).done = r.done /\ Late(r).by = r.by
<1>1. Late(r) = [r EXCEPT !.late = TRUE]
  BY IdleIsNone DEF Late
<1>. QED
  BY <1>1 DEF Request

LEMMA LateRenewal ==
    ASSUME NEW n \in Renewal
    PROVE  /\ Late(n) \in Renewal /\ Late(n).late
           /\ Late(n).state = n.state /\ Late(n).token = n.token /\ Late(n).pair = n.pair
<1>1. Late(n) = [n EXCEPT !.late = TRUE]
  BY IdleIsNone DEF Late
<1>. QED
  BY <1>1 DEF Renewal

LEMMA LateIdle == Late(Idle) = Idle
BY DEF Late

LEMMA IdleDoesNotWait == Idle.state # "waiting" /\ Idle.state # "served"
BY DEF Idle

\* A place is a tab and a slot of it.
LEMMA PlaceTab ==
    /\ \A x \in Places : x[1] \in Tabs /\ x \in Of(x[1])
    /\ \A t \in Tabs : \A x \in Of(t) : x \in Places /\ x[1] = t
BY DEF Places, Of

\* A pair is issued: those issued before keep their sign-in.
LEMMA IssuePair ==
    ASSUME login \in Seq(Nat), NEW u \in Nat, login' = Append(login, u)
    PROVE  /\ login' \in Seq(Nat) /\ Len(login) \in Nat
           /\ Len(login') = Len(login) + 1 /\ Len(login') \in Pairs'
           /\ login'[Len(login')] = u
           /\ Len(login') # None
           /\ \A p \in Pairs : p \in Pairs' /\ login'[p] = login[p]
BY DEF Pairs, None

\* The pairs issued so far stay what they are.
Extends ==
    /\ login' \in Seq(Nat)
    /\ \A p \in Pairs : p \in Pairs' /\ login'[p] = login[p]

-----------------------------------------------------------------------------
(* Two kinds of steps: those that leave the storage alone, and those that  *)
(* replace what is stored.                                                 *)

LEMMA StorageStays ==
    ASSUME Coherent, Extends, UNCHANGED storage,
           request' \in [Places -> Request \cup {Idle}],
           renewal' \in [Tabs -> Renewal \cup {Idle}],
           \A x \in Places : \/ request'[x] = request[x] \/ request'[x] = Idle
                             \/ Carried(request'[x]),
           \A t \in Tabs : \/ renewal'[t] = renewal[t] \/ renewal'[t] = Idle
                           \/ Renewing(renewal[t])',
           \A x \in Places : request'[x].state = "waiting" => renewal'[x[1]] # Idle
    PROVE  Coherent'
<1>1. UNCHANGED <<access, refresh, who, overtaken>> /\ access \in Pairs \cup {None}
  BY DEF storage, Coherent, Typed
<1>2. Typed'
  BY <1>1 DEF Coherent, Typed, Extends
<1>3. ASSUME NEW x \in Places, request'[x] # Idle
      PROVE  Carried(request[x])'
  <2>1. Carried(request'[x])
    BY <1>3 DEF Coherent
  <2>. QED
    BY <1>1, <2>1 DEF Counted, Carried, Extends
<1>4. ASSUME NEW t \in Tabs, renewal'[t] # Idle
      PROVE  Renewing(renewal[t])'
  <2>1. CASE renewal'[t] = renewal[t]
    BY <1>1, <1>4, <2>1 DEF Coherent, Renewing, Extends
  <2>. QED
    BY <1>4, <2>1
<1>5. refresh' # None => access' # None
  BY <1>1 DEF Coherent
<1>6. StoredIsOfOneSession'
  BY <1>1 DEF Coherent, Typed, StoredIsOfOneSession, Extends
<1>. QED
  BY <1>2, <1>3, <1>4, <1>5, <1>6 DEF Coherent

LEMMA StorageReplaced ==
    ASSUME Coherent, Extends,
           NEW pair, NEW user, NEW requests, NEW renewals,
           Store(pair, user, requests, renewals),
           pair \in Pairs' \cup {None},
           pair # None => user = login'[pair],
           requests \in [Places -> Request \cup {Idle}],
           renewals \in [Tabs -> Renewal \cup {Idle}],
           \A x \in Places : requests[x] = request[x] \/ requests[x] = Idle,
           \A t \in Tabs : renewals[t] = renewal[t] \/ renewals[t] = Idle,
           \A x \in Places : requests[x].state = "waiting" => renewals[x[1]] # Idle
    PROVE  Coherent'
<1>1. /\ access' = pair /\ refresh' = pair /\ who' = user /\ overtaken' = FALSE
      /\ request' = [x \in Places |-> Late(requests[x])]
      /\ renewal' = [t \in Tabs |-> Late(renewals[t])]
  BY DEF Store, AllLate
<1>2. \A x \in Places : \/ requests[x] = Idle /\ request'[x] = Idle
                        \/ /\ requests[x] \in Request /\ requests[x] = request[x]
                           /\ request[x] # Idle
                           /\ request'[x] = Late(requests[x]) /\ request'[x] \in Request
                           /\ request'[x].late /\ request'[x].state = requests[x].state
  BY <1>1, LateIdle, LateRequest, IdleIsNone
<1>3. \A t \in Tabs : \/ renewals[t] = Idle /\ renewal'[t] = Idle
                      \/ /\ renewals[t] \in Renewal /\ renewals[t] = renewal[t]
                         /\ renewal[t] # Idle
                         /\ renewal'[t] = Late(renewals[t]) /\ renewal'[t] \in Renewal
                         /\ renewal'[t].late /\ renewal'[t].state = renewals[t].state
                         /\ renewal'[t].token = renewals[t].token
                         /\ renewal'[t].pair = renewals[t].pair
  BY <1>1, LateIdle, LateRenewal, IdleIsNone
<1>4. Typed'
  <2>1. request' \in [Places -> Request \cup {Idle}] /\ renewal' \in [Tabs -> Renewal \cup {Idle}]
    BY <1>1, <1>2, <1>3
  <2>. QED
    BY <1>1, <2>1 DEF Typed, Extends
<1>5. ASSUME NEW x \in Places, request'[x] # Idle
      PROVE  Carried(request[x])'
  <2>1. request[x] \in Request /\ Carried(request[x]) /\ request'[x] = Late(request[x])
    BY <1>2, <1>5 DEF Coherent
  <2>. QED
    BY <2>1, LateRequest DEF Counted, Carried, Extends
<1>6. ASSUME NEW t \in Tabs, renewal'[t] # Idle
      PROVE  Renewing(renewal[t])'
  BY <1>3, <1>6 DEF Coherent, Renewing, Extends
<1>7. \A x \in Places : request'[x].state = "waiting" => renewal'[x[1]] # Idle
  <2> SUFFICES ASSUME NEW x \in Places, request'[x].state = "waiting"
               PROVE  renewal'[x[1]] # Idle
    OBVIOUS
  <2>1. requests[x].state = "waiting" /\ x[1] \in Tabs
    BY <1>2, PlaceTab DEF Idle
  <2>. QED
    BY <1>3, <2>1, IdleIsNone
<1>8. StoredIsOfOneSession' /\ (refresh' # None => access' # None)
  BY <1>1 DEF StoredIsOfOneSession
<1>. QED
  BY <1>4, <1>5, <1>6, <1>7, <1>8 DEF Coherent

-----------------------------------------------------------------------------
(* The actions. *)

LEMMA SameLogin ==
    ASSUME Coherent, UNCHANGED login
    PROVE  Extends
BY DEF Coherent, Typed, Extends, Pairs

\* All requests but those of some places go on.
LEMMA WithoutPlaces ==
    ASSUME Coherent, NEW places
    PROVE  /\ Without(places) \in [Places -> Request \cup {Idle}]
           /\ \A x \in Places : \/ Without(places)[x] = request[x] /\ x \notin places
                                \/ Without(places)[x] = Idle
BY DEF Coherent, Typed, Without

\* What is sent carries what is stored.
LEMMA SentIsCarried ==
    ASSUME Coherent, NEW kind \in Kinds
    PROVE  /\ Sent(kind, overtaken) \in Request
           /\ Sent(kind, overtaken).state = "sent"
           /\ Carried(Sent(kind, overtaken))
<1> DEFINE r == Sent(kind, overtaken)
<1>1. access \in Pairs \cup {None} /\ overtaken \in BOOLEAN /\ login \in Seq(Nat)
  BY DEF Coherent, Typed
<1>2. /\ r.kind = kind /\ r.state = "sent" /\ r.token = access /\ r.retried = FALSE
      /\ r.by = (IF access = None THEN None ELSE login[access])
      /\ r.done = 0 /\ r.late = overtaken
  BY DEF Sent
<1>3. access \in Nat /\ r.by \in Nat
  BY <1>1, <1>2 DEF Pairs, None
<1>4. r \in Request
  BY <1>1, <1>3 DEF Sent, Request
<1>5. Carried(r)
  BY <1>1, <1>2 DEF Counted, Carried, Coherent
<1>. QED
  BY <1>2, <1>4, <1>5

LEMMA SignInCoherent ==
    ASSUME Coherent, NEW t \in Tabs, SignIn(t)
    PROVE  Coherent'
<1>1. login \in Seq(Nat) /\ Len(login) \in Nat
  BY DEF Coherent, Typed
<1>2. login' = Append(login, Len(login) + 1) /\ Store(Len(login'), Len(login'), request, renewal)
  BY DEF SignIn
<1>3. Len(login) + 1 \in Nat
  BY <1>1
<1>4. /\ login' \in Seq(Nat) /\ Len(login') = Len(login) + 1 /\ Len(login') \in Pairs'
      /\ login'[Len(login')] = Len(login) + 1
      /\ \A p \in Pairs : p \in Pairs' /\ login'[p] = login[p]
  BY <1>1, <1>2, <1>3, IssuePair
<1>5. Extends /\ Len(login') \in Pairs' /\ Len(login') = login'[Len(login')]
  BY <1>4 DEF Extends
<1>6. /\ request \in [Places -> Request \cup {Idle}] /\ renewal \in [Tabs -> Renewal \cup {Idle}]
      /\ \A x \in Places : request[x].state = "waiting" => renewal[x[1]] # Idle
  BY DEF Coherent, Typed
<1>. QED
  BY <1>2, <1>5, <1>6, StorageReplaced

\* Clearing the storage, with or without some of the requests and renewals.
LEMMA ClearCoherent ==
    ASSUME Coherent, UNCHANGED login, NEW user, NEW requests, NEW renewals,
           Store(None, user, requests, renewals),
           requests \in [Places -> Request \cup {Idle}],
           renewals \in [Tabs -> Renewal \cup {Idle}],
           \A x \in Places : requests[x] = request[x] \/ requests[x] = Idle,
           \A t \in Tabs : renewals[t] = renewal[t] \/ renewals[t] = Idle,
           \A x \in Places : requests[x].state = "waiting" => renewals[x[1]] # Idle
    PROVE  Coherent'
BY SameLogin, StorageReplaced

LEMMA SignOutCoherent ==
    ASSUME Coherent, NEW t \in Tabs, SignOut(t)
    PROVE  Coherent'
<1>1. UNCHANGED login /\ Store(None, None, request, renewal)
  BY DEF SignOut
<1>2. /\ request \in [Places -> Request \cup {Idle}] /\ renewal \in [Tabs -> Renewal \cup {Idle}]
      /\ \A x \in Places : request[x].state = "waiting" => renewal[x[1]] # Idle
  BY DEF Coherent, Typed
<1>. QED
  BY <1>1, <1>2, ClearCoherent

LEMMA OpenCoherent ==
    ASSUME Coherent, NEW t \in Tabs, Open(t)
    PROVE  Coherent'
<1>1. /\ UNCHANGED <<storage, login>> /\ request' = Without(Of(t))
      /\ renewal' = [renewal EXCEPT ![t] = Idle]
      /\ renewal \in [Tabs -> Renewal \cup {Idle}]
  BY DEF Open, Coherent, Typed
<1>2. /\ request' \in [Places -> Request \cup {Idle}]
      /\ \A x \in Places : \/ request'[x] = request[x] /\ x \notin Of(t)
                           \/ request'[x] = Idle
  BY <1>1, WithoutPlaces
<1>3. /\ renewal' \in [Tabs -> Renewal \cup {Idle}]
      /\ \A v \in Tabs : renewal'[v] = renewal[v] \/ renewal'[v] = Idle
      /\ \A v \in Tabs : v # t => renewal'[v] = renewal[v]
  BY <1>1
<1>4. \A x \in Places : request'[x].state = "waiting" => renewal'[x[1]] # Idle
  BY <1>2, <1>3, PlaceTab DEF Coherent, Idle
<1>. QED
  BY <1>1, <1>2, <1>3, <1>4, SameLogin, StorageStays

\* A request takes a place that is free.
LEMMA SendingCoherent ==
    ASSUME Coherent, NEW x \in Places, NEW kind \in Kinds, UNCHANGED <<storage, login, renewal>>,
           request' = [request EXCEPT ![x] = Sent(kind, overtaken)]
    PROVE  Coherent'
<1>1. /\ request \in [Places -> Request \cup {Idle}] /\ renewal \in [Tabs -> Renewal \cup {Idle}]
      /\ \A y \in Places : request[y].state = "waiting" => renewal[y[1]] # Idle
  BY DEF Coherent, Typed
<1>2. /\ request'[x] = Sent(kind, overtaken)
      /\ \A y \in Places : y # x => request'[y] = request[y]
      /\ request' \in [Places -> Request \cup {Idle}]
  BY <1>1, SentIsCarried
<1>3. Carried(request'[x]) /\ request'[x].state = "sent"
  BY <1>2, SentIsCarried
<1>. QED
  BY <1>1, <1>2, <1>3, SameLogin, StorageStays

LEMMA RestoreCoherent ==
    ASSUME Coherent, NEW t \in Tabs, Restore(t)
    PROVE  Coherent'
<1>1. CASE access = None /\ refresh = None
  <2>1. UNCHANGED login /\ Store(None, who, request, renewal)
    BY <1>1 DEF Restore, Clear
  <2>2. /\ request \in [Places -> Request \cup {Idle}] /\ renewal \in [Tabs -> Renewal \cup {Idle}]
        /\ \A x \in Places : request[x].state = "waiting" => renewal[x[1]] # Idle
    BY DEF Coherent, Typed
  <2>. QED
    BY <2>1, <2>2, ClearCoherent
<1>2. CASE ~ (access = None /\ refresh = None)
  <2>1. PICK x \in Of(t) : request' = [request EXCEPT ![x] = Sent("session", overtaken)]
    BY <1>2 DEF Restore
  <2>. QED
    BY <1>2, <2>1, PlaceTab, SendingCoherent DEF Restore, Kinds
<1>. QED
  BY <1>1, <1>2

LEMMA SendCoherent ==
    ASSUME Coherent, NEW x \in Places, NEW kind \in {"call", "blob"}, Send(x, kind)
    PROVE  Coherent'
BY SendingCoherent DEF Send, Kinds

-----------------------------------------------------------------------------
(* The answers to requests. *)

LEMMA ServedRecord ==
    ASSUME NEW r \in Request, r.done = 0
    PROVE  LET s == [r EXCEPT !.state = "served", !.done = @ + 1]
           IN /\ s \in Request /\ s.state = "served" /\ s.done = 1
              /\ s.token = r.token /\ s.by = r.by /\ s.late = r.late
<1>1. PICK s : s = [r EXCEPT !.state = "served"]
  OBVIOUS
<1>2. /\ s \in Request /\ s.state = "served" /\ s.done = 0
      /\ s.token = r.token /\ s.by = r.by /\ s.late = r.late
  BY <1>1 DEF Request
<1>3. PICK u : u = [s EXCEPT !.done = 0 + 1]
  OBVIOUS
<1>4. /\ u \in Request /\ u.state = "served" /\ u.done = 1
      /\ u.token = r.token /\ u.by = r.by /\ u.late = r.late
  BY <1>2, <1>3 DEF Request
<1>5. u = [r EXCEPT !.state = "served", !.done = @ + 1]
  <2>1. u = [[r EXCEPT !.state = "served"] EXCEPT !.done = 0 + 1]
    BY <1>1, <1>3
  <2>. QED
    BY <2>1
<1>. QED
  BY <1>4, <1>5

LEMMA ServeCoherent ==
    ASSUME Coherent, NEW x \in Places, Serve(x)
    PROVE  Coherent'
<1> DEFINE r == request[x]
<1>1. /\ request \in [Places -> Request \cup {Idle}] /\ renewal \in [Tabs -> Renewal \cup {Idle}]
      /\ \A y \in Places : request[y].state = "waiting" => renewal[y[1]] # Idle
  BY DEF Coherent, Typed
<1>2. r \in Request /\ r.state = "sent" /\ r # Idle
  BY <1>1, IdleIsNone DEF Serve, Idle
<1>3. Carried(r) /\ r.done = 0
  BY <1>2 DEF Coherent, Counted, Carried
<1>4. /\ request'[x] \in Request /\ request'[x].state # "waiting" /\ Carried(request'[x])
      /\ request' \in [Places -> Request \cup {Idle}]
      /\ \A y \in Places : y # x => request'[y] = request[y]
  <2>1. CASE Valid(r.token)
    <3>1. request' = [request EXCEPT ![x] = [r EXCEPT !.state = "served", !.done = @ + 1]]
      BY <1>1, <2>1 DEF Serve
    <3>2. request'[x] = [r EXCEPT !.state = "served", !.done = @ + 1]
      BY <1>1, <3>1
    <3>3. /\ request'[x] \in Request /\ request'[x].state = "served" /\ request'[x].done = 1
          /\ request'[x].token = r.token /\ request'[x].by = r.by /\ request'[x].late = r.late
      BY <1>2, <1>3, <3>2, ServedRecord
    <3>4. r.token # None
      BY <2>1 DEF Valid
    <3>5. Carried(request'[x])
      BY <1>3, <3>3, <3>4 DEF Counted, Counted, Carried
    <3>. QED
      BY <1>1, <3>1, <3>3, <3>5
  <2>2. CASE ~ Valid(r.token)
    <3>1. request' = [request EXCEPT ![x] = [r EXCEPT !.state = "unauthorized"]]
      BY <1>1, <2>2 DEF Serve
    <3>2. request'[x] = [r EXCEPT !.state = "unauthorized"]
      BY <1>1, <3>1
    <3>3. /\ request'[x] \in Request /\ request'[x].state = "unauthorized" /\ request'[x].done = 0
          /\ request'[x].token = r.token /\ request'[x].by = r.by /\ request'[x].late = r.late
      BY <1>2, <1>3, <3>2 DEF Request
    <3>4. Carried(request'[x])
      BY <1>3, <3>3 DEF Counted, Counted, Carried
    <3>. QED
      BY <1>1, <3>1, <3>3, <3>4
  <2>. QED
    BY <2>1, <2>2
<1>5. UNCHANGED <<storage, login, renewal>>
  BY DEF Serve
<1>. QED
  BY <1>1, <1>4, <1>5, SameLogin, StorageStays

\* The caller gets an error.
LEMMA ThrowsCoherent ==
    ASSUME Coherent, NEW x \in Places, Throws(x), UNCHANGED login
    PROVE  Coherent'
<1>1. /\ request \in [Places -> Request \cup {Idle}] /\ renewal \in [Tabs -> Renewal \cup {Idle}]
      /\ \A y \in Places : request[y].state = "waiting" => renewal[y[1]] # Idle
  BY DEF Coherent, Typed
<1>2. /\ Without({x}) \in [Places -> Request \cup {Idle}]
      /\ \A y \in Places : Without({x})[y] = request[y] \/ Without({x})[y] = Idle
  BY WithoutPlaces
<1>3. ASSUME NEW y \in Places, Without({x})[y].state = "waiting"
      PROVE  renewal[y[1]] # Idle
  BY <1>1, <1>2, <1>3, IdleDoesNotWait
<1>4. CASE request[x].kind = "session"
  <2>1. PICK requests : requests = Without({x})
    OBVIOUS
  <2>2. Store(None, who, requests, renewal)
    BY <1>4, <2>1 DEF Throws, Clear
  <2>3. /\ requests \in [Places -> Request \cup {Idle}]
        /\ \A y \in Places : requests[y] = request[y] \/ requests[y] = Idle
        /\ \A y \in Places : requests[y].state = "waiting" => renewal[y[1]] # Idle
    BY <1>2, <1>3, <2>1
  <2>4. \A v \in Tabs : renewal[v] = renewal[v] \/ renewal[v] = Idle
    OBVIOUS
  <2>. QED
    BY <1>1, <2>2, <2>3, <2>4, ClearCoherent
<1>5. CASE request[x].kind # "session"
  BY <1>1, <1>2, <1>3, <1>5, SameLogin, StorageStays DEF Throws
<1>. QED
  BY <1>4, <1>5

LEMMA FailCoherent ==
    ASSUME Coherent, NEW x \in Places, Fail(x)
    PROVE  Coherent'
BY ThrowsCoherent DEF Fail

\* The storage keeps its tokens, and what was begun before is overtaken.
LEMMA MixedCoherent ==
    ASSUME Coherent, Extends, NEW requests,
           requests \in [Places -> Request \cup {Idle}],
           request' = AllLate(requests), overtaken' = TRUE,
           access' \in Pairs \cup {None}, access' # None \/ access' = access,
           refresh' = refresh,
           \A x \in Places : requests[x] = Idle \/ Counted(requests[x]),
           renewal' \in [Tabs -> Renewal \cup {Idle}],
           \A t \in Tabs : renewal'[t] = renewal[t] \/ renewal'[t] = Idle,
           \A x \in Places : requests[x].state = "waiting" => renewal'[x[1]] # Idle
    PROVE  Coherent'
<1>1. \A x \in Places : \/ requests[x] = Idle /\ request'[x] = Idle
                        \/ /\ requests[x] \in Request /\ Counted(requests[x])
                           /\ request'[x] = Late(requests[x]) /\ request'[x] \in Request
                           /\ request'[x].late /\ request'[x].state = requests[x].state
                           /\ request'[x].token = requests[x].token
                           /\ request'[x].done = requests[x].done
  BY LateIdle, LateRequest, IdleIsNone DEF AllLate
<1>2. Typed'
  <2>1. request' \in [Places -> Request \cup {Idle}]
    BY <1>1 DEF AllLate
  <2>. QED
    BY <2>1 DEF Coherent, Typed, Extends
<1>3. ASSUME NEW x \in Places, request'[x] # Idle
      PROVE  Carried(request[x])'
  BY <1>1, <1>3 DEF Counted, Carried, Extends
<1>4. ASSUME NEW t \in Tabs, renewal'[t] # Idle
      PROVE  Renewing(renewal[t])'
  BY <1>4 DEF Coherent, Renewing, Extends
<1>5. \A x \in Places : request'[x].state = "waiting" => renewal'[x[1]] # Idle
  BY <1>1 DEF Idle
<1>6. StoredIsOfOneSession' /\ (refresh' # None => access' # None)
  BY DEF StoredIsOfOneSession, Coherent
<1>. QED
  BY <1>2, <1>3, <1>4, <1>5, <1>6 DEF Coherent

LEMMA AnsweredCoherent ==
    ASSUME Coherent, NEW x \in Places, Answered(x)
    PROVE  Coherent'
<1> DEFINE r == request[x]
<1>1. /\ request \in [Places -> Request \cup {Idle}] /\ renewal \in [Tabs -> Renewal \cup {Idle}]
      /\ \A y \in Places : request[y].state = "waiting" => renewal[y[1]] # Idle
      /\ access \in Pairs \cup {None} /\ overtaken \in BOOLEAN
  BY DEF Coherent, Typed
<1>2. /\ Without({x}) \in [Places -> Request \cup {Idle}]
      /\ \A y \in Places : Without({x})[y] = request[y] \/ Without({x})[y] = Idle
  BY WithoutPlaces
<1>3. ASSUME NEW y \in Places, Without({x})[y].state = "waiting"
      PROVE  renewal[y[1]] # Idle
  BY <1>1, <1>2, <1>3, IdleDoesNotWait
<1>4. \A y \in Places : \/ Without({x})[y] = Idle
                        \/ Carried(Without({x})[y]) /\ Counted(Without({x})[y])
  BY <1>2 DEF Coherent, Carried
<1>5. UNCHANGED <<access, refresh, login, renewal>> /\ Extends
  BY SameLogin DEF Answered
<1>6. r \in Request /\ r.state = "served" /\ Carried(r) /\ r.late \in BOOLEAN
  <2>1. r \in Request
    BY <1>1, IdleIsNone DEF Answered, Idle
  <2>. QED
    BY <2>1, IdleIsNone DEF Answered, Coherent, Request
<1>7. CASE r.kind # "session"
  <2>1. UNCHANGED storage /\ request' = Without({x})
    BY <1>5, <1>7 DEF Answered, storage
  <2>. QED
    BY <1>1, <1>2, <1>3, <1>5, <2>1, StorageStays
<1>8. CASE r.kind = "session" /\ r.late
  <2>1. overtaken' = TRUE /\ request' = AllLate(Without({x}))
    BY <1>8 DEF Answered
  <2>. QED
    BY <1>1, <1>2, <1>3, <1>4, <1>5, <2>1, MixedCoherent
<1>9. CASE r.kind = "session" /\ ~ r.late
  <2>1. overtaken' = overtaken /\ request' = Without({x}) /\ who' = login[r.token]
    BY <1>1, <1>9 DEF Answered
  <2>2. ~ overtaken /\ r.token # None /\ access # None /\ login[r.token] = login[access]
    BY <1>6, <1>9 DEF Counted, Counted, Carried
  <2>3. Typed'
    BY <1>1, <1>2, <1>5, <2>1 DEF Coherent, Typed, Extends
  <2>4. ASSUME NEW y \in Places, request'[y] # Idle
        PROVE  Carried(request[y])'
    BY <1>2, <1>4, <1>5, <2>1, <2>4 DEF Counted, Carried, Pairs
  <2>5. ASSUME NEW t \in Tabs, renewal'[t] # Idle
        PROVE  Renewing(renewal[t])'
    BY <1>5, <2>5 DEF Coherent, Renewing, Pairs
  <2>6. \A y \in Places : request'[y].state = "waiting" => renewal'[y[1]] # Idle
    BY <1>3, <1>5, <2>1
  <2>7. StoredIsOfOneSession' /\ (refresh' # None => access' # None)
    BY <1>5, <2>1, <2>2 DEF Coherent, StoredIsOfOneSession
  <2>. QED
    BY <2>3, <2>4, <2>5, <2>6, <2>7 DEF Coherent
<1>. QED
  BY <1>6, <1>7, <1>8, <1>9

-----------------------------------------------------------------------------
(* Renewals. *)

\* A renewal that came to nothing leaves nobody waiting for it.
LEMMA NotRenewedCoherent ==
    ASSUME Coherent, NEW t \in Tabs, NEW waiting, NotRenewed(t, waiting), UNCHANGED login,
           renewal[t] # Idle => Waiting(t) \subseteq waiting
    PROVE  Coherent'
<1> DEFINE places == IF \E x \in waiting : request[x].kind # "blob" THEN Of(t) ELSE waiting
           renewals == [renewal EXCEPT ![t] = Idle]
<1>1. /\ request \in [Places -> Request \cup {Idle}] /\ renewal \in [Tabs -> Renewal \cup {Idle}]
      /\ \A y \in Places : request[y].state = "waiting" => renewal[y[1]] # Idle
  BY DEF Coherent, Typed
<1>2. Store(None, who, Without(places), renewals)
  BY DEF NotRenewed, Clear
<1>3. /\ Without(places) \in [Places -> Request \cup {Idle}]
      /\ \A y \in Places : \/ Without(places)[y] = request[y] /\ y \notin places
                           \/ Without(places)[y] = Idle
  BY WithoutPlaces
<1>4. /\ renewals \in [Tabs -> Renewal \cup {Idle}]
      /\ \A v \in Tabs : renewals[v] = renewal[v] \/ renewals[v] = Idle
      /\ \A v \in Tabs : v # t => renewals[v] = renewal[v]
  BY <1>1
<1>5. ASSUME NEW y \in Places, Without(places)[y].state = "waiting"
      PROVE  renewals[y[1]] # Idle
  <2>1. Without(places)[y] = request[y] /\ y \notin places /\ request[y].state = "waiting"
    BY <1>3, <1>5 DEF Idle
  <2>2. renewal[y[1]] # Idle /\ y[1] \in Tabs /\ y \in Of(y[1])
    BY <1>1, <2>1, PlaceTab
  <2>3. y[1] # t
    BY <2>1, <2>2 DEF Waiting
  <2>. QED
    BY <1>4, <2>2, <2>3
<1>6. PICK requests, cleared : requests = Without(places) /\ cleared = renewals
  OBVIOUS
<1>7. /\ Store(None, who, requests, cleared)
      /\ requests \in [Places -> Request \cup {Idle}]
      /\ cleared \in [Tabs -> Renewal \cup {Idle}]
      /\ \A y \in Places : requests[y] = request[y] \/ requests[y] = Idle
      /\ \A v \in Tabs : cleared[v] = renewal[v] \/ cleared[v] = Idle
      /\ \A y \in Places : requests[y].state = "waiting" => cleared[y[1]] # Idle
  BY <1>2, <1>3, <1>4, <1>5, <1>6
<1>. QED
  BY <1>7, ClearCoherent

LEMMA RenewalFailsCoherent ==
    ASSUME Coherent, NEW t \in Tabs, RenewalFails(t)
    PROVE  Coherent'
BY NotRenewedCoherent DEF RenewalFails

\* A request starts to wait: for the renewal of its tab, or for the one it starts.
LEMMA WaitCoherent ==
    ASSUME Coherent, NEW x \in Places, request[x].state = "unauthorized",
           renewal[x[1]] # Idle \/ refresh # None,
           request' = [request EXCEPT ![x].state = "waiting"],
           renewal' = IF renewal[x[1]] # Idle THEN renewal
                      ELSE [renewal EXCEPT ![x[1]] =
                              [token |-> refresh, state |-> "sent",
                               pair |-> None, late |-> overtaken]],
           UNCHANGED <<storage, login>>
    PROVE  Coherent'
<1> DEFINE r == request[x]
           n == [token |-> refresh, state |-> "sent", pair |-> None, late |-> overtaken]
<1>1. /\ request \in [Places -> Request \cup {Idle}] /\ renewal \in [Tabs -> Renewal \cup {Idle}]
      /\ \A y \in Places : request[y].state = "waiting" => renewal[y[1]] # Idle
      /\ refresh \in Pairs \cup {None} /\ overtaken \in BOOLEAN /\ login \in Seq(Nat)
  BY DEF Coherent, Typed
<1>2. r \in Request /\ r # Idle /\ Carried(r) /\ r.done = 0
  <2>1. r \in Request /\ r # Idle
    BY <1>1, IdleIsNone DEF Idle
  <2>. QED
    BY <2>1 DEF Coherent, Counted, Carried
<1>3. request'[x] = [r EXCEPT !.state = "waiting"]
  BY <1>1
<1>4. /\ request'[x] \in Request /\ request'[x].state = "waiting" /\ request'[x].done = 0
      /\ request'[x].token = r.token /\ request'[x].by = r.by /\ request'[x].late = r.late
  BY <1>2, <1>3 DEF Request
<1>5. Carried(request'[x])
  BY <1>2, <1>4 DEF Counted, Counted, Carried
<1>6. /\ request' \in [Places -> Request \cup {Idle}]
      /\ \A y \in Places : y # x => request'[y] = request[y]
  BY <1>1, <1>4
<1>7. /\ renewal' \in [Tabs -> Renewal \cup {Idle}] /\ renewal'[x[1]] # Idle
      /\ \A v \in Tabs : renewal'[v] = renewal[v] \/ Renewing(renewal[v])'
      /\ \A v \in Tabs : renewal[v] # Idle => renewal'[v] = renewal[v]
  <2>1. CASE renewal[x[1]] # Idle
    BY <1>1, <2>1
  <2>2. CASE renewal[x[1]] = Idle
    <3>1. refresh \in Pairs /\ refresh \in Nat
      BY <1>1, <2>2 DEF Pairs
    <3>2. n \in Renewal /\ n # Idle
      <4>1. n \in Renewal
        BY <1>1, <3>1 DEF Renewal, None
      <4>. QED
        BY <4>1, IdleIsNone
    <3>3. renewal' = [renewal EXCEPT ![x[1]] = n] /\ x[1] \in Tabs
      BY <2>2, PlaceTab
    <3>4. n.token = refresh /\ n.state = "sent"
      OBVIOUS
    <3>5. refresh' = refresh /\ login' = login
      BY DEF storage
    <3>6. renewal'[x[1]] = n
      BY <1>1, <3>3
    <3>7. Renewing(renewal[x[1]])'
      BY <3>1, <3>4, <3>5, <3>6 DEF Renewing, Pairs
    <3>. QED
      BY <1>1, <2>2, <3>2, <3>3, <3>6, <3>7
  <2>. QED
    BY <2>1, <2>2
<1>8. \A y \in Places : request'[y].state = "waiting" => renewal'[y[1]] # Idle
  BY <1>1, <1>6, <1>7, PlaceTab
<1>9. \A y \in Places : \/ request'[y] = request[y] \/ request'[y] = Idle
                        \/ Carried(request'[y])
  BY <1>5, <1>6
<1>10. UNCHANGED storage /\ Extends
  BY SameLogin
<1>. QED
  BY <1>6, <1>7, <1>8, <1>9, <1>10, StorageStays

LEMMA UnauthorizedCoherent ==
    ASSUME Coherent, NEW x \in Places, Unauthorized(x)
    PROVE  Coherent'
<1>1. UNCHANGED login /\ request[x].state = "unauthorized" /\ x[1] \in Tabs
  BY PlaceTab DEF Unauthorized
<1>2. CASE Throws(x)
  BY <1>1, <1>2, ThrowsCoherent
<1>3. CASE renewal[x[1]] = Idle /\ NotRenewed(x[1], {x})
  BY <1>1, <1>3, NotRenewedCoherent
<1>4. CASE /\ renewal[x[1]] # Idle \/ refresh # None
           /\ request' = [request EXCEPT ![x].state = "waiting"]
           /\ renewal' = IF renewal[x[1]] # Idle THEN renewal
                         ELSE [renewal EXCEPT ![x[1]] =
                                 [token |-> refresh, state |-> "sent",
                                  pair |-> None, late |-> overtaken]]
           /\ UNCHANGED storage
  BY <1>1, <1>4, WaitCoherent
<1>. QED
  BY <1>2, <1>3, <1>4 DEF Unauthorized

LEMMA RenewalCheckedCoherent ==
    ASSUME Coherent, NEW t \in Tabs, RenewalChecked(t)
    PROVE  Coherent'
<1> DEFINE n == renewal[t]
<1>1. /\ request \in [Places -> Request \cup {Idle}] /\ renewal \in [Tabs -> Renewal \cup {Idle}]
      /\ \A y \in Places : request[y].state = "waiting" => renewal[y[1]] # Idle
  BY DEF Coherent, Typed
<1>2. n \in Renewal /\ n # Idle
  BY <1>1, IdleIsNone DEF RenewalChecked, Idle
<1>3. PICK st \in {"refused", "checked"} : renewal' = [renewal EXCEPT ![t].state = st]
  BY DEF RenewalChecked
<1>4. renewal'[t] = [n EXCEPT !.state = st]
  BY <1>1, <1>3
<1>5. /\ renewal'[t] \in Renewal /\ renewal'[t].token = n.token
      /\ renewal'[t].late = n.late /\ renewal'[t].state # "served"
  BY <1>2, <1>4 DEF Renewal
<1>6. UNCHANGED <<storage, login, request, refresh>>
  BY DEF RenewalChecked, storage
<1>7. Renewing(renewal[t])'
  BY <1>2, <1>5, <1>6 DEF Coherent, Renewing, Pairs
<1>8. /\ renewal' \in [Tabs -> Renewal \cup {Idle}] /\ renewal'[t] # Idle
      /\ \A v \in Tabs : v # t => renewal'[v] = renewal[v]
  BY <1>1, <1>3, <1>4, <1>5, IdleIsNone
<1>9. \A y \in Places : request'[y].state = "waiting" => renewal'[y[1]] # Idle
  BY <1>1, <1>6, <1>8, PlaceTab
<1>. QED
  BY <1>1, <1>6, <1>7, <1>8, <1>9, SameLogin, StorageStays

LEMMA ServedRenewal ==
    ASSUME NEW n \in Renewal, NEW p \in Nat
    PROVE  \A s : s = [n EXCEPT !.state = "served", !.pair = p]
              => s \in Renewal /\ s.pair = p /\ s.token = n.token /\ s.late = n.late
<1>1. PICK s : s = [n EXCEPT !.state = "served"]
  OBVIOUS
<1>2. s \in Renewal /\ s.token = n.token /\ s.late = n.late
  BY <1>1 DEF Renewal
<1>3. PICK u : u = [s EXCEPT !.pair = p]
  OBVIOUS
<1>4. u \in Renewal /\ u.pair = p /\ u.token = n.token /\ u.late = n.late
  BY <1>2, <1>3 DEF Renewal
<1>5. u = [n EXCEPT !.state = "served", !.pair = p]
  <2>1. u = [[n EXCEPT !.state = "served"] EXCEPT !.pair = p]
    BY <1>1, <1>3
  <2>. QED
    BY <2>1
<1>. QED
  BY <1>4, <1>5

\* The new pair is of the sign-in of the token it is issued for.
LEMMA RenewalServedCoherent ==
    ASSUME Coherent, NEW t \in Tabs, RenewalServed(t)
    PROVE  Coherent'
<1> DEFINE n == renewal[t]
<1>1. /\ request \in [Places -> Request \cup {Idle}] /\ renewal \in [Tabs -> Renewal \cup {Idle}]
      /\ \A y \in Places : request[y].state = "waiting" => renewal[y[1]] # Idle
      /\ login \in Seq(Nat)
  BY DEF Coherent, Typed
<1>2. n \in Renewal /\ n # Idle
  BY <1>1, IdleIsNone DEF RenewalServed, Idle
<1>3. Renewing(n) /\ n.token \in Pairs /\ login[n.token] \in Nat
  BY <1>1, <1>2 DEF Coherent, Renewing, Pairs
<1>4. login' = Append(login, login[n.token])
  BY DEF RenewalServed
<1>5. /\ login' \in Seq(Nat) /\ Len(login') \in Pairs' /\ Len(login') \in Nat
      /\ login'[Len(login')] = login[n.token]
      /\ \A p \in Pairs : p \in Pairs' /\ login'[p] = login[p]
  <2>1. PICK u \in Nat : u = login[n.token]
    BY <1>3
  <2>2. login' = Append(login, u)
    BY <1>4, <2>1
  <2>3. /\ login' \in Seq(Nat) /\ Len(login) \in Nat
        /\ Len(login') = Len(login) + 1 /\ Len(login') \in Pairs'
        /\ login'[Len(login')] = u
        /\ \A p \in Pairs : p \in Pairs' /\ login'[p] = login[p]
    BY <1>1, <2>2, IssuePair
  <2>. QED
    BY <2>1, <2>3
<1>6. PICK p \in Nat : p = Len(login')
  BY <1>5
<1>7. renewal' = [renewal EXCEPT ![t].state = "served", ![t].pair = p]
  BY <1>6 DEF RenewalServed
<1>8. renewal'[t] = [n EXCEPT !.state = "served", !.pair = p]
  BY <1>1, <1>7
<1>9. /\ renewal'[t] \in Renewal /\ renewal'[t].pair = p /\ renewal'[t].token = n.token
      /\ renewal'[t].late = n.late
  <2>1. PICK r \in Renewal : r = n
    BY <1>2
  <2>2. PICK s : s = renewal'[t]
    OBVIOUS
  <2>3. s = [r EXCEPT !.state = "served", !.pair = p]
    BY <1>8, <2>1, <2>2
  <2>4. s \in Renewal /\ s.pair = p /\ s.token = r.token /\ s.late = r.late
    BY <2>3, ServedRenewal
  <2>. QED
    BY <2>1, <2>2, <2>4
<1>10. UNCHANGED <<storage, request, refresh>>
  BY DEF RenewalServed, storage
<1>11. Renewing(renewal[t])'
  BY <1>3, <1>5, <1>6, <1>9, <1>10 DEF Renewing
<1>12. /\ renewal' \in [Tabs -> Renewal \cup {Idle}] /\ renewal'[t] # Idle
       /\ \A v \in Tabs : v # t => renewal'[v] = renewal[v]
  BY <1>1, <1>7, <1>9, IdleIsNone
<1>13. \A y \in Places : request'[y].state = "waiting" => renewal'[y[1]] # Idle
  BY <1>1, <1>10, <1>12, PlaceTab
<1>14. Extends
  BY <1>5 DEF Extends
<1>. QED
  BY <1>1, <1>10, <1>11, <1>12, <1>13, <1>14, StorageStays

\* A request that waited, as it is sent again.
Resent(r, p) == [r EXCEPT !.state = "sent", !.token = p, !.retried = TRUE]

LEMMA ResentRecord ==
    ASSUME NEW r \in Request, NEW p \in Nat
    PROVE  /\ Resent(r, p) \in Request
           /\ Resent(r, p).state = "sent" /\ Resent(r, p).token = p
           /\ Resent(r, p).kind = r.kind
           /\ Resent(r, p).done = r.done /\ Resent(r, p).by = r.by
           /\ Resent(r, p).late = r.late
<1>1. PICK s : s = [r EXCEPT !.state = "sent"]
  OBVIOUS
<1>2. /\ s \in Request /\ s.state = "sent"
      /\ s.kind = r.kind /\ s.done = r.done /\ s.by = r.by /\ s.late = r.late
  BY <1>1 DEF Request
<1>3. PICK u : u = [s EXCEPT !.token = p]
  OBVIOUS
<1>4. /\ u \in Request /\ u.state = "sent" /\ u.token = p
      /\ u.kind = r.kind /\ u.done = r.done /\ u.by = r.by /\ u.late = r.late
  BY <1>2, <1>3 DEF Request
<1>5. PICK v : v = [u EXCEPT !.retried = TRUE]
  OBVIOUS
<1>6. /\ v \in Request /\ v.state = "sent" /\ v.token = p
      /\ v.kind = r.kind /\ v.done = r.done /\ v.by = r.by /\ v.late = r.late
  BY <1>4, <1>5 DEF Request
<1>7. v = Resent(r, p)
  <2>1. v = [[[r EXCEPT !.state = "sent"] EXCEPT !.token = p] EXCEPT !.retried = TRUE]
    BY <1>1, <1>3, <1>5
  <2>. QED
    BY <2>1 DEF Resent
<1>. QED
  BY <1>6, <1>7

\* The new pair replaces the one that is stored, and in the requests that wait.
LEMMA RenewalAnsweredCoherent ==
    ASSUME Coherent, NEW t \in Tabs, RenewalAnswered(t)
    PROVE  Coherent'
<1> DEFINE n == renewal[t]
           pair == renewal[t].pair
           resent == [x \in Places |->
                        IF x \in Waiting(t)
                        THEN [request[x] EXCEPT !.state = "sent", !.token = pair,
                                                !.retried = TRUE]
                        ELSE request[x]]
<1>1. /\ request \in [Places -> Request \cup {Idle}] /\ renewal \in [Tabs -> Renewal \cup {Idle}]
      /\ \A y \in Places : request[y].state = "waiting" => renewal[y[1]] # Idle
      /\ login \in Seq(Nat) /\ access \in Pairs \cup {None} /\ overtaken \in BOOLEAN
      /\ refresh \in Pairs \cup {None}
  BY DEF Coherent, Typed
<1>2. n \in Renewal /\ n # Idle /\ n.state = "served" /\ n.late \in BOOLEAN
  <2>1. n.state = "served"
    BY DEF RenewalAnswered
  <2>2. n \in Renewal
    BY <1>1, <2>1, IdleDoesNotWait
  <2>. QED
    BY <2>1, <2>2, IdleIsNone DEF Renewal
<1>3. /\ pair \in Pairs /\ login[pair] = login[n.token] /\ n.token \in Pairs
      /\ ~ n.late => n.token = refresh
  BY <1>2 DEF Coherent, Renewing
<1>4. pair # None /\ n.token # None /\ pair \in Nat
  BY <1>1, <1>3 DEF Pairs, None
<1>5. /\ access' = pair /\ UNCHANGED <<refresh, who, login>>
      /\ renewal' = [renewal EXCEPT ![t] = Idle]
      /\ overtaken' = (overtaken \/ n.late)
      /\ request' = IF n.late THEN AllLate(resent) ELSE resent
  BY DEF RenewalAnswered
<1>6. /\ renewal' \in [Tabs -> Renewal \cup {Idle}]
      /\ \A v \in Tabs : renewal'[v] = renewal[v] \/ renewal'[v] = Idle
      /\ \A v \in Tabs : v # t => renewal'[v] = renewal[v]
  BY <1>1, <1>5
<1>7. ASSUME NEW x \in Places
      PROVE  \/ /\ x \notin Waiting(t) /\ resent[x] = request[x]
             \/ /\ x \in Waiting(t) /\ request[x] \in Request /\ request[x] # Idle
                /\ request[x].state = "waiting" /\ resent[x] \in Request
                /\ resent[x].state = "sent" /\ resent[x].token = pair
                /\ resent[x].done = request[x].done /\ resent[x].by = request[x].by
                /\ resent[x].late = request[x].late
  <2>1. CASE x \in Waiting(t)
    <3>1. request[x].state = "waiting"
      BY <2>1 DEF Waiting
    <3>2. request[x] \in Request /\ request[x] # Idle
      BY <1>1, <3>1, IdleIsNone, IdleDoesNotWait
    <3>3. resent[x] = [request[x] EXCEPT !.state = "sent", !.token = pair, !.retried = TRUE]
      BY <2>1
    <3>4. resent[x] = Resent(request[x], pair)
      BY <3>3 DEF Resent
    <3> HIDE DEF resent, pair, n
    <3>. QED
      BY <1>4, <2>1, <3>1, <3>2, <3>4, ResentRecord
  <2>2. CASE x \notin Waiting(t)
    BY <2>2
  <2>. QED
    BY <2>1, <2>2
<1>8. resent \in [Places -> Request \cup {Idle}]
  BY <1>1, <1>7
<1>9. ASSUME NEW x \in Places, resent[x].state = "waiting"
      PROVE  renewal'[x[1]] # Idle
  <2>1. x \notin Waiting(t) /\ request[x].state = "waiting"
    BY <1>7, <1>9
  <2>2. x[1] # t /\ x[1] \in Tabs
    BY <2>1, PlaceTab DEF Waiting
  <2>. QED
    BY <1>1, <1>6, <2>1, <2>2
<1>10. Extends
  BY <1>5, SameLogin
<1>11. ASSUME NEW x \in Places, resent[x] # Idle
       PROVE  Counted(resent[x]) /\ (x \in Waiting(t) \/ Carried(request[x]))
  BY <1>3, <1>7, <1>11 DEF Coherent, Counted, Carried
<1> HIDE DEF n, pair, resent
<1>12. CASE n.late
  <2>1. PICK requests : requests = resent
    OBVIOUS
  <2>2. /\ requests \in [Places -> Request \cup {Idle}] /\ request' = AllLate(requests)
        /\ \A x \in Places : requests[x] = Idle \/ Counted(requests[x])
        /\ \A x \in Places : requests[x].state = "waiting" => renewal'[x[1]] # Idle
    BY <1>5, <1>8, <1>9, <1>11, <1>12, <2>1
  <2>3. overtaken' = TRUE /\ access' \in Pairs \cup {None} /\ access' # None
    BY <1>3, <1>4, <1>5, <1>12
  <2>. QED
    BY <1>5, <1>6, <1>10, <2>2, <2>3, MixedCoherent
<1>13. CASE ~ n.late
  <2>1. /\ request' = resent /\ overtaken' = overtaken /\ Pairs' = Pairs
        /\ n.token = refresh /\ refresh # None /\ access # None
    BY <1>1, <1>3, <1>4, <1>5, <1>13 DEF Coherent, Pairs
  <2>2. ~ overtaken => login[pair] = login[access] /\ who = login[pair]
    BY <1>3, <2>1 DEF Coherent, StoredIsOfOneSession
  <2>3. Typed'
    BY <1>1, <1>3, <1>5, <1>6, <1>8, <2>1 DEF Typed
  <2>4. ASSUME NEW x \in Places, request'[x] # Idle
        PROVE  Carried(request[x])'
    <3>1. CASE x \notin Waiting(t)
      <4>1. request'[x] = request[x] /\ Carried(request[x])
        <5>1. resent[x] = request[x]
          BY <1>7, <3>1
        <5>2. resent[x] # Idle
          BY <2>1, <2>4
        <5>. QED
          BY <1>11, <2>1, <3>1, <5>1, <5>2
      <4>. QED
        <5>1. Counted(request[x])'
          BY <1>5, <2>1, <4>1 DEF Counted, Carried
        <5>2. PICK r : r = request[x]
          OBVIOUS
        <5>3. /\ ~ r.late => ~ overtaken /\ r.token # None
              /\ ~ r.late => login[r.token] = login[pair] /\ r.by = login[r.token]
          BY <2>1, <2>2, <4>1, <5>2 DEF Carried
        <5>4. ~ r.late => ~ overtaken' /\ access' # None /\ login'[r.token] = login'[access']
          BY <1>4, <1>5, <2>1, <5>3
        <5>5. r.token = request'[x].token /\ r.late = request'[x].late /\ r.by = request'[x].by
          BY <4>1, <5>2
        <5>. QED
          BY <1>5, <5>1, <5>3, <5>4, <5>5 DEF Carried
    <3>2. CASE x \in Waiting(t)
      <4>1. /\ Carried(request[x]) /\ request'[x] = resent[x] /\ Counted(resent[x])
            /\ resent[x].token = pair /\ resent[x].by = request[x].by
            /\ resent[x].late = request[x].late
        BY <1>7, <1>11, <2>1, <2>4, <3>2 DEF Coherent
      <4>2. ~ request[x].late => ~ overtaken /\ request[x].by = login[access]
        BY <2>1, <4>1 DEF Carried
      <4>3. Counted(request[x])'
        BY <1>5, <2>1, <4>1 DEF Counted
      <4>. QED
        <5>1. PICK r : r = request'[x]
          OBVIOUS
        <5>2. r.token = pair /\ (~ r.late => ~ overtaken /\ r.by = login[access])
          BY <4>1, <4>2, <5>1
        <5>3. /\ r.token # None
              /\ ~ r.late => /\ ~ overtaken' /\ access' # None
                             /\ login'[r.token] = login'[access'] /\ r.by = login'[r.token]
          BY <1>4, <1>5, <2>1, <2>2, <5>2
        <5>. QED
          BY <4>3, <5>1, <5>3 DEF Carried
    <3>. QED
      BY <3>1, <3>2
  <2>5. ASSUME NEW v \in Tabs, renewal'[v] # Idle
        PROVE  Renewing(renewal[v])'
    BY <1>5, <1>6, <2>1, <2>5 DEF Coherent, Renewing
  <2>6. \A x \in Places : request'[x].state = "waiting" => renewal'[x[1]] # Idle
    BY <1>9, <2>1
  <2>7. StoredIsOfOneSession' /\ (refresh' # None => access' # None)
    BY <1>3, <1>4, <1>5, <2>1, <2>2 DEF StoredIsOfOneSession
  <2>. QED
    BY <2>3, <2>4, <2>5, <2>6, <2>7 DEF Coherent
<1>. QED
  BY <1>2, <1>12, <1>13

-----------------------------------------------------------------------------
(* The specification. *)

LEMMA InitCoherent == Init => Coherent
<1> SUFFICES ASSUME Init PROVE Coherent
  OBVIOUS
<1>1. Typed
  <2>1. login \in Seq(Nat)
    BY DEF Init
  <2>2. /\ request \in [Places -> Request \cup {Idle}]
        /\ renewal \in [Tabs -> Renewal \cup {Idle}]
    BY DEF Init
  <2>. QED
    BY <2>1, <2>2 DEF Init, Typed
<1>2. /\ \A x \in Places : request[x] = Idle /\ request[x].state # "waiting"
      /\ \A t \in Tabs : renewal[t] = Idle
  BY IdleDoesNotWait DEF Init
<1>. QED
  BY <1>1, <1>2 DEF Init, Coherent, StoredIsOfOneSession

\* Time passes, or nothing does.
LEMMA SameCoherent ==
    ASSUME Coherent, UNCHANGED <<storage, login, request, renewal>>
    PROVE  Coherent'
BY DEF storage, Coherent, Typed, Pairs, Counted, Carried, Renewing, StoredIsOfOneSession

LEMMA StepCoherent == Coherent /\ [Next]_vars => Coherent'
<1> SUFFICES ASSUME Coherent, [Next]_vars PROVE Coherent'
  OBVIOUS
<1>1. ASSUME NEW t \in Tabs, SignIn(t) \/ SignOut(t) \/ Open(t) \/ Restore(t)
      PROVE  Coherent'
  BY <1>1, SignInCoherent, SignOutCoherent, OpenCoherent, RestoreCoherent
<1>2. ASSUME NEW t \in Tabs, Renews(t)
      PROVE  Coherent'
  BY <1>2, RenewalCheckedCoherent, RenewalServedCoherent, RenewalAnsweredCoherent,
     RenewalFailsCoherent DEF Renews
<1>3. ASSUME NEW x \in Places, GoesOn(x)
      PROVE  Coherent'
  BY <1>3, ServeCoherent, FailCoherent, AnsweredCoherent, UnauthorizedCoherent DEF GoesOn
<1>4. ASSUME NEW x \in Places, NEW kind \in {"call", "blob"}, Send(x, kind)
      PROVE  Coherent'
  BY <1>4, SendCoherent
<1>5. ASSUME NEW pair \in 1..Len(login), Expire(pair)
      PROVE  Coherent'
  BY <1>5, SameCoherent DEF Expire
<1>6. CASE UNCHANGED vars
  BY <1>6, SameCoherent DEF vars, storage
<1>. QED
  BY <1>1, <1>2, <1>3, <1>4, <1>5, <1>6 DEF Next

LEMMA SpecCoherent == Spec => []Coherent
BY InitCoherent, StepCoherent, PTL DEF Spec

-----------------------------------------------------------------------------
(* What the tabs show. *)

Views == {"login", "opening", "restoring", "ready"}

\* The places of the requests among f by which tabs restore their sessions.
Asking(f) == {x \in Places : f[x] # Idle /\ f[x].kind = "session"}

\* A tab that restores its session does it with one request, and no other tab
\* asks for a session.
Placed ==
    /\ view \in [Tabs -> Views]
    /\ \A t \in Tabs : view[t] = "restoring" <=> Asking(request) \cap Of(t) # {}
    /\ \A x, y \in Asking(request) : x[1] = y[1] => x = y

\* The user that is stored, the tokens that expired and those that were spent
\* come from pairs that were issued.
Issued ==
    /\ who \in {None} \cup {login[p] : p \in Pairs}
    /\ stale \subseteq Pairs /\ spent \subseteq Pairs

LEMMA LateAsks ==
    ASSUME NEW f \in [Places -> Request \cup {Idle}]
    PROVE  Asking(AllLate(f)) = Asking(f)
<1>1. ASSUME NEW x \in Places
      PROVE  /\ AllLate(f)[x] # Idle <=> f[x] # Idle
             /\ f[x] # Idle => AllLate(f)[x].kind = f[x].kind
  <2>1. AllLate(f)[x] = Late(f[x])
    BY DEF AllLate
  <2>. QED
    BY <2>1, LateIdle, LateRequest, IdleIsNone
<1>. QED
  BY <1>1 DEF Asking

LEMMA FewerAsk ==
    ASSUME NEW places
    PROVE  Asking(Without(places)) = Asking(request) \ places
BY DEF Asking, Without

\* One request takes or leaves its place, or goes on.
LEMMA OneAsks ==
    ASSUME Coherent, NEW x \in Places, NEW r, r \in Request \cup {Idle},
           request' = [request EXCEPT ![x] = r],
           r # Idle /\ request[x] # Idle /\ r.kind = request[x].kind
    PROVE  Asking(request') = Asking(request)
BY DEF Asking, Coherent, Typed

\* Only the tab of one step changes.
LEMMA TabPlaced ==
    ASSUME Placed, NEW t \in Tabs,
           view' \in [Tabs -> Views],
           \A v \in Tabs : v # t => view'[v] = view[v],
           Asking(request') \ Of(t) = Asking(request) \ Of(t),
           view'[t] = "restoring" <=> Asking(request') \cap Of(t) # {},
           \A x, y \in Asking(request') \cap Of(t) : x = y
    PROVE  Placed'
<1>1. PICK asking : asking = Asking(request')
  OBVIOUS
<1>2. asking \subseteq Places /\ Asking(request) \subseteq Places
  BY <1>1 DEF Asking
<1>3. \A v \in Tabs : view'[v] = "restoring" <=> asking \cap Of(v) # {}
  <2> SUFFICES ASSUME NEW v \in Tabs, v # t
               PROVE  view'[v] = "restoring" <=> asking \cap Of(v) # {}
    BY <1>1
  <2>1. asking \cap Of(v) = Asking(request) \cap Of(v)
    BY <1>1, <1>2, PlaceTab
  <2>. QED
    BY <2>1 DEF Placed
<1>4. \A x, y \in asking : x[1] = y[1] => x = y
  <2> SUFFICES ASSUME NEW x \in asking, NEW y \in asking, x[1] = y[1]
               PROVE  x = y
    OBVIOUS
  <2>1. x \in Of(x[1]) /\ y \in Of(x[1])
    BY <1>2, PlaceTab
  <2>2. CASE x[1] = t
    BY <1>1, <2>1, <2>2
  <2>3. CASE x[1] # t
    BY <1>1, <1>2, <2>3, PlaceTab DEF Placed
  <2>. QED
    BY <2>2, <2>3
<1>. QED
  BY <1>1, <1>3, <1>4 DEF Placed

\* Nobody who asks for a session is touched, and no tab begins or ends to.
LEMMA SamePlaced ==
    ASSUME Placed, view' = view, Asking(request') = Asking(request)
    PROVE  Placed'
<1>1. PICK asking : asking = Asking(request') /\ asking = Asking(request)
  OBVIOUS
<1>2. Asking(request)' = asking
  BY <1>1 DEF Asking
<1>. QED
  BY <1>1, <1>2 DEF Placed

\* A tab shows another page than that of a session being restored, and all that
\* it asked is over.
LEMMA TabLeaves ==
    ASSUME Placed, NEW t \in Tabs, NEW shown \in Views \ {"restoring"},
           view' = [view EXCEPT ![t] = shown],
           Asking(request') = Asking(request) \ Of(t)
    PROVE  Placed'
<1>1. /\ view' \in [Tabs -> Views] /\ view'[t] = shown
      /\ \A v \in Tabs : v # t => view'[v] = view[v]
  BY DEF Placed
<1>. QED
  BY <1>1, TabPlaced

\* A tab that asked nothing shows another page.
LEMMA TabMoves ==
    ASSUME Placed, NEW t \in Tabs, NEW shown \in Views \ {"restoring"}, view[t] # "restoring",
           view' = [view EXCEPT ![t] = shown],
           Asking(request') = Asking(request)
    PROVE  Placed'
<1>1. Asking(request) = Asking(request) \ Of(t)
  BY DEF Placed
<1>. QED
  BY <1>1, TabLeaves

\* What a tab asked is one request, so that nothing is left when it is over.
LEMMA OnlyOneAsks ==
    ASSUME Placed, NEW x \in Asking(request)
    PROVE  /\ Asking(request) \ {x} = Asking(request) \ Of(x[1])
           /\ view[x[1]] = "restoring"
<1>1. x \in Places /\ Asking(request) \subseteq Places
  BY DEF Asking
<1>2. x \in Of(x[1]) /\ x[1] \in Tabs
  BY <1>1, PlaceTab
<1>3. \A y \in Asking(request) : y \in Of(x[1]) <=> y = x
  BY <1>1, <1>2, PlaceTab DEF Placed
<1>. QED
  BY <1>2, <1>3 DEF Placed

LEMMA SentAsks ==
    ASSUME Coherent, NEW x \in Places, NEW kind \in Kinds, request[x] = Idle,
           request' = [request EXCEPT ![x] = Sent(kind, overtaken)]
    PROVE  Asking(request') = IF kind = "session" THEN Asking(request) \cup {x}
                              ELSE Asking(request)
<1>1. PICK r : r = Sent(kind, overtaken)
  OBVIOUS
<1>2. r \in Request /\ r # Idle /\ r.kind = kind
  BY <1>1, SentIsCarried, IdleIsNone DEF Sent
<1>3. request'[x] = r /\ \A y \in Places : y # x => request'[y] = request[y]
  BY <1>1 DEF Coherent, Typed
<1>. QED
  BY <1>2, <1>3 DEF Asking

LEMMA ThrowsPlaced ==
    ASSUME Coherent, Placed, NEW x \in Places, request[x] # Idle, Throws(x)
    PROVE  Placed'
<1>1. /\ Without({x}) \in [Places -> Request \cup {Idle}]
      /\ Asking(Without({x})) = Asking(request) \ {x}
      /\ Asking(AllLate(Without({x}))) = Asking(Without({x}))
  BY WithoutPlaces, FewerAsk, LateAsks
<1>2. CASE request[x].kind = "session"
  <2>1. request' = AllLate(Without({x})) /\ view' = [view EXCEPT ![x[1]] = "login"]
    BY <1>2 DEF Throws, Clear, Store
  <2>2. x \in Asking(request)
    BY <1>2 DEF Asking
  <2>3. Asking(request') = Asking(request) \ Of(x[1])
    BY <1>1, <2>1, <2>2, OnlyOneAsks
  <2>. QED
    BY <2>1, <2>3, PlaceTab, TabLeaves DEF Views
<1>3. CASE request[x].kind # "session"
  <2>1. request' = Without({x}) /\ view' = view
    BY <1>3 DEF Throws
  <2>2. Asking(request') = Asking(request)
    BY <1>1, <1>3, <2>1 DEF Asking
  <2>. QED
    BY <2>1, <2>2, SamePlaced
<1>. QED
  BY <1>2, <1>3

LEMMA NotRenewedPlaced ==
    ASSUME Coherent, Placed, NEW t \in Tabs, NEW waiting, NotRenewed(t, waiting)
    PROVE  Placed'
<1>1. CASE \E x \in waiting : request[x].kind # "blob"
  <2>1. request' = AllLate(Without(Of(t))) /\ view' = [view EXCEPT ![t] = "login"]
    BY <1>1 DEF NotRenewed, Clear, Store
  <2>2. Asking(request') = Asking(request) \ Of(t)
    BY <2>1, WithoutPlaces, FewerAsk, LateAsks
  <2>. QED
    BY <2>1, <2>2, TabLeaves DEF Views
<1>2. CASE ~ \E x \in waiting : request[x].kind # "blob"
  <2>1. request' = AllLate(Without(waiting)) /\ view' = view
    BY <1>2 DEF NotRenewed, Clear, Store
  <2>2. Asking(request') = Asking(request) \ waiting
    BY <2>1, WithoutPlaces, FewerAsk, LateAsks
  <2>3. Asking(request) \cap waiting = {}
    BY <1>2 DEF Asking
  <2>. QED
    BY <2>1, <2>2, <2>3, SamePlaced
<1>. QED
  BY <1>1, <1>2

LEMMA PagePlaced ==
    ASSUME Coherent, Placed, NEW t \in Tabs,
           SignIn(t) \/ SignOut(t) \/ Open(t) \/ Restore(t)
    PROVE  Placed'
<1>1. request \in [Places -> Request \cup {Idle}]
  BY DEF Coherent, Typed
<1>2. Asking(AllLate(request)) = Asking(request)
  BY <1>1, LateAsks
<1>3. CASE SignIn(t)
  <2>1. /\ view[t] = "login" /\ request' = AllLate(request)
        /\ view' = [view EXCEPT ![t] = "opening"]
    BY <1>3 DEF SignIn, Store
  <2>. QED
    BY <1>2, <2>1, TabMoves DEF Views
<1>4. CASE SignOut(t)
  <2>1. /\ view[t] = "ready" /\ request' = AllLate(request)
        /\ view' = [view EXCEPT ![t] = "login"]
    BY <1>4 DEF SignOut, Store
  <2>. QED
    BY <1>2, <2>1, TabMoves DEF Views
<1>5. CASE Open(t)
  BY <1>5, FewerAsk, TabLeaves DEF Open, Views
<1>6. CASE Restore(t) /\ access = None /\ refresh = None
  <2>1. /\ view[t] = "opening" /\ request' = AllLate(request)
        /\ view' = [view EXCEPT ![t] = "login"]
    BY <1>6 DEF Restore, Clear, Store
  <2>. QED
    BY <1>2, <2>1, TabMoves DEF Views
<1>7. CASE Restore(t) /\ ~ (access = None /\ refresh = None)
  <2>1. PICK x \in Of(t) : Free(x) /\ request' = [request EXCEPT ![x] = Sent("session", overtaken)]
    BY <1>7 DEF Restore
  <2>2. x \in Places /\ request[x] = Idle
    BY <2>1, PlaceTab DEF Free
  <2>3. Asking(request') = Asking(request) \cup {x}
    BY <2>1, <2>2, SentAsks DEF Kinds
  <2>4. view[t] = "opening" /\ view' = [view EXCEPT ![t] = "restoring"]
    BY <1>7 DEF Restore
  <2>5. /\ view' \in [Tabs -> Views] /\ view'[t] = "restoring"
        /\ \A v \in Tabs : v # t => view'[v] = view[v]
    BY <2>4 DEF Placed, Views
  <2>6. Asking(request) \cap Of(t) = {}
    BY <2>4 DEF Placed
  <2>7. PICK asking : asking = Asking(request)
    OBVIOUS
  <2>8. /\ Asking(request') \ Of(t) = asking \ Of(t)
        /\ Asking(request') \cap Of(t) = {x}
    BY <2>1, <2>3, <2>6, <2>7
  <2>. QED
    BY <2>5, <2>7, <2>8, TabPlaced
<1>. QED
  BY <1>3, <1>4, <1>5, <1>6, <1>7

LEMMA SendPlaced ==
    ASSUME Coherent, Placed, NEW x \in Places, NEW kind \in {"call", "blob"}, Send(x, kind)
    PROVE  Placed'
BY SentAsks, SamePlaced DEF Send, Free, Kinds

\* A request under way goes on, in another state.
LEMMA GoesOnAsks ==
    ASSUME Coherent, NEW x \in Places, request[x] # Idle,
           request' = [request EXCEPT ![x].state = "waiting"]
    PROVE  Asking(request') = Asking(request)
<1>1. request[x] \in Request /\ request \in [Places -> Request \cup {Idle}]
  BY DEF Coherent, Typed
<1>2. request'[x] = [request[x] EXCEPT !.state = "waiting"]
  BY <1>1
<1>3. request'[x] \in Request /\ request'[x].kind = request[x].kind
  BY <1>1, <1>2 DEF Request
<1>4. \A y \in Places : y # x => request'[y] = request[y]
  BY <1>1
<1>. QED
  BY <1>3, <1>4, IdleIsNone DEF Asking

LEMMA ServePlaced ==
    ASSUME Coherent, Placed, NEW x \in Places, Serve(x)
    PROVE  Placed'
<1>1. request[x] \in Request /\ request \in [Places -> Request \cup {Idle}] /\ request[x] # Idle
  BY IdleIsNone DEF Coherent, Typed, Serve, Idle
<1>2. request'[x] # Idle /\ request'[x].kind = request[x].kind
  <2>1. CASE Valid(request[x].token)
    <3>1. request' = [request EXCEPT ![x] = [request[x] EXCEPT !.state = "served", !.done = @ + 1]]
      BY <1>1, <2>1 DEF Serve
    <3>2. PICK s : s = [request[x] EXCEPT !.state = "served"]
      OBVIOUS
    <3>3. request'[x] = [s EXCEPT !.done = request[x].done + 1]
      BY <1>1, <3>1, <3>2
    <3>4. s.state = "served" /\ s.kind = request[x].kind
      BY <1>1, <3>2 DEF Request
    <3>5. s \in Request
      BY <1>1, <3>2 DEF Request
    <3>6. request'[x].state = "served" /\ request'[x].kind = request[x].kind
      BY <3>3, <3>4, <3>5 DEF Request
    <3>. QED
      BY <3>6 DEF Idle
  <2>2. CASE ~ Valid(request[x].token)
    <3>1. request'[x] = [request[x] EXCEPT !.state = "unauthorized"]
      BY <1>1, <2>2 DEF Serve
    <3>2. request'[x].state = "unauthorized" /\ request'[x].kind = request[x].kind
      BY <1>1, <3>1 DEF Request
    <3>. QED
      BY <3>2 DEF Idle
  <2>. QED
    BY <2>1, <2>2
<1>3. \A y \in Places : y # x => request'[y] = request[y]
  BY <1>1 DEF Serve
<1>4. Asking(request') = Asking(request)
  BY <1>1, <1>2, <1>3 DEF Asking
<1>. QED
  BY <1>4, SamePlaced DEF Serve

LEMMA AnsweredPlaced ==
    ASSUME Coherent, Placed, NEW x \in Places, Answered(x)
    PROVE  Placed'
<1>1. /\ Without({x}) \in [Places -> Request \cup {Idle}]
      /\ Asking(Without({x})) = Asking(request) \ {x}
      /\ Asking(AllLate(Without({x}))) = Asking(Without({x}))
  BY WithoutPlaces, FewerAsk, LateAsks
<1>2. request[x] # Idle
  BY DEF Answered, Idle
<1>3. CASE request[x].kind = "session"
  <2>1. Asking(request') = Asking(request) \ {x} /\ view' = [view EXCEPT ![x[1]] = "ready"]
    BY <1>1, <1>3 DEF Answered
  <2>2. x \in Asking(request)
    BY <1>2, <1>3 DEF Asking
  <2>3. Asking(request') = Asking(request) \ Of(x[1])
    BY <2>1, <2>2, OnlyOneAsks
  <2>. QED
    BY <2>1, <2>3, PlaceTab, TabLeaves DEF Views
<1>4. CASE request[x].kind # "session"
  <2>1. request' = Without({x}) /\ view' = view
    BY <1>4 DEF Answered
  <2>2. Asking(request') = Asking(request)
    BY <1>1, <1>4, <2>1 DEF Asking
  <2>. QED
    BY <2>1, <2>2, SamePlaced
<1>. QED
  BY <1>3, <1>4

LEMMA RequestPlaced ==
    ASSUME Coherent, Placed, NEW x \in Places, GoesOn(x)
    PROVE  Placed'
<1>1. CASE Fail(x)
  BY <1>1, ThrowsPlaced DEF Fail, Idle
<1>2. CASE Unauthorized(x)
  <2>1. request[x] # Idle /\ x[1] \in Tabs
    BY <1>2, PlaceTab DEF Unauthorized, Idle
  <2>2. CASE request' = [request EXCEPT ![x].state = "waiting"] /\ view' = view
    BY <2>1, <2>2, GoesOnAsks, SamePlaced
  <2>. QED
    BY <1>2, <2>1, <2>2, ThrowsPlaced, NotRenewedPlaced DEF Unauthorized
<1>. QED
  BY <1>1, <1>2, ServePlaced, AnsweredPlaced DEF GoesOn

LEMMA RenewsPlaced ==
    ASSUME Coherent, Placed, NEW t \in Tabs, Renews(t)
    PROVE  Placed'
<1>1. CASE RenewalChecked(t) \/ RenewalServed(t)
  BY <1>1, SamePlaced DEF RenewalChecked, RenewalServed
<1>2. CASE RenewalFails(t)
  BY <1>2, NotRenewedPlaced DEF RenewalFails
<1>3. CASE RenewalAnswered(t)
  <2> DEFINE pair == renewal[t].pair
             resent == [x \in Places |->
                          IF x \in Waiting(t)
                          THEN [request[x] EXCEPT !.state = "sent", !.token = pair,
                                                  !.retried = TRUE]
                          ELSE request[x]]
  <2>1. /\ request \in [Places -> Request \cup {Idle}]
        /\ renewal[t] \in Renewal /\ pair \in Nat
    <3>1. renewal[t].state = "served"
      BY <1>3 DEF RenewalAnswered
    <3>2. /\ request \in [Places -> Request \cup {Idle}]
          /\ renewal[t] \in Renewal \cup {Idle}
      BY DEF Coherent, Typed
    <3>3. renewal[t] \in Renewal
      BY <3>1, <3>2, IdleDoesNotWait
    <3>. QED
      BY <3>2, <3>3 DEF Renewal
  <2>2. ASSUME NEW x \in Places
        PROVE  \/ resent[x] = request[x]
               \/ /\ request[x] # Idle /\ resent[x] \in Request
                  /\ resent[x].kind = request[x].kind
    <3>1. CASE x \in Waiting(t)
      <4>1. request[x] \in Request /\ request[x] # Idle
        BY <2>1, <3>1, IdleIsNone DEF Waiting, Idle
      <4>2. resent[x] = Resent(request[x], pair)
        BY <3>1 DEF Resent
      <4> HIDE DEF resent, pair
      <4>. QED
        BY <2>1, <4>1, <4>2, ResentRecord
    <3>2. CASE x \notin Waiting(t)
      BY <3>2
    <3>. QED
      BY <3>1, <3>2
  <2>3. resent \in [Places -> Request \cup {Idle}]
    BY <2>1, <2>2
  <2>4. view' = view /\ request' = IF renewal[t].late THEN AllLate(resent) ELSE resent
    BY <1>3 DEF RenewalAnswered
  <2> HIDE DEF resent, pair
  <2>5. Asking(resent) = Asking(request)
    BY <2>2, IdleIsNone DEF Asking
  <2>6. Asking(AllLate(resent)) = Asking(resent)
    BY <2>3, LateAsks
  <2>. QED
    BY <2>4, <2>5, <2>6, SamePlaced
<1>. QED
  BY <1>1, <1>2, <1>3 DEF Renews

LEMMA InitPlaced == Init => Placed
<1> SUFFICES ASSUME Init PROVE Placed
  OBVIOUS
<1>1. Asking(request) = {} /\ view = [t \in Tabs |-> "login"]
  BY DEF Init, Asking
<1>. QED
  BY <1>1 DEF Placed, Views

LEMMA StepPlaced == Coherent /\ Placed /\ [Next]_vars => Placed'
<1> SUFFICES ASSUME Coherent, Placed, [Next]_vars PROVE Placed'
  OBVIOUS
<1>1. CASE UNCHANGED vars \/ \E pair \in 1..Len(login) : Expire(pair)
  BY <1>1, SamePlaced DEF vars, Expire
<1>. QED
  BY <1>1, PagePlaced, RenewsPlaced, RequestPlaced, SendPlaced DEF Next

-----------------------------------------------------------------------------
(* What was issued. *)

\* What was issued stays so, with the pairs of a step added.
LEMMA IssuedStays ==
    ASSUME Issued, Extends,
           \/ who' = who \/ who' = None \/ \E p \in Pairs' : who' = login'[p],
           stale' \subseteq stale \cup Pairs', spent' \subseteq spent \cup Pairs'
    PROVE  Issued'
<1>1. \A p \in Pairs : p \in Pairs' /\ login'[p] = login[p]
  BY DEF Extends
<1>2. who' \in {None} \cup {login'[p] : p \in Pairs'}
  BY <1>1 DEF Issued
<1>3. stale' \subseteq Pairs' /\ spent' \subseteq Pairs'
  BY <1>1 DEF Issued
<1>. QED
  BY <1>2, <1>3 DEF Issued

LEMMA StepIssued == Coherent /\ Issued /\ [Next]_vars => Issued'
<1> SUFFICES ASSUME Coherent, Issued, [Next]_vars PROVE Issued'
  OBVIOUS
<1>. login \in Seq(Nat)
  BY DEF Coherent, Typed
<1>1. ASSUME NEW t \in Tabs, SignIn(t)
      PROVE  Issued'
  <2>1. /\ login' = Append(login, Len(login) + 1) /\ Len(login) + 1 \in Nat
        /\ who' = Len(login') /\ UNCHANGED <<stale, spent>>
    BY <1>1 DEF SignIn, Store
  <2>2. /\ login' \in Seq(Nat) /\ Len(login') \in Pairs'
        /\ login'[Len(login')] = Len(login')
        /\ \A p \in Pairs : p \in Pairs' /\ login'[p] = login[p]
    BY <2>1, IssuePair
  <2>3. Extends /\ \E p \in Pairs' : who' = login'[p]
    BY <2>1, <2>2 DEF Extends
  <2>. QED
    BY <2>1, <2>3, IssuedStays
<1>2. ASSUME NEW t \in Tabs, SignOut(t) \/ Restore(t)
      PROVE  Issued'
  BY <1>2, SameLogin, IssuedStays DEF SignOut, Restore, Clear, Store, storage
<1>3. ASSUME NEW t \in Tabs, Open(t)
      PROVE  Issued'
  <2>1. UNCHANGED <<who, login, stale>> /\ Pairs' = Pairs
    BY <1>3 DEF Open, storage, Pairs
  <2>2. renewal[t] # Idle => renewal[t].token \in Pairs'
    BY <2>1 DEF Coherent, Renewing
  <2>3. spent' \subseteq spent \cup Pairs'
    BY <1>3, <2>2 DEF Open
  <2>. QED
    BY <2>1, <2>3, SameLogin, IssuedStays
<1>4. ASSUME NEW t \in Tabs, RenewalChecked(t) \/ RenewalAnswered(t)
      PROVE  Issued'
  BY <1>4, SameLogin, IssuedStays DEF RenewalChecked, RenewalAnswered, storage
<1>5. ASSUME NEW t \in Tabs, RenewalFails(t)
      PROVE  Issued'
  BY <1>5, SameLogin, IssuedStays DEF RenewalFails, NotRenewed, Clear, Store
<1>6. ASSUME NEW t \in Tabs, RenewalServed(t)
      PROVE  Issued'
  <2>1. renewal[t].token \in Pairs
    BY <1>6 DEF RenewalServed, Coherent, Renewing, Idle
  <2>2. login[renewal[t].token] \in Nat
    BY <2>1 DEF Pairs
  <2>3. PICK u \in Nat : u = login[renewal[t].token]
    BY <2>2
  <2>4. login' = Append(login, u)
    BY <1>6, <2>3 DEF RenewalServed
  <2>5. Extends
    BY <2>4, IssuePair DEF Extends
  <2>6. /\ who' = who /\ stale' = stale
        /\ spent' = spent \cup {renewal[t].token}
    BY <1>6 DEF RenewalServed, storage
  <2>7. spent' \subseteq spent \cup Pairs'
    BY <2>1, <2>5, <2>6 DEF Extends
  <2>. QED
    BY <2>5, <2>6, <2>7, IssuedStays
<1>7. ASSUME NEW x \in Places, Serve(x) \/ Fail(x) \/ Unauthorized(x)
      PROVE  Issued'
  BY <1>7, SameLogin, IssuedStays
     DEF Serve, Fail, Unauthorized, Throws, NotRenewed, Clear, Store, storage
<1>8. ASSUME NEW x \in Places, Answered(x)
      PROVE  Issued'
  <2>1. UNCHANGED <<login, stale, spent>> /\ Pairs' = Pairs
    BY <1>8 DEF Answered, Pairs
  <2>2. request[x].token \in Pairs
    <3>1. request[x] # Idle /\ request[x].state = "served"
      BY <1>8 DEF Answered, Idle
    <3>. QED
      BY <3>1 DEF Coherent, Carried, Counted
  <2>3. who' = who \/ \E p \in Pairs' : who' = login'[p]
    BY <1>8, <2>1, <2>2 DEF Answered
  <2>. QED
    BY <2>1, <2>3, SameLogin, IssuedStays
<1>9. ASSUME NEW x \in Places, NEW kind \in {"call", "blob"}, Send(x, kind)
      PROVE  Issued'
  BY <1>9, SameLogin, IssuedStays DEF Send, storage
<1>10. ASSUME NEW pair \in 1..Len(login), Expire(pair)
       PROVE  Issued'
  <2>1. UNCHANGED <<who, login, spent>> /\ stale' = stale \cup {pair} /\ pair \in Pairs'
    BY <1>10 DEF Expire, storage, Pairs
  <2>. QED
    BY <2>1, SameLogin, IssuedStays
<1>11. CASE UNCHANGED vars
  BY <1>11, SameLogin, IssuedStays DEF vars
<1>. QED
  BY <1>1, <1>2, <1>3, <1>4, <1>5, <1>6, <1>7, <1>8, <1>9, <1>10, <1>11
     DEF Next, GoesOn, Renews

-----------------------------------------------------------------------------
(* The theorems. *)

\* Every token and user in localStorage and under way was issued by the server,
\* and a tab is restoring its session (dashboard layout) exactly while its one
\* request for the session is under way.
THEOREM SessionTypeOK == Spec => []TypeOK
<1> DEFINE IInv == Coherent /\ Placed /\ Issued
<1>1. Init => IInv
  <2>1. Init => Issued
    BY DEF Init, Issued, None
  <2>. QED
    BY <2>1, InitCoherent, InitPlaced
<1>2. IInv /\ [Next]_vars => IInv'
  BY StepCoherent, StepPlaced, StepIssued
<1>3. IInv => TypeOK
  <2> SUFFICES ASSUME Coherent, Placed, Issued PROVE TypeOK
    OBVIOUS
  <2>1. ASSUME NEW x \in Places, request[x] # Idle
        PROVE  /\ request[x].kind \in Kinds /\ request[x].token \in Pairs \cup {None}
               /\ request[x].state \in {"sent", "served", "unauthorized", "waiting"}
    <3>1. request[x] \in Request /\ Counted(request[x])
      BY <2>1 DEF Coherent, Typed, Carried
    <3>. QED
      BY <3>1 DEF Request, Counted
  <2>2. ASSUME NEW t \in Tabs
        PROVE  /\ view[t] \in {"login", "opening", "restoring", "ready"}
               /\ renewal[t] # Idle => renewal[t].token \in Pairs
               /\ view[t] = "restoring" <=> \E x \in Of(t) : /\ request[x] # Idle
                                                             /\ request[x].kind = "session"
    <3>1. view[t] \in Views /\ (renewal[t] # Idle => renewal[t].token \in Pairs)
      BY DEF Placed, Coherent, Renewing
    <3>2. view[t] = "restoring" <=> Asking(request) \cap Of(t) # {}
      BY DEF Placed
    <3>3. Asking(request) \cap Of(t) # {} <=> \E x \in Of(t) : /\ request[x] # Idle
                                                               /\ request[x].kind = "session"
      BY PlaceTab DEF Asking
    <3>. QED
      BY <3>1, <3>2, <3>3 DEF Views
  <2>. QED
    BY <2>1, <2>2 DEF Coherent, Typed, Issued, TypeOK
<1>. QED
  BY <1>1, <1>2, <1>3, PTL DEF Spec

\* The tokens and the user in localStorage are of one sign-in, unless an
\* answer to what was begun before the last sign-in or sign-out was stored
\* over them (auth-storage.ts is written by any tab at any time).
THEOREM StoredIsOfOneSessionHolds == Spec => []StoredIsOfOneSession
<1>1. Coherent => StoredIsOfOneSession
  BY DEF Coherent
<1>. QED
  BY <1>1, SpecCoherent, PTL

\* A request that nothing overtook is carried out for the user it was sent
\* for, also when apiRequest sends it again with the token of a renewal.
THEOREM ServedForItsSenderHolds == Spec => []ServedForItsSender
<1>1. Coherent => ServedForItsSender
  BY DEF Coherent, Typed, Counted, Carried, ServedForItsSender, Request
<1>. QED
  BY <1>1, SpecCoherent, PTL

\* Though apiRequest sends a request a second time after an answer 401, the
\* server carries it out once at most.
THEOREM DoneAtMostOnceHolds == Spec => []DoneAtMostOnce
<1>1. Coherent => DoneAtMostOnce
  <2> SUFFICES ASSUME Coherent, NEW x \in Places, request[x] # Idle
               PROVE  request[x].done <= 1
    BY DEF DoneAtMostOnce
  <2>1. request[x].done \in {0, 1}
    BY DEF Coherent, Counted, Carried
  <2>. QED
    BY <2>1
<1>. QED
  BY <1>1, SpecCoherent, PTL

\* Whoever waits for the refreshPromise of its tab has one to wait for.
THEOREM WaitersHaveARenewalHolds == Spec => []WaitersHaveARenewal
<1>1. Coherent => WaitersHaveARenewal
  <2> SUFFICES ASSUME Coherent, NEW t \in Tabs, NEW x \in Waiting(t)
               PROVE  renewal[t] # Idle
    BY DEF WaitersHaveARenewal
  <2>1. x \in Of(t) /\ request[x].state = "waiting"
    BY DEF Waiting
  <2>2. x \in Places /\ x[1] = t
    BY <2>1, PlaceTab
  <2>. QED
    BY <2>1, <2>2 DEF Coherent
<1>. QED
  BY <1>1, SpecCoherent, PTL
=============================================================================
