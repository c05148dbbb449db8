---------------------------- MODULE Provisioning ----------------------------
(***************************************************************************)
(* One service account, its provisioning requests, the workers that carry  *)
(* the requests to the router, and the router itself                       *)
(* (backend/network/services.py, provisioning.py, providers/mikrotik.py    *)
(* and the recovery command).                                              *)
(*                                                                         *)
(* A request is created in one transaction and executed in three others:   *)
(* claim (PENDING to PROCESSING), the router call outside any transaction, *)
(* and complete or fail.  Every operation of network/services.py locks the *)
(* service row and refuses while a request is in flight; claim, complete   *)
(* and fail lock the request together with the service row, because        *)
(* select_for_update with select_related locks the joined rows.  Each      *)
(* transaction is therefore one action; the interleaving is between them.  *)
(* The requests of customers/suspension_services.py, which look for less   *)
(* and lock less, are in module Suspension, which extends this one.        *)
(***************************************************************************)
EXTENDS Integers, Sequences

CONSTANTS
    Packages,           \* internet packages of the tenant
    Workers,            \* processes that may execute a request
    MaxRequests,        \* bound: requests created for the service
    MaxCrashes,         \* bound: worker processes lost while executing
    RecoverSlowWorkers  \* may --minutes be shorter than a live execution?

ASSUME PackagesAssumption == Packages # {}
ASSUME BoundsAssumption == MaxRequests \in Nat \ {0} /\ MaxCrashes \in Nat
ASSUME RecoverAssumption == RecoverSlowWorkers \in BOOLEAN

VARIABLES
    status,    \* ServiceAccount.status
    package,   \* ServiceAccount.internet_package
    offered,   \* packages with is_active = True
    requests,  \* ProvisioningRequest rows in the order of requested_at
    worker,    \* what each worker process holds in memory
    router,    \* the PPPoE secret of the subscriber on the router
    crashes    \* workers lost so far (history, bounded)

vars == <<status, package, offered, requests, worker, router, crashes>>

Status == {"ACTIVE", "GRACE_PERIOD", "SUSPENSION_PENDING",
           "SUSPENDED_NON_PAYMENT", "RESTORE_PENDING"}
Action == {"ACTIVATE", "SUSPEND", "RESTORE", "CHANGE_PACKAGE"}
RequestStatus == {"PENDING", "PROCESSING", "SUCCEEDED", "FAILED"}

\* "target" is requested_payload.target_package_id; it means something only
\* for CHANGE_PACKAGE, other requests carry the package of the moment.
Request == [action : Action, target : Packages, status : RequestStatus]
NewRequest(action, target) ==
    [action |-> action, target |-> target, status |-> "PENDING"]

\* A worker runs execute_provisioning_request: "claimed" before the router
\* call, "applied" after it returned, "raised" after it raised.  It keeps the
\* package it read with the request at claim time.
Idle == [phase |-> "idle"]
Held(phase, r, p) == [phase |-> phase, request |-> r, package |-> p]
WorkerState == {Idle} \cup
    [phase : {"claimed", "applied", "raised"}, request : Nat \ {0}, package : Packages]

\* The secret is absent until something adds it; a disabled secret keeps the
\* profile it had, which no longer matters until it is enabled again.
Router == [secret : {"absent", "enabled", "disabled"}, profile : Packages]
Online == router.secret = "enabled"

-----------------------------------------------------------------------------
(* The questions the code asks of the request table.                       *)

InFlight(r) == requests[r].status \in {"PENDING", "PROCESSING"}
Quiet == \A r \in DOMAIN requests : ~InFlight(r)
Last == requests[Len(requests)]
WithStatus(r, st) == [requests EXCEPT ![r].status = st]
Busy(w) == worker[w].phase # "idle"

\* Mutant: a restore only clears the disabled flag and keeps the old profile.
AfterProvider_KeepsProfile(req, snapshot) ==
    [secret  |-> IF req.action = "SUSPEND"
                 THEN IF router.secret = "absent" THEN "absent" ELSE "disabled"
                 ELSE "enabled",
     profile |-> CASE req.action = "CHANGE_PACKAGE" -> req.target
                   [] req.action = "ACTIVATE" -> snapshot
                   [] OTHER -> router.profile]

\* Effect of one provider call on the router.  The router converges: the
\* outcome does not depend on what the secret looked like, except that a
\* suspension leaves a missing secret missing.
AfterProvider(req, snapshot) ==
    IF req.action = "SUSPEND"
    THEN [router EXCEPT !.secret = IF @ = "absent" THEN @ ELSE "disabled"]
    ELSE [secret  |-> "enabled",
          profile |-> IF req.action = "CHANGE_PACKAGE" THEN req.target ELSE snapshot]

-----------------------------------------------------------------------------
(* A service is created ACTIVE with an ACTIVATE request queued, by customer *)
(* activation or by an import that creates it on the router; an import may  *)
(* then mark it suspended.  An import that leaves the router alone records  *)
(* the link only, for a subscriber that is live on the router.              *)

CreatedOnRouter ==
    /\ status \in {"ACTIVE", "SUSPENDED_NON_PAYMENT"}
    /\ requests = <<NewRequest("ACTIVATE", package)>>
    /\ router.secret = "absent"

ImportedLive ==
    /\ status = "ACTIVE"
    /\ requests = <<>>
    /\ router = [secret |-> "enabled", profile |-> package]

Init ==
    /\ package \in Packages
    /\ offered = Packages
    /\ status \in Status
    /\ router \in Router
    /\ CreatedOnRouter \/ ImportedLive
    /\ worker = [w \in Workers |-> Idle]
    /\ crashes = 0

-----------------------------------------------------------------------------
(* network/services.py: the operations staff and collections call.         *)

Enqueue(action, target) ==
    /\ Len(requests) < MaxRequests
    /\ requests' = Append(requests, NewRequest(action, target))
    /\ UNCHANGED <<package, offered, worker, router, crashes>>

RequestServiceSuspension ==
    /\ status \in {"ACTIVE", "GRACE_PERIOD"}
    /\ Quiet
    /\ Enqueue("SUSPEND", package)
    /\ status' = "SUSPENSION_PENDING"

RequestServiceRestore ==
    /\ status = "SUSPENDED_NON_PAYMENT"
    /\ Quiet
    /\ Enqueue("RESTORE", package)
    /\ status' = "RESTORE_PENDING"

\* Mutant: the package is written with the request instead of on success.
RequestPackageChange_Immediate(p) ==
    /\ status = "ACTIVE"
    /\ p \in offered \ {package}
    /\ Quiet
    /\ Len(requests) < MaxRequests
    /\ requests' = Append(requests, NewRequest("CHANGE_PACKAGE", p))
    /\ package' = p
    /\ UNCHANGED <<status, offered, worker, router, crashes>>

RequestPackageChange(p) ==
    /\ status = "ACTIVE"
    /\ p \in offered \ {package}
    /\ Quiet
    /\ Enqueue("CHANGE_PACKAGE", p)
    /\ UNCHANGED status

\* Only the newest request can be retried.  Activations and package changes
\* are re-queued whatever the status of the service is.
RetryProvisioningRequest(r) ==
    /\ r = Len(requests)
    /\ requests[r].status = "FAILED"
    /\ Quiet
    /\ Enqueue(requests[r].action, requests[r].target)
    /\ CASE requests[r].action = "SUSPEND" ->
              status \in {"ACTIVE", "GRACE_PERIOD"} /\ status' = "SUSPENSION_PENDING"
         [] requests[r].action = "RESTORE" ->
              status = "SUSPENDED_NON_PAYMENT" /\ status' = "RESTORE_PENDING"
         [] OTHER -> UNCHANGED status

\* A package is withdrawn from sale or offered again by staff.
SetPackageOffered(p) ==
    /\ offered' = IF p \in offered THEN offered \ {p} ELSE offered \cup {p}
    /\ UNCHANGED <<status, package, requests, worker, router, crashes>>

-----------------------------------------------------------------------------
(* provisioning.py: one worker executes one request.                       *)

\* Mutant: a second delivery claims a request that is being processed.
Claim_AnyOpen(w, r) ==
    /\ ~Busy(w)
    /\ InFlight(r)
    /\ requests' = WithStatus(r, "PROCESSING")
    /\ worker' = [worker EXCEPT ![w] = Held("claimed", r, package)]
    /\ UNCHANGED <<status, package, offered, router, crashes>>

Claim(w, r) ==
    /\ ~Busy(w)
    /\ requests[r].status = "PENDING"
    /\ requests' = WithStatus(r, "PROCESSING")
    /\ worker' = [worker EXCEPT ![w] = Held("claimed", r, package)]
    /\ UNCHANGED <<status, package, offered, router, crashes>>

\* The provider call: it returns, is refused or unreachable before it changed
\* anything, or is interrupted after it changed the secret (the session drop
\* that follows fails, or the answer is lost).
Provide(w) ==
    LET held == worker[w] IN
    /\ held.phase = "claimed"
    /\ \/ /\ router' = AfterProvider(requests[held.request], held.package)
          /\ \E end \in {"applied", "raised"} : worker' = [worker EXCEPT ![w].phase = end]
       \/ /\ worker' = [worker EXCEPT ![w].phase = "raised"]
          /\ UNCHANGED router
    /\ UNCHANGED <<status, package, offered, requests, crashes>>

\* Mutant: a status the service does not have.
AfterSuccess_UnknownStatus(req) ==
    CASE req.action \in {"ACTIVATE", "RESTORE"} -> status' = "ACTIVE" /\ UNCHANGED package
      [] req.action = "SUSPEND" -> status' = "SUSPENDED" /\ UNCHANGED package
      [] OTHER -> package' = req.target /\ UNCHANGED status

\* _apply_successful_service_transition; a package withdrawn since the request
\* was made raises.
AfterSuccess(req) ==
    CASE req.action \in {"ACTIVATE", "RESTORE"} -> status' = "ACTIVE" /\ UNCHANGED package
      [] req.action = "SUSPEND" -> status' = "SUSPENDED_NON_PAYMENT" /\ UNCHANGED package
      [] OTHER -> package' = req.target /\ UNCHANGED status

Completable(r) ==
    /\ requests[r].status = "PROCESSING"
    /\ requests[r].action = "CHANGE_PACKAGE" => requests[r].target \in offered

Complete(w) ==
    LET r == worker[w].request IN
    /\ worker[w].phase = "applied"
    /\ Completable(r)
    /\ requests' = WithStatus(r, "SUCCEEDED")
    /\ AfterSuccess(requests[r])
    /\ worker' = [worker EXCEPT ![w] = Idle]
    /\ UNCHANGED <<offered, router, crashes>>

\* _complete_provisioning_request raises and leaves everything as it was.
CompleteRaises(w) ==
    /\ worker[w].phase = "applied"
    /\ ~Completable(worker[w].request)
    /\ worker' = [worker EXCEPT ![w].phase = "raised"]
    /\ UNCHANGED <<status, package, offered, requests, router, crashes>>

\* Mutant: the request fails and the service keeps its pending status.
MarkFailed_KeepsStatus(r) ==
    /\ requests' = WithStatus(r, "FAILED")
    /\ UNCHANGED status

\* _fail_provisioning_request on request r: the service goes back to the side
\* it came from, unless it has moved on since.
MarkFailed(r) ==
    /\ requests' = WithStatus(r, "FAILED")
    /\ status' =
         CASE requests[r].action = "SUSPEND" /\ status = "SUSPENSION_PENDING" -> "ACTIVE"
           [] requests[r].action = "RESTORE" /\ status = "RESTORE_PENDING" ->
                "SUSPENDED_NON_PAYMENT"
           [] OTHER -> status

\* Mutant: the exception is logged and the request left as it is.
Fail_Swallowed(w) ==
    /\ worker[w].phase = "raised"
    /\ worker' = [worker EXCEPT ![w] = Idle]
    /\ UNCHANGED <<status, package, offered, requests, router, crashes>>

Fail(w) ==
    LET r == worker[w].request IN
    /\ worker[w].phase = "raised"
    /\ IF requests[r].status = "PROCESSING"
       THEN MarkFailed(r)
       ELSE UNCHANGED <<requests, status>>
    /\ worker' = [worker EXCEPT ![w] = Idle]
    /\ UNCHANGED <<package, offered, router, crashes>>

\* The worker process dies; the request stays PROCESSING.
Crash(w) ==
    /\ Busy(w)
    /\ crashes < MaxCrashes
    /\ crashes' = crashes + 1
    /\ worker' = [worker EXCEPT ![w] = Idle]
    /\ UNCHANGED <<status, package, offered, requests, router>>

Working(r) == \E w \in Workers : Busy(w) /\ worker[w].request = r

\* manage.py recover_stale_provisioning, run by an operator: it judges a
\* request by its age alone.
RecoverStale(r) ==
    /\ requests[r].status = "PROCESSING"
    /\ Working(r) => RecoverSlowWorkers
    /\ MarkFailed(r)
    /\ UNCHANGED <<package, offered, worker, router, crashes>>

-----------------------------------------------------------------------------
Execute(w) ==
    \/ \E r \in DOMAIN requests : Claim(w, r)
    \/ Provide(w)
    \/ Complete(w)
    \/ CompleteRaises(w)
    \/ Fail(w)

Lifecycle ==
    \/ RequestServiceSuspension
    \/ RequestServiceRestore
    \/ \E p \in Packages : RequestPackageChange(p) \/ SetPackageOffered(p)
    \/ \E r \in DOMAIN requests : RetryProvisioningRequest(r) \/ RecoverStale(r)

Next ==
    \/ Lifecycle
    \/ \E w \in Workers : Execute(w) \/ Crash(w)

Spec == Init /\ [][Next]_vars

\* A committed request is delivered at once, and again each minute by
\* process_pending_provisioning while it is PENDING, so workers do not stay
\* idle beside a pending request; a worker that runs goes on to the end.
Fairness == \A w \in Workers : WF_vars(Execute(w))

FairSpec == Spec /\ Fairness

-----------------------------------------------------------------------------
(* What makes provisioning correct.                                        *)

TypeOK ==
    /\ status \in Status
    /\ package \in Packages
    /\ offered \in SUBSET Packages
    /\ requests \in Seq(Request)
    /\ worker \in [Workers -> WorkerState]
    /\ \A w \in Workers : Busy(w) => worker[w].request \in DOMAIN requests
    /\ router \in Router
    /\ crashes \in Nat

\* A request is executed by one worker at most, however often it is delivered:
\* nobody holds a request that is still up for a claim, and no two workers
\* hold the same one (_claim_provisioning_request; recovery re-executes nothing).
OneWorkerPerRequest ==
    \A w \in Workers : Busy(w) =>
        /\ requests[worker[w].request].status # "PENDING"
        /\ \A v \in Workers \ {w} : Busy(v) => worker[v].request # worker[w].request

\* The operations of network/services.py refuse while a request is in flight, so
\* as long as nothing else makes requests the one in flight is the newest.  The
\* properties below rest on it and hold as far as it does: suspension_services.py
\* queues beside a request in flight, and module Suspension shows what is left.
OneRequestInFlight ==
    \A r \in DOMAIN requests : InFlight(r) => r = Len(requests)

\* A pending service status is never left without the request that will
\* settle it, and a suspension or a restore in flight is never forgotten by
\* the service: every failure and every recovery moves both together.
PendingStatusHasItsRequest ==
    /\ status = "SUSPENSION_PENDING" <=>
         \E r \in DOMAIN requests : InFlight(r) /\ requests[r].action = "SUSPEND"
    /\ status = "RESTORE_PENDING" <=>
         \E r \in DOMAIN requests : InFlight(r) /\ requests[r].action = "RESTORE"

\* The router does what the service row says.
Agree ==
    CASE status \in {"ACTIVE", "GRACE_PERIOD"} -> Online /\ router.profile = package
      [] status = "SUSPENDED_NON_PAYMENT" -> ~Online
      [] OTHER -> FALSE

\* When nothing is in flight, the router agrees with the service unless the
\* newest request FAILED: a lost answer, a crash or a recovery may leave the two
\* apart, but never silently.  A service nothing was ever requested for is taken
\* as its import declared it.
RouterFollowsService ==
    Quiet => Agree \/ (requests # <<>> /\ Last.status = "FAILED")

\* What the router looks like after the call for a request returned.
Served(req) ==
    CASE req.action = "SUSPEND" -> ~Online
      [] req.action = "CHANGE_PACKAGE" -> Online /\ router.profile = req.target
      [] OTHER -> Online /\ router.profile = package

\* What RouterFollowsService rests on while requests are being executed: a
\* worker holds an open request and the package the service still has, a call
\* that returned has served its request, and behind a package change the
\* service is ACTIVE.
WorkersAreCurrent ==
    /\ \A w \in Workers : Busy(w) =>
         /\ requests[worker[w].request].status = "PROCESSING"
         /\ worker[w].package = package
         /\ worker[w].phase = "applied" => Served(requests[worker[w].request])
    /\ requests # <<>> /\ Last.action = "CHANGE_PACKAGE" => status = "ACTIVE"

\* The customer's package changes only once the router serves the new one.
PackageChangesAfterRouter ==
    [][package' # package => Online /\ router.profile = package']_vars

\* Claimed by a worker that is no more.
Orphaned(r) ==
    /\ requests[r].status = "PROCESSING"
    /\ ~Working(r)
    /\ crashes > 0

\* A request that is in flight ends, or its worker died after the claim and it
\* waits for an operator to recover it.
EndsOrIsOrphaned ==
    \A r \in 1 .. MaxRequests :
        (r \in DOMAIN requests /\ InFlight(r)) ~>
        (r \in DOMAIN requests /\ (~InFlight(r) \/ Orphaned(r)))

-----------------------------------------------------------------------------
(* What all this implements. *)

Line       == IF Online THEN router.profile ELSE "off"
OpenOrder  == IF Quiet THEN [action |-> "none"]
              ELSE [action |-> Last.action, target |-> Last.target]
Answered   == \E w \in Workers : worker[w].phase = "applied"
LastFailed == requests # <<>> /\ Last.status = "FAILED"

Promised == INSTANCE Service WITH
    line <- Line, order <- OpenOrder, known <- Answered, failed <- LastFailed

\* Provisioning keeps what Service promises: with its workers, deliveries,
\* lost answers, crashes and recoveries, the service only ever changes as one
\* order at a time is opened, carried out on the line and settled or given up.
KeepsThePromise == Promised!Spec
=============================================================================
