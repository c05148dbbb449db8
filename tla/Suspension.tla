----------------------------- MODULE Suspension -----------------------------
(***************************************************************************)
(* Who suspends and restores a service, and why                            *)
(* (backend/customers/suspension_services.py and its callers: the staff    *)
(* views, the nightly engine and retry, payments, prepaid recharge and     *)
(* expiry, collection automation).                                         *)
(*                                                                         *)
(* Payments, recharges, expiries and network/services.py lock the service  *)
(* row: each is one action.  The staff views, the engine and the nightly   *)
(* retry read the service without a lock, look up requests in flight in a  *)
(* second statement and commit what they decided: each is several actions, *)
(* and others run between them unless Serial.  The steps of Provisioning   *)
(* are unchanged.                                                          *)
(***************************************************************************)
EXTENDS Provisioning

CONSTANTS
    Callers,   \* transactions that act on a service they did not lock
    Serial,    \* does no other transaction run between the steps of a caller?
    InOrder    \* are requests claimed in the order they were made?

ASSUME RegimeAssumption == Serial \in BOOLEAN /\ InOrder \in BOOLEAN

VARIABLES
    dues,     \* what the unpaid invoices of the service amount to
    expired,  \* prepaid service: the last paid day has passed
    log,      \* the kinds of ServiceSuspensionLog rows the service has
    caller,   \* what each caller read and decided
    cause     \* why the service was last switched off (history)

policyVars == <<dues, expired, log, caller, cause>>
allVars == <<vars, policyVars>>

\* "due" is an unpaid balance that suspends nothing: within the grace period,
\* below the minimum, or exempted by an open promise to pay.
Dues == {"clear", "due", "overdue"}
LogEvent == {"SUSPENSION", "RESTORATION"}
Cause == {"none", "dues", "expiry", "staff"}

\* The entry points of execute_service_suspension and
\* execute_service_restoration, and the nightly retry of failed restores.
Suspending == {"suspend", "force_suspend", "engine", "expiry"}
Restoring == {"restore", "force_restore", "payment"}
StaffOp == {"suspend", "force_suspend", "restore", "force_restore"}
CallerOp == StaffOp \cup {"engine", "retry", "collect"}

NoCall == [phase |-> "idle"]
Call(phase, op, seen) == [phase |-> phase, op |-> op, seen |-> seen]
CallerState == {NoCall} \cup
    [phase : {"evaluated", "read", "reuse", "create"}, op : CallerOp, seen : Status]

Calling(c) == caller[c].phase # "idle"
\* Bound: a call starts only while its request has room.
MayCall(c) == ~Calling(c) /\ Len(requests) < MaxRequests
CallerStep(c, call) ==
    /\ caller' = [caller EXCEPT ![c] = call]
    /\ UNCHANGED <<dues, expired>>

-----------------------------------------------------------------------------
(* suspension_services.py                                                  *)

ActionOf(op) == IF op \in Suspending THEN "SUSPEND" ELSE "RESTORE"
CauseOf(op) ==
    CASE op \in {"engine", "collect"} -> "dues"
      [] op = "expiry" -> "expiry"
      [] op \in {"suspend", "force_suspend"} -> "staff"
      [] OTHER -> "none"

\* Mutant: any request in flight is reused, whatever it asks for.
Queued_AnyAction(action) == ~Quiet

\* _queue_router_action: a request in flight for the same action is reused.
Queued(action) == \E r \in DOMAIN requests : InFlight(r) /\ requests[r].action = action

\* The idempotency check: the service is where the call wants it, or on the
\* way, and a log row of that kind exists.
AlreadyDone(op, seen) ==
    \/ /\ op \in Suspending
       /\ seen \in {"SUSPENDED_NON_PAYMENT", "SUSPENSION_PENDING"}
       /\ "SUSPENSION" \in log
    \/ /\ op \in Restoring
       /\ seen \in {"ACTIVE", "RESTORE_PENDING"}
       /\ "RESTORATION" \in log

Accepted(op, seen) ==
    \/ op \in {"force_suspend", "force_restore"}
    \/ op \in Suspending /\ seen \in {"ACTIVE", "GRACE_PERIOD", "SUSPENSION_PENDING"}
    \/ op \in Restoring /\ seen \in {"SUSPENDED_NON_PAYMENT", "RESTORE_PENDING", "GRACE_PERIOD"}

\* Mutant: the retry leaves a log row of a kind there is no model for.
Write_LogsRetry(op, reuse) ==
    /\ IF reuse THEN UNCHANGED <<requests, package, offered, worker, router, crashes>>
                ELSE Enqueue(ActionOf(op), package)
    /\ status' = IF op \in Suspending THEN "SUSPENSION_PENDING" ELSE "RESTORE_PENDING"
    /\ log' = log \cup {IF op = "retry" THEN "RETRY"
                         ELSE IF op \in Suspending THEN "SUSPENSION" ELSE "RESTORATION"}
    /\ cause' = CauseOf(op)

\* What a call that goes on writes in its transaction.  A retry logs nothing.
Write(op, reuse) ==
    /\ IF reuse THEN UNCHANGED <<requests, package, offered, worker, router, crashes>>
                ELSE Enqueue(ActionOf(op), package)
    /\ status' = IF op \in Suspending THEN "SUSPENSION_PENDING" ELSE "RESTORE_PENDING"
    /\ log' = IF op = "retry" THEN log
              ELSE log \cup {IF op \in Suspending THEN "SUSPENSION" ELSE "RESTORATION"}
    /\ cause' = CauseOf(op)

\* A call that ends without writing.  Staff whose request was accepted as
\* already done have still decided that the service is off, or on.
Leave(op, seen) ==
    /\ UNCHANGED <<vars, log>>
    /\ cause' = IF op \in StaffOp /\ AlreadyDone(op, seen) THEN CauseOf(op) ELSE cause

-----------------------------------------------------------------------------
(* Callers that do not lock the service.                                   *)

\* ManualServiceSuspendView, ManualServiceRestoreView; retry_failed_restorations.
Read(c, op) ==
    /\ MayCall(c)
    /\ op \in StaffOp \/ (op = "retry" /\ status = "SUSPENDED_NON_PAYMENT")
    /\ CallerStep(c, Call("read", op, status))
    /\ UNCHANGED <<vars, log, cause>>

\* run_automated_suspension_engine and run_collection_automation evaluate every
\* service first; one that waits for the router is passed over.
Evaluate(c, op) ==
    /\ MayCall(c)
    /\ op \in {"engine", "collect"}
    /\ dues = "overdue"
    /\ status \in {"ACTIVE", "GRACE_PERIOD"}
    /\ CallerStep(c, Call("evaluated", op, status))
    /\ UNCHANGED <<vars, log, cause>>

\* The engine then fetches the service again, and looks at nothing else.
Refetch(c) ==
    /\ caller[c].phase = "evaluated" /\ caller[c].op = "engine"
    /\ CallerStep(c, Call("read", "engine", status))
    /\ UNCHANGED <<vars, log, cause>>

\* process_invoice_collection hands over to request_service_suspension, which
\* locks the service and may refuse; the refusal is recorded and swallowed.
Collect(c) ==
    /\ caller[c].phase = "evaluated" /\ caller[c].op = "collect"
    /\ \/ RequestServiceSuspension /\ cause' = "dues"
       \/ /\ status \notin {"ACTIVE", "GRACE_PERIOD"} \/ ~Quiet
          /\ UNCHANGED <<vars, cause>>
    /\ CallerStep(c, NoCall)
    /\ UNCHANGED log

FailedRestoreIsNewest ==
    requests # <<>> /\ Last.action = "RESTORE" /\ Last.status = "FAILED"

GoesOn(op, seen) ==
    IF op = "retry" THEN FailedRestoreIsNewest
    ELSE ~AlreadyDone(op, seen) /\ Accepted(op, seen)

Decide(c) ==
    LET op == caller[c].op IN
    /\ caller[c].phase = "read"
    /\ \/ /\ GoesOn(op, caller[c].seen)
          /\ CallerStep(c, Call(IF Queued(ActionOf(op)) THEN "reuse" ELSE "create",
                                op, caller[c].seen))
          /\ UNCHANGED <<vars, log, cause>>
       \/ /\ ~GoesOn(op, caller[c].seen)
          /\ CallerStep(c, NoCall)
          /\ Leave(op, caller[c].seen)

Commit(c) ==
    /\ caller[c].phase \in {"reuse", "create"}
    /\ Write(caller[c].op, caller[c].phase = "reuse")
    /\ CallerStep(c, NoCall)

-----------------------------------------------------------------------------
(* Callers that lock the service.                                          *)

\* Mutant: the lock is taken for enough, and nothing is looked up under it.
ExecuteLocked_NoLookUp(op) ==
    IF ~AlreadyDone(op, status) /\ Accepted(op, status)
    THEN Write(op, FALSE)
    ELSE Leave(op, status)

\* One of the two functions, called with the locked row.
ExecuteLocked(op) ==
    IF ~AlreadyDone(op, status) /\ Accepted(op, status)
    THEN Write(op, Queued(ActionOf(op)))
    ELSE Leave(op, status)

\* record_payment_with_allocations: restoration is automatic for a suspended
\* service whose balance is cleared, or reduced if the policy says so.
RestoresOnPayment(left, partial) ==
    /\ status \in {"SUSPENDED_NON_PAYMENT", "RESTORE_PENDING"}
    /\ partial \/ left = "clear"

NoMoreThan(d) == IF d = "clear" THEN {"clear"} ELSE IF d = "due" THEN {"clear", "due"} ELSE Dues

Pay(left, partial) ==
    /\ left \in NoMoreThan(dues)
    /\ dues' = left
    /\ IF RestoresOnPayment(left, partial) THEN ExecuteLocked("payment")
                                           ELSE UNCHANGED <<vars, log, cause>>
    /\ UNCHANGED <<expired, caller>>

\* record_invoice_payment: an invoice that is now PAID asks network/services.py
\* for a restore, whatever else the service owes; a refusal is swallowed.
PayInvoice(left) ==
    /\ dues # "clear"
    /\ left \in NoMoreThan(dues)
    /\ dues' = left
    /\ \/ RequestServiceRestore /\ cause' = "none"
       \/ /\ status # "SUSPENDED_NON_PAYMENT" \/ ~Quiet
          /\ UNCHANGED <<vars, cause>>
    /\ UNCHANGED <<expired, log, caller>>

\* recharge_service: the recharge is invoiced and paid at once; the payment may
\* restore under the policy, the recharge itself restores when nothing is owed.
Recharge(partial) ==
    /\ expired' = FALSE
    /\ IF RestoresOnPayment(dues, partial) THEN ExecuteLocked("payment")
                                           ELSE UNCHANGED <<vars, log, cause>>
    /\ UNCHANGED <<dues, caller>>

\* expire_prepaid_services; its query has seen the service on.
ExpirePrepaid ==
    /\ expired
    /\ ExecuteLocked("expiry")
    /\ UNCHANGED <<dues, expired, caller>>

\* Invoices are issued and fall due, promises are made and broken, paid days
\* run out.
TimePasses ==
    /\ \/ dues' = (IF dues = "due" THEN "overdue" ELSE "due") /\ UNCHANGED expired
       \/ ~expired /\ expired' = TRUE /\ UNCHANGED dues
    /\ UNCHANGED <<vars, log, caller, cause>>

\* Staff and the API of network/services.py.
ServiceApi ==
    /\ \/ RequestServiceSuspension /\ cause' = "staff"
       \/ RequestServiceRestore /\ cause' = "none"
       \/ \E p \in Packages : RequestPackageChange(p) /\ UNCHANGED cause
       \/ \E r \in DOMAIN requests :
            \/ RetryProvisioningRequest(r) /\ cause' = IF status' = "SUSPENSION_PENDING" THEN "staff"
                                                       ELSE "none"
            \/ RecoverStale(r) /\ UNCHANGED cause
    /\ UNCHANGED <<dues, expired, log, caller>>

-----------------------------------------------------------------------------
SuspensionInit ==
    /\ Init
    /\ dues = "clear"
    /\ expired = FALSE
    /\ log = {}
    /\ caller = [c \in Callers |-> NoCall]
    /\ cause = "none"

CallerNext(c) ==
    \/ \E op \in CallerOp : Read(c, op) \/ Evaluate(c, op)
    \/ Refetch(c) \/ Collect(c) \/ Decide(c) \/ Commit(c)

\* Mutant: pending requests are claimed in any order.
ClaimsOldest_Any == TRUE

\* One queue and one worker: process_pending_provisioning orders by requested_at,
\* and the calls made on commit come in the order of the commits.
ClaimsOldest ==
    \A r \in DOMAIN requests :
        requests[r].status = "PENDING" /\ requests'[r].status = "PROCESSING" =>
            \A q \in 1 .. r - 1 : requests[q].status # "PENDING"

WorkerNext(w) ==
    /\ Execute(w) \/ Crash(w)
    /\ InOrder => ClaimsOldest
    /\ UNCHANGED policyVars

LockedNext ==
    \/ \E left \in Dues : PayInvoice(left)
    \/ \E partial \in BOOLEAN : Recharge(partial) \/ \E left \in Dues : Pay(left, partial)
    \/ ExpirePrepaid \/ TimePasses \/ ServiceApi
    \/ \E w \in Workers : WorkerNext(w)

SuspensionNext ==
    \/ \E c \in Callers : CallerNext(c) /\ (Serial => \A d \in Callers \ {c} : ~Calling(d))
    \/ LockedNext /\ (Serial => \A c \in Callers : ~Calling(c))

SuspensionSpec == SuspensionInit /\ [][SuspensionNext]_allVars

-----------------------------------------------------------------------------
\* Callers and history are well typed, and the model of provisioning below is.
SuspensionTypeOK ==
    /\ TypeOK
    /\ dues \in Dues
    /\ expired \in BOOLEAN
    /\ log \subseteq LogEvent
    /\ caller \in [Callers -> CallerState]
    /\ cause \in Cause

\* A suspension or a restore in flight is reused, not queued a second time, says
\* _queue_router_action of itself.
NoDuplicateInFlight ==
    \A q, r \in DOMAIN requests :
        InFlight(q) /\ InFlight(r) /\ requests[q].action = requests[r].action => q = r

\* A service that waits for the router has a request on the way that will
\* settle it, whoever asked and whatever else is in flight.
PendingIsUnderWay ==
    /\ status = "SUSPENSION_PENDING" => Queued("SUSPEND")
    /\ status = "RESTORE_PENDING" => Queued("RESTORE")

\* A call looked for a request in flight, and what it found is no longer so.
StaleReuse(c)  == caller[c].phase = "reuse" /\ ~Queued(ActionOf(caller[c].op))
StaleCreate(c) == caller[c].phase = "create" /\ Queued(ActionOf(caller[c].op))
Ends(c) == caller'[c] = NoCall

\* The unlocked look-up is all that breaks the two: whatever interleaves, a second
\* request for the same action is queued only by a call that looked before the
\* first was there ...
OnlyStaleCreateDuplicates ==
    [][NoDuplicateInFlight /\ ~NoDuplicateInFlight' =>
         \E c \in Callers : StaleCreate(c) /\ Ends(c)]_allVars

\* ... and a service is left waiting with nothing on the way only by a call that
\* reused a request which has ended since: no worker, recovery, retry or locked
\* caller ever forgets it.
OnlyStaleReuseForgets ==
    [][PendingIsUnderWay /\ ~PendingIsUnderWay' =>
         \E c \in Callers : StaleReuse(c) /\ Ends(c)]_allVars

\* What was owed has been settled since the service was switched off.
Settled ==
    \/ cause = "dues" /\ dues = "clear"
    \/ cause = "expiry" /\ ~expired /\ dues = "clear"

\* A service switched off for what it owed does not stay off, with nothing on
\* the way, after everything has been paid; a restore the router rejected is
\* left to the nightly retry.
PaidServiceComesBack ==
    Quiet /\ status = "SUSPENDED_NON_PAYMENT" /\ Settled => FailedRestoreIsNewest
=============================================================================
