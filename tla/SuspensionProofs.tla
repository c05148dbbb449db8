-------------------------- MODULE SuspensionProofs --------------------------
(***************************************************************************)
(* Theorems about Suspension, for any number of workers and callers.       *)
(*                                                                         *)
(* The state keeps its types whoever runs between the steps of a caller.   *)
(* Of each step it is proved that it neither duplicates a request in       *)
(* flight nor leaves the service waiting for none, unless it is the commit *)
(* of a call that did not lock the service and whose look-up is stale.     *)
(***************************************************************************)
EXTENDS Suspension, ProvisioningProofs

-----------------------------------------------------------------------------
(* Types                                                                   *)

LEMMA RequestType ==
    ASSUME TypeOK, NEW r \in DOMAIN requests
    PROVE  requests[r] \in Request /\ requests[r].action \in Action
<1>1. requests[r] \in Request
  BY DEF TypeOK
<1>. QED
  BY <1>1 DEF Request

LEMMA EnqueueType ==
    ASSUME TypeOK, NEW action \in Action, NEW target \in Packages,
           Enqueue(action, target), status' \in Status
    PROVE  TypeOK'
<1>1. NewRequest(action, target) \in Request
  BY DEF NewRequest, Request, RequestStatus
<1>2. requests \in Seq(Request) /\ requests' = Append(requests, NewRequest(action, target))
  BY DEF TypeOK, Enqueue
<1>3. /\ requests' \in Seq(Request)
      /\ DOMAIN requests' = 1 .. Len(requests) + 1 /\ DOMAIN requests = 1 .. Len(requests)
      /\ Len(requests) \in Nat
  BY <1>1, <1>2, AppendRequest
<1>4. UNCHANGED <<package, offered, worker, router, crashes>>
  BY DEF Enqueue
<1>. QED
  BY <1>3, <1>4 DEF TypeOK, Busy

\* The status of one request and of the service are written, and workers go on or end.
LEMMA StatusType ==
    ASSUME TypeOK, NEW r \in DOMAIN requests, NEW st \in RequestStatus,
           requests' = WithStatus(r, st),
           status' \in Status, package' \in Packages,
           UNCHANGED <<offered, router>>, crashes' \in Nat,
           worker' \in [Workers -> WorkerState],
           \A w \in Workers : Busy(w)' => worker'[w].request \in DOMAIN requests
    PROVE  TypeOK'
<1>1. requests' \in Seq(Request) /\ DOMAIN requests' = DOMAIN requests
  BY UpdateStatus DEF TypeOK
<1>. QED
  BY <1>1 DEF TypeOK

LEMMA WorkerStepType ==
    ASSUME TypeOK,
           UNCHANGED <<status, package, offered, requests>>,
           router' \in Router, crashes' \in Nat,
           worker' \in [Workers -> WorkerState],
           \A w \in Workers : Busy(w)' => Busy(w) /\ worker'[w].request = worker[w].request
    PROVE  TypeOK'
BY DEF TypeOK

LEMMA ClaimType ==
    ASSUME TypeOK, NEW w \in Workers, NEW r \in DOMAIN requests, Claim(w, r)
    PROVE  TypeOK'
<1>1. r \in Nat \ {0} /\ package \in Packages
  BY DEF TypeOK
<1>2. Held("claimed", r, package) \in WorkerState /\ Held("claimed", r, package).request = r
  BY <1>1 DEF WorkerState, Held
<1>3. /\ worker' = [worker EXCEPT ![w] = Held("claimed", r, package)]
      /\ requests' = WithStatus(r, "PROCESSING") /\ "PROCESSING" \in RequestStatus
      /\ UNCHANGED <<status, package, offered, router, crashes>>
  BY DEF Claim, RequestStatus
<1>4. /\ worker' \in [Workers -> WorkerState]
      /\ worker'[w].request = r
      /\ \A v \in Workers \ {w} : worker'[v] = worker[v]
  BY <1>2, <1>3 DEF TypeOK
<1>5. \A v \in Workers : Busy(v)' => worker'[v].request \in DOMAIN requests
  BY <1>4 DEF TypeOK, Busy
<1>6. status' \in Status /\ package' \in Packages /\ crashes' \in Nat
  BY <1>3 DEF TypeOK
<1>. QED
  BY <1>3, <1>4, <1>5, <1>6, StatusType

LEMMA ProvideType ==
    ASSUME TypeOK, NEW w \in Workers, Provide(w)
    PROVE  TypeOK'
<1>1. Busy(w)
  BY DEF Provide, Busy
<1>2. /\ worker[w] \in [phase : {"claimed", "applied", "raised"},
                        request : Nat \ {0}, package : Packages]
      /\ requests[worker[w].request] \in Request
  BY <1>1, HeldType
<1>3. AfterProvider(requests[worker[w].request], worker[w].package) \in Router
  BY <1>2 DEF AfterProvider, Router, Request, TypeOK
<1>4. PICK end \in {"applied", "raised"} : worker' = [worker EXCEPT ![w].phase = end]
  BY DEF Provide
<1>5. /\ worker'[w] = [worker[w] EXCEPT !.phase = end]
      /\ \A v \in Workers \ {w} : worker'[v] = worker[v]
      /\ worker' \in [Workers -> WorkerState]
  BY <1>2, <1>4 DEF TypeOK, WorkerState
<1>6. \A v \in Workers : Busy(v)' => Busy(v) /\ worker'[v].request = worker[v].request
  BY <1>1, <1>2, <1>5 DEF Busy
<1>7. router' \in Router
  BY <1>3 DEF Provide, TypeOK
<1>8. UNCHANGED <<status, package, offered, requests>> /\ crashes' \in Nat
  BY DEF Provide, TypeOK
<1>. QED
  BY <1>5, <1>6, <1>7, <1>8, WorkerStepType

LEMMA CompleteRaisesType ==
    ASSUME TypeOK, NEW w \in Workers, CompleteRaises(w)
    PROVE  TypeOK'
<1>1. Busy(w)
  BY DEF CompleteRaises, Busy
<1>2. worker[w] \in [phase : {"claimed", "applied", "raised"},
                     request : Nat \ {0}, package : Packages]
  BY <1>1, HeldType
<1>3. /\ worker'[w] = [worker[w] EXCEPT !.phase = "raised"]
      /\ \A v \in Workers \ {w} : worker'[v] = worker[v]
      /\ worker' \in [Workers -> WorkerState]
  BY <1>2 DEF CompleteRaises, TypeOK, WorkerState
<1>4. \A v \in Workers : Busy(v)' => Busy(v) /\ worker'[v].request = worker[v].request
  BY <1>1, <1>2, <1>3 DEF Busy
<1>5. /\ UNCHANGED <<status, package, offered, requests>>
      /\ router' \in Router /\ crashes' \in Nat
  BY DEF CompleteRaises, TypeOK
<1>. QED
  BY <1>3, <1>4, <1>5, WorkerStepType

LEMMA CrashType ==
    ASSUME TypeOK, NEW w \in Workers, Crash(w)
    PROVE  TypeOK'
<1>1. /\ worker' \in [Workers -> WorkerState]
      /\ \A v \in Workers : Busy(v)' => Busy(v) /\ worker'[v] = worker[v]
  BY IdleWorker DEF Crash
<1>2. /\ UNCHANGED <<status, package, offered, requests>>
      /\ router' \in Router /\ crashes' \in Nat
  BY DEF Crash, TypeOK
<1>. QED
  BY <1>1, <1>2, WorkerStepType

LEMMA CompleteType ==
    ASSUME TypeOK, NEW w \in Workers, Complete(w)
    PROVE  TypeOK'
<1> DEFINE r == worker[w].request
<1>1. Busy(w)
  BY DEF Complete, Busy
<1>2. r \in DOMAIN requests /\ requests[r] \in Request
  BY <1>1, HeldType
<1>3. /\ requests' = WithStatus(r, "SUCCEEDED") /\ "SUCCEEDED" \in RequestStatus
      /\ worker' = [worker EXCEPT ![w] = Idle]
      /\ UNCHANGED <<offered, router>> /\ crashes' \in Nat
  BY DEF Complete, RequestStatus, TypeOK
<1>4. status' \in Status /\ package' \in Packages
  <2>1. status \in Status /\ package \in Packages
    BY DEF TypeOK
  <2>2. AfterSuccess(requests[r])
    BY DEF Complete
  <2>. QED
    BY <1>2, <2>1, <2>2 DEF AfterSuccess, Status, Request, Action
<1>5. /\ worker' \in [Workers -> WorkerState]
      /\ \A v \in Workers : Busy(v)' => worker'[v].request \in DOMAIN requests
  BY <1>3, IdleWorker DEF TypeOK
<1>. QED
  BY <1>2, <1>3, <1>4, <1>5, StatusType

LEMMA FailType ==
    ASSUME TypeOK, NEW w \in Workers, Fail(w)
    PROVE  TypeOK'
<1> DEFINE r == worker[w].request
<1>1. Busy(w)
  BY DEF Fail, Busy
<1>2. r \in DOMAIN requests
  BY <1>1, HeldType
<1>3. /\ worker' = [worker EXCEPT ![w] = Idle]
      /\ UNCHANGED <<package, offered, router>> /\ crashes' \in Nat
      /\ package' \in Packages /\ router' \in Router
  BY DEF Fail, TypeOK
<1>4. /\ worker' \in [Workers -> WorkerState]
      /\ \A v \in Workers : Busy(v)' => Busy(v) /\ worker'[v] = worker[v]
  BY <1>3, IdleWorker
<1>5. \A v \in Workers : Busy(v)' => worker'[v].request \in DOMAIN requests
  BY <1>4 DEF TypeOK
<1>6. CASE MarkFailed(r)
  <2>1. requests' = WithStatus(r, "FAILED") /\ "FAILED" \in RequestStatus
    BY <1>6 DEF MarkFailed, RequestStatus
  <2>2. status' \in Status
    BY <1>6 DEF MarkFailed, Status, TypeOK
  <2>. QED
    BY <1>2, <1>3, <1>4, <1>5, <2>1, <2>2, StatusType
<1>7. CASE UNCHANGED <<requests, status>>
  BY <1>3, <1>4, <1>7, WorkerStepType
<1>. QED
  BY <1>6, <1>7 DEF Fail

LEMMA RecoverStaleType ==
    ASSUME TypeOK, NEW r \in DOMAIN requests, RecoverStale(r)
    PROVE  TypeOK'
<1>1. MarkFailed(r)
  BY DEF RecoverStale
<1>2. requests' = WithStatus(r, "FAILED") /\ "FAILED" \in RequestStatus
  BY <1>1 DEF MarkFailed, RequestStatus
<1>3. status' \in Status
  BY <1>1 DEF MarkFailed, Status, TypeOK
<1>4. /\ UNCHANGED <<package, offered, worker, router, crashes>>
      /\ package' \in Packages /\ crashes' \in Nat
      /\ worker' \in [Workers -> WorkerState]
      /\ \A v \in Workers : Busy(v)' => worker'[v].request \in DOMAIN requests
  BY DEF RecoverStale, TypeOK, Busy
<1>. QED
  BY <1>2, <1>3, <1>4, StatusType

\* The operations of network/services.py.
LEMMA ServiceType ==
    ASSUME TypeOK,
           \/ RequestServiceSuspension \/ RequestServiceRestore
           \/ \E p \in Packages : RequestPackageChange(p)
           \/ \E r \in DOMAIN requests : RetryProvisioningRequest(r)
    PROVE  TypeOK'
<1>1. status \in Status /\ package \in Packages
  BY DEF TypeOK
<1>2. CASE RequestServiceSuspension
  <2>1. /\ Enqueue("SUSPEND", package) /\ "SUSPEND" \in Action
        /\ status' \in Status
    BY <1>2 DEF RequestServiceSuspension, Action, Status
  <2>. QED
    BY <1>1, <2>1, EnqueueType
<1>3. CASE RequestServiceRestore
  <2>1. /\ Enqueue("RESTORE", package) /\ "RESTORE" \in Action
        /\ status' \in Status
    BY <1>3 DEF RequestServiceRestore, Action, Status
  <2>. QED
    BY <1>1, <2>1, EnqueueType
<1>4. ASSUME NEW p \in Packages, RequestPackageChange(p)
      PROVE  TypeOK'
  <2>1. /\ Enqueue("CHANGE_PACKAGE", p) /\ "CHANGE_PACKAGE" \in Action
        /\ status' \in Status
    BY <1>1, <1>4 DEF RequestPackageChange, Action
  <2>. QED
    BY <2>1, EnqueueType
<1>5. ASSUME NEW r \in DOMAIN requests, RetryProvisioningRequest(r)
      PROVE  TypeOK'
  <2> DEFINE a == requests[r].action
             t == requests[r].target
  <2>1. a \in Action /\ t \in Packages
    BY RequestType DEF Request
  <2>2. Enqueue(a, t)
    BY <1>5 DEF RetryProvisioningRequest
  <2>3. status' \in Status
    BY <1>1, <1>5 DEF RetryProvisioningRequest, Status
  <2>. QED
    BY <2>1, <2>2, <2>3, EnqueueType
<1>. QED
  BY <1>2, <1>3, <1>4, <1>5

LEMMA WorkerType ==
    ASSUME TypeOK, NEW w \in Workers, Execute(w) \/ Crash(w)
    PROVE  TypeOK'
BY ClaimType, ProvideType, CompleteType, CompleteRaisesType, FailType, CrashType DEF Execute

LEMMA SameType ==
    ASSUME TypeOK, UNCHANGED vars
    PROVE  TypeOK'
BY DEF TypeOK, vars, Busy

\* What Suspension adds to the state.
PolicyTypeOK ==
    /\ dues \in Dues
    /\ expired \in BOOLEAN
    /\ log \subseteq LogEvent
    /\ caller \in [Callers -> CallerState]
    /\ cause \in Cause

LEMMA TypeParts == SuspensionTypeOK <=> TypeOK /\ PolicyTypeOK
BY DEF SuspensionTypeOK, PolicyTypeOK

LEMMA CauseType == \A op : CauseOf(op) \in Cause
BY DEF CauseOf, Cause

\* What a caller that is under way remembers.
LEMMA CallType ==
    ASSUME PolicyTypeOK, NEW c \in Callers, Calling(c)
    PROVE  /\ caller[c] \in [phase : {"evaluated", "read", "reuse", "create"}, op : CallerOp,
                             seen : Status]
           /\ caller[c].op \in CallerOp /\ caller[c].seen \in Status
<1>1. caller[c] \in CallerState /\ caller[c] # NoCall
  BY DEF PolicyTypeOK, Calling, NoCall
<1>. QED
  BY <1>1 DEF CallerState

LEMMA CallerStepType ==
    ASSUME PolicyTypeOK, NEW c \in Callers, NEW call \in CallerState, CallerStep(c, call)
    PROVE  /\ caller' \in [Callers -> CallerState]
           /\ dues' \in Dues /\ expired' \in BOOLEAN
BY DEF PolicyTypeOK, CallerStep

LEMMA NewCall ==
    /\ NoCall \in CallerState
    /\ \A phase \in {"evaluated", "read", "reuse", "create"}, op \in CallerOp, seen \in Status :
         Call(phase, op, seen) \in CallerState
BY DEF CallerState, Call

LEMMA WriteType ==
    ASSUME TypeOK, PolicyTypeOK, NEW op, NEW reuse \in BOOLEAN, Write(op, reuse)
    PROVE  TypeOK' /\ log' \subseteq LogEvent /\ cause' \in Cause
<1>1. log' \subseteq LogEvent /\ cause' \in Cause
  BY CauseType DEF Write, PolicyTypeOK, LogEvent
<1>2. status' \in Status /\ package \in Packages
  BY DEF Write, Status, TypeOK
<1>3. CASE UNCHANGED <<requests, package, offered, worker, router, crashes>>
  BY <1>1, <1>2, <1>3 DEF TypeOK, Busy
<1>4. CASE Enqueue(ActionOf(op), package)
  <2>1. PICK action \in Action : action = ActionOf(op)
    BY DEF ActionOf, Action
  <2>2. Enqueue(action, package)
    BY <1>4, <2>1
  <2>. QED
    BY <1>1, <1>2, <2>2, EnqueueType
<1>. QED
  BY <1>1, <1>3, <1>4 DEF Write

LEMMA LeaveType ==
    ASSUME TypeOK, PolicyTypeOK, NEW op, NEW seen, Leave(op, seen)
    PROVE  TypeOK' /\ log' \subseteq LogEvent /\ cause' \in Cause
<1>1. TypeOK'
  BY SameType DEF Leave
<1>2. log' \subseteq LogEvent /\ cause' \in Cause
  BY CauseType DEF Leave, PolicyTypeOK
<1>. QED
  BY <1>1, <1>2

LEMMA ExecuteLockedType ==
    ASSUME TypeOK, PolicyTypeOK, NEW op, ExecuteLocked(op)
    PROVE  TypeOK' /\ log' \subseteq LogEvent /\ cause' \in Cause
<1>1. Queued(ActionOf(op)) \in BOOLEAN
  BY DEF Queued
<1>. QED
  BY <1>1, WriteType, LeaveType DEF ExecuteLocked

LEMMA CallerTypes ==
    ASSUME TypeOK, PolicyTypeOK, NEW c \in Callers, CallerNext(c)
    PROVE  TypeOK' /\ PolicyTypeOK'
<1>0. status \in Status /\ log \subseteq LogEvent /\ cause \in Cause
  BY DEF TypeOK, PolicyTypeOK
<1>1. ASSUME NEW op \in CallerOp, Read(c, op) \/ Evaluate(c, op)
      PROVE  TypeOK' /\ PolicyTypeOK'
  <2>1. PICK phase \in {"evaluated", "read"} : CallerStep(c, Call(phase, op, status))
    BY <1>1 DEF Read, Evaluate
  <2>2. Call(phase, op, status) \in CallerState
    BY <1>0, NewCall
  <2>3. UNCHANGED <<vars, log, cause>>
    BY <1>1 DEF Read, Evaluate
  <2>. QED
    BY <1>0, <2>1, <2>2, <2>3, CallerStepType, SameType DEF PolicyTypeOK
<1>2. CASE Refetch(c)
  <2>1. CallerStep(c, Call("read", "engine", status)) /\ UNCHANGED <<vars, log, cause>>
    BY <1>2 DEF Refetch
  <2>2. Call("read", "engine", status) \in CallerState
    BY <1>0, NewCall DEF CallerOp
  <2>. QED
    BY <1>0, <2>1, <2>2, CallerStepType, SameType DEF PolicyTypeOK
<1>3. CASE Collect(c)
  <2>1. TypeOK' /\ cause' \in Cause
    BY <1>0, <1>3, ServiceType, SameType DEF Collect, Cause
  <2>2. CallerStep(c, NoCall) /\ UNCHANGED log
    BY <1>3 DEF Collect
  <2>. QED
    BY <1>0, <2>1, <2>2, NewCall, CallerStepType DEF PolicyTypeOK
<1>4. CASE Decide(c)
  <2>1. Calling(c)
    BY <1>4 DEF Decide, Calling
  <2>2. caller[c].op \in CallerOp /\ caller[c].seen \in Status
    BY <2>1, CallType
  <2>3. CASE UNCHANGED <<vars, log, cause>>
    <3>1. PICK phase \in {"reuse", "create"} :
            \/ CallerStep(c, Call(phase, caller[c].op, caller[c].seen))
            \/ CallerStep(c, NoCall)
      BY <1>4 DEF Decide
    <3>2. Call(phase, caller[c].op, caller[c].seen) \in CallerState
      BY <2>2, NewCall
    <3>. QED
      BY <1>0, <2>3, <3>1, <3>2, NewCall, CallerStepType, SameType DEF PolicyTypeOK
  <2>4. CASE CallerStep(c, NoCall) /\ Leave(caller[c].op, caller[c].seen)
    BY <2>4, NewCall, CallerStepType, LeaveType DEF PolicyTypeOK
  <2>. QED
    BY <1>4, <2>3, <2>4 DEF Decide
<1>5. CASE Commit(c)
  <2>1. Write(caller[c].op, caller[c].phase = "reuse") /\ CallerStep(c, NoCall)
    BY <1>5 DEF Commit
  <2>2. TypeOK' /\ log' \subseteq LogEvent /\ cause' \in Cause
    BY <2>1, WriteType
  <2>. QED
    BY <2>1, <2>2, NewCall, CallerStepType DEF PolicyTypeOK
<1>. QED
  BY <1>1, <1>2, <1>3, <1>4, <1>5 DEF CallerNext

LEMMA PaymentTypes ==
    ASSUME TypeOK, PolicyTypeOK, NEW left \in Dues, NEW partial \in BOOLEAN,
           PayInvoice(left) \/ Recharge(partial) \/ Pay(left, partial) \/ ExpirePrepaid
    PROVE  TypeOK' /\ PolicyTypeOK'
<1>1. dues' \in Dues /\ expired' \in BOOLEAN /\ UNCHANGED caller
  BY DEF PolicyTypeOK, PayInvoice, Recharge, Pay, ExpirePrepaid
<1>2. TypeOK' /\ log' \subseteq LogEvent /\ cause' \in Cause
  <2>1. CASE \E op : ExecuteLocked(op)
    BY <2>1, ExecuteLockedType
  <2>2. CASE UNCHANGED <<vars, log, cause>>
    BY <2>2, SameType DEF PolicyTypeOK
  <2>3. CASE RequestServiceRestore /\ cause' = "none" /\ UNCHANGED log
    BY <2>3, ServiceType DEF PolicyTypeOK, Cause
  <2>. QED
    BY <2>1, <2>2, <2>3 DEF PayInvoice, Recharge, Pay, ExpirePrepaid
<1>. QED
  BY <1>1, <1>2 DEF PolicyTypeOK

LEMMA ServiceApiTypes ==
    ASSUME TypeOK, PolicyTypeOK, ServiceApi
    PROVE  TypeOK' /\ PolicyTypeOK'
<1>1. cause' \in Cause
  BY DEF ServiceApi, PolicyTypeOK, Cause
<1>2. TypeOK'
  BY ServiceType, RecoverStaleType DEF ServiceApi
<1>. QED
  BY <1>1, <1>2 DEF ServiceApi, PolicyTypeOK

LEMMA LockedTypes ==
    ASSUME TypeOK, PolicyTypeOK, LockedNext
    PROVE  TypeOK' /\ PolicyTypeOK'
<1>1. CASE TimePasses
  <2>1. dues' \in Dues /\ expired' \in BOOLEAN
    BY <1>1 DEF TimePasses, PolicyTypeOK, Dues
  <2>. QED
    BY <1>1, <2>1, SameType DEF TimePasses, PolicyTypeOK
<1>2. ASSUME NEW w \in Workers, WorkerNext(w)
      PROVE  TypeOK' /\ PolicyTypeOK'
  BY <1>2, WorkerType DEF WorkerNext, PolicyTypeOK, policyVars
<1>3. ASSUME NEW left \in Dues, PayInvoice(left)
      PROVE  TypeOK' /\ PolicyTypeOK'
  BY <1>3, PaymentTypes
<1>4. ASSUME NEW left \in Dues, NEW partial \in BOOLEAN, Recharge(partial) \/ Pay(left, partial)
      PROVE  TypeOK' /\ PolicyTypeOK'
  BY <1>4, PaymentTypes
<1>5. ASSUME NEW partial \in BOOLEAN, Recharge(partial)
      PROVE  TypeOK' /\ PolicyTypeOK'
  BY <1>5, PaymentTypes DEF PolicyTypeOK
<1>6. CASE ExpirePrepaid
  BY <1>6, PaymentTypes DEF PolicyTypeOK
<1>7. CASE ServiceApi
  BY <1>7, ServiceApiTypes
<1>. QED
  BY <1>1, <1>2, <1>3, <1>4, <1>5, <1>6, <1>7 DEF LockedNext

LEMMA NextSuspensionType ==
    ASSUME SuspensionTypeOK, [SuspensionNext]_allVars
    PROVE  SuspensionTypeOK'
<1>1. CASE UNCHANGED allVars
  BY <1>1, SameType DEF allVars, policyVars, SuspensionTypeOK
<1>. QED
  BY <1>1, TypeParts, CallerTypes, LockedTypes DEF SuspensionNext, SuspensionTypeOK, PolicyTypeOK

\* Rows, workers, callers and history keep their types, also when other transactions run
\* between what a caller reads and what it commits.
THEOREM SuspensionTypeCorrect == SuspensionSpec => []SuspensionTypeOK
<1>1. SuspensionInit => SuspensionTypeOK
  <2> SUFFICES ASSUME SuspensionInit PROVE SuspensionTypeOK
    OBVIOUS
  <2>1. TypeOK
    BY InitControl DEF SuspensionInit, Control
  <2>. QED
    BY <2>1, NewCall DEF SuspensionInit, SuspensionTypeOK, Dues, Cause
<1>2. SuspensionTypeOK /\ [SuspensionNext]_allVars => SuspensionTypeOK'
  BY NextSuspensionType
<1>. QED
  BY <1>1, <1>2, PTL DEF SuspensionSpec

-----------------------------------------------------------------------------
(* What is in flight, and the service status that waits for it             *)

\* A step that duplicates nothing, and one that forgets nothing.
NothingDuplicated == NoDuplicateInFlight => NoDuplicateInFlight'
NothingForgotten  == PendingIsUnderWay => PendingIsUnderWay'
Kept == NothingDuplicated /\ NothingForgotten

\* A step may leave the service waiting only for what it was waiting for, or what it queues.
WaitsFor(action) ==
    /\ status' = "SUSPENSION_PENDING" => action = "SUSPEND" \/ status = "SUSPENSION_PENDING"
    /\ status' = "RESTORE_PENDING" => action = "RESTORE" \/ status = "RESTORE_PENDING"

\* A new request forgets nothing, and duplicates nothing unless its action is in flight.
LEMMA EnqueueKeeps ==
    ASSUME TypeOK, NEW action \in Action, NEW target \in Packages,
           Enqueue(action, target), WaitsFor(action)
    PROVE  NothingForgotten /\ (~Queued(action) => NothingDuplicated)
<1> DEFINE n == Len(requests)
           e == NewRequest(action, target)
<1>1. e \in Request /\ e.action = action /\ e.status = "PENDING"
  BY DEF NewRequest, Request, RequestStatus
<1>2. requests \in Seq(Request) /\ requests' = Append(requests, e)
  BY DEF TypeOK, Enqueue
<1>3. PICK new \in Nat : new = n + 1
  BY <1>2
<1>4. /\ DOMAIN requests' = DOMAIN requests \cup {new} /\ new \notin DOMAIN requests
      /\ \A i \in DOMAIN requests : requests'[i] = requests[i]
      /\ requests'[new] = e
      /\ \A i \in DOMAIN requests : InFlight(i)' <=> InFlight(i)
      /\ InFlight(new)'
  <2>1. /\ DOMAIN requests' = 1 .. n + 1 /\ DOMAIN requests = 1 .. n /\ n \in Nat
        /\ \A i \in 1 .. n : requests'[i] = requests[i]
        /\ requests'[n + 1] = e
    BY <1>1, <1>2, AppendRequest
  <2>. QED
    BY <1>1, <1>3, <2>1 DEF InFlight
<1>5. ASSUME ~Queued(action)
      PROVE  NothingDuplicated
  BY <1>1, <1>4, <1>5 DEF NothingDuplicated, NoDuplicateInFlight, Queued
<1>6. Queued(action)' /\ \A a : Queued(a) => Queued(a)'
  BY <1>1, <1>4 DEF Queued
<1>7. NothingForgotten
  BY <1>6 DEF NothingForgotten, PendingIsUnderWay, WaitsFor
<1>. QED
  BY <1>5, <1>7

\* Without a new request nothing is duplicated; nothing is forgotten if the service waits
\* only for what is queued.
LEMMA NoRequestKeeps ==
    ASSUME requests' = requests
    PROVE  /\ NothingDuplicated
           /\ /\ status' = "SUSPENSION_PENDING" => Queued("SUSPEND")
              /\ status' = "RESTORE_PENDING" => Queued("RESTORE")
              => NothingForgotten
<1>1. NothingDuplicated
  BY DEF NothingDuplicated, NoDuplicateInFlight, InFlight
<1>2. \A a : Queued(a)' <=> Queued(a)
  BY DEF Queued, InFlight
<1>. QED
  BY <1>1, <1>2 DEF NothingForgotten, PendingIsUnderWay

LEMMA SameRowsKeep ==
    ASSUME requests' = requests, status' = status
    PROVE  Kept
BY DEF Kept, NothingDuplicated, NothingForgotten, NoDuplicateInFlight, PendingIsUnderWay,
       Queued, InFlight

\* A request is claimed, or ends; when it ends, the service no longer waits for it.
LEMMA StatusKeeps ==
    ASSUME TypeOK, NEW r \in DOMAIN requests, NEW st \in RequestStatus,
           requests' = WithStatus(r, st), InFlight(r), st # "PENDING",
           status' = "SUSPENSION_PENDING" =>
              /\ status = "SUSPENSION_PENDING"
              /\ requests[r].action = "SUSPEND" => st = "PROCESSING",
           status' = "RESTORE_PENDING" =>
              /\ status = "RESTORE_PENDING"
              /\ requests[r].action = "RESTORE" => st = "PROCESSING"
    PROVE  Kept
<1>1. /\ DOMAIN requests' = DOMAIN requests
      /\ requests'[r].action = requests[r].action /\ requests'[r].status = st
      /\ \A i \in DOMAIN requests : i # r => requests'[i] = requests[i]
  BY UpdateStatus DEF TypeOK
<1>2. /\ \A i \in DOMAIN requests : requests'[i].action = requests[i].action
      /\ \A i \in DOMAIN requests : InFlight(i)' => InFlight(i)
      /\ \A i \in DOMAIN requests : InFlight(i) /\ (i = r => st = "PROCESSING") => InFlight(i)'
  BY <1>1 DEF InFlight
<1>3. NothingDuplicated
  BY <1>1, <1>2 DEF NothingDuplicated, NoDuplicateInFlight
<1>4. ASSUME NEW a, Queued(a), requests[r].action = a => st = "PROCESSING"
      PROVE  Queued(a)'
  BY <1>1, <1>2, <1>4 DEF Queued
<1>5. NothingForgotten
  BY <1>4 DEF NothingForgotten, PendingIsUnderWay
<1>. QED
  BY <1>3, <1>5 DEF Kept

LEMMA QuietQueuesNothing ==
    ASSUME Quiet, NEW a
    PROVE  ~Queued(a)
BY DEF Quiet, Queued

LEMMA ServiceKeeps ==
    ASSUME TypeOK,
           \/ RequestServiceSuspension \/ RequestServiceRestore
           \/ \E p \in Packages : RequestPackageChange(p)
           \/ \E r \in DOMAIN requests : RetryProvisioningRequest(r)
    PROVE  Kept
<1>1. package \in Packages
  BY DEF TypeOK
<1>2. PICK action \in Action, target \in Packages :
        Enqueue(action, target) /\ Quiet /\ WaitsFor(action)
  <2>1. CASE RequestServiceSuspension
    BY <1>1, <2>1 DEF RequestServiceSuspension, WaitsFor, Action
  <2>2. CASE RequestServiceRestore
    BY <1>1, <2>2 DEF RequestServiceRestore, WaitsFor, Action
  <2>3. ASSUME NEW p \in Packages, RequestPackageChange(p)
        PROVE  Enqueue("CHANGE_PACKAGE", p) /\ Quiet /\ WaitsFor("CHANGE_PACKAGE")
    BY <2>3 DEF RequestPackageChange, WaitsFor
  <2>4. ASSUME NEW r \in DOMAIN requests, RetryProvisioningRequest(r)
        PROVE  /\ requests[r].action \in Action /\ requests[r].target \in Packages
               /\ Enqueue(requests[r].action, requests[r].target) /\ Quiet
               /\ WaitsFor(requests[r].action)
    <3>1. requests[r].action \in Action /\ requests[r].target \in Packages
      BY RequestType DEF Request
    <3>2. Enqueue(requests[r].action, requests[r].target) /\ Quiet
      BY <2>4 DEF RetryProvisioningRequest
    <3>3. WaitsFor(requests[r].action)
      BY <2>4 DEF RetryProvisioningRequest, WaitsFor
    <3>. QED
      BY <3>1, <3>2, <3>3
  <2>. QED
    BY <2>1, <2>2, <2>3, <2>4 DEF Action
<1>. QED
  BY <1>2, QuietQueuesNothing, EnqueueKeeps DEF Kept

LEMMA MarkFailedKeeps ==
    ASSUME TypeOK, NEW r \in DOMAIN requests, InFlight(r), MarkFailed(r)
    PROVE  Kept
<1>1. requests' = WithStatus(r, "FAILED") /\ "FAILED" \in RequestStatus
  BY DEF MarkFailed, RequestStatus
<1>2. /\ status' = "SUSPENSION_PENDING" =>
           status = "SUSPENSION_PENDING" /\ requests[r].action # "SUSPEND"
      /\ status' = "RESTORE_PENDING" =>
           status = "RESTORE_PENDING" /\ requests[r].action # "RESTORE"
  BY DEF MarkFailed
<1>. QED
  BY <1>1, <1>2, StatusKeeps

LEMMA WorkerKeeps ==
    ASSUME TypeOK, NEW w \in Workers, Execute(w) \/ Crash(w)
    PROVE  Kept
<1> DEFINE r == worker[w].request
<1>1. Busy(w) => r \in DOMAIN requests /\ requests[r] \in Request
  BY HeldType
<1>2. ASSUME NEW i \in DOMAIN requests, Claim(w, i)
      PROVE  Kept
  BY <1>2, StatusKeeps DEF Claim, InFlight, RequestStatus
<1>3. CASE Provide(w) \/ CompleteRaises(w) \/ Crash(w)
  <2>1. requests' = requests /\ status' = status
    BY <1>3 DEF Provide, CompleteRaises, Crash
  <2>. QED
    BY <2>1, SameRowsKeep
<1>4. CASE Complete(w)
  <2>1. /\ Busy(w) /\ InFlight(r) /\ requests' = WithStatus(r, "SUCCEEDED")
        /\ "SUCCEEDED" \in RequestStatus /\ AfterSuccess(requests[r])
    BY <1>4 DEF Complete, Completable, Busy, InFlight, RequestStatus
  <2>2. /\ status' = "SUSPENSION_PENDING" =>
             status = "SUSPENSION_PENDING" /\ requests[r].action # "SUSPEND"
        /\ status' = "RESTORE_PENDING" =>
             status = "RESTORE_PENDING" /\ requests[r].action # "RESTORE"
    BY <2>1 DEF AfterSuccess
  <2>. QED
    BY <1>1, <2>1, <2>2, StatusKeeps
<1>5. CASE Fail(w)
  <2>1. Busy(w)
    BY <1>5 DEF Fail, Busy
  <2>2. CASE requests[r].status = "PROCESSING"
    BY <1>1, <1>5, <2>1, <2>2, MarkFailedKeeps DEF Fail, InFlight
  <2>3. CASE requests[r].status # "PROCESSING"
    <3>1. requests' = requests /\ status' = status
      BY <1>5, <2>3 DEF Fail
    <3>. QED
      BY <3>1, SameRowsKeep
  <2>. QED
    BY <2>2, <2>3
<1>. QED
  BY <1>2, <1>3, <1>4, <1>5 DEF Execute

\* What a call that writes may break is what its look-up has got wrong.
LEMMA WriteKeeps ==
    ASSUME TypeOK, NEW op, NEW reuse \in BOOLEAN, Write(op, reuse)
    PROVE  /\ reuse \/ ~Queued(ActionOf(op)) => NothingDuplicated
           /\ ~reuse \/ Queued(ActionOf(op)) => NothingForgotten
<1>1. /\ op \in Suspending => ActionOf(op) = "SUSPEND" /\ status' = "SUSPENSION_PENDING"
      /\ op \notin Suspending => ActionOf(op) = "RESTORE" /\ status' = "RESTORE_PENDING"
  BY DEF ActionOf, Write
<1>2. PICK action \in Action : action = ActionOf(op)
  BY <1>1 DEF Action
<1>3. CASE reuse
  <2>1. requests' = requests
    BY <1>3 DEF Write
  <2>2. NothingDuplicated
    BY <2>1, NoRequestKeeps
  <2>3. ASSUME Queued(action) PROVE NothingForgotten
    BY <1>1, <1>2, <2>1, <2>3, NoRequestKeeps
  <2>. QED
    BY <1>2, <1>3, <2>2, <2>3
<1>4. CASE ~reuse
  <2>1. Enqueue(action, package) /\ package \in Packages
    BY <1>2, <1>4 DEF Write, TypeOK
  <2>2. WaitsFor(action)
    BY <1>1, <1>2 DEF WaitsFor
  <2>3. NothingForgotten /\ (~Queued(action) => NothingDuplicated)
    BY <2>1, <2>2, EnqueueKeeps
  <2>. QED
    BY <1>2, <1>4, <2>3
<1>. QED
  BY <1>3, <1>4

LEMMA LockedKeeps ==
    ASSUME TypeOK, LockedNext
    PROVE  Kept
<1>0. UNCHANGED vars => Kept
  BY SameRowsKeep DEF vars
<1>1. ASSUME NEW op, ExecuteLocked(op)
      PROVE  Kept
  <2>1. Queued(ActionOf(op)) \in BOOLEAN
    BY DEF Queued
  <2>2. CASE Write(op, Queued(ActionOf(op)))
    BY <2>1, <2>2, WriteKeeps DEF Kept
  <2>3. CASE Leave(op, status)
    BY <1>0, <2>3 DEF Leave
  <2>. QED
    BY <1>1, <2>2, <2>3 DEF ExecuteLocked
<1>2. ASSUME \/ TimePasses \/ ExpirePrepaid
             \/ \E left \in Dues : PayInvoice(left)
             \/ \E partial \in BOOLEAN : Recharge(partial) \/ \E left \in Dues : Pay(left, partial)
      PROVE  Kept
  <2>1. \/ UNCHANGED vars
        \/ \E op : ExecuteLocked(op)
        \/ RequestServiceRestore
    BY <1>2 DEF TimePasses, ExpirePrepaid, PayInvoice, Recharge, Pay
  <2>. QED
    BY <1>0, <1>1, <2>1, ServiceKeeps
<1>3. CASE ServiceApi
  <2>1. ASSUME NEW r \in DOMAIN requests, RecoverStale(r)
        PROVE  Kept
    BY <2>1, MarkFailedKeeps DEF RecoverStale, InFlight
  <2>. QED
    BY <1>3, <2>1, ServiceKeeps DEF ServiceApi
<1>4. ASSUME NEW w \in Workers, WorkerNext(w)
      PROVE  Kept
  BY <1>4, WorkerKeeps DEF WorkerNext
<1>. QED
  BY <1>2, <1>3, <1>4 DEF LockedNext

-----------------------------------------------------------------------------
(* Callers that do not lock the service                                    *)

LEMMA CommitKeeps ==
    ASSUME SuspensionTypeOK, NEW c \in Callers, Commit(c)
    PROVE  /\ Ends(c)
           /\ StaleCreate(c) \/ NothingDuplicated
           /\ StaleReuse(c) \/ NothingForgotten
<1>1. /\ caller[c].phase \in {"reuse", "create"}
      /\ Write(caller[c].op, caller[c].phase = "reuse")
      /\ CallerStep(c, NoCall)
  BY DEF Commit
<1>2. PICK reuse \in BOOLEAN : reuse = (caller[c].phase = "reuse")
  OBVIOUS
<1>3. Write(caller[c].op, reuse)
  BY <1>1, <1>2
<1>4. TypeOK
  BY DEF SuspensionTypeOK
<1>5. /\ reuse \/ ~Queued(ActionOf(caller[c].op)) => NothingDuplicated
      /\ ~reuse \/ Queued(ActionOf(caller[c].op)) => NothingForgotten
  BY <1>3, <1>4, WriteKeeps
<1>6. Ends(c)
  BY <1>1 DEF Ends, CallerStep, SuspensionTypeOK
<1>. QED
  BY <1>1, <1>2, <1>5, <1>6 DEF StaleReuse, StaleCreate

LEMMA CallerKeeps ==
    ASSUME SuspensionTypeOK, NEW c \in Callers, CallerNext(c), ~Commit(c)
    PROVE  Kept
<1>1. TypeOK
  BY DEF SuspensionTypeOK
<1>2. CASE Collect(c)
  <2>1. RequestServiceSuspension \/ UNCHANGED vars
    BY <1>2 DEF Collect
  <2>. QED
    BY <1>1, <2>1, ServiceKeeps, SameRowsKeep DEF vars
<1>3. CASE ~Collect(c)
  <2>1. UNCHANGED vars
    BY <1>3 DEF CallerNext, Read, Evaluate, Refetch, Decide, Leave
  <2>. QED
    BY <2>1, SameRowsKeep DEF vars
<1>. QED
  BY <1>2, <1>3

\* Every step keeps both, or is the commit of a caller whose look-up is stale.
LEMMA StepKeeps ==
    ASSUME SuspensionTypeOK, [SuspensionNext]_allVars
    PROVE  /\ NothingDuplicated \/ \E c \in Callers : StaleCreate(c) /\ Ends(c)
           /\ NothingForgotten \/ \E c \in Callers : StaleReuse(c) /\ Ends(c)
<1>1. ASSUME NEW c \in Callers, CallerNext(c)
      PROVE  /\ NothingDuplicated \/ (StaleCreate(c) /\ Ends(c))
             /\ NothingForgotten \/ (StaleReuse(c) /\ Ends(c))
  <2>1. CASE Commit(c)
    BY <2>1, CommitKeeps
  <2>2. CASE ~Commit(c)
    <3>1. Kept
      BY <1>1, <2>2, CallerKeeps
    <3>. QED
      BY <3>1 DEF Kept
  <2>. QED
    BY <2>1, <2>2
<1>2. CASE LockedNext
  BY <1>2, LockedKeeps DEF Kept, SuspensionTypeOK
<1>3. CASE UNCHANGED allVars
  BY <1>3, SameRowsKeep DEF allVars, vars, Kept
<1>. QED
  BY <1>1, <1>2, <1>3 DEF SuspensionNext

\* However staff, the engine, retries, payments, workers and recovery interleave, a second
\* suspension or restore is queued beside one in flight only by an unlocked call that
\* looked before the first was there (_queue_router_action).
THEOREM OnlyTheUnlockedLookUpDuplicates == SuspensionSpec => OnlyStaleCreateDuplicates
<1>1. SuspensionTypeOK /\ [SuspensionNext]_allVars
        => [NoDuplicateInFlight /\ ~NoDuplicateInFlight' =>
              \E c \in Callers : StaleCreate(c) /\ Ends(c)]_allVars
  BY StepKeeps DEF NothingDuplicated
<1>. QED
  BY <1>1, SuspensionTypeCorrect, PTL DEF SuspensionSpec, OnlyStaleCreateDuplicates

\* A service that waits for the router loses the request that would settle it only to an
\* unlocked call that reused a request which had ended by the time it committed: a request
\* that ends, by its worker or by recovery, takes the pending status with it, and every
\* other call reuses what is in flight or queues its own.
THEOREM OnlyTheUnlockedLookUpForgets == SuspensionSpec => OnlyStaleReuseForgets
<1>1. SuspensionTypeOK /\ [SuspensionNext]_allVars
        => [PendingIsUnderWay /\ ~PendingIsUnderWay' =>
              \E c \in Callers : StaleReuse(c) /\ Ends(c)]_allVars
  BY StepKeeps DEF NothingForgotten
<1>. QED
  BY <1>1, SuspensionTypeCorrect, PTL DEF SuspensionSpec, OnlyStaleReuseForgets
=============================================================================
