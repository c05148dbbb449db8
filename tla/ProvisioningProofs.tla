------------------------- MODULE ProvisioningProofs -------------------------
(***************************************************************************)
(* Proofs about Provisioning, for any packages, workers and bounds.        *)
(*                                                                         *)
(* Control is the inductive invariant for what the request table and the   *)
(* service row owe each other; it does not look at the router and needs no *)
(* assumption about recovery.  Delivery adds the router: what each worker  *)
(* holds is still open, its package is still the service's, and a call     *)
(* that returned has left the router as the request wants it.  That holds  *)
(* as long as recovery spares live workers, and so does the refinement of  *)
(* Service that the last part proves.                                      *)
(***************************************************************************)
EXTENDS Provisioning, TLAPS

-----------------------------------------------------------------------------
(* The two ways the table changes.                                         *)

\* A new row is added behind the others.
LEMMA AppendRequest ==
    ASSUME NEW s \in Seq(Request), NEW e \in Request
    PROVE  /\ Append(s, e) \in Seq(Request)
           /\ Len(Append(s, e)) = Len(s) + 1
           /\ DOMAIN Append(s, e) = 1 .. Len(s) + 1
           /\ \A i \in 1 .. Len(s) : Append(s, e)[i] = s[i]
           /\ Append(s, e)[Len(s) + 1] = e
OBVIOUS

\* The status of one row is written and nothing else.
LEMMA UpdateStatus ==
    ASSUME requests \in Seq(Request), NEW r \in DOMAIN requests, NEW st \in RequestStatus
    PROVE  /\ WithStatus(r, st) \in Seq(Request)
           /\ Len(WithStatus(r, st)) = Len(requests)
           /\ DOMAIN WithStatus(r, st) = DOMAIN requests
           /\ WithStatus(r, st)[r].action = requests[r].action
           /\ WithStatus(r, st)[r].target = requests[r].target
           /\ WithStatus(r, st)[r].status = st
           /\ \A i \in DOMAIN requests : i # r => WithStatus(r, st)[i] = requests[i]
<1> DEFINE s == requests
           t == WithStatus(r, st)
<1>1. /\ DOMAIN s = 1 .. Len(s)
      /\ Len(s) \in Nat
      /\ \A i \in DOMAIN s : s[i] \in Request
  OBVIOUS
<1>2. s[r] \in Request
  BY <1>1
<1>3. t = [i \in 1 .. Len(s) |-> IF i = r THEN [s[r] EXCEPT !.status = st] ELSE s[i]]
  BY <1>1 DEF WithStatus
<1>4. [s[r] EXCEPT !.status = st] = [action |-> s[r].action, target |-> s[r].target, status |-> st]
  BY <1>2 DEF Request
<1>5. [s[r] EXCEPT !.status = st] \in Request
  BY <1>2, <1>4 DEF Request
<1>6. t \in [1 .. Len(s) -> Request]
  BY <1>1, <1>3, <1>5
<1>7. t \in Seq(Request) /\ Len(t) = Len(s)
  BY <1>1, <1>6
<1>. QED
  BY <1>1, <1>3, <1>4, <1>7

-----------------------------------------------------------------------------
(* Control: types, one request in flight, and the status that announces it. *)

Control ==
    /\ TypeOK
    /\ OneRequestInFlight
    /\ PendingStatusHasItsRequest
    /\ OneWorkerPerRequest

LEMMA InitControl == Init => Control
<1> SUFFICES ASSUME Init PROVE Control
  OBVIOUS
<1>1. package \in Packages /\ offered = Packages /\ status \in Status /\ router \in Router
  BY DEF Init
<1>2. /\ worker = [w \in Workers |-> Idle]
      /\ \A w \in Workers : ~Busy(w)
      /\ crashes = 0
  BY DEF Init, Busy, Idle
<1>3. CASE CreatedOnRouter
  <2>1. /\ requests = <<[action |-> "ACTIVATE", target |-> package, status |-> "PENDING"]>>
        /\ requests \in Seq(Request)
        /\ Len(requests) = 1 /\ DOMAIN requests = {1}
        /\ requests[1].action = "ACTIVATE"
    BY <1>1, <1>3 DEF CreatedOnRouter, NewRequest, Request, Action, RequestStatus
  <2>2. status \notin {"SUSPENSION_PENDING", "RESTORE_PENDING"}
    BY <1>3 DEF CreatedOnRouter
  <2>. QED
    BY <1>1, <1>2, <2>1, <2>2
    DEF Control, TypeOK, OneRequestInFlight, PendingStatusHasItsRequest,
        OneWorkerPerRequest, WorkerState, InFlight
<1>4. CASE ImportedLive
  <2>1. /\ requests = <<>> /\ requests \in Seq(Request) /\ DOMAIN requests = {}
        /\ status = "ACTIVE"
    BY <1>4 DEF ImportedLive
  <2>. QED
    BY <1>1, <1>2, <2>1
    DEF Control, TypeOK, OneRequestInFlight, PendingStatusHasItsRequest,
        OneWorkerPerRequest, WorkerState
<1>. QED
  BY <1>3, <1>4 DEF Init

\* What is in flight after a request of some action was queued on a quiet
\* service: that request and nothing else.
LEMMA EnqueueControl ==
    ASSUME Control, Quiet,
           NEW action \in Action, NEW target \in Packages,
           Enqueue(action, target),
           status' \in Status,
           status' = "SUSPENSION_PENDING" <=> action = "SUSPEND",
           status' = "RESTORE_PENDING" <=> action = "RESTORE"
    PROVE  Control'
<1> DEFINE n == Len(requests)
           e == NewRequest(action, target)
<1>1. e \in Request /\ e.action = action /\ e.status = "PENDING"
  BY DEF NewRequest, Request, RequestStatus
<1>2. requests \in Seq(Request) /\ requests' = Append(requests, e)
  BY DEF Control, TypeOK, Enqueue
<1>3. /\ requests' \in Seq(Request) /\ Len(requests') = n + 1
      /\ DOMAIN requests' = 1 .. n + 1 /\ DOMAIN requests = 1 .. n /\ n \in Nat
      /\ \A i \in 1 .. n : requests'[i] = requests[i]
      /\ requests'[n + 1] = e
  BY <1>1, <1>2, AppendRequest
<1>4. \A i \in DOMAIN requests' : InFlight(i)' <=> i = n + 1
  BY <1>1, <1>3 DEF Quiet, InFlight
<1>5. UNCHANGED <<package, offered, worker, router, crashes>>
  BY DEF Enqueue
<1>6. TypeOK'
  BY <1>3, <1>5 DEF Control, TypeOK, Busy
<1>7. OneRequestInFlight'
  BY <1>3, <1>4 DEF OneRequestInFlight
<1>8. PendingStatusHasItsRequest'
  BY <1>1, <1>3, <1>4 DEF PendingStatusHasItsRequest
<1>9. OneWorkerPerRequest'
  BY <1>3, <1>5 DEF OneWorkerPerRequest, Busy, Control, TypeOK
<1>. QED
  BY <1>6, <1>7, <1>8, <1>9 DEF Control

\* On a quiet service no status is pending.
LEMMA QuietIsSettled ==
    ASSUME Control, Quiet
    PROVE  status \notin {"SUSPENSION_PENDING", "RESTORE_PENDING"}
BY DEF Control, PendingStatusHasItsRequest, Quiet

\* The request in flight decides what the service status may be.
LEMMA InFlightStatus ==
    ASSUME Control, NEW r \in DOMAIN requests, InFlight(r)
    PROVE  /\ requests[r].action = "SUSPEND" <=> status = "SUSPENSION_PENDING"
           /\ requests[r].action = "RESTORE" <=> status = "RESTORE_PENDING"
           /\ \A i \in DOMAIN requests : InFlight(i) => i = r
<1>1. \A i \in DOMAIN requests : InFlight(i) => i = r
  BY DEF Control, OneRequestInFlight
<1>. QED
  BY <1>1 DEF Control, PendingStatusHasItsRequest

\* The request in flight ends and the service leaves its pending status.
LEMMA FinishControl ==
    ASSUME Control, NEW r \in DOMAIN requests, InFlight(r),
           NEW st \in {"SUCCEEDED", "FAILED"},
           requests' = WithStatus(r, st),
           status' \in Status \ {"SUSPENSION_PENDING", "RESTORE_PENDING"},
           package' \in Packages,
           UNCHANGED <<offered, router, crashes>>,
           worker' \in [Workers -> WorkerState],
           \A w \in Workers : worker'[w] = worker[w] \/ worker'[w] = Idle
    PROVE  Control'
<1>1. /\ requests' \in Seq(Request) /\ Len(requests') = Len(requests)
      /\ DOMAIN requests' = DOMAIN requests
      /\ requests'[r].status = st
      /\ \A i \in DOMAIN requests : i # r => requests'[i] = requests[i]
  <2>1. requests \in Seq(Request) /\ st \in RequestStatus
    BY DEF Control, TypeOK, RequestStatus
  <2>. QED
    BY <2>1, UpdateStatus
<1>2. \A i \in DOMAIN requests' : ~InFlight(i)'
  BY <1>1, InFlightStatus DEF InFlight
<1>3. \A w \in Workers : Busy(w)' => Busy(w) /\ worker'[w] = worker[w]
  BY DEF Busy, Idle
<1>4. TypeOK'
  BY <1>1, <1>3 DEF Control, TypeOK
<1>5. OneRequestInFlight' /\ PendingStatusHasItsRequest'
  BY <1>2 DEF OneRequestInFlight, PendingStatusHasItsRequest
<1>6. OneWorkerPerRequest'
  <2> SUFFICES ASSUME NEW w \in Workers, Busy(w)'
               PROVE  /\ requests'[worker'[w].request].status # "PENDING"
                      /\ \A v \in Workers \ {w} : Busy(v)' =>
                           worker'[v].request # worker'[w].request
    BY DEF OneWorkerPerRequest
  <2>1. Busy(w) /\ worker'[w] = worker[w] /\ worker[w].request \in DOMAIN requests
    BY <1>3 DEF Control, TypeOK
  <2>2. requests'[worker[w].request].status # "PENDING"
    BY <1>1, <2>1 DEF Control, OneWorkerPerRequest
  <2>. QED
    BY <1>3, <2>1, <2>2 DEF Control, OneWorkerPerRequest
<1>. QED
  BY <1>4, <1>5, <1>6 DEF Control

\* Failing a request in flight, by its worker or by recovery.
LEMMA MarkFailedStatus ==
    ASSUME Control, NEW r \in DOMAIN requests, InFlight(r), MarkFailed(r)
    PROVE  status' \in Status \ {"SUSPENSION_PENDING", "RESTORE_PENDING"}
<1>1. status \in Status
  BY DEF Control, TypeOK
<1>. QED
  BY <1>1, InFlightStatus DEF MarkFailed, Status

\* A worker moves on, or is lost, without touching the database.
LEMMA WorkerStepControl ==
    ASSUME Control,
           UNCHANGED <<status, package, offered, requests>>,
           router' \in Router, crashes' \in Nat,
           worker' \in [Workers -> WorkerState],
           \A w \in Workers : Busy(w)' => Busy(w) /\ worker'[w].request = worker[w].request
    PROVE  Control'
<1>1. TypeOK'
  BY DEF Control, TypeOK
<1>2. OneRequestInFlight' /\ PendingStatusHasItsRequest'
  BY DEF Control, OneRequestInFlight, PendingStatusHasItsRequest, InFlight
<1>3. OneWorkerPerRequest'
  BY DEF Control, OneWorkerPerRequest
<1>. QED
  BY <1>1, <1>2, <1>3 DEF Control

\* What a worker that is busy holds.
LEMMA HeldType ==
    ASSUME TypeOK, NEW w \in Workers, Busy(w)
    PROVE  /\ worker[w] \in [phase : {"claimed", "applied", "raised"},
                             request : Nat \ {0}, package : Packages]
           /\ worker[w].request \in DOMAIN requests
           /\ requests[worker[w].request] \in Request
<1>1. worker[w] \in WorkerState /\ worker[w].request \in DOMAIN requests
  BY DEF TypeOK
<1>2. worker[w] # Idle
  BY DEF Busy, Idle
<1>3. requests[worker[w].request] \in Request
  BY <1>1 DEF TypeOK
<1>. QED
  BY <1>1, <1>2, <1>3 DEF WorkerState

LEMMA ClaimControl ==
    ASSUME Control, NEW w \in Workers, NEW r \in DOMAIN requests, Claim(w, r)
    PROVE  Control'
<1>1. /\ requests' \in Seq(Request) /\ Len(requests') = Len(requests)
      /\ DOMAIN requests' = DOMAIN requests
      /\ requests'[r].action = requests[r].action
      /\ requests'[r].status = "PROCESSING"
      /\ \A i \in DOMAIN requests : i # r => requests'[i] = requests[i]
  BY UpdateStatus DEF Claim, Control, TypeOK, RequestStatus
<1>2. \A i \in DOMAIN requests :
        /\ InFlight(i)' <=> InFlight(i)
        /\ requests'[i].action = requests[i].action
  BY <1>1 DEF InFlight, Claim
<1>3. /\ worker' = [worker EXCEPT ![w] = Held("claimed", r, package)]
      /\ UNCHANGED <<status, package, offered, router, crashes>>
      /\ ~Busy(w)
  BY DEF Claim
<1>4. /\ worker' \in [Workers -> WorkerState]
      /\ worker'[w] = Held("claimed", r, package)
      /\ \A v \in Workers \ {w} : worker'[v] = worker[v]
  <2>1. r \in Nat \ {0}
    BY DEF Control, TypeOK
  <2>2. Held("claimed", r, package) \in WorkerState
    BY <2>1 DEF Control, TypeOK, WorkerState, Held
  <2>. QED
    BY <1>3, <2>2 DEF Control, TypeOK
<1>5. worker'[w].request = r
  BY <1>4 DEF Held
<1>6. TypeOK'
  <2>1. \A v \in Workers : Busy(v)' => worker'[v].request \in DOMAIN requests'
    BY <1>1, <1>4, <1>5 DEF Control, TypeOK, Busy
  <2>. QED
    BY <1>1, <1>3, <1>4, <2>1 DEF Control, TypeOK
<1>7. OneRequestInFlight' /\ PendingStatusHasItsRequest'
  BY <1>1, <1>2, <1>3 DEF Control, OneRequestInFlight, PendingStatusHasItsRequest
<1>8. OneWorkerPerRequest'
  \* Whoever was busy held a request that was not PENDING, so not r.
  <2>1. \A v \in Workers \ {w} : Busy(v)' =>
          /\ Busy(v) /\ worker'[v] = worker[v]
          /\ worker[v].request \in DOMAIN requests
          /\ requests[worker[v].request].status # "PENDING"
    BY <1>4 DEF Busy, Control, TypeOK, OneWorkerPerRequest
  <2>2. \A v \in Workers \ {w} : Busy(v)' => worker'[v].request # r
    BY <2>1 DEF Claim
  <2>. QED
    BY <1>1, <1>5, <2>1, <2>2 DEF OneWorkerPerRequest, Control
<1>. QED
  BY <1>6, <1>7, <1>8 DEF Control

LEMMA ProvideControl ==
    ASSUME Control, NEW w \in Workers, Provide(w)
    PROVE  Control'
<1>1. Busy(w)
  BY DEF Provide, Busy
<1>2. /\ worker[w] \in [phase : {"claimed", "applied", "raised"},
                        request : Nat \ {0}, package : Packages]
      /\ requests[worker[w].request] \in Request
  BY <1>1, HeldType DEF Control
<1>3. AfterProvider(requests[worker[w].request], worker[w].package) \in Router
  BY <1>2 DEF AfterProvider, Router, Request, Control, TypeOK
<1>4. PICK end \in {"applied", "raised"} : worker' = [worker EXCEPT ![w].phase = end]
  BY DEF Provide
<1>5. /\ worker'[w] = [worker[w] EXCEPT !.phase = end]
      /\ \A v \in Workers \ {w} : worker'[v] = worker[v]
      /\ worker' \in [Workers -> WorkerState]
  BY <1>2, <1>4 DEF Control, TypeOK, WorkerState
<1>6. \A v \in Workers : Busy(v)' => Busy(v) /\ worker'[v].request = worker[v].request
  BY <1>1, <1>2, <1>5 DEF Busy
<1>7. router' \in Router
  BY <1>3 DEF Provide, Control, TypeOK
<1>. QED
  BY <1>5, <1>6, <1>7, WorkerStepControl DEF Provide, Control, TypeOK

LEMMA CompleteRaisesControl ==
    ASSUME Control, NEW w \in Workers, CompleteRaises(w)
    PROVE  Control'
<1>1. Busy(w)
  BY DEF CompleteRaises, Busy
<1>2. worker[w] \in [phase : {"claimed", "applied", "raised"},
                     request : Nat \ {0}, package : Packages]
  BY <1>1, HeldType DEF Control
<1>3. /\ worker'[w] = [worker[w] EXCEPT !.phase = "raised"]
      /\ \A v \in Workers \ {w} : worker'[v] = worker[v]
      /\ worker' \in [Workers -> WorkerState]
  BY <1>2 DEF CompleteRaises, Control, TypeOK, WorkerState
<1>4. \A v \in Workers : Busy(v)' => Busy(v) /\ worker'[v].request = worker[v].request
  BY <1>1, <1>2, <1>3 DEF Busy
<1>. QED
  BY <1>3, <1>4, WorkerStepControl DEF CompleteRaises, Control, TypeOK

\* A worker that becomes idle leaves the others as they are.
LEMMA IdleWorker ==
    ASSUME TypeOK, NEW w \in Workers, worker' = [worker EXCEPT ![w] = Idle]
    PROVE  /\ worker' \in [Workers -> WorkerState]
           /\ ~Busy(w)'
           /\ \A v \in Workers : worker'[v] = worker[v] \/ worker'[v] = Idle
           /\ \A v \in Workers : Busy(v)' => Busy(v) /\ worker'[v] = worker[v]
BY DEF TypeOK, WorkerState, Busy, Idle

LEMMA CrashControl ==
    ASSUME Control, NEW w \in Workers, Crash(w)
    PROVE  Control'
<1>1. /\ worker' \in [Workers -> WorkerState]
      /\ \A v \in Workers : Busy(v)' => Busy(v) /\ worker'[v] = worker[v]
  BY IdleWorker DEF Crash, Control
<1>2. /\ UNCHANGED <<status, package, offered, requests, router>>
      /\ crashes' \in Nat /\ router' \in Router
  BY DEF Crash, Control, TypeOK
<1>. QED
  BY <1>1, <1>2, WorkerStepControl

LEMMA CompleteControl ==
    ASSUME Control, NEW w \in Workers, Complete(w)
    PROVE  Control'
<1> DEFINE r == worker[w].request
<1>1. Busy(w)
  BY DEF Complete, Busy
<1>2. /\ r \in DOMAIN requests
      /\ requests[r] \in Request
  BY <1>1, HeldType DEF Control
<1>3. InFlight(r)
  BY DEF Complete, Completable, InFlight
<1>4. /\ status' \in Status \ {"SUSPENSION_PENDING", "RESTORE_PENDING"}
      /\ package' \in Packages
  <2>1. status \in Status /\ package \in Packages
    BY DEF Control, TypeOK
  <2>2. AfterSuccess(requests[r])
    BY DEF Complete
  <2>3. /\ requests[r].action = "SUSPEND" <=> status = "SUSPENSION_PENDING"
        /\ requests[r].action = "RESTORE" <=> status = "RESTORE_PENDING"
    BY <1>2, <1>3, InFlightStatus
  <2>4. CASE requests[r].action \in {"ACTIVATE", "RESTORE"}
    BY <2>1, <2>2, <2>4 DEF AfterSuccess, Status
  <2>5. CASE requests[r].action = "SUSPEND"
    BY <2>1, <2>2, <2>5 DEF AfterSuccess, Status
  <2>6. CASE requests[r].action = "CHANGE_PACKAGE"
    BY <1>2, <2>1, <2>2, <2>3, <2>6 DEF AfterSuccess, Request
  <2>. QED
    BY <1>2, <2>4, <2>5, <2>6 DEF Request, Action
<1>5. /\ requests' = WithStatus(r, "SUCCEEDED")
      /\ worker' = [worker EXCEPT ![w] = Idle]
      /\ UNCHANGED <<offered, router, crashes>>
  BY DEF Complete
<1>. QED
  BY <1>2, <1>3, <1>4, <1>5, IdleWorker, FinishControl DEF Control

LEMMA FailControl ==
    ASSUME Control, NEW w \in Workers, Fail(w)
    PROVE  Control'
<1> DEFINE r == worker[w].request
<1>1. Busy(w)
  BY DEF Fail, Busy
<1>2. r \in DOMAIN requests
  BY <1>1, HeldType DEF Control
<1>3. /\ worker' = [worker EXCEPT ![w] = Idle]
      /\ UNCHANGED <<package, offered, router, crashes>>
      /\ package' \in Packages /\ crashes' \in Nat /\ router' \in Router
  BY DEF Fail, Control, TypeOK
<1>4. /\ worker' \in [Workers -> WorkerState]
      /\ \A v \in Workers : worker'[v] = worker[v] \/ worker'[v] = Idle
      /\ \A v \in Workers : Busy(v)' => Busy(v) /\ worker'[v] = worker[v]
  BY <1>3, IdleWorker DEF Control
<1>5. CASE requests[r].status = "PROCESSING"
  <2>1. InFlight(r) /\ MarkFailed(r)
    BY <1>5 DEF Fail, InFlight
  <2>2. /\ requests' = WithStatus(r, "FAILED")
        /\ status' \in Status \ {"SUSPENSION_PENDING", "RESTORE_PENDING"}
    BY <1>2, <2>1, MarkFailedStatus DEF MarkFailed
  <2>. QED
    BY <1>2, <1>3, <1>4, <2>1, <2>2, FinishControl
<1>6. CASE requests[r].status # "PROCESSING"
  <2>1. UNCHANGED <<status, package, offered, requests>>
    BY <1>3, <1>6 DEF Fail
  <2>. QED
    BY <1>3, <1>4, <2>1, WorkerStepControl
<1>. QED
  BY <1>5, <1>6

LEMMA RecoverStaleControl ==
    ASSUME Control, NEW r \in DOMAIN requests, RecoverStale(r)
    PROVE  Control'
<1>1. InFlight(r) /\ MarkFailed(r)
  BY DEF RecoverStale, InFlight
<1>2. /\ requests' = WithStatus(r, "FAILED")
      /\ status' \in Status \ {"SUSPENSION_PENDING", "RESTORE_PENDING"}
  BY <1>1, MarkFailedStatus DEF MarkFailed
<1>3. /\ package' \in Packages
      /\ UNCHANGED <<offered, router, crashes>>
      /\ worker' \in [Workers -> WorkerState]
      /\ \A v \in Workers : worker'[v] = worker[v]
  BY DEF RecoverStale, Control, TypeOK
<1>. QED
  BY <1>1, <1>2, <1>3, FinishControl

LEMMA LifecycleControl ==
    ASSUME Control, Lifecycle
    PROVE  Control'
<1>1. status \in Status /\ package \in Packages
  BY DEF Control, TypeOK
<1>2. CASE RequestServiceSuspension
  <2>1. /\ Quiet /\ Enqueue("SUSPEND", package) /\ "SUSPEND" \in Action
        /\ status' = "SUSPENSION_PENDING" /\ status' \in Status
    BY <1>2 DEF RequestServiceSuspension, Action, Status
  <2>. QED
    BY <1>1, <2>1, EnqueueControl
<1>3. CASE RequestServiceRestore
  <2>1. /\ Quiet /\ Enqueue("RESTORE", package) /\ "RESTORE" \in Action
        /\ status' = "RESTORE_PENDING" /\ status' \in Status
    BY <1>3 DEF RequestServiceRestore, Action, Status
  <2>. QED
    BY <1>1, <2>1, EnqueueControl
<1>4. ASSUME NEW p \in Packages, RequestPackageChange(p)
      PROVE  Control'
  <2>1. /\ Quiet /\ Enqueue("CHANGE_PACKAGE", p) /\ "CHANGE_PACKAGE" \in Action
        /\ status' = "ACTIVE" /\ status' \in Status
    BY <1>4 DEF RequestPackageChange, Action, Status
  <2>. QED
    BY <2>1, EnqueueControl
<1>5. ASSUME NEW p \in Packages, SetPackageOffered(p)
      PROVE  Control'
  <2>1. /\ UNCHANGED <<status, package, requests, worker, router, crashes>>
        /\ offered' \in SUBSET Packages
    BY <1>5 DEF SetPackageOffered, Control, TypeOK
  <2>. QED
    BY <2>1 DEF Control, TypeOK, OneRequestInFlight, PendingStatusHasItsRequest,
                OneWorkerPerRequest, Busy, InFlight
<1>6. ASSUME NEW r \in DOMAIN requests, RetryProvisioningRequest(r)
      PROVE  Control'
  <2> DEFINE a == requests[r].action
             t == requests[r].target
  <2>1. a \in Action /\ t \in Packages
    <3>1. requests[r] \in Request
      BY DEF Control, TypeOK
    <3>. QED
      BY <3>1 DEF Request
  <2>2. Quiet /\ Enqueue(a, t)
    BY <1>6 DEF RetryProvisioningRequest
  <2>3. status \notin {"SUSPENSION_PENDING", "RESTORE_PENDING"}
    BY <2>2, QuietIsSettled
  <2>4. CASE a = "SUSPEND"
    <3>1. status' = "SUSPENSION_PENDING" /\ status' \in Status
      BY <1>6, <2>4 DEF RetryProvisioningRequest, Status
    <3>. QED
      BY <2>1, <2>2, <2>4, <3>1, EnqueueControl
  <2>5. CASE a = "RESTORE"
    <3>1. status' = "RESTORE_PENDING" /\ status' \in Status
      BY <1>6, <2>5 DEF RetryProvisioningRequest, Status
    <3>. QED
      BY <2>1, <2>2, <2>5, <3>1, EnqueueControl
  <2>6. CASE a \notin {"SUSPEND", "RESTORE"}
    <3>1. status' = status
      BY <1>6, <2>6 DEF RetryProvisioningRequest
    <3>. QED
      BY <1>1, <2>1, <2>2, <2>3, <2>6, <3>1, EnqueueControl
  <2>. QED
    BY <2>4, <2>5, <2>6
<1>. QED
  BY <1>2, <1>3, <1>4, <1>5, <1>6, RecoverStaleControl DEF Lifecycle

LEMMA NextControl == Control /\ [Next]_vars => Control'
<1> SUFFICES ASSUME Control, [Next]_vars PROVE Control'
  OBVIOUS
<1>1. CASE Lifecycle
  BY <1>1, LifecycleControl
<1>2. ASSUME NEW w \in Workers, Execute(w)
      PROVE  Control'
  BY <1>2, ClaimControl, ProvideControl, CompleteControl, CompleteRaisesControl,
     FailControl DEF Execute
<1>3. ASSUME NEW w \in Workers, Crash(w)
      PROVE  Control'
  BY <1>3, CrashControl
<1>4. CASE UNCHANGED vars
  BY <1>4 DEF vars, Control, TypeOK, OneRequestInFlight, PendingStatusHasItsRequest,
              OneWorkerPerRequest, Busy, InFlight
<1>. QED
  BY <1>1, <1>2, <1>3, <1>4 DEF Next

\* Every reachable state satisfies Control, whatever the bounds, the number of
\* workers and the threshold of the recovery command.
LEMMA SpecControl == Spec => []Control
<1>1. Init => Control
  BY InitControl
<1>2. Control /\ [Next]_vars => Control'
  BY NextControl
<1>. QED
  BY <1>1, <1>2, PTL DEF Spec

\* The state stays well typed: in particular a worker only ever holds a request
\* that exists.
THEOREM TypeCorrect == Spec => []TypeOK
BY SpecControl, PTL DEF Control

\* A request is executed by one worker at most, even when recovery fails
\* requests under the workers that execute them.
THEOREM ExecutionIsExclusive == Spec => []OneWorkerPerRequest
BY SpecControl, PTL DEF Control

\* A pending service status and the request that settles it come and go together, through
\* success, failure and recovery.
THEOREM StatusFollowsRequest == Spec => []PendingStatusHasItsRequest
BY SpecControl, PTL DEF Control

-----------------------------------------------------------------------------
(* Delivery: the router, as long as recovery spares live workers.          *)

Delivery ==
    /\ Control
    /\ WorkersAreCurrent
    /\ RouterFollowsService

\* Only one worker is busy, and what it holds is the newest request.
LEMMA OneBusy ==
    ASSUME Delivery, NEW w \in Workers, Busy(w)
    PROVE  /\ worker[w].request = Len(requests)
           /\ worker[w].request \in DOMAIN requests
           /\ requests # <<>>
           /\ Last = requests[worker[w].request]
           /\ Last \in Request
           /\ InFlight(worker[w].request)
           /\ requests[worker[w].request].status = "PROCESSING"
           /\ \A v \in Workers : Busy(v) => v = w
<1>1. \A v \in Workers : Busy(v) =>
        /\ worker[v].request \in DOMAIN requests
        /\ requests[worker[v].request].status = "PROCESSING"
        /\ InFlight(worker[v].request)
  BY DEF Delivery, Control, TypeOK, WorkersAreCurrent, InFlight
<1>2. \A v \in Workers : Busy(v) => worker[v].request = Len(requests)
  BY <1>1 DEF Delivery, Control, OneRequestInFlight
<1>3. \A v \in Workers : Busy(v) => v = w
  BY <1>2 DEF Delivery, Control, OneWorkerPerRequest
<1>4. requests # <<>> /\ Last = requests[worker[w].request] /\ Last \in Request
  BY <1>1, <1>2 DEF Last, Delivery, Control, TypeOK
<1>. QED
  BY <1>1, <1>2, <1>3, <1>4

\* While nothing is in flight nobody is busy.
LEMMA QuietIsIdle ==
    ASSUME Delivery, Quiet
    PROVE  \A w \in Workers : ~Busy(w)
BY OneBusy DEF Quiet

\* A new request: nobody holds it yet, and it is in flight.
LEMMA EnqueueDelivery ==
    ASSUME Delivery, Control', Quiet,
           NEW action \in Action, NEW target \in Packages,
           Enqueue(action, target),
           action = "CHANGE_PACKAGE" => status' = "ACTIVE"
    PROVE  Delivery'
<1> DEFINE e == NewRequest(action, target)
<1>1. e \in Request /\ e.action = action /\ e.status = "PENDING"
  BY DEF NewRequest, Request, RequestStatus
<1>2. /\ requests' = Append(requests, e) /\ requests \in Seq(Request)
      /\ worker' = worker
  BY DEF Enqueue, Delivery, Control, TypeOK
<1>3. /\ Len(requests') = Len(requests) + 1
      /\ DOMAIN requests' = 1 .. Len(requests) + 1
      /\ requests'[Len(requests) + 1] = e
      /\ Len(requests) \in Nat
  BY <1>1, <1>2, AppendRequest
<1>4. Last' = e /\ ~Quiet'
  BY <1>1, <1>3 DEF Last, Quiet, InFlight
<1>5. \A w \in Workers : ~Busy(w)'
  BY <1>2, QuietIsIdle DEF Busy
<1>6. WorkersAreCurrent'
  BY <1>1, <1>4, <1>5 DEF WorkersAreCurrent
<1>. QED
  BY <1>4, <1>6 DEF Delivery, RouterFollowsService

\* The request in flight FAILED and nobody holds it any more: the failure itself
\* accounts for whatever the router looks like.
LEMMA FailedDelivery ==
    ASSUME Delivery, Control', NEW r \in DOMAIN requests, InFlight(r), MarkFailed(r),
           \A w \in Workers : ~Busy(w)'
    PROVE  Delivery'
<1>1. r = Len(requests) /\ Len(requests) \in Nat /\ requests \in Seq(Request)
  BY DEF Delivery, Control, OneRequestInFlight, TypeOK
<1>2. /\ Len(requests') = Len(requests)
      /\ DOMAIN requests' = DOMAIN requests
      /\ requests'[r].action = requests[r].action
      /\ requests'[r].status = "FAILED"
  BY <1>1, UpdateStatus DEF MarkFailed, RequestStatus
<1>3. Last'.status = "FAILED" /\ Last'.action = requests[r].action /\ Last = requests[r]
  BY <1>1, <1>2 DEF Last
<1>4. requests # <<>> /\ requests' # <<>>
  BY <1>1, <1>2, <1>3 DEF Delivery, Control, TypeOK
<1>5. Last'.action = "CHANGE_PACKAGE" => status' = "ACTIVE"
  BY <1>3, <1>4 DEF MarkFailed, Delivery, WorkersAreCurrent
<1>. QED
  BY <1>3, <1>4, <1>5 DEF Delivery, WorkersAreCurrent, RouterFollowsService

LEMMA ClaimDelivery ==
    ASSUME Delivery, Control', NEW w \in Workers, NEW r \in DOMAIN requests, Claim(w, r)
    PROVE  Delivery'
<1>1. requests \in Seq(Request) /\ r = Len(requests) /\ InFlight(r)
  BY DEF Delivery, Control, TypeOK, OneRequestInFlight, Claim, InFlight
<1>2. \A v \in Workers : ~Busy(v)
  \* a busy worker would hold r, and r is still PENDING
  BY <1>1, OneBusy DEF Claim
<1>3. /\ Len(requests') = Len(requests)
      /\ DOMAIN requests' = DOMAIN requests
      /\ requests'[r].action = requests[r].action
      /\ requests'[r].status = "PROCESSING"
  BY <1>1, UpdateStatus DEF Claim, RequestStatus
<1>4. /\ worker'[w] = Held("claimed", r, package)
      /\ \A v \in Workers \ {w} : worker'[v] = worker[v]
      /\ UNCHANGED <<status, package>>
  BY DEF Claim, Delivery, Control, TypeOK
<1>5. /\ worker'[w].request = r /\ worker'[w].package = package
      /\ worker'[w].phase = "claimed"
  BY <1>4 DEF Held
<1>6. \A v \in Workers : Busy(v)' => v = w
  BY <1>2, <1>4 DEF Busy
<1>7. ~Quiet' /\ Last'.action = Last.action /\ requests # <<>>
  BY <1>1, <1>3 DEF Quiet, InFlight, Last
<1>8. WorkersAreCurrent'
  BY <1>3, <1>4, <1>5, <1>6, <1>7 DEF WorkersAreCurrent, Delivery
<1>. QED
  BY <1>7, <1>8 DEF Delivery, RouterFollowsService

\* Steps of the busy worker that leave its request PROCESSING.
LEMMA HoldingDelivery ==
    ASSUME Delivery, Control', NEW w \in Workers, Busy(w),
           UNCHANGED <<status, package, requests>>,
           \A v \in Workers \ {w} : worker'[v] = worker[v],
           worker'[w].request = worker[w].request,
           worker'[w].package = worker[w].package,
           worker'[w].phase = "applied" => Served(requests[worker[w].request])'
    PROVE  Delivery'
<1>1. \A v \in Workers : Busy(v)' => v = w
  BY OneBusy DEF Busy
<1>2. ~Quiet'
  BY OneBusy DEF Quiet, InFlight
<1>3. Last' = Last
  BY DEF Last
<1>4. WorkersAreCurrent'
  BY <1>1, <1>3 DEF WorkersAreCurrent, Delivery
<1>. QED
  BY <1>2, <1>4 DEF Delivery, RouterFollowsService

LEMMA ProvideDelivery ==
    ASSUME Delivery, Control', NEW w \in Workers, Provide(w)
    PROVE  Delivery'
<1> DEFINE r == worker[w].request
<1>1. Busy(w)
  BY DEF Provide, Busy
<1>2. /\ worker[w] \in [phase : {"claimed", "applied", "raised"},
                        request : Nat \ {0}, package : Packages]
      /\ requests[r] \in Request
      /\ worker[w].package = package
  BY <1>1, HeldType DEF Delivery, Control, WorkersAreCurrent
<1>3. UNCHANGED <<status, package, requests>>
  BY DEF Provide
<1>4. PICK end \in {"applied", "raised"} :
        /\ worker' = [worker EXCEPT ![w].phase = end]
        /\ end = "applied" => router' = AfterProvider(requests[r], package)
  BY <1>2 DEF Provide
<1>5. /\ worker'[w].phase = end
      /\ worker'[w].request = r /\ worker'[w].package = worker[w].package
      /\ \A v \in Workers \ {w} : worker'[v] = worker[v]
  BY <1>2, <1>4 DEF Delivery, Control, TypeOK
<1>6. ASSUME end = "applied" PROVE Served(requests[r])'
  <2>1. router' = AfterProvider(requests[r], package) /\ router \in Router
    BY <1>4, <1>6 DEF Delivery, Control, TypeOK
  <2>2. requests'[worker'[w].request] = requests[r]
    BY <1>3, <1>5
  <2>3. requests[r].action \in Action
    BY <1>2 DEF Request
  <2>4. CASE requests[r].action = "SUSPEND"
    BY <2>1, <2>4, <1>3, <1>5 DEF AfterProvider, Served, Online, Router
  <2>5. CASE requests[r].action = "CHANGE_PACKAGE"
    BY <2>1, <2>5, <1>3, <1>5 DEF AfterProvider, Served, Online
  <2>6. CASE requests[r].action \in {"ACTIVATE", "RESTORE"}
    BY <2>1, <2>6, <1>3, <1>5 DEF AfterProvider, Served, Online
  <2>. QED
    BY <2>3, <2>4, <2>5, <2>6 DEF Action
<1>. QED
  BY <1>1, <1>3, <1>5, <1>6, HoldingDelivery

LEMMA CompleteRaisesDelivery ==
    ASSUME Delivery, Control', NEW w \in Workers, CompleteRaises(w)
    PROVE  Delivery'
<1>1. Busy(w)
  BY DEF CompleteRaises, Busy
<1>2. worker[w] \in [phase : {"claimed", "applied", "raised"},
                     request : Nat \ {0}, package : Packages]
  BY <1>1, HeldType DEF Delivery, Control
<1>3. /\ worker'[w].phase = "raised"
      /\ worker'[w].request = worker[w].request /\ worker'[w].package = worker[w].package
      /\ \A v \in Workers \ {w} : worker'[v] = worker[v]
      /\ UNCHANGED <<status, package, requests>>
  BY <1>2 DEF CompleteRaises, Delivery, Control, TypeOK
<1>. QED
  BY <1>1, <1>3, HoldingDelivery

LEMMA CompleteDelivery ==
    ASSUME Delivery, Control', NEW w \in Workers, Complete(w)
    PROVE  Delivery'
<1> DEFINE r == worker[w].request
<1>1. Busy(w)
  BY DEF Complete, Busy
<1>2. /\ r = Len(requests) /\ r \in DOMAIN requests
      /\ requests # <<>> /\ Last = requests[r] /\ requests[r] \in Request
      /\ requests \in Seq(Request)
  BY <1>1, OneBusy DEF Delivery, Control, TypeOK
<1>3. /\ requests' = WithStatus(r, "SUCCEEDED")
      /\ AfterSuccess(requests[r])
      /\ worker' = [worker EXCEPT ![w] = Idle]
      /\ UNCHANGED router
  BY DEF Complete
<1>4. /\ Len(requests') = Len(requests)
      /\ Last'.action = requests[r].action
  BY <1>2, <1>3, UpdateStatus DEF Last, RequestStatus
<1>5. \A v \in Workers : ~Busy(v)'
  BY <1>1, <1>3, IdleWorker, OneBusy DEF Delivery, Control
<1>6. Served(requests[r])
  BY <1>1 DEF Complete, Delivery, WorkersAreCurrent
<1>7. requests[r].action = "CHANGE_PACKAGE" => status = "ACTIVE"
  BY <1>2 DEF Delivery, WorkersAreCurrent
<1>8. Agree' /\ (requests[r].action = "CHANGE_PACKAGE" => status' = "ACTIVE")
  <2>1. requests[r].action \in Action
    BY <1>2 DEF Request
  <2>2. CASE requests[r].action = "SUSPEND"
    <3>1. status' = "SUSPENDED_NON_PAYMENT" /\ ~Online
      BY <1>3, <1>6, <2>2 DEF AfterSuccess, Served
    <3>. QED
      BY <1>3, <2>2, <3>1 DEF Agree, Online
  <2>3. CASE requests[r].action = "CHANGE_PACKAGE"
    <3>1. /\ status' = "ACTIVE" /\ package' = requests[r].target
          /\ Online /\ router.profile = requests[r].target
      BY <1>3, <1>6, <1>7, <2>3 DEF AfterSuccess, Served
    <3>. QED
      BY <1>3, <3>1 DEF Agree, Online
  <2>4. CASE requests[r].action \in {"ACTIVATE", "RESTORE"}
    <3>1. status' = "ACTIVE" /\ package' = package /\ Online /\ router.profile = package
      BY <1>3, <1>6, <2>4 DEF AfterSuccess, Served
    <3>. QED
      BY <1>3, <2>4, <3>1 DEF Agree, Online
  <2>. QED
    BY <2>1, <2>2, <2>3, <2>4 DEF Action
<1>. QED
  BY <1>4, <1>5, <1>8 DEF Delivery, WorkersAreCurrent, RouterFollowsService

LEMMA FailDelivery ==
    ASSUME Delivery, Control', NEW w \in Workers, Fail(w)
    PROVE  Delivery'
<1>1. Busy(w)
  BY DEF Fail, Busy
<1>2. /\ worker[w].request \in DOMAIN requests
      /\ requests[worker[w].request].status = "PROCESSING"
      /\ InFlight(worker[w].request)
  BY <1>1, OneBusy
<1>3. MarkFailed(worker[w].request) /\ worker' = [worker EXCEPT ![w] = Idle]
  BY <1>2 DEF Fail
<1>4. \A v \in Workers : ~Busy(v)'
  BY <1>1, <1>3, IdleWorker, OneBusy DEF Delivery, Control
<1>. QED
  BY <1>2, <1>3, <1>4, FailedDelivery

LEMMA CrashDelivery ==
    ASSUME Delivery, Control', NEW w \in Workers, Crash(w)
    PROVE  Delivery'
<1>1. /\ Busy(w) /\ worker' = [worker EXCEPT ![w] = Idle]
      /\ UNCHANGED <<status, package, requests, router>>
  BY DEF Crash
<1>2. \A v \in Workers : ~Busy(v)'
  BY <1>1, IdleWorker, OneBusy DEF Delivery, Control
<1>3. Last' = Last /\ ~Quiet'
  BY <1>1, OneBusy DEF Last, Quiet, InFlight
<1>. QED
  BY <1>1, <1>2, <1>3 DEF Delivery, WorkersAreCurrent, RouterFollowsService

\* The only step that looks at the assumption: a request being executed is
\* not recovered.
LEMMA RecoverStaleDelivery ==
    ASSUME ~RecoverSlowWorkers,
           Delivery, Control', NEW r \in DOMAIN requests, RecoverStale(r)
    PROVE  Delivery'
<1>1. InFlight(r) /\ MarkFailed(r) /\ ~Working(r) /\ worker' = worker
  BY DEF RecoverStale, InFlight
<1>2. r = Len(requests)
  BY <1>1 DEF Delivery, Control, OneRequestInFlight
<1>3. \A w \in Workers : ~Busy(w)
  BY <1>1, <1>2, OneBusy DEF Working
<1>4. \A w \in Workers : ~Busy(w)'
  BY <1>1, <1>3 DEF Busy
<1>. QED
  BY <1>1, <1>4, FailedDelivery

LEMMA LifecycleDelivery ==
    ASSUME ~RecoverSlowWorkers, Delivery, Control', Lifecycle
    PROVE  Delivery'
<1>1. CASE RequestServiceSuspension
  <2>1. Quiet /\ Enqueue("SUSPEND", package) /\ "SUSPEND" \in Action /\ package \in Packages
    BY <1>1 DEF RequestServiceSuspension, Action, Delivery, Control, TypeOK
  <2>. QED
    BY <2>1, EnqueueDelivery
<1>2. CASE RequestServiceRestore
  <2>1. Quiet /\ Enqueue("RESTORE", package) /\ "RESTORE" \in Action /\ package \in Packages
    BY <1>2 DEF RequestServiceRestore, Action, Delivery, Control, TypeOK
  <2>. QED
    BY <2>1, EnqueueDelivery
<1>3. ASSUME NEW p \in Packages, RequestPackageChange(p)
      PROVE  Delivery'
  <2>1. Quiet /\ Enqueue("CHANGE_PACKAGE", p) /\ "CHANGE_PACKAGE" \in Action /\ status' = "ACTIVE"
    BY <1>3 DEF RequestPackageChange, Action
  <2>. QED
    BY <2>1, EnqueueDelivery
<1>4. ASSUME NEW p \in Packages, SetPackageOffered(p)
      PROVE  Delivery'
  BY <1>4 DEF SetPackageOffered, Delivery, WorkersAreCurrent, RouterFollowsService, Busy,
              Served, Online, Agree, Quiet, InFlight, Last
<1>5. ASSUME NEW r \in DOMAIN requests, RetryProvisioningRequest(r)
      PROVE  Delivery'
  <2> DEFINE a == requests[r].action
             t == requests[r].target
  <2>1. a \in Action /\ t \in Packages
    <3>1. requests[r] \in Request
      BY DEF Delivery, Control, TypeOK
    <3>. QED
      BY <3>1 DEF Request
  <2>2. Quiet /\ Enqueue(a, t) /\ r = Len(requests)
    BY <1>5 DEF RetryProvisioningRequest
  \* The change that failed was requested of an ACTIVE service, and nothing
  \* newer has touched the status.
  <2>3. ASSUME a = "CHANGE_PACKAGE" PROVE status' = "ACTIVE"
    <3>1. requests # <<>> /\ Last.action = "CHANGE_PACKAGE"
      BY <2>2, <2>3 DEF Last, Delivery, Control, TypeOK
    <3>2. status = "ACTIVE"
      BY <3>1 DEF Delivery, WorkersAreCurrent
    <3>. QED
      BY <1>5, <2>3, <3>2 DEF RetryProvisioningRequest
  <2>. QED
    BY <2>1, <2>2, <2>3, EnqueueDelivery
<1>. QED
  BY <1>1, <1>2, <1>3, <1>4, <1>5, RecoverStaleDelivery DEF Lifecycle

LEMMA InitDelivery == Init => Delivery
<1> SUFFICES ASSUME Init PROVE Delivery
  OBVIOUS
<1>1. Control
  BY InitControl
<1>2. \A w \in Workers : ~Busy(w)
  BY DEF Init, Busy, Idle
<1>3. CASE CreatedOnRouter
  <2>1. /\ Len(requests) = 1 /\ DOMAIN requests = {1}
        /\ requests[1] = NewRequest("ACTIVATE", package)
    BY <1>3 DEF CreatedOnRouter
  <2>2. Last.action = "ACTIVATE" /\ ~Quiet
    BY <2>1 DEF Last, NewRequest, Quiet, InFlight
  <2>. QED
    BY <1>1, <1>2, <2>2 DEF Delivery, WorkersAreCurrent, RouterFollowsService
<1>4. CASE ImportedLive
  BY <1>1, <1>2, <1>4 DEF ImportedLive, Delivery, WorkersAreCurrent, RouterFollowsService,
                          Agree, Online
<1>. QED
  BY <1>3, <1>4 DEF Init

LEMMA NextDelivery ==
    ASSUME ~RecoverSlowWorkers
    PROVE  Delivery /\ [Next]_vars => Delivery'
<1> SUFFICES ASSUME Delivery, [Next]_vars PROVE Delivery'
  OBVIOUS
<1>1. Control'
  BY NextControl DEF Delivery
<1>2. CASE Lifecycle
  BY <1>1, <1>2, LifecycleDelivery
<1>3. ASSUME NEW w \in Workers, Execute(w)
      PROVE  Delivery'
  BY <1>1, <1>3, ClaimDelivery, ProvideDelivery, CompleteDelivery, CompleteRaisesDelivery,
     FailDelivery DEF Execute
<1>4. ASSUME NEW w \in Workers, Crash(w)
      PROVE  Delivery'
  BY <1>1, <1>4, CrashDelivery
<1>5. CASE UNCHANGED vars
  BY <1>1, <1>5 DEF vars, Delivery, WorkersAreCurrent, RouterFollowsService, Busy,
                    Served, Online, Agree, Quiet, InFlight, Last
<1>. QED
  BY <1>2, <1>3, <1>4, <1>5 DEF Next

\* With a recovery threshold longer than any live execution, router and service
\* row agree whenever nothing is in flight, or else the newest request FAILED.
THEOREM RouterIsNeverSilentlyApart ==
    ASSUME ~RecoverSlowWorkers
    PROVE  Spec => []RouterFollowsService
<1>1. Init => Delivery
  BY InitDelivery
<1>2. Delivery /\ [Next]_vars => Delivery'
  BY NextDelivery
<1>3. Delivery => RouterFollowsService
  BY DEF Delivery
<1>. QED
  BY <1>1, <1>2, <1>3, PTL DEF Spec

\* With the same threshold, the package of the customer changes only when the
\* router already serves the new one.
THEOREM PackageFollowsRouter ==
    ASSUME ~RecoverSlowWorkers
    PROVE  Spec => PackageChangesAfterRouter
<1>1. Init => Delivery
  BY InitDelivery
<1>2. Delivery /\ [Next]_vars => Delivery'
  BY NextDelivery
<1>3. Delivery /\ [Next]_vars => (package' # package => Online /\ router.profile = package')
  <2> SUFFICES ASSUME Delivery, [Next]_vars, package' # package
               PROVE  Online /\ router.profile = package'
    OBVIOUS
  \* Only the completion of a package change writes the package.
  <2>1. PICK w \in Workers : Complete(w)
    BY DEF Next, vars, Lifecycle, Execute, RequestServiceSuspension, RequestServiceRestore,
           RequestPackageChange, SetPackageOffered, RetryProvisioningRequest, Enqueue,
           RecoverStale, Claim, Provide, CompleteRaises, Fail, Crash
  <2> DEFINE r == worker[w].request
  <2>2. Busy(w) /\ worker[w].phase = "applied"
    BY <2>1 DEF Complete, Busy
  <2>3. Served(requests[r]) /\ AfterSuccess(requests[r]) /\ requests[r].action \in Action
    BY <2>1, <2>2, OneBusy DEF Complete, Delivery, WorkersAreCurrent, Request
  <2>4. requests[r].action = "CHANGE_PACKAGE" /\ package' = requests[r].target
    BY <2>3 DEF AfterSuccess, Action
  <2>. QED
    BY <2>3, <2>4 DEF Served
<1>. QED
  BY <1>1, <1>2, <1>3, PTL DEF Spec, PackageChangesAfterRouter

-----------------------------------------------------------------------------
(***************************************************************************)
(* Provisioning implements Service, for any packages, workers and bounds,  *)
(* as long as recovery spares live workers.  Every step of Provisioning    *)
(* from a state of Delivery is a step of Service on the mapped variables,  *)
(* or leaves them alone.                                                   *)
(***************************************************************************)

\* The request in flight is the open order.
LEMMA OrderInFlight ==
    ASSUME Delivery, NEW r \in DOMAIN requests, InFlight(r)
    PROVE  /\ OpenOrder = [action |-> requests[r].action, target |-> requests[r].target]
           /\ OpenOrder # Promised!None
           /\ requests[r] \in Request
           /\ ~ LastFailed
<1>1. r = Len(requests) /\ Last = requests[r] /\ requests[r] \in Request /\ ~ Quiet
  BY DEF Delivery, Control, OneRequestInFlight, TypeOK, Last, Quiet
<1>2. OpenOrder = [action |-> requests[r].action, target |-> requests[r].target]
  BY <1>1 DEF OpenOrder
<1>3. requests[r].action # "none"
  BY <1>1 DEF Request, Action
<1>. QED
  BY <1>1, <1>2, <1>3 DEF Promised!None, LastFailed, InFlight

\* The worker that is busy, if any, says whether the open order was carried out.
LEMMA AnsweredByBusy ==
    ASSUME Delivery, NEW w \in Workers, Busy(w)
    PROVE  Answered <=> worker[w].phase = "applied"
<1>1. \A v \in Workers : worker[v].phase = "applied" => v = w
  BY OneBusy DEF Busy
<1>. QED
  BY <1>1 DEF Answered

LEMMA IdleUnanswered ==
    ASSUME \A w \in Workers : ~ Busy(w)
    PROVE  ~ Answered
BY DEF Answered, Busy

LEMMA EnqueuePlaces ==
    ASSUME Delivery, Quiet, NEW action \in Action, NEW target \in Packages,
           Enqueue(action, target)
    PROVE  /\ OpenOrder = Promised!None
           /\ OpenOrder' = Promised!Order(action, target)
           /\ ~ LastFailed'
           /\ UNCHANGED <<package, Line, Answered>>
<1> DEFINE e == NewRequest(action, target)
<1>1. e \in Request /\ e.action = action /\ e.target = target /\ e.status = "PENDING"
  BY DEF NewRequest, Request, RequestStatus
<1>2. requests' = Append(requests, e) /\ requests \in Seq(Request)
  BY DEF Enqueue, Delivery, Control, TypeOK
<1>3. /\ Len(requests') = Len(requests) + 1
      /\ DOMAIN requests' = 1 .. Len(requests) + 1
      /\ requests'[Len(requests) + 1] = e
      /\ Len(requests) \in Nat
  BY <1>1, <1>2, AppendRequest
<1>4. Last' = e /\ ~ Quiet'
  BY <1>1, <1>3 DEF Last, Quiet, InFlight
<1>5. OpenOrder = Promised!None
  BY DEF OpenOrder, Promised!None
<1>6. OpenOrder' = Promised!Order(action, target) /\ ~ LastFailed'
  BY <1>1, <1>4 DEF OpenOrder, Promised!Order, LastFailed
<1>7. UNCHANGED <<package, Line, Answered>>
  BY DEF Enqueue, Line, Online, Answered
<1>. QED
  BY <1>5, <1>6, <1>7

\* What failed is given up: the service goes back to where it was.
LEMMA FailedGivesUp ==
    ASSUME Delivery, NEW r \in DOMAIN requests, InFlight(r), MarkFailed(r),
           \A w \in Workers : ~ Busy(w)', UNCHANGED <<package, router>>
    PROVE  Promised!GiveUp
<1>1. /\ OpenOrder = [action |-> requests[r].action, target |-> requests[r].target]
      /\ OpenOrder # Promised!None
  BY OrderInFlight
<1>2. r = Len(requests) /\ Len(requests) \in Nat /\ requests \in Seq(Request)
  BY DEF Delivery, Control, OneRequestInFlight, TypeOK
<1>3. /\ Len(requests') = Len(requests)
      /\ DOMAIN requests' = DOMAIN requests
      /\ requests'[r].status = "FAILED"
      /\ \A i \in DOMAIN requests : i # r => requests'[i] = requests[i]
  BY <1>2, UpdateStatus DEF MarkFailed, RequestStatus
<1>4. \A i \in DOMAIN requests' : ~ InFlight(i)'
  BY <1>3, InFlightStatus DEF InFlight, Delivery
<1>5. OpenOrder' = Promised!None
  BY <1>4 DEF OpenOrder, Quiet, Promised!None
<1>6. LastFailed'
  BY <1>2, <1>3 DEF LastFailed, Last
<1>7. ~ Answered'
  BY DEF Answered, Busy
<1>8. status' = CASE requests[r].action = "SUSPEND" -> "ACTIVE"
                  [] requests[r].action = "RESTORE" -> "SUSPENDED_NON_PAYMENT"
                  [] OTHER -> status
  BY InFlightStatus DEF MarkFailed, Delivery
<1>9. UNCHANGED <<package, Line>>
  BY DEF Line, Online
<1>10. OpenOrder.action = requests[r].action
  BY <1>1
<1>. QED
  BY <1>1, <1>5, <1>6, <1>7, <1>8, <1>9, <1>10 DEF Promised!GiveUp

\* Steps that leave the table, the service and the line alone.
LEMMA SameOrder ==
    ASSUME UNCHANGED <<status, package, requests, router>>
    PROVE  UNCHANGED <<status, package, Line, OpenOrder, LastFailed>>
BY DEF Line, Online, OpenOrder, Quiet, InFlight, Last, LastFailed

-----------------------------------------------------------------------------
(* One lemma for each action of Provisioning.                              *)

\* What staff and collections request is an order placed.
LEMMA RequestsPlace ==
    ASSUME Delivery, Quiet, NEW action \in Action, NEW target \in Packages,
           Enqueue(action, target),
           action = "SUSPEND" => /\ status \in {"ACTIVE", "GRACE_PERIOD"}
                                 /\ status' = "SUSPENSION_PENDING",
           action = "RESTORE" => /\ status = "SUSPENDED_NON_PAYMENT"
                                 /\ status' = "RESTORE_PENDING",
           action = "CHANGE_PACKAGE" => status = "ACTIVE" /\ UNCHANGED status,
           action = "ACTIVATE" => LastFailed /\ UNCHANGED status
    PROVE  Promised!Next
<1>1. /\ OpenOrder = Promised!None
      /\ OpenOrder' = Promised!Order(action, target)
      /\ ~ LastFailed'
      /\ UNCHANGED <<package, Line, Answered>>
  BY EnqueuePlaces
<1>2. LastFailed' = FALSE
  BY <1>1 DEF LastFailed
<1>3. CASE action = "SUSPEND"
  BY <1>1, <1>2, <1>3 DEF Promised!Place, Promised!Next
<1>4. CASE action = "RESTORE"
  BY <1>1, <1>2, <1>4 DEF Promised!Place, Promised!Next
<1>5. CASE action = "CHANGE_PACKAGE"
  BY <1>1, <1>2, <1>5 DEF Promised!Place, Promised!Next
<1>6. CASE action = "ACTIVATE"
  BY <1>1, <1>2, <1>6 DEF Promised!Place, Promised!Next
<1>. QED
  BY <1>3, <1>4, <1>5, <1>6 DEF Action

LEMMA RetryPlaces ==
    ASSUME Delivery, NEW r \in DOMAIN requests, RetryProvisioningRequest(r)
    PROVE  Promised!Next
<1> DEFINE a == requests[r].action
           t == requests[r].target
<1>1. requests \in Seq(Request) /\ requests[r] \in Request /\ requests # <<>>
  BY DEF Delivery, Control, TypeOK
<1>2. a \in Action /\ t \in Packages
  BY <1>1 DEF Request
<1>3. Quiet /\ Enqueue(a, t) /\ Last = requests[r] /\ Last.status = "FAILED"
  BY DEF RetryProvisioningRequest, Last
<1>4. LastFailed
  BY <1>1, <1>3 DEF LastFailed
<1>5. a = "CHANGE_PACKAGE" => status = "ACTIVE"
  BY <1>1, <1>3 DEF Delivery, WorkersAreCurrent
<1>6. /\ a = "SUSPEND" => status \in {"ACTIVE", "GRACE_PERIOD"} /\ status' = "SUSPENSION_PENDING"
      /\ a = "RESTORE" => status = "SUSPENDED_NON_PAYMENT" /\ status' = "RESTORE_PENDING"
      /\ a \notin {"SUSPEND", "RESTORE"} => UNCHANGED status
  BY DEF RetryProvisioningRequest
<1>. QED
  BY <1>2, <1>3, <1>4, <1>5, <1>6, RequestsPlace

\* A claim moves the request in flight on and opens nothing.
LEMMA ClaimStutters ==
    ASSUME Delivery, NEW w \in Workers, NEW r \in DOMAIN requests, Claim(w, r)
    PROVE  UNCHANGED Promised!vars
<1>1. requests \in Seq(Request) /\ r = Len(requests) /\ InFlight(r)
  BY DEF Delivery, Control, TypeOK, OneRequestInFlight, Claim, InFlight
<1>2. \A v \in Workers : ~ Busy(v)
  BY <1>1, OneBusy DEF Claim
<1>3. /\ Len(requests') = Len(requests)
      /\ DOMAIN requests' = DOMAIN requests
      /\ requests'[r].action = requests[r].action
      /\ requests'[r].target = requests[r].target
      /\ requests'[r].status = "PROCESSING"
  BY <1>1, UpdateStatus DEF Claim, RequestStatus
<1>4. ~ Quiet /\ ~ Quiet'
  BY <1>1, <1>3 DEF Quiet, InFlight
<1>5. Last = requests[r] /\ Last' = requests'[r]
  BY <1>1, <1>3 DEF Last
<1>6. OpenOrder' = OpenOrder
  BY <1>3, <1>4, <1>5 DEF OpenOrder
<1>7. LastFailed = FALSE /\ LastFailed' = FALSE
  BY <1>1, <1>3, <1>5 DEF LastFailed, InFlight
<1>8. Answered = FALSE /\ Answered' = FALSE
  <2>1. worker' = [worker EXCEPT ![w] = Held("claimed", r, package)]
    BY DEF Claim
  <2>2. \A v \in Workers : worker'[v].phase # "applied"
    BY <1>2, <2>1 DEF Delivery, Control, TypeOK, Busy, Held
  <2>. QED
    BY <1>2, <2>2 DEF Answered, Busy
<1>9. UNCHANGED <<status, package, Line>>
  BY DEF Claim, Line, Online
<1>. QED
  BY <1>6, <1>7, <1>8, <1>9 DEF Promised!vars

\* The router call serves the order, whatever becomes of the answer, or
\* nothing was changed.
LEMMA ProvideServes ==
    ASSUME Delivery, NEW w \in Workers, Provide(w)
    PROVE  [Promised!Next]_(Promised!vars)
<1> DEFINE r == worker[w].request
<1>1. Busy(w) /\ worker[w].phase = "claimed"
  BY DEF Provide, Busy
<1>2. /\ worker[w] \in [phase : {"claimed", "applied", "raised"},
                        request : Nat \ {0}, package : Packages]
      /\ requests[r] \in Request
      /\ worker[w].package = package
  BY <1>1, HeldType DEF Delivery, Control, WorkersAreCurrent
<1>3. UNCHANGED <<status, package, requests>>
  BY DEF Provide
<1>4. r \in DOMAIN requests /\ InFlight(r) /\ \A v \in Workers : Busy(v) => v = w
  BY <1>1, OneBusy
<1>5. /\ OpenOrder = [action |-> requests[r].action, target |-> requests[r].target]
      /\ OpenOrder # Promised!None
  BY <1>4, OrderInFlight
<1>6. Answered = FALSE
  BY <1>1, AnsweredByBusy DEF Answered
<1>7. UNCHANGED <<OpenOrder, LastFailed>>
  BY <1>3 DEF OpenOrder, LastFailed, Quiet, InFlight, Last
<1>8. CASE router' = AfterProvider(requests[r], package)
  <2>1. router \in Router /\ requests[r].action \in Action
    BY <1>2 DEF Delivery, Control, TypeOK, Request
  <2>2. OpenOrder.action = requests[r].action /\ OpenOrder.target = requests[r].target
    BY <1>5
  <2>3. Line' = Promised!Asked
    <3>1. CASE requests[r].action = "SUSPEND"
      BY <1>8, <2>1, <2>2, <3>1 DEF AfterProvider, Line, Online, Router, Promised!Asked, Promised!Off
    <3>2. CASE requests[r].action = "CHANGE_PACKAGE"
      BY <1>8, <2>1, <2>2, <3>2 DEF AfterProvider, Line, Online, Promised!Asked
    <3>3. CASE requests[r].action \in {"ACTIVATE", "RESTORE"}
      BY <1>8, <2>1, <2>2, <3>3 DEF AfterProvider, Line, Online, Promised!Asked
    <3>. QED
      BY <2>1, <3>1, <3>2, <3>3 DEF Action
  <2>4. Answered' \in BOOLEAN
    BY DEF Answered
  <2>5. Promised!Serve
    BY <1>3, <1>5, <1>6, <1>7, <2>3, <2>4 DEF Promised!Serve
  <2>. QED
    BY <2>5 DEF Promised!Next
<1>9. CASE router' # AfterProvider(requests[r], package)
  <2>1. worker' = [worker EXCEPT ![w].phase = "raised"] /\ UNCHANGED router
    BY <1>2, <1>9 DEF Provide
  <2>2. \A v \in Workers : worker'[v].phase # "applied"
    BY <1>4, <2>1 DEF Delivery, Control, TypeOK, Busy
  <2>3. Answered' = FALSE
    BY <2>2 DEF Answered
  <2>4. UNCHANGED Line
    BY <2>1 DEF Line, Online
  <2>. QED
    BY <1>3, <1>6, <1>7, <2>3, <2>4 DEF Promised!vars
<1>. QED
  BY <1>8, <1>9

\* A worker whose call returned is the one that knows; its request is served.
LEMMA AppliedKnows ==
    ASSUME Delivery, NEW w \in Workers, worker[w].phase = "applied"
    PROVE  /\ Busy(w) /\ Answered
           /\ OpenOrder = [action |-> requests[worker[w].request].action,
                           target |-> requests[worker[w].request].target]
<1>1. Busy(w)
  BY DEF Busy
<1>2. worker[w].request \in DOMAIN requests /\ InFlight(worker[w].request)
  BY <1>1, OneBusy
<1>. QED
  BY <1>1, <1>2, OrderInFlight DEF Answered

LEMMA CompleteSettles ==
    ASSUME Delivery, NEW w \in Workers, Complete(w)
    PROVE  Promised!Next
<1> DEFINE r == worker[w].request
<1>1. worker[w].phase = "applied"
  BY DEF Complete
<1>2. /\ Busy(w) /\ Answered
      /\ OpenOrder.action = requests[r].action /\ OpenOrder.target = requests[r].target
  BY <1>1, AppliedKnows
<1>3. /\ r = Len(requests) /\ r \in DOMAIN requests /\ InFlight(r)
      /\ requests \in Seq(Request) /\ requests[r] \in Request /\ Last = requests[r]
  BY <1>2, OneBusy DEF Delivery, Control, TypeOK
<1>4. /\ requests' = WithStatus(r, "SUCCEEDED") /\ AfterSuccess(requests[r])
      /\ worker' = [worker EXCEPT ![w] = Idle] /\ UNCHANGED router
  BY DEF Complete
<1>5. /\ Len(requests') = Len(requests) /\ DOMAIN requests' = DOMAIN requests
      /\ requests'[r].status = "SUCCEEDED"
      /\ \A i \in DOMAIN requests : i # r => requests'[i] = requests[i]
  BY <1>3, <1>4, UpdateStatus DEF RequestStatus
<1>6. \A i \in DOMAIN requests' : ~ InFlight(i)'
  BY <1>3, <1>5, InFlightStatus DEF InFlight, Delivery
<1>7. OpenOrder' = Promised!None
  BY <1>6 DEF OpenOrder, Quiet, Promised!None
<1>8. Answered' = FALSE
  <2>1. \A v \in Workers : ~ Busy(v)'
    BY <1>2, <1>4, IdleWorker, OneBusy DEF Delivery, Control
  <2>. QED
    BY <2>1 DEF Answered, Busy
<1>9. LastFailed = FALSE /\ LastFailed' = FALSE
  BY <1>3, <1>5 DEF LastFailed, Last, InFlight
<1>10. UNCHANGED Line
  BY <1>4 DEF Line, Online
<1>11. requests[r].action \in Action
  BY <1>3 DEF Request
<1>12. Promised!Settle
  BY <1>2, <1>4, <1>7, <1>8, <1>9, <1>10, <1>11 DEF AfterSuccess, Action, Promised!Settle
<1>. QED
  BY <1>12 DEF Promised!Next

\* The worker stops knowing: its request cannot be completed, or it dies.
LEMMA LosingTouchForgets ==
    ASSUME Delivery, NEW w \in Workers, CompleteRaises(w) \/ Crash(w)
    PROVE  [Promised!Next]_(Promised!vars)
<1>1. Busy(w) /\ UNCHANGED <<status, package, requests, router>>
  BY DEF CompleteRaises, Crash, Busy
<1>2. /\ worker[w] \in [phase : {"claimed", "applied", "raised"},
                        request : Nat \ {0}, package : Packages]
      /\ \A v \in Workers : Busy(v) => v = w
  BY <1>1, HeldType, OneBusy DEF Delivery, Control
<1>3. \A v \in Workers : worker'[v].phase # "applied"
  BY <1>2 DEF CompleteRaises, Crash, Delivery, Control, TypeOK, Busy, Idle
<1>4. Answered' = FALSE
  BY <1>3 DEF Answered
<1>5. UNCHANGED <<status, package, Line, OpenOrder, LastFailed>>
  BY <1>1, SameOrder
<1>6. CASE Answered
  BY <1>4, <1>5, <1>6 DEF Promised!Forget, Promised!Next
<1>7. CASE ~ Answered
  BY <1>4, <1>5, <1>7 DEF Answered, Promised!vars
<1>. QED
  BY <1>6, <1>7

LEMMA FailGivesUp ==
    ASSUME Delivery, NEW w \in Workers, Fail(w)
    PROVE  Promised!Next
<1>1. Busy(w)
  BY DEF Fail, Busy
<1>2. /\ worker[w].request \in DOMAIN requests
      /\ requests[worker[w].request].status = "PROCESSING"
      /\ InFlight(worker[w].request)
  BY <1>1, OneBusy
<1>3. /\ MarkFailed(worker[w].request) /\ worker' = [worker EXCEPT ![w] = Idle]
      /\ UNCHANGED <<package, router>>
  BY <1>2 DEF Fail
<1>4. \A v \in Workers : ~ Busy(v)'
  BY <1>1, <1>3, IdleWorker, OneBusy DEF Delivery, Control
<1>. QED
  BY <1>2, <1>3, <1>4, FailedGivesUp DEF Promised!Next

LEMMA RecoveryGivesUp ==
    ASSUME ~ RecoverSlowWorkers, Delivery, NEW r \in DOMAIN requests, RecoverStale(r)
    PROVE  Promised!Next
<1>1. /\ InFlight(r) /\ MarkFailed(r) /\ ~ Working(r)
      /\ UNCHANGED <<worker, package, router>>
  BY DEF RecoverStale, InFlight
<1>2. r = Len(requests)
  BY <1>1 DEF Delivery, Control, OneRequestInFlight
<1>3. \A w \in Workers : ~ Busy(w)'
  BY <1>1, <1>2, OneBusy DEF Working, Busy
<1>. QED
  BY <1>1, <1>3, FailedGivesUp DEF Promised!Next

LEMMA InitPromised == Init => Promised!Init
<1> SUFFICES ASSUME Init PROVE Promised!Init
  OBVIOUS
<1>1. Answered = FALSE /\ package \in Packages
  BY DEF Init, Idle, Answered
<1>2. CASE CreatedOnRouter
  <2>1. /\ Len(requests) = 1 /\ DOMAIN requests = {1}
        /\ requests[1] = NewRequest("ACTIVATE", package)
    BY <1>2 DEF CreatedOnRouter
  <2>2. Last = NewRequest("ACTIVATE", package) /\ ~ Quiet
    BY <2>1 DEF Last, NewRequest, Quiet, InFlight
  <2>3. OpenOrder = Promised!Order("ACTIVATE", package) /\ LastFailed = FALSE
    BY <2>2 DEF OpenOrder, LastFailed, NewRequest, Promised!Order
  <2>4. Line = Promised!Off
    BY <1>2 DEF CreatedOnRouter, Line, Online, Promised!Off
  <2>. QED
    BY <1>1, <1>2, <2>3, <2>4 DEF CreatedOnRouter, Promised!Init
<1>3. CASE ImportedLive
  <2>1. Quiet /\ LastFailed = FALSE
    BY <1>3 DEF ImportedLive, Quiet, LastFailed
  <2>2. OpenOrder = Promised!None
    BY <2>1 DEF OpenOrder, Promised!None
  <2>3. Line = package /\ status = "ACTIVE"
    BY <1>3 DEF ImportedLive, Line, Online
  <2>. QED
    BY <1>1, <2>1, <2>2, <2>3 DEF Promised!Init
<1>. QED
  BY <1>2, <1>3 DEF Init

LEMMA NextPromised ==
    ASSUME ~ RecoverSlowWorkers
    PROVE  Delivery /\ [Next]_vars => [Promised!Next]_(Promised!vars)
<1> SUFFICES ASSUME Delivery, [Next]_vars
             PROVE  [Promised!Next]_(Promised!vars)
  OBVIOUS
<1>1. package \in Packages
  BY DEF Delivery, Control, TypeOK
<1>2. CASE RequestServiceSuspension
  BY <1>1, <1>2, RequestsPlace DEF RequestServiceSuspension, Action
<1>3. CASE RequestServiceRestore
  BY <1>1, <1>3, RequestsPlace DEF RequestServiceRestore, Action
<1>4. ASSUME NEW p \in Packages, RequestPackageChange(p)
      PROVE  Promised!Next
  BY <1>4, RequestsPlace DEF RequestPackageChange, Action
<1>5. ASSUME NEW p \in Packages, SetPackageOffered(p)
      PROVE  UNCHANGED Promised!vars
  <2>1. UNCHANGED <<status, package, requests, worker, router>>
    BY <1>5 DEF SetPackageOffered
  <2>. QED
    BY <2>1, SameOrder DEF Answered, Promised!vars
<1>6. CASE Lifecycle
  BY <1>2, <1>3, <1>4, <1>5, <1>6, RetryPlaces, RecoveryGivesUp DEF Lifecycle
<1>7. ASSUME NEW w \in Workers, Execute(w) \/ Crash(w)
      PROVE  [Promised!Next]_(Promised!vars)
  BY <1>7, ClaimStutters, ProvideServes, CompleteSettles, LosingTouchForgets, FailGivesUp
     DEF Execute
<1>8. CASE UNCHANGED vars
  <2>1. UNCHANGED <<status, package, requests, worker, router>>
    BY <1>8 DEF vars
  <2>. QED
    BY <2>1, SameOrder DEF Answered, Promised!vars
<1>. QED
  BY <1>6, <1>7, <1>8 DEF Next

\* With a recovery threshold longer than any live execution, provisioning
\* implements the promise of Service: the line follows one order at a time, and
\* the service row changes only as that order is opened, settled or given up.
THEOREM ProvisioningKeepsThePromise ==
    ASSUME ~ RecoverSlowWorkers
    PROVE  Spec => KeepsThePromise
<1>1. Init => Promised!Init /\ Delivery
  BY InitPromised, InitDelivery
<1>2. Delivery /\ [Next]_vars => Delivery'
  BY NextDelivery
<1>3. Delivery /\ [Next]_vars => [Promised!Next]_(Promised!vars)
  BY NextPromised
<1>. QED
  BY <1>1, <1>2, <1>3, PTL DEF Spec, KeepsThePromise, Promised!Spec
=============================================================================
