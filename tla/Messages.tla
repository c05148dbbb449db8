------------------------------ MODULE Messages ------------------------------
(***************************************************************************)
(* The communication queue (backend/communications): workers that claim    *)
(* queued messages and hand them to a provider, recovery of the messages   *)
(* of a worker that died, notifications sent from inside a transaction,    *)
(* the retry button and the requests that edit or delete rows and logs.    *)
(*                                                                         *)
(* Every save is a step of its own unless a transaction joins it to        *)
(* others; nothing but the claim takes a lock, so a step writes what its   *)
(* process read before, whatever the row holds by then.  The provider's    *)
(* delivery reports change nothing: their first save names a field the log *)
(* does not have and raises (views.py, WhatsAppWebhookAPIView).            *)
(***************************************************************************)
EXTENDS Integers, FiniteSets

CONSTANTS
    Messages,       \* CommunicationQueue rows that may be created
    Workers,        \* processes that dispatch, recover or notify
    Clerks,         \* requests of staff: the retry button, an edit of a row or a log
    Nobody,         \* the message of an idle process
    DefaultAttempts, \* the default of CommunicationQueue.max_attempts
    MaxAttempts,    \* bound on the max_attempts that staff may give a row
    MaxCrashes,     \* bound on processes that die or roll back
    MaxLost,        \* bound on acceptances whose answer times out, per message
    MaxRetries,     \* bound on uses of the retry button, per message
    MaxEdits,       \* bound on edits of a row or its log, per message
    MaxMishaps,     \* bound on all of these together that a message meets
    SlowWorkers     \* TRUE: a send may outlast PROCESSING_TIMEOUT_MINUTES

ASSUME MaxAttemptsAssumption == MaxAttempts \in Nat /\ DefaultAttempts \in 1 .. MaxAttempts
ASSUME BoundsAssumption ==
    /\ MaxCrashes \in Nat /\ MaxLost \in Nat /\ MaxRetries \in Nat /\ MaxEdits \in Nat
    /\ MaxMishaps \in Nat
ASSUME NobodyAssumption == Nobody \notin Messages
ASSUME SlowWorkersAssumption == SlowWorkers \in BOOLEAN

VARIABLES
    queue,      \* CommunicationQueue rows
    log,        \* CommunicationLog rows; id is the provider's number of the acceptance
    worker,     \* what each worker holds in memory
    clerk,      \* what each request holds in memory
    accepted,   \* accepted[m]: times the provider took m (the customer gets m)
    lost,       \* lost[m]: acceptances that timed out, died unrecorded or were rolled back
    retried,    \* retried[m]: times staff put m back in the queue
    rescued,    \* rescued[m]: times recovery put m back in the queue
    reopened,   \* reopened[m]: times an edit put m back in the queue
    edited,     \* edited[m]: edits of m or its log that were begun
    failures,   \* failures[m]: failed attempts recorded for m, counted up to MaxAttempts
    least,      \* least[m]: the smallest max_attempts m was ever given
    refused,    \* messages refused for good at least once
    crashes     \* processes that died so far

ghosts == <<accepted, lost, retried, rescued, reopened, edited, failures, least, refused,
            crashes>>
vars == <<queue, log, worker, clerk, accepted, lost, retried, rescued, reopened, edited,
          failures, least, refused, crashes>>

\* processing_started_at: not set, within the timeout, or older than it.
Started == {"none", "recent", "old"}
\* "NONE": not created yet; "DELETED": no longer in the table.
QueueStatus == {"NONE", "PENDING", "PROCESSING", "SENT", "FAILED", "DELETED"}
LogStatus == {"NONE", "PENDING", "SENT", "FAILED"}
Result == {"none", "accepted", "retryable", "permanent"}
Limits == 0 .. MaxAttempts

NoRow == [status |-> "NONE", started |-> "none", attempts |-> 0, limit |-> DefaultAttempts]
NoLog == [status |-> "NONE", id |-> 0]
IdleWorker == [at |-> "idle", m |-> Nobody, stale |-> {}, attempts |-> 0,
               limit |-> DefaultAttempts, result |-> "none", id |-> 0]
IdleClerk == [at |-> "idle", m |-> Nobody, row |-> NoRow, log |-> NoLog]

\* Another crash, lost answer, retry or edit of m is within the bound.
Spared(m) ==
    LET retrying == {c \in Clerks : clerk[c].at = "retry" /\ clerk[c].m = m} IN
    crashes + lost[m] + retried[m] + Cardinality(retrying) + edited[m] < MaxMishaps

InTable(m) == queue[m].status \notin {"NONE", "DELETED"}

Init ==
    /\ queue = [m \in Messages |-> NoRow]
    /\ log = [m \in Messages |-> NoLog]
    /\ worker = [w \in Workers |-> IdleWorker]
    /\ clerk = [c \in Clerks |-> IdleClerk]
    /\ accepted = [m \in Messages |-> 0]
    /\ lost = [m \in Messages |-> 0]
    /\ retried = [m \in Messages |-> 0]
    /\ rescued = [m \in Messages |-> 0]
    /\ reopened = [m \in Messages |-> 0]
    /\ edited = [m \in Messages |-> 0]
    /\ failures = [m \in Messages |-> 0]
    /\ least = [m \in Messages |-> MaxAttempts]
    /\ refused = {}
    /\ crashes = 0

-----------------------------------------------------------------------------
(* Creating and claiming *)

\* m is given max_attempts limit.
Lowered(m, limit) == [least EXCEPT ![m] = IF limit < @ THEN limit ELSE @]

\* execute_automation, queue_lifecycle_trigger, BroadcastAPIView: row and log in one
\* transaction.  (Delays and backoffs: a pending row is due at any time.)
Enqueue(m) ==
    /\ queue[m] = NoRow
    /\ \A w \in Workers : worker[w].m # m
    /\ queue' = [queue EXCEPT ![m].status = "PENDING"]
    /\ log' = [log EXCEPT ![m].status = "PENDING"]
    /\ least' = Lowered(m, DefaultAttempts)
    /\ UNCHANGED <<worker, clerk, accepted, lost, retried, rescued, reopened, edited, failures,
                   refused, crashes>>

\* CommunicationQueueViewSet creates a row without a log, with any max_attempts.
Create(m) ==
    /\ queue[m] = NoRow
    /\ \A w \in Workers : worker[w].m # m
    /\ \E limit \in Limits :
         /\ queue' = [queue EXCEPT ![m].status = "PENDING", ![m].limit = limit]
         /\ least' = Lowered(m, limit)
    /\ UNCHANGED <<log, worker, clerk, accepted, lost, retried, rescued, reopened, edited,
                   failures, refused, crashes>>

\* The ten minutes after which a PROCESSING row counts as stale go by.  A worker that
\* still has the row finishes within them, unless SlowWorkers.
Elapse(m) ==
    /\ queue[m].status = "PROCESSING" /\ queue[m].started = "recent"
    /\ SlowWorkers \/ \A w \in Workers : worker[w].m # m
    /\ queue' = [queue EXCEPT ![m].started = "old"]
    /\ UNCHANGED <<log, worker, clerk, ghosts>>

Stale == {m \in Messages : queue[m].status = "PROCESSING" /\ queue[m].started = "old"}

\* dispatch_next opens its transaction and reads the stale rows, without a lock.
Dispatch(w) ==
    /\ worker[w].at = "idle"
    /\ worker' = [worker EXCEPT ![w].at = "dispatching", ![w].stale = Stale]
    /\ UNCHANGED <<queue, log, clerk, ghosts>>

\* recover_stale_processing_task reads the stale rows; with none it does nothing.
Recover(w) ==
    /\ worker[w].at = "idle"
    /\ Stale # {}
    /\ worker' = [worker EXCEPT ![w].at = "recovering", ![w].stale = Stale]
    /\ UNCHANGED <<queue, log, clerk, ghosts>>

\* Mutant: recovery forgets the status of the rows it takes from their worker.
Recovered_Unclaimed(rows) ==
    [m \in Messages |-> IF m \in rows THEN [queue[m] EXCEPT !.started = "none"] ELSE queue[m]]

\* The queue after recovery has saved the rows it read.
Recovered(rows) ==
    [m \in Messages |->
        IF m \in rows THEN [queue[m] EXCEPT !.status = "PENDING", !.started = "none"]
        ELSE queue[m]]

Rescued(rows) == [m \in Messages |-> IF m \in rows THEN rescued[m] + 1 ELSE rescued[m]]

\* Mutant: the claim does not look at the status of the row again.
Claim_Any(w) ==
    LET found == Recovered(worker[w].stale) IN
    /\ worker[w].at = "dispatching"
    /\ \A m \in worker[w].stale : InTable(m)
    /\ \E m \in Messages :
         /\ found[m].status \in {"PENDING", "PROCESSING"}
         /\ queue' = [found EXCEPT ![m].status = "PROCESSING", ![m].started = "recent"]
         /\ worker' = [worker EXCEPT ![w] = [IdleWorker EXCEPT !.at = "sending", !.m = m,
                                                          !.attempts = found[m].attempts,
                                                          !.limit = found[m].limit]]
    /\ rescued' = Rescued(worker[w].stale)
    /\ UNCHANGED <<log, clerk, accepted, lost, retried, reopened, edited, failures, least,
                   refused, crashes>>

\* The rest of dispatch_next's transaction: save the stale rows, lock and claim a row.
Claim(w) ==
    LET found == Recovered(worker[w].stale) IN
    /\ worker[w].at = "dispatching"
    /\ \A m \in worker[w].stale : InTable(m)
    /\ \E m \in Messages :
         /\ found[m].status = "PENDING"
         /\ queue' = [found EXCEPT ![m].status = "PROCESSING", ![m].started = "recent"]
         /\ worker' = [worker EXCEPT ![w] = [IdleWorker EXCEPT !.at = "sending", !.m = m,
                                                          !.attempts = found[m].attempts,
                                                          !.limit = found[m].limit]]
    /\ rescued' = Rescued(worker[w].stale)
    /\ UNCHANGED <<log, clerk, accepted, lost, retried, reopened, edited, failures, least,
                   refused, crashes>>

\* dispatch_next finds no row to claim.
ClaimNothing(w) ==
    /\ worker[w].at = "dispatching"
    /\ \A m \in worker[w].stale : InTable(m)
    /\ \A m \in Messages : Recovered(worker[w].stale)[m].status # "PENDING"
    /\ worker' = [worker EXCEPT ![w] = IdleWorker]
    /\ UNCHANGED <<queue, log, clerk, ghosts>>

\* A stale row was deleted since it was read: saving it raises, the task ends, and what
\* dispatch_next did is rolled back.
RecoverMissing(w) ==
    /\ worker[w].at \in {"dispatching", "recovering"}
    /\ \E m \in worker[w].stale : ~InTable(m)
    /\ worker' = [worker EXCEPT ![w] = IdleWorker]
    /\ UNCHANGED <<queue, log, clerk, ghosts>>

\* recover_stale_processing_task saves each row in a transaction of its own.
RecoverRow(w) ==
    /\ worker[w].at = "recovering"
    /\ \E m \in worker[w].stale :
         LET left == worker[w].stale \ {m} IN
         /\ InTable(m)
         /\ queue' = Recovered({m})
         /\ rescued' = Rescued({m})
         /\ worker' = [worker EXCEPT ![w] = IF left = {} THEN IdleWorker
                                             ELSE [worker[w] EXCEPT !.stale = left]]
    /\ UNCHANGED <<log, clerk, accepted, lost, retried, reopened, edited, failures, least,
                   refused, crashes>>

-----------------------------------------------------------------------------
(* Sending *)

\* dispatch_notification_event: the row exists only inside the caller's transaction.
Notify(w, m) ==
    /\ worker[w].at = "idle"
    /\ queue[m] = NoRow
    /\ \A v \in Workers : worker[v].m # m
    /\ worker' = [worker EXCEPT ![w] = [IdleWorker EXCEPT !.at = "notifying", !.m = m]]
    /\ UNCHANGED <<queue, log, clerk, ghosts>>

Sending(w) == worker[w].at \in {"sending", "notifying"} /\ worker[w].result = "none"

\* provider.send: taken, and the answer arrives.
SendAccepted(w) ==
    LET m == worker[w].m IN
    /\ Sending(w)
    /\ accepted' = [accepted EXCEPT ![m] = @ + 1]
    /\ worker' = [worker EXCEPT ![w].result = "accepted", ![w].id = accepted[m] + 1]
    /\ UNCHANGED <<queue, log, clerk, lost, retried, rescued, reopened, edited, failures,
                   least, refused, crashes>>

\* provider.send: taken, but the answer times out; the attempt counts as retryable.
SendLost(w) ==
    LET m == worker[w].m IN
    /\ Sending(w)
    /\ lost[m] < MaxLost /\ Spared(m)
    /\ accepted' = [accepted EXCEPT ![m] = @ + 1]
    /\ lost' = [lost EXCEPT ![m] = @ + 1]
    /\ worker' = [worker EXCEPT ![w].result = "retryable"]
    /\ UNCHANGED <<queue, log, clerk, retried, rescued, reopened, edited, failures, least,
                   refused, crashes>>

\* provider.send or is_configured: not taken, for now or for good.
SendRefused(w) ==
    /\ Sending(w)
    /\ \E result \in {"retryable", "permanent"} :
         worker' = [worker EXCEPT ![w].result = result]
    /\ UNCHANGED <<queue, log, clerk, ghosts>>

\* Mutant: the last attempt is not made.
MarkedStatus_Early(w) ==
    IF worker[w].result = "accepted" THEN "SENT"
    ELSE IF worker[w].result = "retryable" /\ worker[w].attempts + 2 < worker[w].limit
    THEN "PENDING" ELSE "FAILED"

\* Mutant: taken by the provider counts as delivered to the customer.
MarkedStatus_Delivered(w) ==
    IF worker[w].result = "accepted" THEN "DELIVERED"
    ELSE IF worker[w].result = "retryable" /\ worker[w].attempts + 1 < worker[w].limit
    THEN "PENDING" ELSE "FAILED"

\* mark_success and mark_failure: the status, from the attempts the worker loaded.
MarkedStatus(w) ==
    IF worker[w].result = "accepted" THEN "SENT"
    ELSE IF worker[w].result = "retryable" /\ worker[w].attempts + 1 < worker[w].limit
    THEN "PENDING" ELSE "FAILED"

\* The fields mark_success or mark_failure saves; a failure saves the attempts as well.
Marked(w, row) ==
    [row EXCEPT !.status = MarkedStatus(w), !.started = "none",
                !.attempts = IF worker[w].result = "accepted" THEN @
                             ELSE worker[w].attempts + 1]

CountFailure(w) ==
    LET m == worker[w].m IN
    /\ failures' = IF worker[w].result = "accepted" THEN failures
                   ELSE [failures EXCEPT ![m] = IF @ < MaxAttempts THEN @ + 1 ELSE @]
    /\ refused' = IF worker[w].result = "permanent" THEN refused \cup {m} ELSE refused

\* mark_success and mark_failure: queue.save, blind.
MarkQueue(w) ==
    LET m == worker[w].m IN
    /\ worker[w].at = "sending" /\ worker[w].result # "none"
    /\ InTable(m)
    /\ queue' = [queue EXCEPT ![m] = Marked(w, queue[m])]
    /\ CountFailure(w)
    /\ worker' = [worker EXCEPT ![w].at = "logging", ![w].attempts = 0,
                                ![w].limit = DefaultAttempts]
    /\ UNCHANGED <<log, clerk, accepted, lost, retried, rescued, reopened, edited, least,
                   crashes>>

\* The row was deleted while it was being sent: queue.save raises and the task ends.
MarkMissing(w) ==
    /\ worker[w].at = "sending" /\ worker[w].result # "none"
    /\ ~InTable(worker[w].m)
    /\ worker' = [worker EXCEPT ![w] = IdleWorker]
    /\ UNCHANGED <<queue, log, clerk, ghosts>>

\* Mutant: the log is marked sent whatever the provider said.
MarkLog_Sent(w) ==
    LET m == worker[w].m IN
    /\ worker[w].at = "logging"
    /\ log' = IF log[m] = NoLog THEN log
              ELSE [log EXCEPT ![m] = [status |-> "SENT", id |-> worker[w].id]]
    /\ worker' = [worker EXCEPT ![w] = IdleWorker]
    /\ UNCHANGED <<queue, clerk, ghosts>>

\* mark_success and mark_failure: the update of the log, if the row has one.
MarkLog(w) ==
    LET m == worker[w].m IN
    /\ worker[w].at = "logging"
    /\ log' = IF log[m] = NoLog THEN log
              ELSE IF worker[w].result = "accepted"
              THEN [log EXCEPT ![m] = [status |-> "SENT", id |-> worker[w].id]]
              ELSE [log EXCEPT ![m].status = "FAILED"]
    /\ worker' = [worker EXCEPT ![w] = IdleWorker]
    /\ UNCHANGED <<queue, clerk, ghosts>>

\* The transaction around dispatch_notification_event commits the row as it was marked.
NotifyCommit(w) ==
    LET m == worker[w].m IN
    /\ worker[w].at = "notifying" /\ worker[w].result # "none"
    /\ queue' = [queue EXCEPT ![m] = Marked(w, NoRow)]
    /\ CountFailure(w)
    /\ least' = Lowered(m, DefaultAttempts)
    /\ worker' = [worker EXCEPT ![w] = IdleWorker]
    /\ UNCHANGED <<log, clerk, accepted, lost, retried, rescued, reopened, edited, crashes>>

\* A process dies.  A notification's row is rolled back with the transaction around it,
\* and nothing is left that says it was sent.
Crash(w) ==
    LET m == worker[w].m IN
    /\ worker[w].at # "idle"
    /\ crashes < MaxCrashes /\ \A n \in Messages : Spared(n)
    /\ crashes' = crashes + 1
    /\ lost' = IF worker[w].at \in {"sending", "notifying"} /\ worker[w].result = "accepted"
               THEN [lost EXCEPT ![m] = @ + 1] ELSE lost
    /\ worker' = [worker EXCEPT ![w] = IdleWorker]
    /\ UNCHANGED <<queue, log, clerk, accepted, retried, rescued, reopened, edited, failures,
                   least, refused>>

-----------------------------------------------------------------------------
(* Staff *)

\* RetryCommunicationAPIView reads the log and its row.
RetryRead(c, m) ==
    /\ clerk[c].at = "idle"
    /\ log[m] # NoLog
    /\ queue[m].status # "SENT"
    /\ retried[m] < MaxRetries /\ Spared(m)
    /\ clerk' = [clerk EXCEPT ![c] = [IdleClerk EXCEPT !.at = "retry", !.m = m]]
    /\ UNCHANGED <<queue, log, worker, ghosts>>

\* RetryCommunicationAPIView saves the row: attempts stays, a worker's claim does not.  The
\* save of the log then names a field it does not have and raises: the log stays as it is.
RetryQueue(c) ==
    LET m == clerk[c].m IN
    /\ clerk[c].at = "retry"
    /\ InTable(m)
    /\ queue' = [queue EXCEPT ![m].status = "PENDING", ![m].started = "none"]
    /\ retried' = [retried EXCEPT ![m] = @ + 1]
    /\ clerk' = [clerk EXCEPT ![c] = IdleClerk]
    /\ UNCHANGED <<log, worker, accepted, lost, rescued, reopened, edited, failures, least,
                   refused, crashes>>

\* The row was deleted since it, or its log, was read: saving fails.
ClerkMissing(c) ==
    /\ clerk[c].at \in {"retry", "edit log"}
    /\ ~InTable(clerk[c].m)
    /\ clerk' = [clerk EXCEPT ![c] = IdleClerk]
    /\ UNCHANGED <<queue, log, worker, ghosts>>

\* CommunicationQueueViewSet and CommunicationLogViewSet, PUT and PATCH: the whole row or
\* log is read ...
EditRead(c, m) ==
    /\ clerk[c].at = "idle"
    /\ edited[m] < MaxEdits /\ Spared(m)
    /\ \/ /\ InTable(m)
          /\ clerk' = [clerk EXCEPT ![c] = [IdleClerk EXCEPT !.at = "edit", !.m = m,
                                                             !.row = queue[m]]]
       \/ /\ log[m] # NoLog
          /\ clerk' = [clerk EXCEPT ![c] = [IdleClerk EXCEPT !.at = "edit log", !.m = m,
                                                             !.log = log[m]]]
    /\ edited' = [edited EXCEPT ![m] = @ + 1]
    /\ UNCHANGED <<queue, log, worker, accepted, lost, retried, rescued, reopened, failures,
                   least, refused, crashes>>

\* ... and, with the fields that staff may set, saved whole: the status, claim and attempts
\* of the row are those of the read, and a row deleted since is inserted again.
EditSave(c) ==
    LET m == clerk[c].m IN
    /\ clerk[c].at = "edit"
    /\ \E limit \in Limits :
         /\ queue' = [queue EXCEPT ![m] = [clerk[c].row EXCEPT !.limit = limit]]
         /\ least' = Lowered(m, limit)
    /\ reopened' = IF clerk[c].row.status = "PENDING" /\ queue[m].status # "PENDING"
                   THEN [reopened EXCEPT ![m] = @ + 1] ELSE reopened
    /\ clerk' = [clerk EXCEPT ![c] = IdleClerk]
    /\ UNCHANGED <<log, worker, accepted, lost, retried, rescued, edited, failures, refused,
                   crashes>>

\* Nothing of a log can be set, but saving it writes back what was read.
EditLogSave(c) ==
    LET m == clerk[c].m IN
    /\ clerk[c].at = "edit log"
    /\ InTable(m)
    /\ log' = [log EXCEPT ![m] = clerk[c].log]
    /\ clerk' = [clerk EXCEPT ![c] = IdleClerk]
    /\ UNCHANGED <<queue, worker, ghosts>>

\* CommunicationQueueViewSet, DELETE: the row and its log.
DeleteRow(m) ==
    /\ InTable(m)
    /\ queue' = [queue EXCEPT ![m] = [NoRow EXCEPT !.status = "DELETED"]]
    /\ log' = [log EXCEPT ![m] = NoLog]
    /\ UNCHANGED <<worker, clerk, ghosts>>

\* CommunicationLogViewSet, DELETE.
DeleteLog(m) ==
    /\ log[m] # NoLog
    /\ log' = [log EXCEPT ![m] = NoLog]
    /\ UNCHANGED <<queue, worker, clerk, ghosts>>

-----------------------------------------------------------------------------
WorkerStep(w) ==
    \/ Dispatch(w) \/ Claim(w) \/ ClaimNothing(w)
    \/ RecoverMissing(w) \/ RecoverRow(w)
    \/ SendAccepted(w) \/ SendRefused(w)
    \/ MarkQueue(w) \/ MarkMissing(w) \/ MarkLog(w)
    \/ NotifyCommit(w)

ClerkStep(c) == RetryQueue(c) \/ ClerkMissing(c) \/ EditSave(c) \/ EditLogSave(c)

Next ==
    \/ \E m \in Messages : Enqueue(m) \/ Create(m) \/ Elapse(m) \/ DeleteRow(m) \/ DeleteLog(m)
    \/ \E w \in Workers :
         \/ WorkerStep(w)
         \/ Recover(w) \/ SendLost(w) \/ Crash(w)
         \/ \E m \in Messages : Notify(w, m)
    \/ \E c \in Clerks :
         \/ ClerkStep(c)
         \/ \E m \in Messages : RetryRead(c, m) \/ EditRead(c, m)

\* The beat schedule starts the dispatcher every minute, so a worker that recovers or
\* notifies in between still comes to dispatch (strong fairness); a process that has begun
\* goes on; time passes.  Nothing obliges staff, the provider or a caller to begin.
Fairness ==
    /\ \A w \in Workers : SF_vars(Dispatch(w)) /\ WF_vars(WorkerStep(w))
    /\ \A c \in Clerks : WF_vars(ClerkStep(c))
    /\ \A m \in Messages : WF_vars(Elapse(m))

Spec == Init /\ [][Next]_vars /\ Fairness

-----------------------------------------------------------------------------
TypeOK ==
    /\ queue \in [Messages -> [status : QueueStatus, started : Started, attempts : Nat,
                               limit : Limits]]
    /\ log \in [Messages -> [status : LogStatus, id : Nat]]
    /\ worker \in [Workers -> [at : {"idle", "dispatching", "recovering", "sending",
                                     "notifying", "logging"},
                               m : Messages \cup {Nobody}, stale : SUBSET Messages,
                               attempts : Nat, limit : Limits, result : Result, id : Nat]]
    /\ clerk \in [Clerks -> [at : {"idle", "retry", "edit", "edit log"},
                             m : Messages \cup {Nobody},
                             row : [status : QueueStatus, started : Started, attempts : Nat,
                                    limit : Limits],
                             log : [status : LogStatus, id : Nat]]]
    /\ \A count \in {accepted, lost, retried, rescued, reopened, edited, failures} :
         count \in [Messages -> Nat]
    /\ least \in [Messages -> Limits]
    /\ refused \subseteq Messages
    /\ crashes \in 0 .. MaxCrashes

\* The provider takes a message a second time only after the answer to an earlier
\* attempt was lost, recovery put it back, staff did (dispatcher.py: the claim), or an
\* edit overwrote the row with the PENDING it had read before.
DuplicatesAreExplained ==
    \A m \in Messages :
        accepted[m] <= 1 + lost[m] + retried[m] + rescued[m] + reopened[m]

\* What the docstring of the dispatch task promises of skip_locked: apart from lost
\* answers, no message is dispatched twice.
NoDuplicateDispatch == \A m \in Messages : accepted[m] <= 1 + lost[m]

\* However workers and edits overwrite each other's row and log, a message is shown as
\* sent, in the queue or in the log, only if the provider took it.
SentWasAccepted ==
    \A m \in Messages :
        /\ queue[m].status = "SENT" => accepted[m] > 0
        /\ log[m].status = "SENT" => accepted[m] > 0
        /\ log[m].id <= accepted[m]

\* However workers and edits overwrite each other's attempts, a message is given up only
\* when it was refused for good or failed as often as a max_attempts it had allows.
GivenUpWhenSpent ==
    \A m \in Messages :
        queue[m].status = "FAILED" => m \in refused \/ failures[m] >= least[m]

\* Whatever crashes and however requests and workers overwrite each other, a message
\* that waits or is being sent is eventually sent, given up or deleted: no overwrite
\* leaves a row that neither the claim nor recovery finds.
EventuallySettled ==
    \A m \in Messages :
        queue[m].status \in {"PENDING", "PROCESSING"}
            ~> queue[m].status \in {"SENT", "FAILED", "DELETED"}
=============================================================================
