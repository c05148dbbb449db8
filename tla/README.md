# Nexora ISP: models and proofs

Nexora is the back office of an internet provider: a Django and Celery backend
(`src/backend`, 18 apps) behind a Next.js frontend (`src/nexora-isp`).  It keeps
customers and their service accounts, bills them, switches their PPPoE secrets on
and off on MikroTik routers, keeps stock and books, and sends messages; the frontend
is a client of fifty pages that several members of staff use at a time.  This
directory holds TLA+ modules for the parts where order, concurrency or failure decide
whether the system is right, the configurations TLC checks them with, and proofs that
TLAPS checks.

Contents

1. Inventory of the system
2. The modules and how they correspond to the code
3. The runs
4. What is proved
5. What is assumed, and what is not modelled
6. Where the code and its documentation disagree
7. Plan

## 1. Inventory of the system

The database is PostgreSQL at READ COMMITTED; `ATOMIC_REQUESTS` is off, so a handler
is as atomic as the `transaction.atomic` it asks for.  `select_for_update()` with
`select_related()` locks the joined rows too.  Background work runs in Celery workers
or, with the default eager setting, inside the request; a beat schedule
(`config/settings.py:162`) starts the periodic tasks.

| Part (app) | State it keeps | Operations | Talks to | Hard behaviour | What makes it correct |
|---|---|---|---|---|---|
| Provisioning (`network`) | `ServiceAccount.status` and package, `ProvisioningRequest` rows | request, claim, complete, fail, retry, recover; package change | the router (RouterOS API) | three transactions and a remote call per request; lost answers; dead workers; late recovery | router and service agree unless a failure says they may not; a pending status has the request that settles it |
| Suspension and restoration (`customers`) | policy, `ServiceSuspensionLog`, service status | staff suspend and restore, nightly engine, nightly retry, prepaid expiry | provisioning, billing, messages | check-then-act without locks; several automations act on one service | a paid service comes back; a pending status has its request; no action is queued twice |
| Billing (`billing/services.py`) | invoices, payments, allocations, advances, bad debt | issue, pay (four ways), reverse, cancel, write off, recover | ledger, suspension, messages | derived status and amounts kept in step by many operations | nothing overpaid; the books miss nothing but what could not be posted |
| Prepaid recharge (`billing/recharge_services.py`) | `paid_until`, recharge rows | recharge, daily expiry | billing, suspension | renewal from expiry or from today; recharge during suspension | paid days are never lost or given twice |
| Collections (`billing/automation.py`, `recovery_services.py`, `tasks.py`) | follow-ups, promises to pay, recovery visits | overdue scan, promise made, kept, broken; visit | suspension, notifications | unlocked check-then-create of promises; scan against payment | one open promise per service; a promise holds off suspension |
| Ledger (`accounting`) | accounts, journal entries and lines, periods | post, reverse, close and reopen a period, commissions, posting hooks | every app that moves money | hooks swallow failures; entry posted while a period closes; manual reversals | entries balance; a closed period does not change; rows and books agree |
| Inventory and sales (`inventory`) | items, movements, devices, assignments, sales | restock, adjust, damage, dispose, assign, return, sell, cancel, edit | ledger | stock against movement rows; an edit that saves a whole row it read without a lock; custody of one device through three tables | stock is the sum of its movements but for edits; one custodian per device |
| Message queue (`communications`) | queue and log rows | enqueue, claim, send, mark, recover, retry, edit, delete, report | WhatsApp, e-mail, SMS providers | at-least-once delivery, dead workers, rows saved whole from an unlocked read | no unexplained duplicate; every message settles |
| Schedules, automations, templates (`communications`) | automation and schedule rows, templates | run due schedules, execute an automation, reconcile | message queue | two schedulers; a reconciliation that runs twice | one message per event and automation |
| Notification jobs (`notifications`) | `NotificationJob` rows | queue, start, sent, failed | collections, incidents | a job started and never ended | a job ends once |
| Complaints and incidents (`support`) | complaints, timeline, SLA, incidents | create, assign, escalate, resolve, confirm, reopen | messages, field work | status reachable through a transition table and around it | closed is final; the timeline is the history |
| Field work (`field_operations`) | work orders, maintenance jobs | create, assign, dispatch, on site, complete | complaints, staff | a technician who leaves with open orders | order of the steps; only the assigned technician acts |
| Staff, attendance, leave (`hr`, `tenancy/staff_services.py`) | memberships, profiles, attendance, leave | check in and out, override, leave, activate | accounts | read and write without a lock: check-in against leave approval | one attendance row per day that says what happened |
| Registration of providers (`onboarding`) | `ISPRegistration`, organization, owner | register, receipt, approve, reject | tenancy, accounts | approve and reject decided on a row loaded before the transaction | an organization is active only if its registration is |
| Tenancy and sessions (`tenancy`, `accounts`) | organizations, memberships, tokens, caches, audit log | resolve tenant, log in, refresh, log out | every request | a stale membership in a token or cache | a query sees one tenant |
| Customer records and import (`customers/services.py`, `import_services.py`) | customers, services, import batches | activate, import, public inquiry | provisioning | a batch that stops half way | a row is imported once |
| Reports, dashboards, assistant (`reports`, `command_center`, `revenue_intelligence`, `billing/revenue_intelligence.py`) | none (read only) | queries, CSV | every app | none of its own | figures derived from the rows |
| Client pages (`src/nexora-isp/app`, `components`): customers; billing and recovery; stock and sales; support, field work and staff; communication; network and areas; accounts, reports and registration | per page: busy flags, lists that were read, filters, open dialogs | submit a dialog, change a filter, open and close dialogs, read again | the API, through `services/api-client.ts` | handlers overlap at every `await`; answers come in any order, fail with the old rows left on the page or not, or are lost after the server acted; a skeleton resets a dialog | a form is carried out once; a page at rest shows its own changes and what is asked; nothing stays disabled; a late answer closes no dialog but its own kind, nor another record's where the first cannot be put aside |
| Client session (`services/api-client.ts`, `auth-storage.ts`, the dashboard's layout) | two tokens and the user in `localStorage`, one renewal promise per tab | sign in and out, open a tab, send, renew, send again | `accounts` (rotation of refresh tokens) | tabs share the storage but not the renewal; answers from before a sign-out are stored after it | stored tokens are of one sign-in; a request is done once and for its sender; every tab settles |
| Client components and services | none, or props | wrappers of the endpoints, formatting, presentation | the pages | none of its own | shows what it is given |

How they interact: a payment (billing) posts to the ledger and may restore the service
(suspension), which queues a provisioning request, which a worker carries to the
router, and a message.  The nightly engine and collections go the other way: overdue
invoices suspend.  Sales and bad debt post to the ledger.  All of this goes through
rows in the database; the only other shared states are the router and the providers'
servers, which answer late, twice or not at all.  The client holds copies: every page
reads lists, lets its user change one thing, and reads again.

`PROJECT.json` lists the components with their sources, and every hazard with the line
where it bites and the property that covers it.

## 2. The modules and how they correspond to the code

A transaction that locks what it reads is one action.  A handler that reads without a
lock is several: one per statement after which another process can run.  Names of
actions and operators follow the functions they model; `PROJECT.json` "map" gives the
lines.  Operators whose name has an underscore suffix and a comment that begins with
"Mutant" are deliberately wrong variants of the operator after them: nothing uses them,
they are there to confirm that each property notices a plausible mistake.  History
variables ("ghosts") record what the code does not store; they guard nothing.

**Provisioning** - one service account, its requests, the workers and the router.
`requests` is the table in order of `requested_at`; `worker[w]` is what a process
running `execute_provisioning_request` holds in memory between its three transactions
(claim; the router call; complete or fail).  `router` is the subscriber's PPPoE secret.
The provider call may take effect and still raise, a worker may die at any point after
the claim (`Crash`), and the recovery command (`RecoverStale`) fails a request whose
worker is gone.  `AfterProvider` is the converging effect of the MikroTik provider:
each action leaves the secret as it wants it, whatever it was before, except that
suspending an absent secret leaves it absent.  The module has the operations of
`network/services.py`; `customers/suspension_services.py` queues requests too, some beside
one in flight, and is the subject of Suspension.  `RecoverSlowWorkers` lets the command
fail a request whose worker is still at it, as `--minutes` allows.

**Service** - the abstract specification of provisioning, for those who only look at
`ServiceAccount`: one order at a time is open; while it is, the line may be made what
the order asks for, known or unknown; the order is settled, and the service changed,
only when that is known, or it is given up.  It has no workers, table, crashes or
deliveries.  `Promised` in Provisioning is the refinement mapping: `line` is the
package an enabled secret serves, `order` the newest request while it is in flight,
`known` says that a worker holds the provider's success, `failed` that the newest
request FAILED.

**Suspension** (extends Provisioning) - who suspends and restores, and why.
Callers that lock the service (payments, recharges, expiry, `network/services.py`) are
one action each.  The staff views, the nightly engine, collections and the nightly retry read
the service in one step, look for a request in flight in another and commit in a
third; `caller[c]` is what they have read.  With `Serial` FALSE, as in the code,
anything runs between those steps; `InOrder` says whether requests are claimed in the
order they were made.  `StaleCreate` and `StaleReuse` name a caller about to commit on a
look-up that no longer holds.
`dues` abstracts the unpaid invoices, `expired` the prepaid validity; `cause` is a
history variable.

**Billing** - the money of one service: invoices numbered in due-date order, payments
in the order they were received (both may be entered in any order), allocations, customer advance,
bad debt, and the two ledger accounts the posting hooks keep.  `paid[i]` is
`Invoice.paid_amount`.  A posting hook swallows what goes wrong in it, so `Post` makes the
entry or does not (up to `MaxFailures`); `unbooked` is a history variable with what entries
that were not made would have added, whether a hook failed or the reference of one row of a
payment was taken for a repetition of another's (`repeated`).  `InOrder` and `Issued` are the helpers behind automatic
allocation and the issue of an invoice; `Refreshed` is `_refresh_invoice_status`.

**Inventory** - stock by item, devices, assignments and counter sales.  The
`StockMovement` rows are kept as sums by movement type.  `CreateSale` and `CancelSale` include the
journal entry they post; a failure there undoes the sale.  The item edit is two actions:
`InventoryItemDetailView.patch` reads the row without a lock (`EditRead`) and saves the
whole of it (`EditSave`), with the quantities it read or was given; `unrecorded` is a
history variable with what that changed.

**Messages** - the communication queue.  `queue[m]` and `log[m]` are the two rows of a
message, `worker[w]` a dispatcher, recovery task or notifying transaction, `clerk[c]` a
request that retries a message or edits its row or log; they hold what was read and not yet
written.  An edit is `EditRead` and `EditSave`: the viewsets save the whole row they read.
The retry saves the queue row and then raises, as does every delivery report before it has
written anything: both name a field `CommunicationLog` does not have (section 6), so there
is no action for reports.  `Dispatch` and
`Claim` are the two halves of `dispatch_next`: the stale rows are read without a lock
before the transaction saves them by primary key, so another worker may recover and
claim them in between.  `Notify` is `dispatch_notification_event`: the provider is
called inside the caller's transaction, which may then roll back.  Backoff and delays
make a pending row due at some later time, so any pending row may be claimed.

**ScreenParts, Screens** and seven modules of pages - the client.  A page is a React
component whose handlers are asynchronous functions: what runs between two awaits is
atomic, and any number of handlers may be suspended at an await.  ScreenParts is the
vocabulary in which a page is described as data: the steps of a handler (calls that
change the server, reads, timers, closing a dialog), the flags it sets before its first
await and clears in its `finally`, the catches on its way, the controls with the flags
that disable them, the dialogs they are in or open, the filters they change.  Screens
gives these descriptions their behaviour: `Click` a control, `Serve` a call or read,
`CallAnswered`, `CallRefused`, `CallLost` before or after it was served, `ReadAnswered`,
`ReadFailed`, `TimerFires`.  The server is the number of
changes the page made; a read shows the number it was served at, and the question it was
asked with (`question` counts changes of a filter or of the chosen record).  A read that
fails puts its error in the place of the rows (`blank`), or leaves them (`kept`), as the
description of the page says (`Keeping`).  Under a flag of `skeleton` a page returns a
skeleton: its dialogs are taken away and come back without the state of their own
(`Replaced`), and a handler that goes on for one of them has nothing left to clear
(`unmounted`, `Freed`).
**CustomerScreens, BillingScreens, StockScreens, SupportScreens,
CommunicationScreens, NetworkScreens, AccountScreens** describe 51 pages, one
operator for each handler, named after it.  `Init` chooses the page, so one run checks all.

**Session** - the tokens all tabs of a browser share.  A token pair is a number; `login`
remembers the sign-in it comes from.  `request` is what each tab has under way,
`renewal[t]` its `refreshPromise`.  The server looks a refresh token up in the blacklist
in one step (`RenewalChecked`) and adds it in another (`RenewalServed`), as the
serializer does.  `late` marks what was begun before the storage was last replaced;
`overtaken` that such an answer was stored since: both are history variables.

**MC*** modules instantiate these for TLC: symmetry sets, the sets of pages and slots,
and, in MCScreens, `MCUnlocked` and `MCRepeatable`, which list by name the flags and
dialogs for which the code does not keep `OneAtATime` or `SubmittedOnce`, and `MCModal`, the
dialogs that cannot be put aside while they are submitted (section 5).
**ProvisioningProofs, SuspensionProofs, BillingProofs, InventoryProofs, MessagesProofs,
ScreensProofs, SessionProofs** hold the theorems; **Sums** the facts about sums over
finite sets of rows that Billing and Inventory need.

## 3. The runs

| Run | Configuration | Asks | Answer |
|---|---|---|---|
| `provisioning` | 2 packages, 2 workers, 4 requests, 1 crash | Do the request table, the service and the router stay together under any interleaving of the operations of `network/services.py`, workers, lost answers, crashes, recovery of dead workers and retries? Does that implement Service? Does every request end or wait for recovery? | holds |
| `suspension_safety` | 2 unlocked callers, 1 worker, 2 requests, 2 packages, 1 crash, claims in any order, recovery of any age | Is a commit on a stale look-up all that duplicates a request or leaves a waiting service without one? | holds |
| `suspension_in_order` | 1 caller, 1 worker, 4 requests, claims in order | Does the router still follow the service when opposite requests are in flight together and executed one after the other? | holds |
| `suspension_paid` | as above | Does a service switched off for what it owed come back once all is paid? | violated |
| `suspension_stale` | 2 unlocked callers | Does a pending service keep its request when two of them meet? | violated |
| `billing_money` | 2 invoices, 2 payments that may list an invoice twice, amounts to 3, 2 entries that fail | All operations in any order: is nothing overpaid or overspent, is bad debt settled, does the status follow the rows, and do the books differ from the rows by exactly the entries that were not made? | holds |
| `inventory_stock` | 1 item, 2 devices, 2 sales, 1 edit | Do the quantities follow the movements but for what the edit changed, and custody and cash the assignment and sale rows, and is no quantity negative? | holds |
| `messages` | 1 message, 2 workers, 1 clerk, any two of a crash, a lost answer, a retry and an edit, deletion | Is every duplicate explained, nothing shown as sent or given up without reason, and does every message settle? | holds |
| `messages_twice` | 1 message, 2 workers, 1 crash | Does the claim prevent duplicate dispatch? | violated |
| `screens` | each of 51 pages, 2 handlers at a time, 3 clicks, 2 dialogs | Whatever the user does while calls are answered late, in any order or never: is a form carried out once, does a page at rest show its own changes and the answer to what is asked, is nothing left disabled, does a late answer leave dialogs of another kind alone, and those of another record where the first cannot be put aside? | holds |
| `session` | 2 tabs, 2 requests each, 3 acts of the user | While tokens expire, are renewed, replaced and removed by either tab: is what is stored of one sign-in, is a request done once and for its sender, does nobody wait for nothing, does every tab settle? | holds |
| `session_rotation` | 1 tab, 1 sign-in | Can the stored refresh token be used? | violated |

The properties, and the comment that states each, are at the end of the modules.

**Bounds.**  Two workers suffice for every race between processes of one kind: each
race in the code is between one process that read and another that wrote.  Four
requests cover suspend, restore and a retry behind a failed request, with one more in flight;
two are enough for a look-up to go stale, with two callers.  Two payments on two
invoices cover an advance, its use and its reversal while another payment stays; amounts to
three allow partial payment twice, and two lines of one payment on an invoice beside what
is written off.  Two sales of an item, an adjustment and an edit compete for its stock; two
sales and two devices are a cancelled sale followed by another.  One message is enough for
the queue because its rows are independent of those of other messages: what a second one adds
is only the choice of which to claim.  Any two of a crash, a lost answer, a
retry and an edit meet (`MaxMishaps`); three at once are beyond the time a run is given, the
theorems are for any number of each.  `reopened` counts the rows an edit puts back to
PENDING.  On a page, two
suspended handlers are a race of two; three clicks and two dialogs let a user submit a
form, put it aside, open another record's and submit that while the first answer is
under way.  Two tabs with two requests each let two requests wait for one renewal while the
other tab renews, signs out or signs in; three acts are a sign-in, a second one or a second tab,
and a request.  `MaxCrashes`, `MaxLost`, `MaxRetries`, `MaxEdits`, `MaxMishaps`, `MaxFailures`, `MaxRequests`, `MaxMoved`,
`MaxTotal`, `MaxStock`, `MaxAmount`, `MaxClicks`, `MaxOpens`, `MaxActs` bound counters and are guards of the actions that
would raise them.

**Deadlock.**  The Billing, Inventory, Screens and Session configurations switch deadlock
checking off: when all invoices, payments or clicks of the bound are used up, nothing is
left to do.

**Fairness.**  Provisioning assumes that a worker that has begun goes on (weak fairness
of its steps), as a live process does, and that queued requests are picked up, as
on-commit delivery and the periodic task do; nobody owes a crashed request its
recovery, which is a manual command, hence the "or is orphaned" in `EndsOrIsOrphaned`.  Messages
assumes that a begun request or dispatch goes on, that time passes, and strong fairness of starting the
dispatcher, because the beat schedule starts it every minute whatever else the worker
does in between.  Session assumes weak fairness of what the browser does by itself: a
page that opens runs its mount effect, a request is answered, or given up after 30 seconds
(`api-client.ts:132`), and a renewal comes to an end.  The call of a renewal has no
timeout of its own; that it ends is owed by the browser and the network.  No fairness is
assumed of staff, customers, users of the pages, expiry or crashes;
Screens has none, its properties at rest (`Quiet`) need none.
Lost answers and crashes are bounded; a provider that refuses is bounded by `max_attempts`
in the code itself.

## 4. What is proved

TLAPS checks these for any number of packages, workers, requests, invoices, payments,
items, devices, sales, edits and messages, and any bounds; tables are finite (`InvoicesAssumption`,
`PaymentsAssumption`, `SalesAssumption`).  `PROJECT.json` "theorems" lists them.

*ProvisioningProofs.*  `TypeCorrect`, `ExecutionIsExclusive` (a request is executed by
one worker at most) and `StatusFollowsRequest` (a pending status and the request that
settles it exist together, through the operations of `network/services.py`) hold whatever
recovery does.  Their inductive invariant is `Control`: types, one request in flight and
that one newest, worker and request status in step.  Neither property is inductive alone:
exclusivity needs that a claimed request is PROCESSING, the status needs that only the
newest request is in flight.  That last is true of these operations and not of the
callers Suspension adds, which is why no theorem claims it.
`RouterIsNeverSilentlyApart` and `PackageFollowsRouter` add `Delivery`: what each
worker holds is still open, the package it read is still the service's, and a call that
returned has left the router as the request wants it.  They assume
`~RecoverSlowWorkers`, that is, that recovery spares requests a live worker still
executes; section 6 says what happens otherwise.

The last theorem there is `ProvisioningKeepsThePromise`: Provisioning implements Service, under
the same assumption.  The initial states map to initial states; every action maps to the
abstract step of its name or to a stutter: a claim and a redelivery are stutters,
`Provide` is `Serve`, `Complete` is `Settle`, a failure or recovery `GiveUp`, the crash
of a worker that knew the answer `Forget`.  It rests on `Control` and `Delivery`:
without the latter, a completion could settle an order whose line is something else.

*SuspensionProofs.*  `SuspensionTypeCorrect`, `OnlyTheUnlockedLookUpDuplicates` and
`OnlyTheUnlockedLookUpForgets` assume nothing of callers, workers or recovery: in every
interleaving, a step that queues an action already in flight, or leaves a pending service
with no request, is the commit of a caller whose look-up is stale.  Every other step keeps
both (`Kept`): locked callers look and write at once, a worker's steps queue nothing, and
what settles a request moves the status on with it.  The run `suspension_stale`
shows that the second happens, section 6 how to see the first.

*BillingProofs.*  `InvoicesAreNeverOverpaid`, `WriteOffsStaySettled` and
`StatusIsNeverStale` rest on `Books`: rows are typed, no allocation exists before an
invoice is issued, and for every invoice `Sound(row, paid)` relates total, paid amount,
bad debt and status.  The three are one argument: overpayment is excluded because a
written-off invoice has nothing outstanding, and that in turn because reversal gives
the reversed amount back to bad debt, which needs the status to be current.
`BillingTypeCorrect`, `NoPaymentIsOverspent` and `OnlyPaidIsRecovered` rest on `Accounts`,
which adds the sums of the allocations: what is paid on an invoice is the sum of its
allocations, so that a payment's allocation is never more than what is paid, and a reversal
that takes it back leaves enough for what is still recovered.  `OnlyUnbookedEntriesAreMissing`
adds `Ledger`, the two balances and what was not booked as sums over all rows; each operation
changes the sums by what it posts or fails to, the reversal by the sum of what it takes back.
It assumes nothing: hooks may fail and payments may list an invoice twice (section 6 says what
the latter does to the books though nothing fails).

*Sums.*  `SumFunction` is a fold, recursive over the subsets of a finite set; that its
recursion has a solution (`SumsExist`) and what sums are follow by induction over
the size of sets, in which a property is the set of what has it (`ByNumber`, `BySize`).
The facts the others use are `SumChanges` (one row changes), `SumLess` (every row does),
`SumOfOne`, `SumOfNone` and `SumOfAmounts` (no amount is larger than the sum).

*InventoryProofs.*  `RowsAreTyped`, `StockFollowsMovements` (but for what edits changed, which
run between any two operations), `SalesExplainStockAndCash` (by the sums over the sales that
stand) and `CustodyStaysExclusive`.  The last needs that a cancelled sale releases only devices
which are SOLD on that sale, and so the equivalence of status and rows in both
directions.

*MessagesProofs.*  `MessagesTypeOK`, `ShownAsSentWasAccepted` and `GivenUpOnlyWhenSpent`
rest on `Tracked`: what workers and requests hold in memory was true when it was read and
stays true (`WorkerKnows`, `ClerkKnows`), since the counts it speaks of only grow.
`EveryDuplicateHasACause` needs more, `Explained`: for each message, the acceptances on
record, the workers that may still bring about another, and the row if it waits to be
claimed, are never more than one and the lost answers, rescues, retries and edits that
reopened it together.

*ScreensProofs.*  For any pages that can be described with ScreenParts, any number of
handlers, clicks and dialogs.  What the theorems need of a page are the assumptions of
Screens (`PagesAssumption`, `UnlockedAssumption`, `ClearedAssumption`, `ShownAssumption`,
`DialogAssumption`, `SubmitAssumption`, `ModalAssumption`).  They are conditions on the text of a page, on
which flags its handlers set and clear, what they read after a call and which dialogs
they close, and TLC evaluates them for the 51 pages: together they say that these pages are
as the theorems want them.  `ScreensTypeOK` rests on `Typed`.  `OneAtATimeHolds` and
`LockedFlagsStaySet`: a flag is *locked* when no read and no other handler clears it and
every control that starts one of its handlers is disabled by it; such a flag is set
exactly as long as one handler that keeps it has not come to its `finally`.
`NothingIsLeftBusy` rests on `FlagsOwed`: every flag that is set is owed by a handler that
cannot end without clearing it, by its `finally`, the answer to the read it waits for, or
its timer; a flag that dialogs lose with their state, when they are closed or a skeleton replaces
them, is owed by handlers of those dialogs.
`OwnWritesAreShown` and `TheQuestionIsAnswered` rest on `ShownInv`: whatever a list does not
show yet a handler under way is sure to bring, or its read failed, or reads overlapped.  Rows
outlive a failed read only where the page's description says so, by `TypeOK`.
`OtherDialogsStay` rests on `NestedInv`: open dialogs have different names, each lies above
the one it was opened in, and a handler closes no dialog but one of its own name; and, for the
dialogs in `Modal`, on `StillModal`: a handler that has still to close one has it open, because
the flag it keeps until then disables every way to put it aside.  `DoneOnceForEachAnswer`
rests on `SubmitInv` and all of the above: one handler at most is submitting a dialog, and
what was done from the dialog is its call and those whose answers were lost.  That no second one
starts is due to a flag of one of two kinds (`Bars`): a locked one; or one
set while a timer runs, by a handler that a locked flag kept alone until then (`HeldAtPause`).
A flag that is state of the dialog itself is neither: a skeleton loses it, which is why two
such forms are in `MCRepeatable`.

*SessionProofs.*  `StoredIsOfOneSessionHolds`, `ServedForItsSenderHolds`,
`DoneAtMostOnceHolds`, `WaitersHaveARenewalHolds`, from one invariant, `Coherent`: a request or a
renewal that nothing overtook was begun with what is stored now, or with what a renewal
of the same sign-in has replaced since (`Carried`, `Renewing`).  That is why its answer may
be stored, and why it may be sent again with the new token; none of the first three
properties is inductive without it.  `SessionTypeOK` adds `Placed`: a tab that is restoring
its session has one request for it at most.

*Only model-checked.*  The liveness properties (`EndsOrIsOrphaned`,
`EventuallySettled`, `EveryTabSettles`): liveness under fairness is out of the prover's
reach.  Every invariant and action property of the passing runs is stated by a theorem.
`PackageFollowsRouter` and `LockedFlagsStaySet` are proved only: the first is part
of what the refinement checks, the second is stronger than `OneAtATime`, which the run
checks.

## 5. What is assumed, and what is not modelled

- One service account at a time (Provisioning, Suspension, Billing).  Operations on
  different services share no row but the organization, which is locked only to
  number and to serialise.
- The router: RouterOS executes a call or not; the assignment to router and profile
  exists and does not change.  Services without an assignment, and the stub provider
  used in development, are left out.
- A service imported as suspended that was never put on the router starts outside the
  initial states of Provisioning (`import_services.py:76` and `:639` queue an ACTIVATE
  for it, which switches it on; see section 6).
- `GRACE_PERIOD` is a status the code reads but never writes.
- Posting hooks that fail: `accounting/services.py` catches and logs, so Billing makes the entry
  or not; why one cannot be made (a closed period, an inactive account) is left to a planned
  module of the ledger.
- Policy switches of the suspension engine are on, grace periods are part of `Dues`.
- Cancelling or writing off an invoice clears dues without restoring; in Suspension it
  is not distinguished from a payment that restores nothing.
- The Django admin writes any row and is left out everywhere.
- Messages: priorities, templates, preferences, the two schedulers.  `CommunicationQueueService` is not called by anything.
- Screens: the texts, figures and validation of a form; a form that is not valid does
  nothing.  `Promise.all` is one read that fails as a whole, and the reads a page mounts with
  are one handler; a debounced search starts at once.  Lists that are read once and only offer
  options, and the error page of a failed first read, are left out, and so are leaving the page
  (React drops what is shown) and other users: changes by others are shown at the next read.
  The tables of the network page read again what the page has just read: one read stands for both.
- Screens, exceptions by name (`MCUnlocked`, `MCRepeatable`): a page that remembers *which*
  row is busy in one variable lets a second row take it over; two dialogs lose their flag when
  they are put aside; some forms can be sent again while the page waits to leave them or a
  timer to close them; two, the customer's record and the journal entry, have a flag of their
  own that a reload of the page resets while the first submission is under way.  All other
  flags and forms of the 51 pages are checked.
- Screens, late answers: seven dialogs (`MCModal`) cannot be put aside while their answer is
  awaited, and for these `LeavesOthersOpen` says that the answer closes no other opening of the
  same dialog.  From every other one the user can turn to another record meanwhile, and the
  late answer then closes that one's (section 6); of these it says that dialogs of other kinds stay.
- Screens, failed reads: most pages keep the rows of before under a notice, or without one
  (the loads described with `Keeping`).  `OwnWritesShown` and `AnswersTheQuestion` say nothing of
  these after such a failure; of the others they say that the error takes the rows' place.
- Session: the operator's console keeps tokens of its own, in the same way but without
  renewal; the server's role checks are left out; a refresh token that is a day old is refused
  like a spent one, which RenewalFails covers.  `localStorage` is written at once for all tabs.
- Amounts are integers: the code rounds to cents before it stores.
- The parts of the server in section 1 that have no module are those whose hard behaviour is
  within one transaction or planned in section 7; the client's components and services
  keep no state across calls.  The components that have no module are listed as not modelled in
  `PROJECT.json`, each with its reason.

## 6. Where the code and its documentation disagree

Four runs show one each; the trace TLC prints is the argument.

- `suspension_paid`: a payment that arrives while the suspension is on its way to the
  router restores nothing, the suspension then completes, and nothing looks at the
  service again.
- `suspension_stale`: two unlocked callers leave a pending service without its request.
- `messages_twice`: two workers recover the same stale message and both send it.
- `session_rotation`: the server spends a refresh token when it is used and returns a new
  one, which `refreshAccessToken` (`services/api-client.ts:95`) does not store; the second
  renewal presents the spent one and every tab is signed out.

Others TLC finds when a configuration is changed as described here:

- `RecoverSlowWorkers = TRUE` in the run `provisioning` violates `RouterFollowsService` and
  `KeepsThePromise`: `recover_stale_provisioning.py:42` takes any age in `--minutes`, though
  its help (`:13`) says "Safely recover stale provisioning requests", and fails a request whose
  worker is still at the router; the late call undoes what a newer one did.
- `NoDuplicateInFlight` as the invariant of `suspension_stale` is violated:
  `_queue_router_action` looks for a request without a lock (`suspension_services.py:54`), though
  its docstring (`:31`) promises to reuse one "instead of queueing a duplicate".
- Two workers in `suspension_in_order` violate `RouterFollowsService`: a suspension queued beside
  an activation in flight (`suspension_services.py:45`) is executed with it, and the one that
  reaches the router first may be confirmed last.
- `BooksAgree` as the invariant of `billing_money`, with `MaxFailures = 0`, is violated: the
  reversal of a payment that lists an invoice twice posts one bad-debt entry for both lines
  (`billing/services.py:1276`, `accounting/services.py:1577`), though a comment (`:1231`) says
  that what the reversal un-pays "goes back to bad debt".
- `StockIsItsMovements` as the invariant of `inventory_stock`, with `Editable = {}`, is violated:
  an edit of an item that sets no quantity saves those it read (`inventory/views.py:322`) and so
  undoes a sale or restock made meanwhile, without a movement, though
  `docs/reports/FINAL_NEXORA_E2E_QA_REPORT.md:186` says that every stock change writes one.

More were met while modelling.  Some can be reproduced by changing a constant or the
initial states, the last ones are described only:

- Adding `status = "SUSPENDED_NON_PAYMENT"` with an ACTIVATE request and a disabled
  secret to `Init` shows that an import of a suspended subscriber switches it on.
- A staff suspension of a service whose restore FAILED is answered as already done
  (`suspension_services.py:262`), leaves no trace, and the nightly retry then switches
  the service on, although the retry's docstring (`:628`) says "a deliberate staff
  suspension is never undone here".
- The retry of a message commits the queue row and then answers with an error: the save of the
  log names `updated_at` (`communications/views.py:326`), a field `CommunicationLog` does not have.
  The delivery webhook raises in the same way (`:469`) before it saves anything, so no report of
  a provider is ever recorded.
- `CommunicationQueueViewSet` (`communications/views.py:216`) saves the whole row it read: a
  message claimed or sent since is PENDING again and sent again (`reopened` in
  `DuplicatesAreExplained`; without it the run `messages` finds the property violated).
- `MCRepeatable` or `MCUnlocked` without one of its elements breaks `SubmittedOnce` or
  `OneAtATime` on the page it names; `MaxClicks` has to be 4 for the customer's record and the
  journal entry.  The record's page returns a skeleton while it reads
  (`customers/[id]/page.tsx:490`), which takes `EditCustomerModal` away and brings it back with
  `saving` FALSE though its call is under way (`:2260`); the accounting page does the same.
- Without the exception for dialogs that can be put aside, `LeavesOthersOpen` breaks: the answer
  to a payment sets the record of the form to null (`invoices/page.tsx:234`), whichever invoice it
  is open for by then.  Within the bounds 58 of the 70 submitted dialogs that are not in `MCModal` are
  closed by an answer meant for another opening.
- Without the exception for rows that are kept (`kept`), `OwnWritesShown` and
  `AnswersTheQuestion` break on the pages that keep them: the lists of a customer's record stay
  as they were, without a word (`customers/[id]/page.tsx:222`); expenses (`:57`), audit logs (`:51`)
  and reports (`:213`) show the rows of the earlier filter under a notice; so do most other
  lists of the client.
- Without the exception for overlapping reads (`raced`), `AnswersTheQuestion` breaks on
  every page that reads on a change of a filter and does not drop earlier answers; the
  collections page shows one customer's record under another's name in this way
  (`collections/page.tsx:217`, though the comment at `:196` speaks of the selected one).
- `record_invoice_payment` takes a payment on a cancelled invoice
  (`billing/services.py:515` looks at the outstanding amount only): the invoice stays
  CANCELLED and keeps the money, which no advance shows.
- `DEPLOYMENT.md:170-173` says failed provisioning requests are never retried
  automatically and a failed activation cannot be issued again; the nightly retry and
  `retry_provisioning_request` do both.
- `reverse_journal_entry` accepts the entry of a sale; cancelling the sale afterwards
  reverses it a second time (`inventory/services.py:583`).
- `reconcile_lifecycle_communications.py:99` looks for messages by a payload key it
  does not set, so each run queues the same messages again.

## 7. Plan

Done: Provisioning, Service, Suspension, Billing, Inventory, Messages, Screens with the
51 pages, Session; proofs for all of them.

Modules to come, most important first:

1. **Journal**: entries, periods, reversal and commissions, composed with Billing's hooks
   and Inventory's operations as the callers.
   Properties: balanced entries; nothing enters a closed period; an entry is reversed
   once; a hook fails only for a closed period or an inactive account.  Bounds: 2 periods, 2
   accounts, 3 entries.
2. **Collections**: overdue scan, promises to pay, recovery visits, with the unlocked
   check-then-create of promises and the breach scan that saves a stale row.
   Properties: one open promise per service; a kept promise is never marked broken;
   a promise holds off suspension.
3. **Recharge**: validity in days as a bounded integer, renewal and expiry against
   suspension.  Properties: paid days are neither lost nor given twice.
4. **LockOrder**: the transactions as sequences of row locks.  Property: no two wait for
   each other.  `reverse_payment` against `record_invoice_payment`, and
   `cancel_pos_sale` against `create_pos_sale`, are the suspects.
5. **Staff**: registration, activation, attendance and leave, with handlers that read without
   a lock.  Properties: an organization is active only if its registration is; an
   approved leave is not overwritten by a check-in.
6. **Helpdesk**: complaints, incidents and work orders with their notifications.
   Properties: closed is final; a completed order went through its steps; open work
   belongs to active staff.

Abstract specification to come: **Account** (what a customer owes, as a single number that issue, payment and their
reversals move), to be implemented by Billing.

Theorems to come: the safety properties of Journal and of the modules after it.
