--------------------------- MODULE MessagesProofs ---------------------------
(***************************************************************************)
(* Theorems about the communication queue, for any number of messages,     *)
(* workers and requests: what is shown as sent was taken                   *)
(* by the provider, what is given up was refused or has failed as often as *)
(* it may, and every duplicate has a cause on record.                      *)
(*                                                                         *)
(* A step changes one message, one worker or one request; the lemmas of    *)
(* the second part show once what the others keep, and each action is then *)
(* left to account for what it changes.                                    *)
(***************************************************************************)
EXTENDS Messages, FiniteSetTheorems, TLAPS

-----------------------------------------------------------------------------
(* The inductive invariants                                                *)

Row == [status : QueueStatus, started : Started, attempts : Nat, limit : Limits]
LogRow == [status : LogStatus, id : Nat]
WorkerRow == [at : {"idle", "dispatching", "recovering", "sending", "notifying", "logging"},
              m : Messages \cup {Nobody}, stale : SUBSET Messages,
              attempts : Nat, limit : Limits, result : Result, id : Nat]
ClerkRow == [at : {"idle", "retry", "edit", "edit log"}, m : Messages \cup {Nobody},
             row : Row, log : LogRow]

Exists(m) == queue[m].status # "NONE"
\* n failed attempts are on record, or as many as there may be.
Counted(m, n) == failures[m] >= MaxAttempts \/ n <= failures[m]
GivenUp(m) == m \in refused \/ failures[m] >= least[m]

\* A worker has a message only between claim and mark; what it holds in memory was true
\* when it was read, and stays true.
WorkerKnows(w) ==
    /\ worker[w].m = Nobody <=> worker[w].at \in {"idle", "dispatching", "recovering"}
    /\ worker[w].m = Nobody => worker[w].result = "none"
    /\ worker[w].at \in {"sending", "logging"} => Exists(worker[w].m)
    /\ worker[w].at \in {"sending", "notifying"} => Counted(worker[w].m, worker[w].attempts)
    /\ worker[w].at = "sending" => worker[w].limit >= least[worker[w].m]
    /\ worker[w].at = "notifying" => worker[w].limit = DefaultAttempts
    /\ worker[w].result = "accepted" => worker[w].id \in 1 .. accepted[worker[w].m]

\* What a row of m says was earned: it was sent, or failed as often as it says.
RowEarned(m, row) ==
    /\ row.status = "SENT" => accepted[m] > 0
    /\ row.status = "FAILED" => GivenUp(m)
    /\ Counted(m, row.attempts)

LogEarned(m, entry) ==
    /\ entry.status = "SENT" => accepted[m] > 0
    /\ entry.id <= accepted[m]

\* A request works on a row that exists; what it has read was earned, and stays so.
ClerkKnows(c) ==
    /\ clerk[c].m = Nobody <=> clerk[c].at = "idle"
    /\ clerk[c].at # "idle" => Exists(clerk[c].m)
    /\ clerk[c].at = "edit" => RowEarned(clerk[c].m, clerk[c].row)
                                /\ clerk[c].row.status \notin {"NONE", "DELETED"}
    /\ clerk[c].at = "edit log" => LogEarned(clerk[c].m, clerk[c].log)

RowsAreEarned(m) ==
    /\ log[m] # NoLog => Exists(m)
    /\ RowEarned(m, queue[m])
    /\ LogEarned(m, log[m])
    /\ InTable(m) => queue[m].limit >= least[m]

Tracked ==
    /\ TypeOK
    /\ \A w \in Workers : WorkerKnows(w)
    /\ \A c \in Clerks : ClerkKnows(c)
    /\ \A m \in Messages : RowsAreEarned(m)

\* w may still hand m to the provider, or has and does not know it.
Holds(w, m) ==
    /\ worker[w].at \in {"sending", "notifying"}
    /\ worker[w].m = m /\ worker[w].result # "accepted"
Holders(m) == {w \in Workers : Holds(w, m)}

\* m is in the queue, or can still be put there for the first time.
Waits(m) ==
    \/ queue[m].status = "PENDING"
    \/ queue[m].status = "NONE" /\ \A w \in Workers : worker[w].m # m

HoldCount(w, m) == IF Holds(w, m) THEN 1 ELSE 0
WaitCount(m) == IF Waits(m) THEN 1 ELSE 0
Excuses(m) == lost[m] + retried[m] + rescued[m] + reopened[m]

\* What the provider took of m, and may still take before anybody puts m back.
Bounded(m) ==
    /\ IsFiniteSet(Holders(m))
    /\ accepted[m] + Cardinality(Holders(m)) + WaitCount(m) <= 1 + Excuses(m)

Explained == Tracked /\ \A m \in Messages : Bounded(m)

-----------------------------------------------------------------------------
(* Rows and memories, field by field                                       *)

LEMMA Types ==
    ASSUME Tracked
    PROVE  /\ queue \in [Messages -> Row] /\ log \in [Messages -> LogRow]
           /\ worker \in [Workers -> WorkerRow] /\ clerk \in [Clerks -> ClerkRow]
           /\ accepted \in [Messages -> Nat] /\ lost \in [Messages -> Nat]
           /\ retried \in [Messages -> Nat] /\ rescued \in [Messages -> Nat]
           /\ reopened \in [Messages -> Nat] /\ failures \in [Messages -> Nat]
           /\ edited \in [Messages -> Nat] /\ least \in [Messages -> Limits]
           /\ refused \subseteq Messages
BY DEF Tracked, TypeOK, Row, LogRow, WorkerRow, ClerkRow

LEMMA Numbers ==
    /\ MaxAttempts \in Nat /\ DefaultAttempts \in Nat
    /\ DefaultAttempts >= 1 /\ DefaultAttempts <= MaxAttempts
    /\ DefaultAttempts \in Limits /\ MaxAttempts \in Limits
    /\ \A n \in Limits : n \in Nat /\ n <= MaxAttempts
BY MaxAttemptsAssumption DEF Limits

LEMMA BlankRows ==
    /\ NoRow \in Row /\ NoRow.status = "NONE" /\ NoRow.attempts = 0
    /\ NoRow.limit = DefaultAttempts
    /\ NoLog \in LogRow /\ NoLog.status = "NONE" /\ NoLog.id = 0
BY Numbers DEF NoRow, NoLog, Row, LogRow, QueueStatus, LogStatus, Started

LEMMA IdleMemories ==
    /\ IdleWorker \in WorkerRow /\ IdleWorker.m = Nobody /\ IdleWorker.at = "idle"
    /\ IdleWorker.result = "none"
    /\ IdleClerk \in ClerkRow /\ IdleClerk.m = Nobody /\ IdleClerk.at = "idle"
<1>1. PICK row \in Row, entry \in LogRow : row = NoRow /\ entry = NoLog
  BY BlankRows
<1>2. IdleClerk = [at |-> "idle", m |-> Nobody, row |-> row, log |-> entry]
  BY <1>1 DEF IdleClerk
<1>. QED
  BY <1>2, Numbers DEF IdleWorker, WorkerRow, ClerkRow, Result

\* The memory of a worker that has just taken a message.
Holding(at, m, n, limit) ==
    [IdleWorker EXCEPT !.at = at, !.m = m, !.attempts = n, !.limit = limit]
Notifying(m) == [IdleWorker EXCEPT !.at = "notifying", !.m = m]

LEMMA HoldingMemory ==
    ASSUME NEW m \in Messages, NEW n \in Nat, NEW limit \in Limits
    PROVE  LET k == Holding("sending", m, n, limit) IN
           /\ k \in WorkerRow /\ k.at = "sending" /\ k.m = m
           /\ k.attempts = n /\ k.limit = limit /\ k.result = "none"
<1>1. PICK r \in WorkerRow : r = IdleWorker
  BY IdleMemories
<1>2. /\ Holding("sending", m, n, limit) =
           [r EXCEPT !.at = "sending", !.m = m, !.attempts = n, !.limit = limit]
      /\ r.result = "none"
  BY <1>1, IdleMemories DEF Holding
<1>. QED
  BY <1>2 DEF WorkerRow

LEMMA NotifyingMemory ==
    ASSUME NEW m \in Messages
    PROVE  LET k == Notifying(m) IN
           /\ k \in WorkerRow /\ k.at = "notifying" /\ k.m = m
           /\ k.attempts = 0 /\ k.limit = DefaultAttempts /\ k.result = "none"
<1>1. PICK r \in WorkerRow : r = IdleWorker /\ r.attempts = 0 /\ r.limit = DefaultAttempts
  BY IdleMemories DEF IdleWorker
<1>2. Notifying(m) = [r EXCEPT !.at = "notifying", !.m = m] /\ r.result = "none"
  BY <1>1, IdleMemories DEF Notifying
<1>. QED
  BY <1>1, <1>2 DEF WorkerRow

LEMMA MessagesAreSomebody == \A m \in Messages : m # Nobody
BY NobodyAssumption

\* Recovery changes the status of the rows it saves and no counter of attempts.
LEMMA RecoveredRows ==
    ASSUME Tracked, NEW rows
    PROVE  /\ Recovered(rows) \in [Messages -> Row]
           /\ \A m \in Messages :
                /\ Recovered(rows)[m].status =
                     IF m \in rows THEN "PENDING" ELSE queue[m].status
                /\ Recovered(rows)[m].attempts = queue[m].attempts
                /\ Recovered(rows)[m].limit = queue[m].limit
           /\ Rescued(rows) \in [Messages -> Nat]
           /\ \A m \in Messages :
                Rescued(rows)[m] = IF m \in rows THEN rescued[m] + 1 ELSE rescued[m]
<1> USE Types
<1>1. ASSUME NEW m \in Messages, m \in rows
      PROVE  /\ Recovered(rows)[m] \in Row /\ Recovered(rows)[m].status = "PENDING"
             /\ Recovered(rows)[m].attempts = queue[m].attempts
             /\ Recovered(rows)[m].limit = queue[m].limit
  <2>1. PICK q \in Row : q = queue[m]
    OBVIOUS
  <2>2. Recovered(rows)[m] = [q EXCEPT !.status = "PENDING", !.started = "none"]
    BY <1>1, <2>1 DEF Recovered
  <2>. QED
    BY <2>1, <2>2 DEF Row, QueueStatus, Started
<1>2. ASSUME NEW m \in Messages, m \notin rows
      PROVE  Recovered(rows)[m] = queue[m]
  BY <1>2 DEF Recovered
<1>3. Recovered(rows) \in [Messages -> Row]
  BY <1>1, <1>2 DEF Recovered
<1>4. /\ Rescued(rows) \in [Messages -> Nat]
      /\ \A m \in Messages :
           Rescued(rows)[m] = IF m \in rows THEN rescued[m] + 1 ELSE rescued[m]
  BY DEF Rescued
<1>. QED
  BY <1>1, <1>2, <1>3, <1>4
-----------------------------------------------------------------------------
(* What a step leaves alone                                                *)

\* What was created, counted or refused once stays so.
Grows ==
    /\ \A m \in Messages :
         /\ Exists(m) => Exists(m)'
         /\ accepted[m] <= accepted'[m]
         /\ failures[m] <= failures'[m]
         /\ least'[m] <= least[m]
    /\ refused \subseteq refused'

LEMMA CountedStays ==
    ASSUME Tracked, TypeOK', Grows, NEW m \in Messages
    PROVE  /\ \A n \in Nat : Counted(m, n) => Counted(m, n)'
           /\ GivenUp(m) => GivenUp(m)'
<1>1. /\ failures[m] \in Nat /\ failures'[m] \in Nat /\ MaxAttempts \in Nat
      /\ least[m] \in Nat /\ least'[m] \in Nat
      /\ failures[m] <= failures'[m] /\ least'[m] <= least[m]
  BY Types, Numbers DEF TypeOK, Grows
<1>. QED
  BY <1>1 DEF Counted, GivenUp, Grows

LEMMA EarnedStays ==
    ASSUME Tracked, TypeOK', Grows, NEW m \in Messages
    PROVE  /\ \A row \in Row : RowEarned(m, row) => RowEarned(m, row)'
           /\ \A entry \in LogRow : LogEarned(m, entry) => LogEarned(m, entry)'
<1>1. accepted[m] \in Nat /\ accepted'[m] \in Nat /\ accepted[m] <= accepted'[m]
  BY Types DEF TypeOK, Grows
<1>2. ASSUME NEW row \in Row, RowEarned(m, row)
      PROVE  RowEarned(m, row)'
  <2>1. PICK n \in Nat : n = row.attempts
    BY DEF Row
  <2>2. Counted(m, n) => Counted(m, n)'
    BY CountedStays
  <2>3. GivenUp(m) => GivenUp(m)'
    BY CountedStays
  <2>. QED
    BY <1>1, <1>2, <2>1, <2>2, <2>3 DEF RowEarned
<1>3. ASSUME NEW entry \in LogRow, LogEarned(m, entry)
      PROVE  LogEarned(m, entry)'
  BY <1>1, <1>3 DEF LogEarned, LogRow
<1>. QED
  BY <1>2, <1>3

LEMMA WorkerKeeps ==
    ASSUME Tracked, TypeOK', Grows, NEW w \in Workers, worker'[w] = worker[w]
    PROVE  WorkerKnows(w)'
<1>1. WorkerKnows(w) /\ worker[w] \in WorkerRow
  BY Types DEF Tracked
<1>2. CASE worker[w].m = Nobody
  BY <1>1, <1>2 DEF WorkerKnows
<1>3. CASE worker[w].m \in Messages
  <2>1. PICK m \in Messages, n \in Nat : m = worker[w].m /\ n = worker[w].attempts
    BY <1>1, <1>3 DEF WorkerRow
  <2>2. /\ accepted[m] \in Nat /\ accepted'[m] \in Nat /\ accepted[m] <= accepted'[m]
        /\ worker[w].id \in Nat /\ worker[w].limit \in Nat
        /\ least[m] \in Nat /\ least'[m] \in Nat /\ least'[m] <= least[m]
    BY <1>1, Types, Numbers DEF TypeOK, Grows, WorkerRow
  <2>3. /\ Counted(m, n) => Counted(m, n)'
        /\ Exists(m) => Exists(m)'
    BY CountedStays DEF Grows
  <2>. QED
    BY <1>1, <2>1, <2>2, <2>3 DEF WorkerKnows
<1>. QED
  BY <1>1, <1>2, <1>3 DEF WorkerRow

LEMMA ClerkKeeps ==
    ASSUME Tracked, TypeOK', Grows, NEW c \in Clerks, clerk'[c] = clerk[c]
    PROVE  ClerkKnows(c)'
<1>1. ClerkKnows(c) /\ clerk[c] \in ClerkRow
  BY Types DEF Tracked
<1>2. CASE clerk[c].m = Nobody
  BY <1>1, <1>2 DEF ClerkKnows
<1>3. CASE clerk[c].m \in Messages
  <2>1. PICK m \in Messages : m = clerk[c].m
    BY <1>3
  <2>2. PICK row \in Row, entry \in LogRow : row = clerk[c].row /\ entry = clerk[c].log
    BY <1>1 DEF ClerkRow
  <2>3. /\ RowEarned(m, row) => RowEarned(m, row)'
        /\ LogEarned(m, entry) => LogEarned(m, entry)'
        /\ Exists(m) => Exists(m)'
    BY EarnedStays DEF Grows
  <2>. QED
    BY <1>1, <2>1, <2>2, <2>3 DEF ClerkKnows
<1>. QED
  BY <1>1, <1>2, <1>3 DEF ClerkRow

\* The row of m and its log are as they were, but for the time the row was claimed.
Untouched(m) ==
    /\ queue'[m].status = queue[m].status /\ queue'[m].attempts = queue[m].attempts
    /\ queue'[m].limit = queue[m].limit
    /\ log'[m] = log[m]

LEMMA RowKeeps ==
    ASSUME Tracked, TypeOK', Grows, NEW m \in Messages, Untouched(m)
    PROVE  RowsAreEarned(m)'
<1>1. RowsAreEarned(m)
  BY DEF Tracked
<1>2. PICK row \in Row, entry \in LogRow : row = queue[m] /\ entry = log[m]
  BY Types
<1>3. RowEarned(m, row)' /\ LogEarned(m, entry)'
  BY <1>1, <1>2, EarnedStays DEF RowsAreEarned
<1>4. log'[m] # NoLog => Exists(m)'
  BY <1>1 DEF RowsAreEarned, Grows, Untouched
<1>5. RowEarned(m, queue[m])'
  BY <1>2, <1>3 DEF Untouched, RowEarned
<1>6. InTable(m)' => queue'[m].limit >= least'[m]
  <2>1. /\ queue[m].limit \in Nat /\ least[m] \in Nat /\ least'[m] \in Nat
        /\ least'[m] <= least[m]
    BY Types, Numbers DEF TypeOK, Row, Grows
  <2>. QED
    BY <1>1, <2>1 DEF RowsAreEarned, InTable, Untouched
<1>. QED
  BY <1>2, <1>3, <1>4, <1>5, <1>6 DEF RowsAreEarned, Untouched

\* A step accounts for the workers, the requests and the messages it changes.
LEMMA StepTracked ==
    ASSUME Tracked, TypeOK', Grows,
           \A w \in Workers : worker'[w] = worker[w] \/ WorkerKnows(w)',
           \A c \in Clerks : clerk'[c] = clerk[c] \/ ClerkKnows(c)',
           \A m \in Messages : Untouched(m) \/ RowsAreEarned(m)'
    PROVE  Tracked'
BY WorkerKeeps, ClerkKeeps, RowKeeps DEF Tracked

LEMMA RowsGrow ==
    ASSUME Tracked, UNCHANGED <<accepted, failures, least, refused>>,
           \A m \in Messages : Exists(m) => Exists(m)'
    PROVE  Grows
<1>1. \A m \in Messages : accepted[m] \in Nat /\ failures[m] \in Nat /\ least[m] \in Nat
  BY Types, Numbers
<1>. QED
  BY <1>1 DEF Grows

\* Steps that write no row and no count.
LEMMA Still ==
    ASSUME UNCHANGED <<queue, log, accepted, failures, least, refused>>, Tracked
    PROVE  Grows /\ \A m \in Messages : Untouched(m)
BY RowsGrow DEF Exists, Untouched

\* max_attempts of m is set.
LEMMA LoweredLeast ==
    ASSUME Tracked, NEW m \in Messages, NEW limit \in Limits, least' = Lowered(m, limit)
    PROVE  /\ least' \in [Messages -> Limits]
           /\ least'[m] <= limit
           /\ \A n \in Messages : least'[n] <= least[n]
<1>1. /\ least \in [Messages -> Limits] /\ \A n \in Messages : least[n] \in Nat
      /\ limit \in Nat
  BY Types, Numbers
<1>2. PICK n \in Limits : n = IF limit < least[m] THEN limit ELSE least[m]
  BY <1>1
<1>3. least' = [least EXCEPT ![m] = n]
  BY <1>1, <1>2 DEF Lowered
<1>. QED
  BY <1>1, <1>2, <1>3
-----------------------------------------------------------------------------
(* Each action keeps Tracked                                               *)

LEMMA TypedStep ==
    ASSUME queue' \in [Messages -> Row], log' \in [Messages -> LogRow],
           worker' \in [Workers -> WorkerRow], clerk' \in [Clerks -> ClerkRow],
           accepted' \in [Messages -> Nat], lost' \in [Messages -> Nat],
           retried' \in [Messages -> Nat], rescued' \in [Messages -> Nat],
           reopened' \in [Messages -> Nat], failures' \in [Messages -> Nat],
           edited' \in [Messages -> Nat], least' \in [Messages -> Limits],
           refused' \subseteq Messages, crashes' \in 0 .. MaxCrashes
    PROVE  TypeOK'
BY DEF TypeOK, Row, LogRow, WorkerRow, ClerkRow

LEMMA InitTracked == Init => Tracked
<1> SUFFICES ASSUME Init PROVE Tracked
  OBVIOUS
<1>1. TypeOK
  <2>1. /\ queue \in [Messages -> Row] /\ log \in [Messages -> LogRow]
        /\ worker \in [Workers -> WorkerRow] /\ clerk \in [Clerks -> ClerkRow]
    BY IdleMemories, BlankRows DEF Init
  <2>2. /\ \A count \in {accepted, lost, retried, rescued, reopened, edited, failures} :
             count \in [Messages -> Nat]
        /\ least \in [Messages -> Limits]
    BY Numbers DEF Init
  <2>3. refused \subseteq Messages /\ crashes \in 0 .. MaxCrashes
    BY BoundsAssumption DEF Init
  <2>. QED
    BY <2>1, <2>2, <2>3 DEF TypeOK, Row, LogRow, WorkerRow, ClerkRow
<1>2. \A w \in Workers : WorkerKnows(w)
  BY IdleMemories DEF Init, WorkerKnows
<1>3. \A c \in Clerks : ClerkKnows(c)
  BY IdleMemories DEF Init, ClerkKnows
<1>4. \A m \in Messages : RowsAreEarned(m)
  BY BlankRows DEF Init, RowsAreEarned, RowEarned, LogEarned, InTable, Counted
<1>. QED
  BY <1>1, <1>2, <1>3, <1>4 DEF Tracked

LEMMA EnqueueTracked ==
    ASSUME Tracked, NEW m \in Messages, Enqueue(m) \/ Create(m)
    PROVE  Tracked'
<1> USE Types
<1>1. PICK limit \in Limits :
        /\ queue' = [queue EXCEPT ![m] = [NoRow EXCEPT !.status = "PENDING", !.limit = limit]]
        /\ least' = Lowered(m, limit)
  <2>1. CASE Enqueue(m)
    <3>1. PICK r \in Row : r = NoRow /\ r.limit = DefaultAttempts
      BY BlankRows
    <3>2. [r EXCEPT !.status = "PENDING"] =
            [r EXCEPT !.status = "PENDING", !.limit = DefaultAttempts]
      BY <3>1 DEF Row
    <3>3. queue' = [queue EXCEPT ![m] = [r EXCEPT !.status = "PENDING"]]
      BY <2>1, <3>1 DEF Enqueue
    <3>4. queue' = [queue EXCEPT ![m] = [r EXCEPT !.status = "PENDING",
                                                  !.limit = DefaultAttempts]]
      BY <3>2, <3>3
    <3>5. least' = Lowered(m, DefaultAttempts) /\ DefaultAttempts \in Limits
      BY <2>1, Numbers DEF Enqueue
    <3>. QED
      BY <3>1, <3>4, <3>5
  <2>2. CASE Create(m)
    <3>1. PICK limit \in Limits :
            /\ queue' = [queue EXCEPT ![m].status = "PENDING", ![m].limit = limit]
            /\ least' = Lowered(m, limit)
      BY <2>2 DEF Create
    <3>2. queue[m] = NoRow
      BY <2>2 DEF Create
    <3>. QED
      BY <3>1, <3>2
  <2>. QED
    BY <2>1, <2>2
<1>2. /\ queue' \in [Messages -> Row]
      /\ queue'[m].status = "PENDING" /\ queue'[m].attempts = 0 /\ queue'[m].limit = limit
      /\ \A n \in Messages \ {m} : queue'[n] = queue[n]
  <2>1. PICK r \in Row : r = NoRow /\ r.attempts = 0
    BY BlankRows
  <2>2. PICK k : k = [r EXCEPT !.status = "PENDING", !.limit = limit]
    OBVIOUS
  <2>3. k \in Row /\ k.status = "PENDING" /\ k.attempts = 0 /\ k.limit = limit
    BY <2>1, <2>2 DEF Row, QueueStatus
  <2>4. queue' = [queue EXCEPT ![m] = k]
    BY <1>1, <2>1, <2>2
  <2>. QED
    BY <2>3, <2>4
<1>3. /\ log' \in [Messages -> LogRow]
      /\ log'[m].status # "SENT" \/ log'[m] = log[m]
      /\ log'[m].id = log[m].id
      /\ \A n \in Messages \ {m} : log'[n] = log[n]
      /\ UNCHANGED <<worker, clerk, accepted, lost, retried, rescued, reopened, edited, failures,
                     refused, crashes>>
  <2>1. PICK e \in LogRow : e = log[m]
    OBVIOUS
  <2>2. PICK d : d = [e EXCEPT !.status = "PENDING"]
    OBVIOUS
  <2>3. d \in LogRow /\ d.status = "PENDING" /\ d.id = e.id
    BY <2>2 DEF LogRow, LogStatus
  <2>4. CASE Enqueue(m)
    <3>1. log' = [log EXCEPT ![m] = d]
      BY <2>1, <2>2, <2>4 DEF Enqueue
    <3>. QED
      BY <2>1, <2>3, <2>4, <3>1 DEF Enqueue
  <2>5. CASE Create(m)
    BY <2>5 DEF Create
  <2>. QED
    BY <2>4, <2>5
<1>4. /\ least' \in [Messages -> Limits] /\ least'[m] <= limit
      /\ \A n \in Messages : least'[n] <= least[n]
  BY <1>1, LoweredLeast
<1>5. TypeOK'
  BY <1>2, <1>3, <1>4, TypedStep DEF Tracked, TypeOK
<1>6. Grows
  <2>1. \A n \in Messages : accepted[n] \in Nat /\ failures[n] \in Nat
    OBVIOUS
  <2>. QED
    BY <1>2, <1>3, <1>4, <2>1 DEF Grows, Exists
<1>7. RowsAreEarned(m)'
  <2>1. RowsAreEarned(m) /\ failures[m] \in Nat
    BY DEF Tracked
  <2>2. least'[m] \in Nat /\ limit \in Nat
    BY <1>4, Numbers
  <2>3. Exists(m)' /\ RowEarned(m, queue[m])'
    BY <1>2, <1>3, <2>1 DEF RowEarned, Exists, Counted
  <2>4. LogEarned(m, log[m])'
    BY <1>3, <2>1 DEF RowsAreEarned, LogEarned
  <2>5. queue'[m].limit >= least'[m]
    BY <1>2, <1>4, <2>2
  <2>. QED
    BY <2>3, <2>4, <2>5 DEF RowsAreEarned
<1>. QED
  BY <1>2, <1>3, <1>5, <1>6, <1>7, StepTracked DEF Untouched

LEMMA ElapseTracked ==
    ASSUME Tracked, NEW m \in Messages, Elapse(m)
    PROVE  Tracked'
<1> USE Types
<1>1. /\ queue' \in [Messages -> Row]
      /\ \A n \in Messages : /\ queue'[n].status = queue[n].status
                             /\ queue'[n].attempts = queue[n].attempts
                             /\ queue'[n].limit = queue[n].limit
      /\ UNCHANGED <<log, worker, clerk, accepted, lost, retried, rescued, reopened, edited,
                     failures, least, refused, crashes>>
  BY DEF Elapse, Row, Started, ghosts
<1>2. TypeOK'
  BY <1>1, TypedStep DEF Tracked, TypeOK
<1>3. Grows
  BY <1>1, RowsGrow DEF Exists
<1>. QED
  BY <1>1, <1>2, <1>3, StepTracked DEF Untouched

\* A worker that goes on without a message, and writes nothing.
LEMMA RestingTracked ==
    ASSUME Tracked, NEW w \in Workers, UNCHANGED <<queue, log, clerk, ghosts>>,
           NEW k \in WorkerRow, worker' = [worker EXCEPT ![w] = k],
           k.m = Nobody, k.result = "none", k.at \in {"idle", "dispatching", "recovering"}
    PROVE  Tracked'
<1> USE Types
<1>1. /\ worker' \in [Workers -> WorkerRow] /\ worker'[w] = k
      /\ \A v \in Workers \ {w} : worker'[v] = worker[v]
  OBVIOUS
<1>2. TypeOK'
  BY <1>1, TypedStep DEF Tracked, TypeOK, ghosts
<1>3. WorkerKnows(w)'
  BY <1>1 DEF WorkerKnows
<1>. QED
  BY <1>1, <1>2, <1>3, Still, StepTracked DEF ghosts

LEMMA DispatchTracked ==
    ASSUME Tracked, NEW w \in Workers, Dispatch(w) \/ Recover(w)
    PROVE  Tracked'
<1> USE Types
<1>1. PICK at \in {"dispatching", "recovering"} :
        worker' = [worker EXCEPT ![w].at = at, ![w].stale = Stale]
  BY DEF Dispatch, Recover
<1>2. PICK r \in WorkerRow, rows \in SUBSET Messages : r = worker[w] /\ rows = Stale
  BY DEF Stale
<1>3. PICK k : k = [r EXCEPT !.at = at, !.stale = rows]
  OBVIOUS
<1>4. k \in WorkerRow /\ k.at = at /\ k.m = r.m /\ k.result = r.result
  BY <1>3 DEF WorkerRow
<1>5. worker' = [worker EXCEPT ![w] = k]
  BY <1>1, <1>2, <1>3
<1>6. r.m = Nobody /\ r.result = "none"
  BY <1>2 DEF Dispatch, Recover, Tracked, WorkerKnows
<1>7. UNCHANGED <<queue, log, clerk, ghosts>>
  BY DEF Dispatch, Recover
<1>. QED
  BY <1>4, <1>5, <1>6, <1>7, RestingTracked

LEMMA ClaimNothingTracked ==
    ASSUME Tracked, NEW w \in Workers, ClaimNothing(w) \/ RecoverMissing(w) \/ MarkMissing(w)
    PROVE  Tracked'
BY IdleMemories, RestingTracked DEF ClaimNothing, RecoverMissing, MarkMissing

\* Recovery and the claim save the rows that were read as stale.
LEMMA RecoveredGrows ==
    ASSUME Tracked, NEW rows, rescued' = Rescued(rows),
           \A n \in Messages : /\ queue'[n].attempts = queue[n].attempts
                               /\ queue'[n].limit = queue[n].limit
                               /\ \/ queue'[n].status \in {"PENDING", "PROCESSING"}
                                     /\ InTable(n)
                                  \/ queue'[n].status = queue[n].status,
           UNCHANGED <<log, accepted, failures, least, refused>>
    PROVE  /\ Grows
           /\ rescued' \in [Messages -> Nat]
           /\ TypeOK' => \A n \in Messages : RowsAreEarned(n)'
<1>1. Grows
  BY RowsGrow DEF Exists
<1>2. rescued' \in [Messages -> Nat]
  BY RecoveredRows
<1>3. ASSUME TypeOK', NEW n \in Messages
      PROVE  RowsAreEarned(n)'
  <2>1. CASE queue'[n].status = queue[n].status
    BY <1>1, <1>3, <2>1, RowKeeps DEF Untouched
  <2>2. CASE queue'[n].status \in {"PENDING", "PROCESSING"} /\ InTable(n)
    <3>1. RowsAreEarned(n)
      BY DEF Tracked
    <3>2. Exists(n)' /\ RowEarned(n, queue[n])' /\ LogEarned(n, log[n])'
      BY <2>2, <3>1 DEF RowsAreEarned, RowEarned, LogEarned, Exists, Counted
    <3>. QED
      BY <2>2, <3>1, <3>2 DEF RowsAreEarned
  <2>. QED
    BY <2>1, <2>2
<1>. QED
  BY <1>1, <1>2, <1>3

\* What a claim leaves: m is PROCESSING in the hands of w, the stale rows are PENDING.
Claimed(w, m) ==
    /\ m \in worker[w].stale \/ queue[m].status = "PENDING"
    /\ InTable(m)
    /\ \A n \in worker[w].stale : InTable(n)
    /\ queue' \in [Messages -> Row]
    /\ queue'[m].status = "PROCESSING"
    /\ \A n \in Messages : /\ queue'[n].attempts = queue[n].attempts
                           /\ queue'[n].limit = queue[n].limit
    /\ \A n \in Messages \ {m} :
         queue'[n].status = IF n \in worker[w].stale THEN "PENDING" ELSE queue[n].status
    /\ worker' \in [Workers -> WorkerRow]
    /\ worker'[w].at = "sending" /\ worker'[w].m = m
    /\ worker'[w].attempts = queue[m].attempts /\ worker'[w].limit = queue[m].limit
    /\ worker'[w].result = "none"
    /\ \A v \in Workers \ {w} : worker'[v] = worker[v]

LEMMA ClaimedRows ==
    ASSUME Tracked, NEW w \in Workers, Claim(w)
    PROVE  \E m \in Messages : Claimed(w, m)
<1> USE Types
<1>1. PICK found : found = Recovered(worker[w].stale)
  OBVIOUS
<1>2. /\ found \in [Messages -> Row]
      /\ \A m \in Messages :
           /\ found[m].status = IF m \in worker[w].stale THEN "PENDING" ELSE queue[m].status
           /\ found[m].attempts = queue[m].attempts
           /\ found[m].limit = queue[m].limit
  BY <1>1, RecoveredRows
<1>3. PICK m \in Messages :
        /\ found[m].status = "PENDING"
        /\ queue' = [found EXCEPT ![m].status = "PROCESSING", ![m].started = "recent"]
        /\ worker' = [worker EXCEPT ![w] = [IdleWorker EXCEPT !.at = "sending", !.m = m,
                                                         !.attempts = found[m].attempts,
                                                         !.limit = found[m].limit]]
  BY <1>1 DEF Claim
<1>4. PICK n \in Nat, limit \in Limits : n = found[m].attempts /\ limit = found[m].limit
  BY <1>2 DEF Row
<1>5. PICK k : k = Holding("sending", m, n, limit)
  OBVIOUS
<1>6. /\ k \in WorkerRow /\ k.at = "sending" /\ k.m = m
      /\ k.attempts = n /\ k.limit = limit /\ k.result = "none"
  BY <1>5, HoldingMemory
<1>7. worker' = [worker EXCEPT ![w] = k]
  BY <1>3, <1>4, <1>5 DEF Holding
<1>8. /\ worker' \in [Workers -> WorkerRow] /\ worker'[w] = k
      /\ \A v \in Workers \ {w} : worker'[v] = worker[v]
  BY <1>6, <1>7
<1>9. /\ queue' \in [Messages -> Row]
      /\ queue'[m].status = "PROCESSING" /\ queue'[m].attempts = found[m].attempts
      /\ queue'[m].limit = found[m].limit
      /\ \A l \in Messages \ {m} : queue'[l] = found[l]
  BY <1>2, <1>3 DEF Row, QueueStatus, Started
<1>10. /\ m \in worker[w].stale \/ queue[m].status = "PENDING"
       /\ InTable(m) /\ \A l \in worker[w].stale : InTable(l)
  BY <1>2, <1>3 DEF Claim, InTable
<1>11. /\ \A l \in Messages : /\ queue'[l].attempts = queue[l].attempts
                               /\ queue'[l].limit = queue[l].limit
       /\ \A l \in Messages \ {m} :
            queue'[l].status = IF l \in worker[w].stale THEN "PENDING" ELSE queue[l].status
  BY <1>2, <1>9
<1>12. Claimed(w, m)
  BY <1>2, <1>4, <1>6, <1>8, <1>9, <1>10, <1>11 DEF Claimed
<1>. QED
  BY <1>12

LEMMA ClaimTracked ==
    ASSUME Tracked, NEW w \in Workers, Claim(w)
    PROVE  Tracked'
<1> USE Types
<1>1. PICK m \in Messages : Claimed(w, m)
  BY ClaimedRows
<1>2. /\ rescued' = Rescued(worker[w].stale)
      /\ UNCHANGED <<log, clerk, accepted, lost, retried, reopened, edited, failures,
        least, refused, crashes>>
  BY DEF Claim
<1>3. Grows /\ rescued' \in [Messages -> Nat]
      /\ (TypeOK' => \A n \in Messages : RowsAreEarned(n)')
  BY <1>1, <1>2, RecoveredGrows DEF Claimed
<1>4. TypeOK'
  BY <1>1, <1>2, <1>3, TypedStep DEF Tracked, TypeOK, Claimed
<1>5. WorkerKnows(w)'
  <2>1. /\ Counted(m, queue[m].attempts) /\ queue[m].attempts \in Nat
        /\ queue[m].limit >= least[m]
    BY <1>1 DEF Tracked, RowsAreEarned, RowEarned, Row, Claimed
  <2>2. m # Nobody
    BY NobodyAssumption
  <2>. QED
    BY <1>1, <1>2, <2>1, <2>2 DEF WorkerKnows, Exists, Counted, Claimed
<1>. QED
  BY <1>1, <1>2, <1>3, <1>4, <1>5, StepTracked DEF Claimed

LEMMA RecoverRowTracked ==
    ASSUME Tracked, NEW w \in Workers, RecoverRow(w)
    PROVE  Tracked'
<1> USE Types
<1>1. PICK m \in worker[w].stale :
        /\ InTable(m)
        /\ queue' = Recovered({m})
        /\ rescued' = Rescued({m})
        /\ worker' = [worker EXCEPT ![w] =
                        IF worker[w].stale \ {m} = {} THEN IdleWorker
                        ELSE [worker[w] EXCEPT !.stale = worker[w].stale \ {m}]]
  BY DEF RecoverRow
<1>2. /\ UNCHANGED <<log, clerk, accepted, lost, retried, reopened, edited, failures,
        least, refused, crashes>>
      /\ worker[w].at = "recovering"
  BY DEF RecoverRow
<1>3. /\ queue' \in [Messages -> Row]
      /\ InTable(m)
      /\ \A n \in Messages : /\ queue'[n].attempts = queue[n].attempts
                             /\ queue'[n].limit = queue[n].limit
                             /\ queue'[n].status = IF n = m THEN "PENDING" ELSE queue[n].status
  BY <1>1, RecoveredRows
<1>4. Grows /\ rescued' \in [Messages -> Nat]
      /\ (TypeOK' => \A n \in Messages : RowsAreEarned(n)')
  BY <1>1, <1>2, <1>3, RecoveredGrows
<1>5. /\ worker'[w] \in WorkerRow /\ worker'[w].m = Nobody /\ worker'[w].result = "none"
      /\ worker'[w].at \in {"idle", "recovering"}
  <2>1. worker[w].m = Nobody /\ worker[w].result = "none" /\ worker[w] \in WorkerRow
    BY <1>2 DEF Tracked, WorkerKnows
  <2>2. CASE worker[w].stale \ {m} = {}
    BY <1>1, <2>2, IdleMemories
  <2>3. CASE worker[w].stale \ {m} # {}
    <3>1. PICK rows \in SUBSET Messages : rows = worker[w].stale \ {m}
      BY <2>1 DEF WorkerRow
    <3>2. worker'[w] = [worker[w] EXCEPT !.stale = rows]
      BY <1>1, <2>3, <3>1
    <3>. QED
      BY <1>2, <2>1, <3>1, <3>2 DEF WorkerRow
  <2>. QED
    BY <2>2, <2>3
<1>6. worker' \in [Workers -> WorkerRow] /\ \A v \in Workers \ {w} : worker'[v] = worker[v]
  <2>1. PICK k \in WorkerRow : worker' = [worker EXCEPT ![w] = k]
    BY <1>1, <1>5
  <2>. QED
    BY <2>1
<1>7. TypeOK'
  BY <1>2, <1>3, <1>4, <1>6, TypedStep DEF Tracked, TypeOK
<1>8. WorkerKnows(w)'
  BY <1>5 DEF WorkerKnows
<1>. QED
  BY <1>2, <1>4, <1>6, <1>7, <1>8, StepTracked

-----------------------------------------------------------------------------
(* Sending                                                                 *)

\* A worker with something to do has a message.
LEMMA BusyWorker ==
    ASSUME Tracked, NEW w \in Workers, worker[w].at \in {"sending", "notifying", "logging"}
    PROVE  /\ worker[w] \in WorkerRow /\ worker[w].m \in Messages
           /\ worker[w].attempts \in Nat /\ worker[w].limit \in Limits
           /\ worker[w].id \in Nat /\ worker[w].result \in Result
           /\ WorkerKnows(w)
<1>1. worker[w] \in WorkerRow /\ WorkerKnows(w)
  BY Types DEF Tracked
<1>. QED
  BY <1>1 DEF WorkerRow, WorkerKnows

LEMMA NotifyTracked ==
    ASSUME Tracked, NEW w \in Workers, NEW m \in Messages, Notify(w, m)
    PROVE  Tracked'
<1> USE Types
<1>1. PICK k : k = Notifying(m)
  OBVIOUS
<1>2. /\ k \in WorkerRow /\ k.at = "notifying" /\ k.m = m /\ k.attempts = 0
      /\ k.limit = DefaultAttempts /\ k.result = "none"
  BY <1>1, NotifyingMemory
<1>3. worker' = [worker EXCEPT ![w] = k] /\ UNCHANGED <<queue, log, clerk, ghosts>>
  BY <1>1 DEF Notify, Notifying
<1>4. /\ worker' \in [Workers -> WorkerRow] /\ worker'[w] = k
      /\ \A v \in Workers \ {w} : worker'[v] = worker[v]
  BY <1>2, <1>3
<1>5. TypeOK'
  BY <1>3, <1>4, TypedStep DEF Tracked, TypeOK, ghosts
<1>6. WorkerKnows(w)'
  <2>1. m # Nobody
    BY NobodyAssumption
  <2>2. failures'[m] \in Nat
    BY <1>5 DEF TypeOK
  <2>. QED
    BY <1>2, <1>4, <2>1, <2>2 DEF WorkerKnows, Counted
<1>. QED
  BY <1>3, <1>4, <1>5, <1>6, Still, StepTracked DEF ghosts

LEMMA SendAcceptedTracked ==
    ASSUME Tracked, NEW w \in Workers, SendAccepted(w)
    PROVE  Tracked'
<1> USE Types
<1>1. PICK m \in Messages : m = worker[w].m
  BY BusyWorker DEF SendAccepted, Sending
<1>2. PICK n \in Nat : n = accepted[m] + 1
  OBVIOUS
<1>3. /\ worker[w].at \in {"sending", "notifying"}
      /\ accepted' = [accepted EXCEPT ![m] = n]
      /\ worker' = [worker EXCEPT ![w].result = "accepted", ![w].id = n]
      /\ UNCHANGED <<queue, log, clerk, lost, retried, rescued, reopened, edited, failures,
                     least, refused, crashes>>
  BY <1>1, <1>2 DEF SendAccepted, Sending
<1>4. /\ worker' \in [Workers -> WorkerRow]
      /\ worker'[w].at = worker[w].at /\ worker'[w].m = m
      /\ worker'[w].attempts = worker[w].attempts /\ worker'[w].limit = worker[w].limit
      /\ worker'[w].result = "accepted" /\ worker'[w].id = n
      /\ \A v \in Workers \ {w} : worker'[v] = worker[v]
  BY <1>1, <1>3 DEF WorkerRow, Result
<1>5. /\ accepted' \in [Messages -> Nat] /\ accepted'[m] = n
      /\ \A l \in Messages : accepted[l] <= accepted'[l]
  BY <1>2, <1>3
<1>6. TypeOK'
  BY <1>3, <1>4, <1>5, TypedStep DEF Tracked, TypeOK
<1>7. Grows
  <2>1. \A l \in Messages : failures[l] \in Nat /\ least[l] \in Nat
    BY Numbers
  <2>. QED
    BY <1>3, <1>5, <2>1 DEF Grows, Exists
<1>8. WorkerKnows(w)'
  <2>1. n \in 1 .. accepted'[m]
    BY <1>2, <1>5
  <2>. QED
    BY <1>1, <1>3, <1>4, <2>1, BusyWorker DEF WorkerKnows, Exists, Counted
<1>. QED
  BY <1>3, <1>4, <1>6, <1>7, <1>8, StepTracked DEF Untouched

LEMMA SendLostTracked ==
    ASSUME Tracked, NEW w \in Workers, SendLost(w)
    PROVE  Tracked'
<1> USE Types
<1>1. PICK m \in Messages : m = worker[w].m
  BY BusyWorker DEF SendLost, Sending
<1>2. /\ worker[w].at \in {"sending", "notifying"}
      /\ accepted' = [accepted EXCEPT ![m] = @ + 1]
      /\ lost' = [lost EXCEPT ![m] = @ + 1]
      /\ worker' = [worker EXCEPT ![w].result = "retryable"]
      /\ UNCHANGED <<queue, log, clerk, retried, rescued, reopened, edited, failures,
        least, refused, crashes>>
  BY <1>1 DEF SendLost, Sending
<1>3. /\ worker' \in [Workers -> WorkerRow]
      /\ worker'[w].at = worker[w].at /\ worker'[w].m = m
      /\ worker'[w].attempts = worker[w].attempts /\ worker'[w].result = "retryable"
      /\ \A v \in Workers \ {w} : worker'[v] = worker[v]
  BY <1>1, <1>2 DEF WorkerRow, Result
<1>4. /\ accepted' \in [Messages -> Nat] /\ lost' \in [Messages -> Nat]
      /\ \A l \in Messages : accepted[l] <= accepted'[l]
  BY <1>2
<1>5. TypeOK'
  BY <1>2, <1>3, <1>4, TypedStep DEF Tracked, TypeOK
<1>6. Grows
  <2>1. \A l \in Messages : failures[l] \in Nat /\ least[l] \in Nat
    BY Numbers
  <2>. QED
    BY <1>2, <1>4, <2>1 DEF Grows, Exists
<1>7. WorkerKnows(w)'
  BY <1>1, <1>2, <1>3, BusyWorker DEF WorkerKnows, Exists, Counted
<1>. QED
  BY <1>2, <1>3, <1>5, <1>6, <1>7, StepTracked DEF Untouched

LEMMA SendRefusedTracked ==
    ASSUME Tracked, NEW w \in Workers, SendRefused(w)
    PROVE  Tracked'
<1> USE Types
<1>1. PICK m \in Messages : m = worker[w].m
  BY BusyWorker DEF SendRefused, Sending
<1>2. PICK result \in {"retryable", "permanent"} :
        worker' = [worker EXCEPT ![w].result = result]
  BY DEF SendRefused
<1>3. /\ worker[w].at \in {"sending", "notifying"}
      /\ UNCHANGED <<queue, log, clerk, ghosts>>
  BY DEF SendRefused, Sending
<1>4. /\ worker' \in [Workers -> WorkerRow]
      /\ worker'[w].at = worker[w].at /\ worker'[w].m = m
      /\ worker'[w].attempts = worker[w].attempts /\ worker'[w].result = result
      /\ \A v \in Workers \ {w} : worker'[v] = worker[v]
  BY <1>1, <1>2 DEF WorkerRow, Result
<1>5. TypeOK'
  BY <1>3, <1>4, TypedStep DEF Tracked, TypeOK, ghosts
<1>6. WorkerKnows(w)'
  BY <1>1, <1>2, <1>3, <1>4, BusyWorker DEF WorkerKnows, Exists, Counted, ghosts
<1>. QED
  BY <1>3, <1>4, <1>5, <1>6, Still, StepTracked DEF ghosts

LEMMA CrashTracked ==
    ASSUME Tracked, NEW w \in Workers, Crash(w)
    PROVE  Tracked'
<1> USE Types
<1>1. /\ worker' = [worker EXCEPT ![w] = IdleWorker]
      /\ crashes' = crashes + 1 /\ crashes < MaxCrashes
      /\ UNCHANGED <<queue, log, clerk, accepted, retried, rescued, reopened, edited, failures,
                     least, refused>>
  BY DEF Crash
<1>2. lost' \in [Messages -> Nat]
  <2>1. CASE worker[w].at \in {"sending", "notifying"} /\ worker[w].result = "accepted"
    BY <2>1, BusyWorker DEF Crash
  <2>2. CASE ~(worker[w].at \in {"sending", "notifying"} /\ worker[w].result = "accepted")
    BY <2>2 DEF Crash
  <2>. QED
    BY <2>1, <2>2
<1>3. /\ worker' \in [Workers -> WorkerRow] /\ worker'[w] = IdleWorker
      /\ \A v \in Workers \ {w} : worker'[v] = worker[v]
  BY <1>1, IdleMemories
<1>4. crashes' \in 0 .. MaxCrashes
  <2>1. crashes \in 0 .. MaxCrashes
    BY DEF Tracked, TypeOK
  <2>. QED
    BY <1>1, <2>1, BoundsAssumption
<1>5. TypeOK'
  BY <1>1, <1>2, <1>3, <1>4, TypedStep
<1>6. Grows
  BY <1>1, RowsGrow DEF Exists
<1>7. WorkerKnows(w)'
  BY <1>3, IdleMemories DEF WorkerKnows
<1>. QED
  BY <1>1, <1>3, <1>5, <1>6, <1>7, StepTracked DEF Untouched

\* The row mark_success or mark_failure leaves.
MarkedAs(w, r) ==
    /\ r \in Row /\ r.status \in {"SENT", "PENDING", "FAILED"}
    /\ r.status = "SENT" <=> worker[w].result = "accepted"
    /\ r.status = "FAILED" =>
         worker[w].result = "permanent" \/ worker[w].attempts + 1 >= worker[w].limit
    /\ worker[w].result # "accepted" => r.attempts = worker[w].attempts + 1

LEMMA MarkedRow ==
    ASSUME Tracked, NEW w \in Workers, worker[w].at \in {"sending", "notifying"},
           worker[w].result # "none", NEW row \in Row
    PROVE  /\ MarkedAs(w, Marked(w, row))
           /\ Marked(w, row).limit = row.limit
           /\ worker[w].result = "accepted" => Marked(w, row).attempts = row.attempts
<1>1. /\ worker[w].attempts \in Nat /\ worker[w].limit \in Nat
      /\ worker[w].result \in {"accepted", "retryable", "permanent"}
  BY BusyWorker, Numbers DEF Result
<1>2. PICK st : st = MarkedStatus(w)
  OBVIOUS
<1>3. PICK n \in Nat :
       n = IF worker[w].result = "accepted" THEN row.attempts ELSE worker[w].attempts + 1
  BY <1>1 DEF Row
<1>4. /\ st = MarkedStatus(w)
      /\ n = IF worker[w].result = "accepted" THEN row.attempts ELSE worker[w].attempts + 1
  BY <1>2, <1>3
<1>5. /\ st \in {"SENT", "PENDING", "FAILED"}
      /\ st = "SENT" <=> worker[w].result = "accepted"
      /\ st = "FAILED" =>
           worker[w].result = "permanent" \/ worker[w].attempts + 1 >= worker[w].limit
  BY <1>1, <1>4 DEF MarkedStatus
<1>6. Marked(w, row) = [row EXCEPT !.status = st, !.started = "none", !.attempts = n]
  BY <1>4 DEF Marked
<1>7. PICK k : k = [row EXCEPT !.status = st, !.started = "none", !.attempts = n]
  OBVIOUS
<1>8. /\ k \in Row /\ k.status = st /\ k.attempts = n /\ k.limit = row.limit
  BY <1>4, <1>5, <1>7 DEF Row, QueueStatus, Started
<1>. QED
  BY <1>4, <1>5, <1>6, <1>7, <1>8 DEF MarkedAs

\* A failed attempt is counted, up to the maximum, and a refusal is remembered.
LEMMA FailureCounted ==
    ASSUME Tracked, NEW w \in Workers, worker[w].at \in {"sending", "notifying"},
           CountFailure(w)
    PROVE  /\ failures' \in [Messages -> Nat] /\ refused' \subseteq Messages
           /\ \A m \in Messages : failures[m] <= failures'[m]
           /\ refused \subseteq refused'
           /\ worker[w].result = "permanent" => worker[w].m \in refused'
           /\ worker[w].result # "accepted" /\ failures[worker[w].m] < MaxAttempts =>
                failures'[worker[w].m] = failures[worker[w].m] + 1
<1> USE Types
<1>1. PICK m \in Messages : m = worker[w].m
  BY BusyWorker
<1>2. /\ failures' \in [Messages -> Nat]
      /\ \A l \in Messages : failures[l] <= failures'[l]
      /\ worker[w].result # "accepted" /\ failures[m] < MaxAttempts =>
           failures'[m] = failures[m] + 1
  <2>1. CASE worker[w].result = "accepted"
    BY <2>1 DEF CountFailure
  <2>2. CASE worker[w].result # "accepted"
    <3>1. PICK n \in Nat : n = IF failures[m] < MaxAttempts THEN failures[m] + 1 ELSE failures[m]
      OBVIOUS
    <3>2. failures' = [failures EXCEPT ![m] = n]
      BY <1>1, <2>2, <3>1 DEF CountFailure
    <3>. QED
      BY <3>1, <3>2
  <2>. QED
    BY <2>1, <2>2
<1>3. /\ refused' \subseteq Messages /\ refused \subseteq refused'
      /\ worker[w].result = "permanent" => m \in refused'
  BY <1>1 DEF CountFailure
<1>. QED
  BY <1>1, <1>2, <1>3

\* What the attempt of the worker leaves was earned: the row is SENT only if the provider
\* took the message, and FAILED only if that was the last attempt or a refusal.
LEMMA MarkEarns ==
    ASSUME Tracked, TypeOK', Grows, NEW w \in Workers, NEW m \in Messages, m = worker[w].m,
           worker[w].at \in {"sending", "notifying"}, CountFailure(w),
           NEW r, MarkedAs(w, r),
           worker[w].result = "accepted" => Counted(m, r.attempts),
           worker[w].limit >= least'[m]
    PROVE  RowEarned(m, r)'
<1>1. /\ Counted(m, worker[w].attempts)
      /\ worker[w].result = "accepted" => accepted[m] > 0
  <2>1. WorkerKnows(w) /\ accepted[m] \in Nat /\ worker[w].id \in Nat
    BY BusyWorker, Types
  <2>. QED
    BY <2>1 DEF WorkerKnows
<1>2. PICK n \in Nat, q \in Nat, limit \in Nat :
        n = worker[w].attempts /\ q = r.attempts /\ limit = worker[w].limit
  BY BusyWorker, Numbers DEF MarkedAs, Row
<1>3. /\ Counted(m, n)'
      /\ worker[w].result = "accepted" => Counted(m, q)'
  BY <1>1, <1>2, CountedStays
<1>4. /\ failures[m] \in Nat /\ failures'[m] \in Nat /\ MaxAttempts \in Nat
      /\ failures[m] <= failures'[m] /\ least'[m] \in Nat /\ least'[m] <= MaxAttempts
      /\ worker[w].result # "accepted" /\ failures[m] < MaxAttempts =>
           failures'[m] = failures[m] + 1
  BY FailureCounted, Types, Numbers DEF TypeOK
<1>5. worker[w].result # "accepted" => Counted(m, n + 1)'
  BY <1>1, <1>2, <1>4 DEF Counted
<1>6. Counted(m, r.attempts)'
  BY <1>2, <1>3, <1>5 DEF MarkedAs
<1>7. r.status = "FAILED" => GivenUp(m)'
  <2>1. CASE worker[w].result = "permanent"
    BY <2>1, FailureCounted DEF GivenUp
  <2>2. CASE worker[w].result # "permanent" /\ r.status = "FAILED"
    <3>1. n + 1 >= limit /\ worker[w].result # "accepted" /\ limit >= least'[m]
      BY <1>2, <2>2 DEF MarkedAs
    <3>2. failures'[m] >= least'[m]
      BY <1>2, <1>4, <1>5, <3>1 DEF Counted
    <3>. QED
      BY <3>2 DEF GivenUp
  <2>. QED
    BY <2>1, <2>2
<1>8. r.status = "SENT" => accepted'[m] > 0
  <2>1. accepted[m] \in Nat /\ accepted'[m] \in Nat /\ accepted[m] <= accepted'[m]
    BY Types DEF TypeOK, Grows
  <2>. QED
    BY <1>1, <2>1 DEF MarkedAs
<1>. QED
  BY <1>6, <1>7, <1>8 DEF RowEarned

LEMMA MarkQueueTracked ==
    ASSUME Tracked, NEW w \in Workers, MarkQueue(w)
    PROVE  Tracked'
<1> USE Types
<1>1. /\ worker[w].at = "sending" /\ worker[w].result # "none" /\ CountFailure(w)
      /\ InTable(worker[w].m)
      /\ queue' = [queue EXCEPT ![worker[w].m] = Marked(w, queue[worker[w].m])]
      /\ worker' = [worker EXCEPT ![w].at = "logging", ![w].attempts = 0,
                                  ![w].limit = DefaultAttempts]
      /\ UNCHANGED <<log, clerk, accepted, lost, retried, rescued, reopened, edited, least,
                     crashes>>
  BY DEF MarkQueue
<1>2. PICK m \in Messages : m = worker[w].m
  BY <1>1, BusyWorker
<1>3. PICK h \in WorkerRow : h = worker[w]
  BY <1>1, BusyWorker
<1>4. PICK k : k = [h EXCEPT !.at = "logging", !.attempts = 0, !.limit = DefaultAttempts]
  OBVIOUS
<1>5. /\ k \in WorkerRow /\ k.m = m /\ k.at = "logging"
      /\ k.result = worker[w].result /\ k.id = worker[w].id
  BY <1>2, <1>3, <1>4, Numbers DEF WorkerRow
<1>6. /\ worker' \in [Workers -> WorkerRow] /\ worker'[w] = k
      /\ \A v \in Workers \ {w} : worker'[v] = worker[v]
  BY <1>1, <1>3, <1>4, <1>5
<1>7. PICK r : r = Marked(w, queue[m])
  OBVIOUS
<1>8. /\ MarkedAs(w, r) /\ r \in Row /\ r.limit = queue[m].limit
      /\ worker[w].result = "accepted" => r.attempts = queue[m].attempts
  BY <1>1, <1>7, MarkedRow DEF MarkedAs
<1>9. /\ queue' \in [Messages -> Row] /\ queue'[m] = r
      /\ \A l \in Messages \ {m} : queue'[l] = queue[l]
  BY <1>1, <1>2, <1>7, <1>8
<1>10. TypeOK'
  BY <1>1, <1>6, <1>9, FailureCounted, TypedStep DEF Tracked, TypeOK
<1>11. Grows
  <2>1. \A l \in Messages : Exists(l) => Exists(l)'
    BY <1>8, <1>9 DEF Exists, MarkedAs
  <2>2. \A l \in Messages : accepted[l] \in Nat /\ least[l] \in Nat
    BY Numbers
  <2>. QED
    BY <1>1, <2>1, <2>2, FailureCounted DEF Grows
<1>12. WorkerKnows(w)'
  <2>1. WorkerKnows(w) /\ m # Nobody
    BY <1>1, BusyWorker, NobodyAssumption
  <2>. QED
    BY <1>1, <1>2, <1>5, <1>6, <1>8, <1>9, <2>1 DEF WorkerKnows, Exists, MarkedAs
<1>13. RowsAreEarned(m)'
  <2>1. RowsAreEarned(m) /\ worker[w].limit >= least'[m]
    BY <1>1, <1>2, BusyWorker DEF Tracked, WorkerKnows
  <2>2. worker[w].result = "accepted" => Counted(m, r.attempts)
    BY <1>8, <2>1 DEF RowsAreEarned, RowEarned
  <2>3. RowEarned(m, r)'
    BY <1>1, <1>2, <1>8, <1>10, <1>11, <2>1, <2>2, MarkEarns
  <2>4. LogEarned(m, log[m])'
    BY <1>1, <2>1 DEF RowsAreEarned, LogEarned
  <2>5. queue'[m].limit >= least'[m]
    BY <1>1, <1>2, <1>8, <1>9, <2>1 DEF RowsAreEarned
  <2>6. Exists(m)'
    BY <1>8, <1>9 DEF Exists, MarkedAs
  <2>7. RowEarned(m, queue[m])'
    BY <1>9, <2>3
  <2>. QED
    BY <2>4, <2>5, <2>6, <2>7 DEF RowsAreEarned
<1>. QED
  BY <1>1, <1>6, <1>9, <1>10, <1>11, <1>12, <1>13, StepTracked DEF Untouched

LEMMA NotifyCommitTracked ==
    ASSUME Tracked, NEW w \in Workers, NotifyCommit(w)
    PROVE  Tracked'
<1> USE Types
<1>1. /\ worker[w].at = "notifying" /\ worker[w].result # "none" /\ CountFailure(w)
      /\ queue' = [queue EXCEPT ![worker[w].m] = Marked(w, NoRow)]
      /\ least' = Lowered(worker[w].m, DefaultAttempts)
      /\ worker' = [worker EXCEPT ![w] = IdleWorker]
      /\ UNCHANGED <<log, clerk, accepted, lost, retried, rescued, reopened, edited, crashes>>
  BY DEF NotifyCommit
<1>2. PICK m \in Messages : m = worker[w].m
  BY <1>1, BusyWorker
<1>3. /\ worker' \in [Workers -> WorkerRow] /\ worker'[w] = IdleWorker
      /\ \A v \in Workers \ {w} : worker'[v] = worker[v]
  BY <1>1, IdleMemories
<1>4. PICK r : r = Marked(w, NoRow)
  OBVIOUS
<1>5. /\ MarkedAs(w, r) /\ r \in Row /\ r.limit = DefaultAttempts
      /\ worker[w].result = "accepted" => r.attempts = 0
  BY <1>1, <1>4, BlankRows, MarkedRow DEF MarkedAs
<1>6. /\ queue' \in [Messages -> Row] /\ queue'[m] = r
      /\ \A l \in Messages \ {m} : queue'[l] = queue[l]
  BY <1>1, <1>2, <1>4, <1>5
<1>7. /\ least' \in [Messages -> Limits] /\ least'[m] <= DefaultAttempts
      /\ \A n \in Messages : least'[n] <= least[n]
  BY <1>1, <1>2, LoweredLeast, Numbers
<1>8. TypeOK'
  BY <1>1, <1>3, <1>6, <1>7, FailureCounted, TypedStep DEF Tracked, TypeOK
<1>9. Grows
  <2>1. \A l \in Messages : Exists(l) => Exists(l)'
    BY <1>5, <1>6 DEF Exists, MarkedAs
  <2>2. \A l \in Messages : accepted[l] \in Nat
    OBVIOUS
  <2>. QED
    BY <1>1, <1>7, <2>1, <2>2, FailureCounted DEF Grows
<1>10. WorkerKnows(w)'
  BY <1>3, IdleMemories DEF WorkerKnows
<1>11. RowsAreEarned(m)'
  <2>1. RowsAreEarned(m) /\ worker[w].limit = DefaultAttempts /\ failures[m] \in Nat
    BY <1>1, <1>2, BusyWorker DEF Tracked, WorkerKnows
  <2>2. DefaultAttempts >= least'[m]
    <3>1. least'[m] \in Nat /\ DefaultAttempts \in Nat /\ least'[m] <= DefaultAttempts
      BY <1>7, Numbers
    <3>. QED
      BY <3>1
  <2>3. RowEarned(m, r)'
    <3>1. worker[w].result = "accepted" => Counted(m, r.attempts)
      BY <1>5, <2>1 DEF Counted
    <3>2. worker[w].at \in {"sending", "notifying"} /\ worker[w].limit >= least'[m]
      BY <1>1, <2>1, <2>2
    <3>. QED
      BY <1>1, <1>2, <1>5, <1>8, <1>9, <3>1, <3>2, MarkEarns
  <2>4. LogEarned(m, log[m])'
    BY <1>1, <2>1 DEF RowsAreEarned, LogEarned
  <2>5. Exists(m)' /\ queue'[m].limit >= least'[m]
    BY <1>5, <1>6, <2>2 DEF Exists, MarkedAs
  <2>6. RowEarned(m, queue[m])'
    BY <1>6, <2>3
  <2>. QED
    BY <2>4, <2>5, <2>6 DEF RowsAreEarned
<1>. QED
  BY <1>1, <1>3, <1>6, <1>8, <1>9, <1>10, <1>11, StepTracked DEF Untouched

LEMMA MarkLogTracked ==
    ASSUME Tracked, NEW w \in Workers, MarkLog(w)
    PROVE  Tracked'
<1> USE Types
<1>1. PICK m \in Messages : m = worker[w].m
  BY BusyWorker DEF MarkLog
<1>2. /\ worker[w].at = "logging"
      /\ worker' = [worker EXCEPT ![w] = IdleWorker]
      /\ UNCHANGED <<queue, clerk, accepted, lost, retried, rescued, reopened, edited,
                     failures, least, refused, crashes>>
  BY DEF MarkLog, ghosts
<1>3. /\ worker' \in [Workers -> WorkerRow] /\ worker'[w] = IdleWorker
      /\ \A v \in Workers \ {w} : worker'[v] = worker[v]
  BY <1>2, IdleMemories
<1>4. /\ log' \in [Messages -> LogRow]
      /\ \A l \in Messages \ {m} : log'[l] = log[l]
      /\ \/ log'[m] = log[m]
         \/ /\ worker[w].result = "accepted"
            /\ log'[m].status = "SENT" /\ log'[m].id = worker[w].id
         \/ log'[m].status = "FAILED" /\ log'[m].id = log[m].id
  <2>1. CASE log[m] = NoLog
    BY <1>1, <2>1 DEF MarkLog
  <2>2. CASE log[m] # NoLog /\ worker[w].result = "accepted"
    <3>1. log' = [log EXCEPT ![m] = [status |-> "SENT", id |-> worker[w].id]]
      BY <1>1, <2>2 DEF MarkLog
    <3>. QED
      BY <1>2, <2>2, <3>1, BusyWorker DEF LogRow, LogStatus
  <2>3. CASE log[m] # NoLog /\ worker[w].result # "accepted"
    <3>1. log' = [log EXCEPT ![m].status = "FAILED"]
      BY <1>1, <2>3 DEF MarkLog
    <3>. QED
      BY <3>1 DEF LogRow, LogStatus
  <2>. QED
    BY <2>1, <2>2, <2>3
<1>5. TypeOK'
  BY <1>2, <1>3, <1>4, TypedStep DEF Tracked, TypeOK
<1>6. Grows
  BY <1>2, RowsGrow DEF Exists
<1>7. WorkerKnows(w)'
  BY <1>3, IdleMemories DEF WorkerKnows
<1>8. RowsAreEarned(m)'
  <2>1. /\ RowsAreEarned(m) /\ Exists(m)
        /\ worker[w].result = "accepted" => worker[w].id \in 1 .. accepted[m]
    BY <1>1, <1>2, BusyWorker DEF Tracked, WorkerKnows
  <2>2. accepted[m] \in Nat /\ worker[w].id \in Nat
    BY <1>2, BusyWorker
  <2>. QED
    <3>1. RowEarned(m, queue[m])' /\ Exists(m)'
      BY <1>2, <2>1 DEF RowsAreEarned, RowEarned, Exists, Counted, GivenUp
    <3>2. LogEarned(m, log[m])'
      BY <1>2, <1>4, <2>1, <2>2 DEF RowsAreEarned, LogEarned
    <3>. QED
      BY <1>2, <2>1, <3>1, <3>2 DEF RowsAreEarned, InTable
<1>. QED
  BY <1>2, <1>3, <1>4, <1>5, <1>6, <1>7, <1>8, StepTracked DEF Untouched

-----------------------------------------------------------------------------
(* Requests                                                                *)

\* A request that has begun has a message.
LEMMA BusyClerk ==
    ASSUME Tracked, NEW c \in Clerks, clerk[c].at # "idle"
    PROVE  /\ clerk[c] \in ClerkRow /\ clerk[c].m \in Messages
           /\ ClerkKnows(c) /\ Exists(clerk[c].m)
<1>1. clerk[c] \in ClerkRow /\ ClerkKnows(c)
  BY Types DEF Tracked
<1>. QED
  BY <1>1 DEF ClerkRow, ClerkKnows

\* A request reads the row or the log of a message.
LEMMA ReadTracked ==
    ASSUME Tracked, NEW c \in Clerks, NEW m \in Messages, log[m] # NoLog \/ InTable(m),
           UNCHANGED <<queue, log, worker, accepted, lost, retried, rescued, reopened, failures,
                       least, refused, crashes>>,
           edited' \in [Messages -> Nat],
           NEW k \in ClerkRow, clerk' = [clerk EXCEPT ![c] = k], k.m = m, k.at # "idle",
           k.at = "edit" => k.row = queue[m] /\ InTable(m),
           k.at = "edit log" => k.log = log[m]
    PROVE  Tracked'
<1> USE Types
<1>1. /\ clerk' \in [Clerks -> ClerkRow] /\ clerk'[c] = k
      /\ \A d \in Clerks \ {c} : clerk'[d] = clerk[d]
  OBVIOUS
<1>2. TypeOK'
  BY <1>1, TypedStep DEF Tracked, TypeOK
<1>3. ClerkKnows(c)'
  <2>1. RowsAreEarned(m) /\ Exists(m) /\ m # Nobody
    BY NobodyAssumption DEF Tracked, RowsAreEarned, InTable, Exists
  <2>2. RowEarned(m, queue[m])' /\ LogEarned(m, log[m])'
    BY <2>1 DEF RowsAreEarned, RowEarned, LogEarned, Counted, GivenUp
  <2>3. k.at = "edit" => RowEarned(m, k.row)' /\ k.row.status \notin {"NONE", "DELETED"}
    BY <2>2 DEF InTable, RowEarned, Counted, GivenUp
  <2>4. k.at = "edit log" => LogEarned(m, k.log)'
    BY <2>2 DEF LogEarned
  <2>. QED
    BY <1>1, <2>1, <2>3, <2>4 DEF ClerkKnows, Exists
<1>. QED
  BY <1>1, <1>2, <1>3, Still, StepTracked DEF ghosts

LEMMA RetryReadTracked ==
    ASSUME Tracked, NEW c \in Clerks, NEW m \in Messages, RetryRead(c, m)
    PROVE  Tracked'
<1>1. PICK r \in ClerkRow : r = IdleClerk
  BY IdleMemories
<1>2. PICK k : k = [r EXCEPT !.at = "retry", !.m = m]
  OBVIOUS
<1>3. k \in ClerkRow /\ k.at = "retry" /\ k.m = m
  BY <1>2 DEF ClerkRow
<1>4. clerk' = [clerk EXCEPT ![c] = k]
  BY <1>1, <1>2 DEF RetryRead
<1>5. log[m] # NoLog /\ UNCHANGED <<queue, log, worker, ghosts>>
  BY DEF RetryRead
<1>6. edited' \in [Messages -> Nat]
  BY <1>5, Types DEF ghosts
<1>. QED
  BY <1>3, <1>4, <1>5, <1>6, ReadTracked DEF ghosts

LEMMA EditReadTracked ==
    ASSUME Tracked, NEW c \in Clerks, NEW m \in Messages, EditRead(c, m)
    PROVE  Tracked'
<1>1. PICK r \in ClerkRow, row \in Row, entry \in LogRow :
        r = IdleClerk /\ row = queue[m] /\ entry = log[m]
  BY IdleMemories, Types
<1>2. PICK e : e = [r EXCEPT !.at = "edit", !.m = m, !.row = row]
  OBVIOUS
<1>3. e \in ClerkRow /\ e.at = "edit" /\ e.m = m /\ e.row = row
  BY <1>2 DEF ClerkRow
<1>4. PICK l : l = [r EXCEPT !.at = "edit log", !.m = m, !.log = entry]
  OBVIOUS
<1>5. l \in ClerkRow /\ l.at = "edit log" /\ l.m = m /\ l.log = entry
  BY <1>4 DEF ClerkRow
<1>6. /\ UNCHANGED <<queue, log, worker, accepted, lost, retried, rescued, reopened, failures,
                      least, refused, crashes>>
      /\ edited' = [edited EXCEPT ![m] = @ + 1]
  BY DEF EditRead
<1>7. edited' \in [Messages -> Nat]
  BY <1>6, Types
<1>8. \/ InTable(m) /\ clerk' = [clerk EXCEPT ![c] = e]
      \/ log[m] # NoLog /\ clerk' = [clerk EXCEPT ![c] = l]
  BY <1>1, <1>2, <1>4 DEF EditRead
<1>9. CASE InTable(m) /\ clerk' = [clerk EXCEPT ![c] = e]
  <2>1. e.at # "idle" /\ e.at # "edit log" /\ e.m = m /\ e.row = queue[m]
    BY <1>1, <1>3
  <2>. QED
    BY <1>3, <1>6, <1>7, <1>9, <2>1, ReadTracked
<1>10. CASE log[m] # NoLog /\ clerk' = [clerk EXCEPT ![c] = l]
  <2>1. l.at # "idle" /\ l.at # "edit" /\ l.m = m /\ l.log = log[m]
    BY <1>1, <1>5
  <2>. QED
    BY <1>5, <1>6, <1>7, <1>10, <2>1, ReadTracked
<1>. QED
  BY <1>8, <1>9, <1>10

\* A request that is done leaves its row and its log as earned as they were.
LEMMA ClerkDone ==
    ASSUME Tracked, TypeOK', Grows, NEW c \in Clerks, clerk' = [clerk EXCEPT ![c] = IdleClerk],
           worker' = worker, NEW m \in Messages, RowsAreEarned(m)',
           \A n \in Messages \ {m} : Untouched(n)
    PROVE  Tracked'
<1>1. /\ clerk'[c] = IdleClerk /\ \A d \in Clerks \ {c} : clerk'[d] = clerk[d]
  BY Types
<1>2. ClerkKnows(c)'
  BY <1>1, IdleMemories DEF ClerkKnows
<1>. QED
  BY <1>1, <1>2, StepTracked

LEMMA ClerkMissingTracked ==
    ASSUME Tracked, NEW c \in Clerks, ClerkMissing(c)
    PROVE  Tracked'
<1> USE Types
<1>1. /\ clerk' = [clerk EXCEPT ![c] = IdleClerk]
      /\ UNCHANGED <<queue, log, worker, ghosts>>
  BY DEF ClerkMissing
<1>2. /\ clerk' \in [Clerks -> ClerkRow] /\ clerk'[c] = IdleClerk
      /\ \A d \in Clerks \ {c} : clerk'[d] = clerk[d]
  BY <1>1, IdleMemories
<1>3. TypeOK'
  BY <1>1, <1>2, TypedStep DEF Tracked, TypeOK, ghosts
<1>4. ClerkKnows(c)'
  BY <1>2, IdleMemories DEF ClerkKnows
<1>. QED
  BY <1>1, <1>2, <1>3, <1>4, Still, StepTracked DEF ghosts

LEMMA RetryQueueTracked ==
    ASSUME Tracked, NEW c \in Clerks, RetryQueue(c)
    PROVE  Tracked'
<1> USE Types
<1>1. PICK m \in Messages : m = clerk[c].m
  BY BusyClerk DEF RetryQueue
<1>2. /\ InTable(m)
      /\ queue' = [queue EXCEPT ![m].status = "PENDING", ![m].started = "none"]
      /\ retried' = [retried EXCEPT ![m] = @ + 1]
      /\ clerk' = [clerk EXCEPT ![c] = IdleClerk]
      /\ UNCHANGED <<log, worker, accepted, lost, rescued, reopened, edited, failures, least,
                     refused, crashes>>
  BY <1>1 DEF RetryQueue
<1>3. /\ queue' \in [Messages -> Row]
      /\ queue'[m].status = "PENDING" /\ queue'[m].attempts = queue[m].attempts
      /\ queue'[m].limit = queue[m].limit
      /\ \A l \in Messages \ {m} : queue'[l] = queue[l]
  BY <1>2 DEF Row, QueueStatus, Started
<1>4. clerk' \in [Clerks -> ClerkRow]
  BY <1>2, IdleMemories
<1>5. retried' \in [Messages -> Nat]
  <2>1. retried' = [retried EXCEPT ![m] = @ + 1]
    BY <1>2
  <2>. QED
    BY <2>1
<1>6. TypeOK'
  BY <1>2, <1>3, <1>4, <1>5, TypedStep DEF Tracked, TypeOK
<1>7. Grows
  BY <1>2, <1>3, RowsGrow DEF Exists
<1>8. RowsAreEarned(m)'
  <2>1. RowsAreEarned(m)
    BY DEF Tracked
  <2>2. Exists(m)' /\ RowEarned(m, queue[m])' /\ LogEarned(m, log[m])'
    BY <1>2, <1>3, <2>1 DEF RowsAreEarned, RowEarned, LogEarned, Exists, Counted
  <2>. QED
    BY <1>2, <1>3, <2>1, <2>2 DEF RowsAreEarned
<1>. QED
  BY <1>2, <1>3, <1>6, <1>7, <1>8, ClerkDone DEF Untouched

\* What an edit leaves: the row it read, with another max_attempts.
Edited(c, m, r) ==
    /\ r \in Row
    /\ r.status = clerk[c].row.status /\ r.attempts = clerk[c].row.attempts
    /\ queue' \in [Messages -> Row] /\ queue'[m] = r
    /\ \A l \in Messages \ {m} : queue'[l] = queue[l]
    /\ least' \in [Messages -> Limits] /\ least'[m] <= r.limit
    /\ \A l \in Messages : least'[l] <= least[l]

LEMMA EditedRow ==
    ASSUME Tracked, NEW c \in Clerks, EditSave(c), NEW m \in Messages, m = clerk[c].m
    PROVE  \E r : Edited(c, m, r)
<1>1. PICK limit \in Limits :
        /\ queue' = [queue EXCEPT ![m] = [clerk[c].row EXCEPT !.limit = limit]]
        /\ least' = Lowered(m, limit)
  BY DEF EditSave
<1>2. PICK row \in Row : row = clerk[c].row
  BY Types DEF ClerkRow
<1>3. PICK r : r = [row EXCEPT !.limit = limit]
  OBVIOUS
<1>4. r \in Row /\ r.status = row.status /\ r.attempts = row.attempts /\ r.limit = limit
  BY <1>3 DEF Row
<1>5. queue' = [queue EXCEPT ![m] = r]
  BY <1>1, <1>2, <1>3
<1>6. /\ queue' \in [Messages -> Row] /\ queue'[m] = r
      /\ \A l \in Messages \ {m} : queue'[l] = queue[l]
  BY <1>4, <1>5, Types
<1>7. /\ least' \in [Messages -> Limits] /\ least'[m] <= limit
      /\ \A l \in Messages : least'[l] <= least[l]
  BY <1>1, LoweredLeast
<1>8. Edited(c, m, r)
  BY <1>2, <1>4, <1>6, <1>7 DEF Edited
<1>. QED
  BY <1>8

LEMMA EditSaveTracked ==
    ASSUME Tracked, NEW c \in Clerks, EditSave(c)
    PROVE  Tracked'
<1> USE Types
<1>1. PICK m \in Messages : m = clerk[c].m
  BY BusyClerk DEF EditSave
<1>2. PICK r : Edited(c, m, r)
  BY <1>1, EditedRow
<1>3. /\ clerk[c].at = "edit"
      /\ clerk' = [clerk EXCEPT ![c] = IdleClerk]
      /\ UNCHANGED <<log, worker, accepted, lost, retried, rescued, edited, failures, refused,
                     crashes>>
  BY DEF EditSave
<1>4. reopened' \in [Messages -> Nat]
  <2>1. reopened' = reopened \/ reopened' = [reopened EXCEPT ![m] = @ + 1]
    BY <1>1 DEF EditSave
  <2>. QED
    BY <2>1
<1>5. clerk' \in [Clerks -> ClerkRow]
  BY <1>3, IdleMemories
<1>6. TypeOK'
  BY <1>2, <1>3, <1>4, <1>5, TypedStep DEF Tracked, TypeOK, Edited
<1>7. ClerkKnows(c) /\ RowEarned(m, clerk[c].row) /\ r.status \notin {"NONE", "DELETED"}
  BY <1>1, <1>2, <1>3, BusyClerk DEF ClerkKnows, Edited
<1>8. Grows
  <2>1. \A l \in Messages : accepted[l] \in Nat /\ failures[l] \in Nat
    OBVIOUS
  <2>2. \A l \in Messages : Exists(l) => Exists(l)'
    BY <1>2, <1>7 DEF Exists, Edited
  <2>3. \A l \in Messages : least'[l] <= least[l]
    BY <1>2 DEF Edited
  <2>. QED
    BY <1>3, <2>1, <2>2, <2>3 DEF Grows
<1>9. RowsAreEarned(m)'
  <2>1. RowEarned(m, r)
    BY <1>2, <1>7 DEF Edited, RowEarned
  <2>2. RowEarned(m, r)'
    BY <1>2, <1>6, <1>8, <2>1, EarnedStays DEF Edited
  <2>3. RowEarned(m, queue[m])' /\ Exists(m)'
    BY <1>2, <1>7, <2>2 DEF Edited, Exists
  <2>4. LogEarned(m, log[m])'
    BY <1>3 DEF Tracked, RowsAreEarned, LogEarned
  <2>5. queue'[m].limit >= least'[m]
    <3>1. r.limit \in Nat /\ least'[m] \in Nat /\ least'[m] <= r.limit /\ queue'[m] = r
      BY <1>2, Numbers DEF Edited, Row
    <3>. QED
      BY <3>1
  <2>. QED
    BY <2>3, <2>4, <2>5 DEF RowsAreEarned
<1>. QED
  BY <1>2, <1>3, <1>6, <1>8, <1>9, ClerkDone DEF Untouched, Edited

LEMMA EditLogSaveTracked ==
    ASSUME Tracked, NEW c \in Clerks, EditLogSave(c)
    PROVE  Tracked'
<1> USE Types
<1>1. PICK m \in Messages, entry \in LogRow : m = clerk[c].m /\ entry = clerk[c].log
  BY BusyClerk DEF EditLogSave, ClerkRow
<1>2. /\ clerk[c].at = "edit log" /\ InTable(m)
      /\ log' = [log EXCEPT ![m] = entry]
      /\ clerk' = [clerk EXCEPT ![c] = IdleClerk]
      /\ UNCHANGED <<queue, worker, ghosts>>
  BY <1>1 DEF EditLogSave
<1>3. /\ log' \in [Messages -> LogRow] /\ log'[m] = entry
      /\ \A l \in Messages \ {m} : log'[l] = log[l]
  BY <1>2
<1>4. clerk' \in [Clerks -> ClerkRow]
  BY <1>2, IdleMemories
<1>5. TypeOK'
  BY <1>2, <1>3, <1>4, TypedStep DEF Tracked, TypeOK, ghosts
<1>6. Grows
  BY <1>2, RowsGrow DEF Exists, ghosts
<1>7. RowsAreEarned(m)'
  <2>1. RowsAreEarned(m) /\ LogEarned(m, entry)
    BY <1>1, <1>2, BusyClerk DEF Tracked, ClerkKnows
  <2>2. UNCHANGED <<queue, accepted, failures, least, refused>>
    BY <1>2 DEF ghosts
  <2>3. RowEarned(m, queue[m])'
    BY <2>1, <2>2 DEF RowsAreEarned, RowEarned, Counted, GivenUp
  <2>4. LogEarned(m, log[m])'
    BY <1>3, <2>1, <2>2 DEF LogEarned
  <2>5. Exists(m)'
    BY <1>2, <2>2 DEF InTable, Exists
  <2>. QED
    BY <2>1, <2>2, <2>3, <2>4, <2>5 DEF RowsAreEarned, InTable
<1>. QED
  BY <1>2, <1>3, <1>5, <1>6, <1>7, ClerkDone DEF Untouched

\* A row or a log is deleted.
LEMMA DeleteTracked ==
    ASSUME Tracked, NEW m \in Messages, DeleteRow(m) \/ DeleteLog(m)
    PROVE  Tracked'
<1> USE Types
<1>1. /\ log' = [log EXCEPT ![m] = NoLog]
      /\ UNCHANGED <<worker, clerk, ghosts>>
      /\ \/ queue' = queue
         \/ queue' = [queue EXCEPT ![m] = [NoRow EXCEPT !.status = "DELETED"]]
  BY DEF DeleteRow, DeleteLog
<1>2. PICK r \in Row : r = NoRow /\ r.attempts = 0
  BY BlankRows
<1>3. PICK d : d = [r EXCEPT !.status = "DELETED"]
  OBVIOUS
<1>4. /\ d \in Row /\ d.status = "DELETED" /\ d.attempts = 0
      /\ d = [NoRow EXCEPT !.status = "DELETED"]
  BY <1>2, <1>3 DEF Row, QueueStatus
<1>5. /\ log' \in [Messages -> LogRow] /\ log'[m] = NoLog
      /\ \A l \in Messages \ {m} : log'[l] = log[l]
  BY <1>1, BlankRows
<1>6. /\ queue' \in [Messages -> Row] /\ queue'[m] \in {queue[m], d}
      /\ \A l \in Messages \ {m} : queue'[l] = queue[l]
  BY <1>1, <1>4
<1>7. TypeOK'
  BY <1>1, <1>5, <1>6, TypedStep DEF Tracked, TypeOK, ghosts
<1>8. Grows
  BY <1>1, <1>4, <1>6, RowsGrow DEF Exists, ghosts
<1>9. RowsAreEarned(m)'
  <2>1. RowsAreEarned(m) /\ failures[m] \in Nat /\ accepted[m] \in Nat
    BY DEF Tracked
  <2>2. UNCHANGED <<accepted, failures, least, refused>>
    BY <1>1 DEF ghosts
  <2>3. RowEarned(m, queue[m])' /\ (InTable(m)' => queue'[m].limit >= least'[m])
    <3>1. CASE queue'[m] = queue[m]
      BY <2>1, <2>2, <3>1 DEF RowsAreEarned, RowEarned, Counted, GivenUp, InTable
    <3>2. CASE queue'[m] = d
      <4>1. failures'[m] \in Nat
        BY <2>1, <2>2
      <4>. QED
        BY <1>4, <3>2, <4>1 DEF RowEarned, Counted, InTable
    <3>. QED
      BY <1>6, <3>1, <3>2
  <2>4. LogEarned(m, log[m])'
    BY <1>5, <2>1, <2>2, BlankRows DEF LogEarned
  <2>. QED
    BY <1>5, <2>3, <2>4 DEF RowsAreEarned
<1>. QED
  BY <1>1, <1>5, <1>6, <1>7, <1>8, <1>9, StepTracked DEF Untouched

LEMMA NextTracked == Tracked /\ [Next]_vars => Tracked'
<1> SUFFICES ASSUME Tracked, [Next]_vars PROVE Tracked'
  OBVIOUS
<1>1. ASSUME NEW m \in Messages,
             Enqueue(m) \/ Create(m) \/ Elapse(m) \/ DeleteRow(m) \/ DeleteLog(m)
      PROVE  Tracked'
  BY <1>1, EnqueueTracked, ElapseTracked, DeleteTracked
<1>2. ASSUME NEW w \in Workers, WorkerStep(w)
      PROVE  Tracked'
  BY <1>2, DispatchTracked, ClaimTracked, ClaimNothingTracked, RecoverRowTracked,
     SendAcceptedTracked, SendRefusedTracked, MarkQueueTracked, MarkLogTracked,
     NotifyCommitTracked DEF WorkerStep
<1>3. ASSUME NEW w \in Workers, Recover(w) \/ SendLost(w) \/ Crash(w)
      PROVE  Tracked'
  BY <1>3, DispatchTracked, SendLostTracked, CrashTracked
<1>4. ASSUME NEW w \in Workers, NEW m \in Messages, Notify(w, m)
      PROVE  Tracked'
  BY <1>4, NotifyTracked
<1>5. ASSUME NEW c \in Clerks, ClerkStep(c)
      PROVE  Tracked'
  BY <1>5, RetryQueueTracked, ClerkMissingTracked, EditSaveTracked, EditLogSaveTracked
     DEF ClerkStep
<1>6. ASSUME NEW c \in Clerks, NEW m \in Messages, RetryRead(c, m) \/ EditRead(c, m)
      PROVE  Tracked'
  BY <1>6, RetryReadTracked, EditReadTracked
<1>7. CASE UNCHANGED vars
  <2>1. TypeOK'
    BY <1>7 DEF Tracked, TypeOK, vars
  <2>2. UNCHANGED <<queue, log, worker, clerk, ghosts>>
    BY <1>7 DEF vars, ghosts
  <2>. QED
    BY <2>1, <2>2, Still, StepTracked DEF ghosts
<1>. QED
  BY <1>1, <1>2, <1>3, <1>4, <1>5, <1>6, <1>7 DEF Next

\* The queue, the log and what the processes hold in memory keep their shape through
\* every claim, send, mark, recovery, retry, edit and deletion (models.py).
THEOREM MessagesTypeOK == Spec => []TypeOK
<1>1. Init => Tracked
  BY InitTracked
<1>2. Tracked /\ [Next]_vars => Tracked'
  BY NextTracked
<1>3. Tracked => TypeOK
  BY DEF Tracked
<1>. QED
  BY <1>1, <1>2, <1>3, PTL DEF Spec

\* However workers and requests overwrite each other's rows and logs with what they read
\* before, a message is shown as sent only if the provider took it (mark_success).
THEOREM ShownAsSentWasAccepted == Spec => []SentWasAccepted
<1>1. Init => Tracked
  BY InitTracked
<1>2. Tracked /\ [Next]_vars => Tracked'
  BY NextTracked
<1>3. Tracked => SentWasAccepted
  BY DEF Tracked, RowsAreEarned, RowEarned, LogEarned, SentWasAccepted
<1>. QED
  BY <1>1, <1>2, <1>3, PTL DEF Spec

\* A message is given up only when it was refused for good or has failed as often as a
\* max_attempts it had allows, although each worker counts from the attempts and the
\* max_attempts it loaded, and an edit writes back those it read (mark_failure).
THEOREM GivenUpOnlyWhenSpent == Spec => []GivenUpWhenSpent
<1>1. Init => Tracked
  BY InitTracked
<1>2. Tracked /\ [Next]_vars => Tracked'
  BY NextTracked
<1>3. Tracked => GivenUpWhenSpent
  BY DEF Tracked, RowsAreEarned, RowEarned, GivenUp, GivenUpWhenSpent
<1>. QED
  BY <1>1, <1>2, <1>3, PTL DEF Spec

-----------------------------------------------------------------------------
(* Duplicates                                                              *)

LEMMA CountTypes ==
    /\ \A w, m : HoldCount(w, m) \in Nat /\ HoldCount(w, m)' \in Nat
    /\ \A m : WaitCount(m) \in 0 .. 1 /\ WaitCount(m)' \in 0 .. 1
BY DEF HoldCount, WaitCount

LEMMA ExcuseType ==
    ASSUME Tracked, NEW m \in Messages
    PROVE  Excuses(m) \in Nat /\ accepted[m] \in Nat
BY Types DEF Excuses

LEMMA ExcuseTypeNext ==
    ASSUME Tracked', NEW m \in Messages
    PROVE  Excuses(m)' \in Nat /\ accepted'[m] \in Nat
<1>1. /\ accepted' \in [Messages -> Nat] /\ lost' \in [Messages -> Nat]
      /\ retried' \in [Messages -> Nat] /\ rescued' \in [Messages -> Nat]
      /\ reopened' \in [Messages -> Nat]
  BY DEF Tracked, TypeOK
<1>. QED
  BY <1>1 DEF Excuses

\* When one worker moves, the holders of m change by that worker at most.
LEMMA HoldersChange ==
    ASSUME NEW w \in Workers, \A v \in Workers \ {w} : worker'[v] = worker[v],
           NEW m, IsFiniteSet(Holders(m))
    PROVE  /\ IsFiniteSet(Holders(m))'
           /\ Cardinality(Holders(m)) \in Nat /\ Cardinality(Holders(m))' \in Nat
           /\ Cardinality(Holders(m))' + HoldCount(w, m) =
                Cardinality(Holders(m)) + HoldCount(w, m)'
<1>1. \A v \in Workers \ {w} : v \in Holders(m)' <=> v \in Holders(m)
  BY DEF Holders, Holds
<1>2. /\ w \in Holders(m) <=> Holds(w, m)
      /\ w \in Holders(m)' <=> Holds(w, m)'
  BY DEF Holders
<1>3. PICK S, T : S = Holders(m) /\ T = Holders(m)'
  OBVIOUS
<1>4. S \subseteq Workers /\ T \subseteq Workers
  BY <1>3 DEF Holders
<1>5. IsFiniteSet(S) /\ Cardinality(S) \in Nat
  BY <1>3, FS_CardinalityType
<1>6. CASE Holds(w, m)' /\ ~Holds(w, m)
  <2>1. T = S \cup {w} /\ w \notin S
    BY <1>1, <1>2, <1>3, <1>4, <1>6
  <2>2. IsFiniteSet(T) /\ Cardinality(T) = Cardinality(S) + 1
    BY <1>5, <2>1, FS_AddElement
  <2>. QED
    BY <1>3, <1>5, <1>6, <2>2 DEF HoldCount
<1>7. CASE ~Holds(w, m)' /\ Holds(w, m)
  <2>1. T = S \ {w} /\ w \in S
    BY <1>1, <1>2, <1>3, <1>4, <1>7
  <2>2. IsFiniteSet(T) /\ Cardinality(T) = Cardinality(S) - 1 /\ Cardinality(T) \in Nat
    BY <1>5, <2>1, FS_RemoveElement, FS_CardinalityType
  <2>. QED
    BY <1>3, <1>5, <1>7, <2>2 DEF HoldCount
<1>8. CASE Holds(w, m)' <=> Holds(w, m)
  <2>1. T = S
    BY <1>1, <1>2, <1>3, <1>4, <1>8
  <2>2. HoldCount(w, m)' = HoldCount(w, m)
    BY <1>8 DEF HoldCount
  <2>. QED
    BY <1>3, <1>5, <2>1, <2>2, CountTypes
<1>. QED
  BY <1>6, <1>7, <1>8

\* What a worker's step has to show: m is not taken, held and waiting more often than
\* there are new excuses for it.
LEMMA WorkerBalance ==
    ASSUME Explained, Tracked', NEW w \in Workers,
           \A v \in Workers \ {w} : worker'[v] = worker[v], NEW m \in Messages,
           accepted'[m] + HoldCount(w, m)' + WaitCount(m)' + Excuses(m)
             <= accepted[m] + HoldCount(w, m) + WaitCount(m) + Excuses(m)'
    PROVE  Bounded(m)'
<1>1. /\ IsFiniteSet(Holders(m)) /\ Excuses(m) \in Nat /\ accepted[m] \in Nat
      /\ accepted[m] + Cardinality(Holders(m)) + WaitCount(m) <= 1 + Excuses(m)
  BY ExcuseType DEF Explained, Bounded
<1>2. Excuses(m)' \in Nat /\ accepted'[m] \in Nat
  BY ExcuseTypeNext
<1>3. /\ HoldCount(w, m) \in Nat /\ HoldCount(w, m)' \in Nat
      /\ WaitCount(m) \in Nat /\ WaitCount(m)' \in Nat
  BY CountTypes
<1>4. /\ IsFiniteSet(Holders(m))'
      /\ Cardinality(Holders(m)) \in Nat /\ Cardinality(Holders(m))' \in Nat
      /\ Cardinality(Holders(m))' + HoldCount(w, m) = Cardinality(Holders(m)) + HoldCount(w, m)'
  BY <1>1, HoldersChange
<1>. QED
  BY <1>1, <1>2, <1>3, <1>4 DEF Bounded

\* The same for a step that moves no worker.
LEMMA RowBalance ==
    ASSUME Explained, Tracked', worker' = worker, NEW m \in Messages,
           accepted'[m] + WaitCount(m)' + Excuses(m) <= accepted[m] + WaitCount(m) + Excuses(m)'
    PROVE  Bounded(m)'
<1>1. /\ IsFiniteSet(Holders(m)) /\ Excuses(m) \in Nat /\ accepted[m] \in Nat
      /\ accepted[m] + Cardinality(Holders(m)) + WaitCount(m) <= 1 + Excuses(m)
  BY ExcuseType DEF Explained, Bounded
<1>2. Excuses(m)' \in Nat /\ accepted'[m] \in Nat
  BY ExcuseTypeNext
<1>3. WaitCount(m) \in Nat /\ WaitCount(m)' \in Nat
  BY CountTypes
<1>4. Holders(m)' = Holders(m)
  BY DEF Holders, Holds
<1>5. Cardinality(Holders(m)) \in Nat
  BY <1>1, FS_CardinalityType
<1>. QED
  BY <1>1, <1>2, <1>3, <1>4, <1>5 DEF Bounded

\* A message waits after a step only if it waited before, when its row keeps its status
\* and no worker lets go of it.
LEMMA WaitsNoMore ==
    ASSUME NEW m, queue'[m].status = queue[m].status,
           \A w \in Workers : worker[w].m = m => worker'[w].m = m
    PROVE  WaitCount(m)' <= WaitCount(m)
<1>1. Waits(m)' => Waits(m)
  BY DEF Waits
<1>. QED
  BY <1>1 DEF WaitCount

LEMMA DoesNotWait ==
    ASSUME NEW m, queue'[m].status \notin {"NONE", "PENDING"}
    PROVE  WaitCount(m)' = 0
BY DEF WaitCount, Waits

\* A worker without a message that begins or ends something writes no row.
LEMMA RestingBounded ==
    ASSUME Explained, Tracked', NEW w \in Workers, worker[w].m = Nobody, worker'[w].m = Nobody,
           \A v \in Workers \ {w} : worker'[v] = worker[v],
           UNCHANGED <<queue, log, clerk, ghosts>>, NEW m \in Messages
    PROVE  Bounded(m)'
<1>1. HoldCount(w, m) = 0 /\ HoldCount(w, m)' = 0
  BY NobodyAssumption DEF HoldCount, Holds
<1>2. WaitCount(m)' <= WaitCount(m)
  BY NobodyAssumption, WaitsNoMore
<1>3. accepted' = accepted /\ Excuses(m)' = Excuses(m)
  BY DEF ghosts, Excuses
<1>. QED
  BY <1>1, <1>2, <1>3, ExcuseType, CountTypes, WorkerBalance DEF Explained

LEMMA BeginBounded ==
    ASSUME Explained, Tracked', NEW w \in Workers,
           Dispatch(w) \/ Recover(w) \/ ClaimNothing(w) \/ RecoverMissing(w),
           NEW m \in Messages
    PROVE  Bounded(m)'
<1>1. worker[w].m = Nobody /\ worker[w] \in WorkerRow /\ worker \in [Workers -> WorkerRow]
  BY Types DEF Explained, Tracked, WorkerKnows, Dispatch, Recover, ClaimNothing, RecoverMissing
<1>2. UNCHANGED <<queue, log, clerk, ghosts>>
  BY DEF Dispatch, Recover, ClaimNothing, RecoverMissing
<1>3. \A v \in Workers \ {w} : worker'[v] = worker[v]
  BY <1>1 DEF Dispatch, Recover, ClaimNothing, RecoverMissing
<1>4. worker'[w].m = Nobody
  <2>1. worker'[w].at \in {"idle", "dispatching", "recovering"}
    BY <1>1, IdleMemories DEF Dispatch, Recover, ClaimNothing, RecoverMissing, WorkerRow
  <2>. QED
    BY <2>1 DEF Tracked, WorkerKnows
<1>. QED
  BY <1>1, <1>2, <1>3, <1>4, RestingBounded

\* The claimed row stops waiting; a stale row that waits again has been rescued.
LEMMA ClaimBounded ==
    ASSUME Explained, Tracked', NEW w \in Workers, Claim(w), NEW n \in Messages
    PROVE  Bounded(n)'
<1>1. PICK m \in Messages : Claimed(w, m)
  BY ClaimedRows DEF Explained
<1>2. /\ worker[w].m = Nobody
      /\ \A v \in Workers \ {w} : worker'[v] = worker[v]
  BY <1>1 DEF Claim, Claimed, Explained, Tracked, WorkerKnows
<1>3. HoldCount(w, n) = 0
  BY <1>2, NobodyAssumption DEF HoldCount, Holds
<1>4. UNCHANGED <<accepted, lost, retried, reopened>>
  BY DEF Claim
<1>5. rescued'[n] = IF n \in worker[w].stale THEN rescued[n] + 1 ELSE rescued[n]
  BY RecoveredRows DEF Claim, Explained
<1>6. /\ lost[n] \in Nat /\ retried[n] \in Nat /\ rescued[n] \in Nat /\ reopened[n] \in Nat
      /\ accepted[n] \in Nat
  BY Types DEF Explained
<1>7. /\ n \in worker[w].stale => Excuses(n)' = Excuses(n) + 1
      /\ n \notin worker[w].stale => Excuses(n)' = Excuses(n)
      /\ Excuses(n) \in Nat
  BY <1>4, <1>5, <1>6 DEF Excuses
<1>8. CASE n = m
  <2>1. WaitCount(n)' = 0 /\ HoldCount(w, n)' = 1
    BY <1>1, <1>8 DEF Claimed, WaitCount, Waits, HoldCount, Holds
  <2>2. WaitCount(n) = 1 \/ n \in worker[w].stale
    BY <1>1, <1>8 DEF Claimed, WaitCount, Waits
  <2>. QED
    BY <1>2, <1>3, <1>4, <1>6, <1>7, <2>1, <2>2, CountTypes, WorkerBalance
<1>9. CASE n # m
  <2>1. HoldCount(w, n)' = 0
    BY <1>1, <1>9 DEF Claimed, HoldCount, Holds
  <2>2. n \notin worker[w].stale => WaitCount(n)' <= WaitCount(n)
    BY <1>1, <1>2, <1>9, NobodyAssumption, WaitsNoMore DEF Claimed
  <2>. QED
    BY <1>2, <1>3, <1>4, <1>6, <1>7, <2>1, <2>2, CountTypes, WorkerBalance
<1>. QED
  BY <1>8, <1>9

LEMMA RecoverRowBounded ==
    ASSUME Explained, Tracked', NEW w \in Workers, RecoverRow(w), NEW n \in Messages
    PROVE  Bounded(n)'
<1>1. PICK m \in worker[w].stale :
        /\ queue' = Recovered({m}) /\ rescued' = Rescued({m})
        /\ worker' = [worker EXCEPT ![w] =
                        IF worker[w].stale \ {m} = {} THEN IdleWorker
                        ELSE [worker[w] EXCEPT !.stale = worker[w].stale \ {m}]]
  BY DEF RecoverRow
<1>2. /\ worker[w].m = Nobody /\ worker[w] \in WorkerRow
      /\ worker \in [Workers -> WorkerRow]
  BY Types DEF RecoverRow, Explained, Tracked, WorkerKnows
<1>3. \A v \in Workers \ {w} : worker'[v] = worker[v]
  BY <1>1, <1>2
<1>4. worker'[w].m = Nobody
  <2>1. CASE worker[w].stale \ {m} = {}
    BY <1>1, <1>2, <2>1, IdleMemories
  <2>2. CASE worker[w].stale \ {m} # {}
    <3>1. PICK rows : rows = worker[w].stale \ {m}
      OBVIOUS
    <3>2. worker'[w] = [worker[w] EXCEPT !.stale = rows]
      BY <1>1, <1>2, <2>2, <3>1
    <3>. QED
      BY <1>2, <3>2 DEF WorkerRow
  <2>. QED
    BY <2>1, <2>2
<1>5. HoldCount(w, n) = 0 /\ HoldCount(w, n)' = 0
  BY <1>2, <1>4, NobodyAssumption DEF HoldCount, Holds
<1>6. UNCHANGED <<accepted, lost, retried, reopened>>
  BY DEF RecoverRow
<1>7. /\ queue'[n].status = IF n = m THEN "PENDING" ELSE queue[n].status
      /\ rescued'[n] = IF n = m THEN rescued[n] + 1 ELSE rescued[n]
  BY <1>1, RecoveredRows DEF Explained
<1>8. /\ lost[n] \in Nat /\ retried[n] \in Nat /\ rescued[n] \in Nat /\ reopened[n] \in Nat
      /\ accepted[n] \in Nat
  BY Types DEF Explained
<1>9. /\ n = m => Excuses(n)' = Excuses(n) + 1
      /\ n # m => Excuses(n)' = Excuses(n)
      /\ Excuses(n) \in Nat
  BY <1>6, <1>7, <1>8 DEF Excuses
<1>10. n # m => WaitCount(n)' <= WaitCount(n)
  BY <1>2, <1>3, <1>7, NobodyAssumption, WaitsNoMore
<1>. QED
  BY <1>3, <1>5, <1>6, <1>8, <1>9, <1>10, CountTypes, WorkerBalance

\* A notification starts from a message nobody has put in the queue.
LEMMA NotifyBounded ==
    ASSUME Explained, Tracked', NEW w \in Workers, NEW m \in Messages, Notify(w, m),
           NEW n \in Messages
    PROVE  Bounded(n)'
<1>1. worker[w].m = Nobody /\ worker \in [Workers -> WorkerRow]
  BY Types DEF Notify, Explained, Tracked, WorkerKnows
<1>2. UNCHANGED <<queue, log, clerk, ghosts>> /\ queue[m].status = "NONE"
  BY DEF Notify, NoRow
<1>3. \A v \in Workers : worker[v].m # m
  BY DEF Notify
<1>4. worker' = [worker EXCEPT ![w] = Notifying(m)]
  BY DEF Notify, Notifying
<1>5. /\ \A v \in Workers \ {w} : worker'[v] = worker[v]
      /\ worker'[w].m = m /\ worker'[w].at = "notifying" /\ worker'[w].result = "none"
  BY <1>1, <1>4, NotifyingMemory
<1>6. accepted' = accepted /\ Excuses(n)' = Excuses(n)
  BY <1>2 DEF ghosts, Excuses
<1>7. HoldCount(w, n) = 0
  BY <1>1, NobodyAssumption DEF HoldCount, Holds
<1>8. CASE n = m
  <2>1. WaitCount(n) = 1 /\ WaitCount(n)' = 0
    BY <1>2, <1>3, <1>5, <1>8 DEF WaitCount, Waits
  <2>2. HoldCount(w, n)' = 1
    BY <1>5, <1>8 DEF HoldCount, Holds
  <2>. QED
    BY <1>5, <1>6, <1>7, <2>1, <2>2, ExcuseType, WorkerBalance DEF Explained
<1>9. CASE n # m
  <2>1. WaitCount(n)' <= WaitCount(n)
    BY <1>1, <1>2, <1>5, <1>9, NobodyAssumption, WaitsNoMore
  <2>2. HoldCount(w, n)' = 0
    BY <1>5, <1>9 DEF HoldCount, Holds
  <2>. QED
    BY <1>5, <1>6, <1>7, <2>1, <2>2, ExcuseType, CountTypes, WorkerBalance DEF Explained
<1>. QED
  BY <1>8, <1>9

\* The provider takes m: a holder knows it, or the answer is lost and it holds m still.
LEMMA SendBounded ==
    ASSUME Explained, Tracked', NEW w \in Workers,
           SendAccepted(w) \/ SendLost(w) \/ SendRefused(w), NEW n \in Messages
    PROVE  Bounded(n)'
<1>1. PICK m \in Messages : m = worker[w].m
  BY BusyWorker DEF SendAccepted, SendLost, SendRefused, Sending, Explained
<1>2. /\ worker[w].at \in {"sending", "notifying"} /\ worker[w].result = "none"
      /\ worker \in [Workers -> WorkerRow] /\ worker[w] \in WorkerRow
      /\ UNCHANGED <<queue, retried, rescued, reopened>>
  BY Types DEF SendAccepted, SendLost, SendRefused, Sending, Explained, ghosts
<1>3. /\ \A v \in Workers \ {w} : worker'[v] = worker[v]
      /\ worker'[w].m = m /\ worker'[w].at = worker[w].at
  BY <1>1, <1>2 DEF SendAccepted, SendLost, SendRefused, WorkerRow
<1>4. WaitCount(n)' <= WaitCount(n)
  BY <1>1, <1>2, <1>3, WaitsNoMore
<1>5. /\ accepted \in [Messages -> Nat] /\ lost \in [Messages -> Nat]
      /\ retried[n] \in Nat /\ rescued[n] \in Nat /\ reopened[n] \in Nat
  BY Types DEF Explained
<1>6. n # m => HoldCount(w, n) = 0 /\ HoldCount(w, n)' = 0
  BY <1>1, <1>3 DEF HoldCount, Holds
<1>7. HoldCount(w, m) = 1
  BY <1>1, <1>2 DEF HoldCount, Holds
<1>8. CASE SendAccepted(w)
  <2>1. worker'[w].result = "accepted"
    BY <1>2, <1>8 DEF SendAccepted, WorkerRow
  <2>2. HoldCount(w, m)' = 0
    BY <2>1 DEF HoldCount, Holds
  <2>3. accepted' = [accepted EXCEPT ![m] = @ + 1] /\ lost' = lost
    BY <1>1, <1>8 DEF SendAccepted
  <2>4. accepted'[n] = IF n = m THEN accepted[n] + 1 ELSE accepted[n]
    BY <1>5, <2>3
  <2>5. Excuses(n)' = Excuses(n) /\ Excuses(n) \in Nat
    BY <1>2, <1>5, <2>3 DEF Excuses
  <2>. QED
    BY <1>3, <1>4, <1>5, <1>6, <1>7, <2>2, <2>4, <2>5, CountTypes, WorkerBalance
<1>9. CASE SendLost(w)
  <2>1. accepted' = [accepted EXCEPT ![m] = @ + 1] /\ lost' = [lost EXCEPT ![m] = @ + 1]
    BY <1>1, <1>9 DEF SendLost
  <2>2. /\ accepted'[n] = IF n = m THEN accepted[n] + 1 ELSE accepted[n]
        /\ lost'[n] = IF n = m THEN lost[n] + 1 ELSE lost[n]
    BY <1>5, <2>1
  <2>3. /\ Excuses(n) \in Nat
        /\ Excuses(n)' = IF n = m THEN Excuses(n) + 1 ELSE Excuses(n)
    BY <1>2, <1>5, <2>2 DEF Excuses
  <2>4. HoldCount(w, m)' \in 0 .. 1
    BY DEF HoldCount
  <2>. QED
    BY <1>3, <1>4, <1>5, <1>6, <1>7, <2>2, <2>3, <2>4, CountTypes, WorkerBalance
<1>10. CASE SendRefused(w)
  <2>1. accepted' = accepted /\ Excuses(n)' = Excuses(n) /\ Excuses(n) \in Nat
    BY <1>5, <1>10 DEF SendRefused, ghosts, Excuses
  <2>2. HoldCount(w, m)' \in 0 .. 1
    BY DEF HoldCount
  <2>. QED
    BY <1>3, <1>4, <1>5, <1>6, <1>7, <2>1, <2>2, CountTypes, WorkerBalance
<1>. QED
  BY <1>8, <1>9, <1>10

\* The attempt is over: either w held m, and m may wait again, or m was taken and is SENT.
LEMMA MarkBounded ==
    ASSUME Explained, Tracked', NEW w \in Workers, MarkQueue(w) \/ NotifyCommit(w),
           NEW n \in Messages
    PROVE  Bounded(n)'
<1>1. PICK m \in Messages : m = worker[w].m
  BY BusyWorker DEF MarkQueue, NotifyCommit, Explained
<1>2. /\ worker[w].at \in {"sending", "notifying"} /\ worker[w].result # "none"
      /\ worker \in [Workers -> WorkerRow] /\ worker[w] \in WorkerRow
      /\ queue \in [Messages -> Row]
      /\ UNCHANGED <<accepted, lost, retried, rescued, reopened>>
  BY Types DEF MarkQueue, NotifyCommit, Explained
<1>3. /\ \A v \in Workers \ {w} : worker'[v] = worker[v]
      /\ worker'[w].at \notin {"sending", "notifying"}
  BY <1>2, IdleMemories DEF MarkQueue, NotifyCommit, WorkerRow
<1>4. /\ queue'[m].status \in {"SENT", "PENDING", "FAILED"}
      /\ queue'[m].status = "SENT" <=> worker[w].result = "accepted"
      /\ \A l \in Messages \ {m} : queue'[l] = queue[l]
  <2>1. PICK row \in Row : queue' = [queue EXCEPT ![m] = Marked(w, row)]
    BY <1>1, <1>2, BlankRows DEF MarkQueue, NotifyCommit
  <2>2. PICK r : r = Marked(w, row)
    OBVIOUS
  <2>3. MarkedAs(w, r)
    BY <1>2, <2>2, MarkedRow DEF Explained
  <2>. QED
    BY <1>2, <2>1, <2>2, <2>3 DEF MarkedAs
<1>5. HoldCount(w, n)' = 0
  BY <1>3 DEF HoldCount, Holds
<1>6. Excuses(n)' = Excuses(n) /\ Excuses(n) \in Nat /\ accepted[n] \in Nat
  BY <1>2, ExcuseType DEF Explained, Excuses
<1>7. CASE n = m
  <2>1. WaitCount(n)' = 1 => HoldCount(w, n) = 1
    BY <1>1, <1>2, <1>4, <1>7 DEF WaitCount, Waits, HoldCount, Holds
  <2>. QED
    BY <1>2, <1>3, <1>5, <1>6, <2>1, CountTypes, WorkerBalance
<1>8. CASE n # m
  <2>1. WaitCount(n)' <= WaitCount(n)
    BY <1>1, <1>3, <1>4, <1>8, WaitsNoMore
  <2>. QED
    BY <1>2, <1>3, <1>5, <1>6, <2>1, CountTypes, WorkerBalance
<1>. QED
  BY <1>7, <1>8

\* A worker lets go of a message that was deleted, or whose log is all that is left to do.
LEMMA LetGoBounded ==
    ASSUME Explained, Tracked', NEW w \in Workers, MarkLog(w) \/ MarkMissing(w),
           NEW n \in Messages
    PROVE  Bounded(n)'
<1>1. /\ worker[w].m \in Messages /\ Exists(worker[w].m)
      /\ worker \in [Workers -> WorkerRow]
      /\ worker' = [worker EXCEPT ![w] = IdleWorker]
      /\ UNCHANGED <<queue, ghosts>>
  BY BusyWorker, Types DEF MarkLog, MarkMissing, Explained, WorkerKnows
<1>2. /\ \A v \in Workers \ {w} : worker'[v] = worker[v]
      /\ worker'[w].at = "idle"
  BY <1>1, IdleMemories
<1>3. HoldCount(w, n)' = 0
  BY <1>2 DEF HoldCount, Holds
<1>4. WaitCount(n)' <= WaitCount(n)
  <2>1. CASE n = worker[w].m
    BY <1>1, <2>1 DEF WaitCount, Waits, Exists
  <2>2. CASE n # worker[w].m
    BY <1>1, <1>2, <2>2, WaitsNoMore
  <2>. QED
    BY <2>1, <2>2
<1>5. accepted' = accepted /\ Excuses(n)' = Excuses(n)
  BY <1>1 DEF ghosts, Excuses
<1>. QED
  BY <1>2, <1>3, <1>4, <1>5, ExcuseType, CountTypes, WorkerBalance DEF Explained

\* A process that dies with an acceptance in memory loses it; one that dies before the
\* provider answered lets go of the message.
LEMMA CrashBounded ==
    ASSUME Explained, Tracked', NEW w \in Workers, Crash(w), NEW n \in Messages
    PROVE  Bounded(n)'
<1>1. /\ worker[w] \in WorkerRow /\ WorkerKnows(w) /\ worker \in [Workers -> WorkerRow]
      /\ worker' = [worker EXCEPT ![w] = IdleWorker]
      /\ UNCHANGED <<queue, accepted, retried, rescued, reopened>>
  BY Types DEF Crash, Explained, Tracked
<1>2. /\ \A v \in Workers \ {w} : worker'[v] = worker[v]
      /\ worker'[w].at = "idle" /\ worker'[w].m = Nobody
  BY <1>1, IdleMemories
<1>3. HoldCount(w, n)' = 0
  BY <1>2 DEF HoldCount, Holds
<1>4. /\ accepted[n] \in Nat /\ retried[n] \in Nat /\ rescued[n] \in Nat /\ reopened[n] \in Nat
      /\ lost \in [Messages -> Nat]
  BY Types DEF Explained
<1>5. CASE worker[w].m # n
  <2>1. WaitCount(n)' <= WaitCount(n)
    BY <1>1, <1>2, <1>5, WaitsNoMore
  <2>2. lost'[n] = lost[n]
    BY <1>4, <1>5 DEF Crash
  <2>3. Excuses(n)' = Excuses(n) /\ Excuses(n) \in Nat
    BY <1>1, <1>4, <2>2 DEF Excuses
  <2>. QED
    BY <1>1, <1>2, <1>3, <1>4, <2>1, <2>3, CountTypes, WorkerBalance
<1>6. CASE worker[w].m = n /\ worker[w].at \in {"sending", "notifying"}
  <2>1. CASE worker[w].result = "accepted"
    <3>1. lost' = [lost EXCEPT ![n] = @ + 1]
      BY <1>6, <2>1 DEF Crash
    <3>2. lost'[n] = lost[n] + 1
      BY <1>4, <3>1
    <3>3. Excuses(n)' = Excuses(n) + 1 /\ Excuses(n) \in Nat
      BY <1>1, <1>4, <3>2 DEF Excuses
    <3>. QED
      BY <1>1, <1>2, <1>3, <1>4, <3>3, CountTypes, WorkerBalance
  <2>2. CASE worker[w].result # "accepted"
    <3>1. lost' = lost
      BY <2>2 DEF Crash
    <3>2. Excuses(n)' = Excuses(n) /\ Excuses(n) \in Nat
      BY <1>1, <1>4, <3>1 DEF Excuses
    <3>3. HoldCount(w, n) = 1
      BY <1>6, <2>2 DEF HoldCount, Holds
    <3>. QED
      BY <1>1, <1>2, <1>3, <1>4, <3>2, <3>3, CountTypes, WorkerBalance
  <2>. QED
    BY <2>1, <2>2
<1>7. CASE worker[w].m = n /\ worker[w].at \notin {"sending", "notifying"}
  <2>1. worker[w].at = "logging"
    BY <1>1, <1>7, NobodyAssumption DEF WorkerKnows, WorkerRow
  <2>2. Exists(n) /\ lost' = lost
    BY <1>1, <1>7, <2>1 DEF WorkerKnows, Crash
  <2>3. WaitCount(n)' <= WaitCount(n)
    BY <1>1, <2>2 DEF WaitCount, Waits, Exists
  <2>4. Excuses(n)' = Excuses(n) /\ Excuses(n) \in Nat
    BY <1>1, <1>4, <2>2 DEF Excuses
  <2>. QED
    BY <1>1, <1>2, <1>3, <1>4, <2>3, <2>4, CountTypes, WorkerBalance
<1>. QED
  BY <1>5, <1>6, <1>7

\* Putting a message in the queue, noticing that its claim is old, or deleting it.
LEMMA RowBounded ==
    ASSUME Explained, Tracked', NEW m \in Messages,
           Enqueue(m) \/ Create(m) \/ Elapse(m) \/ DeleteRow(m) \/ DeleteLog(m),
           NEW n \in Messages
    PROVE  Bounded(n)'
<1>1. worker' = worker /\ accepted' = accepted /\ Excuses(n)' = Excuses(n)
  BY DEF Enqueue, Create, Elapse, DeleteRow, DeleteLog, ghosts, Excuses
<1>2. queue \in [Messages -> Row]
  BY Types DEF Explained
<1>3. WaitCount(n)' <= WaitCount(n)
  <2>1. CASE n = m /\ (Enqueue(m) \/ Create(m))
    <3>1. Waits(n)
      BY <2>1, BlankRows DEF Enqueue, Create, Waits
    <3>. QED
      BY <3>1 DEF WaitCount
  <2>2. CASE n = m /\ DeleteRow(m)
    <3>1. queue'[n].status = "DELETED"
      BY <1>2, <2>2 DEF DeleteRow, NoRow
    <3>. QED
      BY <3>1, DoesNotWait, CountTypes
  <2>3. CASE n # m \/ Elapse(m) \/ DeleteLog(m)
    <3>1. queue'[n].status = queue[n].status
      BY <1>2, <2>3 DEF Enqueue, Create, Elapse, DeleteRow, DeleteLog, Row
    <3>. QED
      BY <1>1, <3>1, WaitsNoMore
  <2>. QED
    BY <2>1, <2>2, <2>3
<1>. QED
  BY <1>1, <1>3, ExcuseType, CountTypes, RowBalance DEF Explained

\* A request that saves no row.
LEMMA LogBounded ==
    ASSUME Explained, Tracked', NEW n \in Messages,
           UNCHANGED <<queue, worker, accepted, lost, retried, rescued, reopened>>
    PROVE  Bounded(n)'
<1>1. accepted' = accepted /\ Excuses(n)' = Excuses(n)
  BY DEF Excuses
<1>2. WaitCount(n)' <= WaitCount(n)
  BY WaitsNoMore
<1>. QED
  BY <1>1, <1>2, ExcuseType, CountTypes, RowBalance DEF Explained

LEMMA RetryQueueBounded ==
    ASSUME Explained, Tracked', NEW c \in Clerks, RetryQueue(c), NEW n \in Messages
    PROVE  Bounded(n)'
<1>1. PICK m \in Messages : m = clerk[c].m
  BY BusyClerk DEF RetryQueue, Explained
<1>2. /\ UNCHANGED <<worker, accepted, lost, rescued, reopened>>
      /\ retried' = [retried EXCEPT ![m] = @ + 1]
      /\ queue \in [Messages -> Row] /\ retried \in [Messages -> Nat]
      /\ accepted[n] \in Nat /\ lost[n] \in Nat /\ rescued[n] \in Nat /\ reopened[n] \in Nat
  BY <1>1, Types DEF RetryQueue, Explained
<1>3. n # m => queue'[n] = queue[n]
  BY <1>1, <1>2 DEF RetryQueue
<1>4. retried'[n] = IF n = m THEN retried[n] + 1 ELSE retried[n]
  BY <1>2
<1>5. /\ Excuses(n)' = IF n = m THEN Excuses(n) + 1 ELSE Excuses(n)
      /\ Excuses(n) \in Nat
  BY <1>2, <1>4 DEF Excuses
<1>6. n # m => WaitCount(n)' <= WaitCount(n)
  BY <1>2, <1>3, WaitsNoMore
<1>. QED
  BY <1>2, <1>5, <1>6, CountTypes, RowBalance

LEMMA ExcusesStay ==
    ASSUME NEW k, lost'[k] = lost[k], retried'[k] = retried[k], rescued'[k] = rescued[k],
           reopened'[k] = reopened[k]
    PROVE  Excuses(k)' = Excuses(k)
BY DEF Excuses

LEMMA ExcusesGrow ==
    ASSUME NEW k, lost[k] \in Nat, retried[k] \in Nat, rescued[k] \in Nat, reopened[k] \in Nat,
           lost'[k] = lost[k], retried'[k] = retried[k], rescued'[k] = rescued[k],
           reopened'[k] = reopened[k] + 1
    PROVE  Excuses(k)' = Excuses(k) + 1
BY DEF Excuses

\* An edit makes a row wait only if it read it PENDING before.
LEMMA EditSaveBounded ==
    ASSUME Explained, Tracked', NEW c \in Clerks, EditSave(c), NEW n \in Messages
    PROVE  Bounded(n)'
<1>1. PICK m \in Messages : m = clerk[c].m
  BY BusyClerk DEF EditSave, Explained
<1>2. /\ clerk[c].at = "edit"
      /\ UNCHANGED <<worker, accepted, lost, retried, rescued>>
      /\ reopened' = IF clerk[c].row.status = "PENDING" /\ queue[m].status # "PENDING"
                     THEN [reopened EXCEPT ![m] = @ + 1] ELSE reopened
  BY <1>1 DEF EditSave
<1>3. /\ reopened \in [Messages -> Nat]
      /\ accepted[n] \in Nat /\ lost[n] \in Nat /\ rescued[n] \in Nat /\ retried[n] \in Nat
  BY Types DEF Explained
<1>4. PICK r : Edited(c, m, r)
  BY <1>1, EditedRow DEF Explained
<1>5. /\ queue'[m].status = clerk[c].row.status /\ clerk[c].row.status # "NONE"
      /\ n # m => queue'[n] = queue[n]
  BY <1>1, <1>2, <1>4, BusyClerk DEF Edited, ClerkKnows, Explained
<1>6. reopened[n] \in Nat /\ reopened'[n] \in {reopened[n], reopened[n] + 1}
  BY <1>2, <1>3
<1>7. /\ accepted'[n] = accepted[n] /\ worker' = worker
      /\ lost'[n] = lost[n] /\ retried'[n] = retried[n] /\ rescued'[n] = rescued[n]
  BY <1>2
<1>8. /\ Excuses(n) \in Nat /\ accepted[n] \in Nat
      /\ WaitCount(n) \in 0 .. 1 /\ WaitCount(n)' \in 0 .. 1
  BY ExcuseType, CountTypes DEF Explained
<1>9. ASSUME \/ Excuses(n)' = Excuses(n) /\ WaitCount(n)' <= WaitCount(n)
             \/ Excuses(n)' = Excuses(n) + 1
       PROVE  Bounded(n)'
  <2>1. accepted'[n] + WaitCount(n)' + Excuses(n) <= accepted[n] + WaitCount(n) + Excuses(n)'
    BY <1>7, <1>8, <1>9
  <2>. QED
    BY <1>7, <2>1, RowBalance
<1>10. CASE WaitCount(n)' <= WaitCount(n)
  <2>1. CASE reopened'[n] = reopened[n]
    <3>1. Excuses(n)' = Excuses(n)
      BY <1>7, <2>1, ExcusesStay
    <3>. QED
      BY <1>10, <1>9, <3>1
  <2>2. CASE reopened'[n] = reopened[n] + 1
    <3>1. Excuses(n)' = Excuses(n) + 1
      BY <1>3, <1>6, <1>7, <2>2, ExcusesGrow
    <3>. QED
      BY <1>10, <1>9, <3>1
  <2>. QED
    BY <1>6, <2>1, <2>2
<1>11. CASE n # m
  <2>1. WaitCount(n)' <= WaitCount(n)
    BY <1>2, <1>5, <1>11, WaitsNoMore
  <2>. QED
    BY <1>10, <2>1
<1>12. CASE n = m
  <2>1. CASE clerk[c].row.status # "PENDING"
    <3>1. WaitCount(n)' = 0
      BY <1>5, <1>12, <2>1 DEF WaitCount, Waits
    <3>. QED
      BY <1>10, <3>1, CountTypes
  <2>2. CASE clerk[c].row.status = "PENDING" /\ queue[m].status = "PENDING"
    <3>1. WaitCount(n) = 1
      BY <1>12, <2>2 DEF WaitCount, Waits
    <3>. QED
      BY <1>10, <3>1, CountTypes
  <2>3. CASE clerk[c].row.status = "PENDING" /\ queue[m].status # "PENDING"
    <3>1. reopened' = [reopened EXCEPT ![m] = @ + 1]
      BY <1>2, <2>3
    <3>2. reopened'[n] = reopened[n] + 1
      BY <1>3, <1>12, <3>1
    <3>3. Excuses(n)' = Excuses(n) + 1
      BY <1>3, <1>6, <1>7, <3>2, ExcusesGrow
    <3>. QED
      BY <1>9, <3>3
  <2>. QED
    BY <2>1, <2>2, <2>3
<1>. QED
  BY <1>11, <1>12

LEMMA InitExplained == Init => Explained
<1> SUFFICES ASSUME Init PROVE Explained
  OBVIOUS
<1>1. Tracked
  BY InitTracked
<1>2. ASSUME NEW m \in Messages
      PROVE  Bounded(m)
  <2>1. Holders(m) = {}
    BY IdleMemories DEF Init, Holders, Holds
  <2>2. IsFiniteSet(Holders(m)) /\ Cardinality(Holders(m)) = 0
    BY <2>1, FS_EmptySet
  <2>3. Excuses(m) = 0 /\ accepted[m] = 0
    BY DEF Init, Excuses
  <2>. QED
    BY <2>2, <2>3, CountTypes DEF Bounded
<1>. QED
  BY <1>1, <1>2 DEF Explained

LEMMA NextExplained == Explained /\ [Next]_vars => Explained'
<1> SUFFICES ASSUME Explained, [Next]_vars PROVE Explained'
  OBVIOUS
<1>1. Tracked'
  BY NextTracked DEF Explained
<1> SUFFICES ASSUME NEW n \in Messages PROVE Bounded(n)'
  BY <1>1 DEF Explained
<1>2. ASSUME NEW m \in Messages,
             Enqueue(m) \/ Create(m) \/ Elapse(m) \/ DeleteRow(m) \/ DeleteLog(m)
      PROVE  Bounded(n)'
  BY <1>1, <1>2, RowBounded
<1>3. ASSUME NEW w \in Workers, WorkerStep(w)
      PROVE  Bounded(n)'
  BY <1>1, <1>3, BeginBounded, ClaimBounded, RecoverRowBounded, SendBounded, MarkBounded,
     LetGoBounded DEF WorkerStep
<1>4. ASSUME NEW w \in Workers, Recover(w) \/ SendLost(w) \/ Crash(w)
      PROVE  Bounded(n)'
  BY <1>1, <1>4, BeginBounded, SendBounded, CrashBounded
<1>5. ASSUME NEW w \in Workers, NEW m \in Messages, Notify(w, m)
      PROVE  Bounded(n)'
  BY <1>1, <1>5, NotifyBounded
<1>6. ASSUME NEW c \in Clerks, ClerkStep(c)
      PROVE  Bounded(n)'
  <2>1. CASE ClerkMissing(c) \/ EditLogSave(c)
    BY <1>1, <2>1, LogBounded DEF ClerkMissing, EditLogSave, ghosts
  <2>. QED
    BY <1>1, <1>6, <2>1, RetryQueueBounded, EditSaveBounded DEF ClerkStep
<1>7. ASSUME NEW c \in Clerks, NEW m \in Messages, RetryRead(c, m) \/ EditRead(c, m)
      PROVE  Bounded(n)'
  BY <1>1, <1>7, LogBounded DEF RetryRead, EditRead, ghosts
<1>8. CASE UNCHANGED vars
  BY <1>1, <1>8, LogBounded DEF vars, ghosts
<1>. QED
  BY <1>2, <1>3, <1>4, <1>5, <1>6, <1>7, <1>8 DEF Next

\* However many workers race for a row, the provider takes a message once more than answers
\* were lost and the row was put back, by recovery, by staff or by an edit of a stale row
\* (dispatch_next: skip_locked and the status it looks at again).
THEOREM EveryDuplicateHasACause == Spec => []DuplicatesAreExplained
<1>1. Init => Explained
  BY InitExplained
<1>2. Explained /\ [Next]_vars => Explained'
  BY NextExplained
<1>3. Explained => DuplicatesAreExplained
  <2> SUFFICES ASSUME Explained, NEW m \in Messages
               PROVE  accepted[m] <= 1 + lost[m] + retried[m] + rescued[m] + reopened[m]
    BY DEF DuplicatesAreExplained
  <2>1. /\ IsFiniteSet(Holders(m)) /\ Excuses(m) \in Nat /\ accepted[m] \in Nat
        /\ accepted[m] + Cardinality(Holders(m)) + WaitCount(m) <= 1 + Excuses(m)
    BY ExcuseType DEF Explained, Bounded
  <2>2. Cardinality(Holders(m)) \in Nat /\ WaitCount(m) \in Nat
    BY <2>1, FS_CardinalityType, CountTypes
  <2>3. accepted[m] <= 1 + Excuses(m)
    BY <2>1, <2>2
  <2>4. /\ lost[m] \in Nat /\ retried[m] \in Nat /\ rescued[m] \in Nat /\ reopened[m] \in Nat
    BY Types DEF Explained
  <2>. QED
    BY <2>3, <2>4 DEF Excuses
<1>. QED
  BY <1>1, <1>2, <1>3, PTL DEF Spec
=============================================================================
