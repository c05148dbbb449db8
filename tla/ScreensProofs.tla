------------------------------ MODULE ScreensProofs ------------------------------
(***************************************************************************)
(* What holds of every page, with any number of handlers under way and any *)
(* number of clicks.  A flag used as a lock keeps a second handler out     *)
(* (OneAtATimeHolds), from LocksInv; the variables have their types        *)
(* (ScreensTypeOK), from Typed; no flag stays set when nothing is under    *)
(* way (NothingIsLeftBusy), as each is owed by a handler (FlagsOwed); what *)
(* is shown then has the changes of the page and answers what is asked,    *)
(* but for overlapping reads and, on the pages that keep their rows, for   *)
(* failed ones (OwnWritesAreShown, TheQuestionIsAnswered), as what is not  *)
(* so is about to be brought (ShownInv); what a handler closes is its own  *)
(* dialog or, where the user can put that aside, the next of the same      *)
(* name (OtherDialogsStay), from NestedInv and StillModal; and what a      *)
(* dialog submits is done once, where it is not Repeatable                 *)
(* (DoneOnceForEachAnswer), as one handler at most submits it (SubmitInv). *)
(* What they ask of a page are the assumptions of Screens, which can be    *)
(* read off the page's description and which TLC evaluates on every page   *)
(* of the client.                                                          *)
(***************************************************************************)
EXTENDS Screens, Sums, TLAPS

-----------------------------------------------------------------------------
(* NextAwait and Unawaited choose the least of a set of numbers (LeastNumber). *)

\* Bounded sets of numbers have a greatest one.
LEMMA GreatestNumber ==
    ASSUME NEW n \in Nat, NEW T \in SUBSET (1..n), T # {}
    PROVE  \E x \in T : \A y \in T : y <= x
<1> DEFINE Upside == {n - x : x \in T}
<1>1. \A x \in T : n - x \in Nat
  OBVIOUS
<1>2. Upside \in SUBSET Nat /\ Upside # {}
  BY <1>1
<1>3. \E u \in Upside : \A v \in Upside : u <= v
  BY <1>2, LeastNumber, Zenon
<1>4. PICK u \in Upside : \A v \in Upside : u <= v
  BY <1>3
<1>5. PICK x \in T : u = n - x
  BY <1>4
<1>6. ASSUME NEW y \in T PROVE y <= x
  <2>1. n - y \in Upside
    OBVIOUS
  <2>2. n - x <= n - y
    BY <1>4, <1>5, <2>1
  <2> QED BY <2>2
<1> QED BY <1>6

-----------------------------------------------------------------------------
(* Handlers. *)

\* A handler goes from an await to a later step, or to its end, and passes
\* over no await on the way.
LEMMA NextAwaitIsNext ==
    ASSUME NEW t, Len(t.steps) \in Nat, NEW k \in 0..Len(t.steps), NEW fine
    PROVE  /\ NextAwait(t, k, fine) \in (k + 1)..(Len(t.steps) + 1)
           /\ NextAwait(t, k, fine) <= Len(t.steps)
              => LET n == NextAwait(t, k, fine)
                 IN IsAwait(t.steps[n]) /\ (fine \/ t.steps[n].op # "then")
           /\ \A m \in (k + 1)..(NextAwait(t, k, fine) - 1) :
                  ~ (IsAwait(t.steps[m]) /\ (fine \/ t.steps[m].op # "then"))
<1> DEFINE Stops(n) == IsAwait(t.steps[n]) /\ (fine \/ t.steps[n].op # "then")
           Stopping == {n \in (k + 1)..(Len(t.steps) + 1) :
                          n <= Len(t.steps) => Stops(n)}
           Fits(x) == /\ x <= Len(t.steps) => Stops(x)
                      /\ \A m \in (k + 1)..(x - 1) : ~ Stops(m)
<1>1. Stopping \in SUBSET Nat /\ Len(t.steps) + 1 \in Stopping
  BY DEF Stopping
<1>2. \E n \in Stopping : \A m \in Stopping : n <= m
  BY <1>1, LeastNumber, Zenon
<1>3. PICK n \in Stopping : \A m \in Stopping : n <= m
  BY <1>2
<1>4. /\ n \in (k + 1)..(Len(t.steps) + 1)
      /\ n <= Len(t.steps) => Stops(n)
  BY <1>3
<1>5. ASSUME NEW m \in (k + 1)..(n - 1) PROVE ~ Stops(m)
  <2>1. m \in (k + 1)..(Len(t.steps) + 1) /\ m < n
    BY <1>4
  <2>2. m \notin Stopping
    BY <1>1, <1>3, <2>1
  <2> QED BY <2>1, <2>2 DEF Stopping
<1> HIDE DEF Stops
<1>6. \E x \in (k + 1)..(Len(t.steps) + 1) : Fits(x)
  BY <1>4, <1>5
<1>7. NextAwait(t, k, fine) = CHOOSE x \in (k + 1)..(Len(t.steps) + 1) : Fits(x)
  BY Zenon DEF NextAwait, Stops
<1> HIDE DEF Fits
<1>8. /\ NextAwait(t, k, fine) \in (k + 1)..(Len(t.steps) + 1)
      /\ Fits(NextAwait(t, k, fine))
  BY <1>6, <1>7, Zenon
<1> QED BY <1>8, Zenon DEF Fits, Stops

\* Where a handler clears its flags is one of its steps, or its end.
LEMMA UnawaitedIsNumber ==
    ASSUME NEW t, Len(t.steps) \in Nat,
           \E k \in 1..Len(t.steps) : IsAwait(t.steps[k])
    PROVE  Unawaited(t) \in Nat /\ Unawaited(t) <= Len(t.steps) + 1
<1> DEFINE Awaits == {k \in 1..Len(t.steps) : IsAwait(t.steps[k])}
           Timers == {k \in Awaits : t.steps[k].op = "pause"}
<1>1. /\ Awaits \in SUBSET (1..Len(t.steps)) /\ Awaits \in SUBSET Nat
      /\ Timers \in SUBSET (1..Len(t.steps)) /\ Timers \in SUBSET Nat
  OBVIOUS
<1>2. Timers # {} => \E k \in Timers : \A m \in Timers : k <= m
  BY <1>1, LeastNumber, Zenon
<1>3. t.detached => Awaits # {}
  OBVIOUS
<1>4. Awaits # {} => \E k \in Awaits : \A m \in Awaits : m <= k
  BY <1>1, GreatestNumber, Zenon
<1>5. Unawaited(t) =
         IF ~ t.detached THEN Len(t.steps) + 1
         ELSE IF Timers # {} THEN CHOOSE k \in Timers : \A m \in Timers : k <= m
         ELSE CHOOSE k \in Awaits : \A m \in Awaits : m <= k
  BY Zenon DEF Unawaited
<1> HIDE DEF Awaits, Timers
<1>6. CASE ~ t.detached
  BY <1>5, <1>6
<1>7. CASE t.detached /\ Timers # {}
  <2>1. Unawaited(t) \in Timers
    BY <1>2, <1>5, <1>7, Zenon
  <2>2. Unawaited(t) \in 1..Len(t.steps)
    BY <1>1, <2>1
  <2> QED BY <2>2
<1>8. CASE t.detached /\ Timers = {}
  <2>1. Unawaited(t) \in Awaits
    BY <1>3, <1>4, <1>5, <1>8, Zenon
  <2>2. Unawaited(t) \in 1..Len(t.steps)
    BY <1>1, <2>1
  <2> QED BY <2>2
<1> QED BY <1>6, <1>7, <1>8

\* A handler that awaits something later goes there, not to its end.
LEMMA AwaitIsReached ==
    ASSUME NEW t, Len(t.steps) \in Nat,
           \E m \in 1..Len(t.steps) : IsAwait(t.steps[m])
    PROVE  NextAwait(t, 0, TRUE) \in 1..Len(t.steps)
<1> DEFINE k == NextAwait(t, 0, TRUE)
<1>1. PICK m \in 1..Len(t.steps) : IsAwait(t.steps[m])
  OBVIOUS
<1>2. 0 \in 0..Len(t.steps)
  OBVIOUS
<1>3. /\ k \in (0 + 1)..(Len(t.steps) + 1)
      /\ \A y \in (0 + 1)..(k - 1) :
             ~ (IsAwait(t.steps[y]) /\ (TRUE \/ t.steps[y].op # "then"))
  BY <1>2, NextAwaitIsNext, Zenon
<1>4. \A y \in (0 + 1)..(k - 1) : ~ IsAwait(t.steps[y])
  BY <1>3, Zenon
<1> HIDE DEF k
<1>5. ~ (m \in (0 + 1)..(k - 1))
  BY <1>1, <1>4, Zenon
<1>6. k \in 1..Len(t.steps)
  BY <1>1, <1>3, <1>5
<1> QED BY <1>6 DEF k

-----------------------------------------------------------------------------
(* The handlers of a page. *)

\* What the descriptions promise holds of the mount effects as well.
LEMMA TasksAreProper ==
    ASSUME NEW p \in DOMAIN Pages, NEW n \in Tasks(p)
    PROVE  LET t == TaskOf(p, n)
           IN /\ Len(t.steps) \in Nat
              /\ \E k \in 1..Len(t.steps) : IsAwait(t.steps[k])
              /\ \A k \in 1..Len(t.steps) :
                     t.steps[k].op \in {"await", "then", "put"}
                     => t.steps[k].on \subseteq DOMAIN Pages[p].loads
              /\ n # NoTask
<1>1. CASE n = Mount
  <2>1. TaskOf(p, n).steps = <<Await(Pages[p].mounts)>>
    BY <1>1 DEF TaskOf, Reads, Handler
  <2>2. /\ Len(TaskOf(p, n).steps) = 1
        /\ TaskOf(p, n).steps[1] = Await(Pages[p].mounts)
    BY <2>1
  <2>3. IsAwait(TaskOf(p, n).steps[1])
    BY <2>2 DEF IsAwait, Await
  <2>4. TaskOf(p, n).steps[1].on \subseteq DOMAIN Pages[p].loads
    BY <2>2, PagesAssumption DEF Await
  <2> QED BY <1>1, <2>2, <2>3, <2>4 DEF Mount, NoTask
<1>2. CASE n # Mount
  <2>1. n \in DOMAIN Pages[p].tasks /\ TaskOf(p, n) = Pages[p].tasks[n]
    BY <1>2 DEF Tasks, TaskOf
  <2> QED BY <2>1, PagesAssumption DEF Steps
<1> QED BY <1>1, <1>2

\* What Locked says of the handlers of a page it says of the mount effects,
\* which are never keepers of a flag.
LEMMA LockedTasks ==
    ASSUME NEW p \in DOMAIN Pages, NEW n \in Tasks(p), NEW f, Locked(p, f)
    PROVE  LET t == TaskOf(p, n)
           IN /\ f \notin t.drops
              /\ f \in t.frees => Keeps(t, f)
              /\ \A k \in 1..Len(t.steps) : t.steps[k].op = "free" => f \notin t.steps[k].on
<1>1. CASE n = Mount
  <2>1. /\ TaskOf(p, n).steps = <<Await(Pages[p].mounts)>>
        /\ TaskOf(p, n).frees = {}
        /\ TaskOf(p, n).drops = {}
    BY <1>1 DEF TaskOf, Reads, Handler
  <2>2. /\ Len(TaskOf(p, n).steps) = 1
        /\ TaskOf(p, n).steps[1] = Await(Pages[p].mounts)
    BY <2>1
  <2>3. TaskOf(p, n).steps[1].op = "await"
    BY <2>2 DEF Await
  <2> QED BY <2>1, <2>2, <2>3
<1>2. CASE n # Mount
  <2>1. n \in DOMAIN Pages[p].tasks /\ TaskOf(p, n) = Pages[p].tasks[n]
    BY <1>2 DEF Tasks, TaskOf
  <2> QED BY <2>1, Zenon DEF Locked, Keeps
<1> QED BY <1>1, <1>2

\* The controls that start a keeper of the flag wait for it.
LEMMA KeepersWait ==
    ASSUME NEW p \in DOMAIN Pages, NEW c \in Pages[p].controls, NEW f,
           Locked(p, f), c.starts # NoTask
    PROVE  /\ c.starts \in Tasks(p)
           /\ Keeps(TaskOf(p, c.starts), f) => f \in c.waits
<1>1. c.starts \in DOMAIN Pages[p].tasks
  BY PagesAssumption
<1>2. CASE c.starts = Mount
  <2>1. TaskOf(p, c.starts).frees = {}
    BY <1>2 DEF TaskOf, Reads, Handler
  <2> QED BY <1>1, <2>1 DEF Tasks, Keeps
<1>3. CASE c.starts # Mount
  <2>1. TaskOf(p, c.starts) = Pages[p].tasks[c.starts]
    BY <1>3 DEF TaskOf
  <2> QED BY <1>1, <2>1, Zenon DEF Tasks, Locked
<1> QED BY <1>2, <1>3

-----------------------------------------------------------------------------
(* The inductive invariant. *)

\* What runs in a slot is a handler of the page, at one of its steps.
HandlersOK ==
    /\ page \in DOMAIN Pages
    /\ running = [i \in Slots |-> running[i]]
    /\ \A i \in Slots : running[i] # Idle =>
         /\ running[i].task \in Tasks(page)
         /\ running[i].step \in 1..Len(Task(running[i].task).steps)

\* The flag is set while a handler keeps it, and one handler does.
Exclusive(f) ==
    \A i \in Slots : Holds(i, f) =>
        f \in busy /\ \A j \in Slots : Holds(j, f) => i = j

LocksHold == \A f : Locked(page, f) => Exclusive(f)

LocksInv == HandlersOK /\ LocksHold

\* No dialog that closes takes a locked flag with it.
LEMMA LockedIsNotLocal ==
    ASSUME HandlersOK, NEW f, Locked(page, f), NEW names
    PROVE  f \notin LocalFlags(names)
<1>1. ASSUME NEW c \in Here.controls, c.starts # NoTask,
             Here.tasks[c.starts].local, f \in Here.tasks[c.starts].sets
      PROVE  FALSE
  <2>1. c.starts \in DOMAIN Pages[page].tasks
    BY <1>1, PagesAssumption DEF HandlersOK, Here
  <2> QED BY <1>1, <2>1, Zenon DEF Locked, Here
<1> QED BY <1>1, Zenon DEF LocalFlags, LocalIn, Here

\* A step of one slot leaves what the handlers in the others hold.
LEMMA OthersHold ==
    ASSUME HandlersOK, page' = page, NEW s \in Slots, NEW r,
           running' = [running EXCEPT ![s] = r]
    PROVE  /\ running' = [i \in Slots |-> running'[i]]
           /\ running'[s] = r
           /\ \A i \in Slots : i # s => running'[i] = running[i]
           /\ \A f : \A i \in Slots : i # s => (Holds(i, f)' <=> Holds(i, f))
<1>1. /\ running' = [i \in Slots |-> running'[i]]
      /\ running'[s] = r
      /\ \A i \in Slots : i # s => running'[i] = running[i]
  BY DEF HandlersOK
<1>2. ASSUME NEW f, NEW i \in Slots, i # s
      PROVE  Holds(i, f)' <=> Holds(i, f)
  <2>1. running'[i] = running[i]
    BY <1>1, <1>2
  <2> QED BY <2>1, Zenon DEF Holds, Task
<1> QED BY <1>1, <1>2

\* What a step of one slot has to keep of a lock.
LEMMA LockIsKept ==
    ASSUME HandlersOK, page' = page, NEW s \in Slots, NEW r,
           running' = [running EXCEPT ![s] = r], NEW f, Exclusive(f),
           \A i \in Slots : i # s /\ Holds(i, f) => f \in busy',
           Holds(s, f)' => /\ f \in busy'
                           /\ \A i \in Slots : i # s => ~ Holds(i, f)
    PROVE  Exclusive(f)'
<1>1. \A i \in Slots : i # s => (Holds(i, f)' <=> Holds(i, f))
  BY OthersHold, Zenon
<1>2. ASSUME NEW i \in Slots, Holds(i, f)'
      PROVE  f \in busy' /\ \A j \in Slots : Holds(j, f)' => i = j
  <2>1. CASE i = s
    BY <1>1, <1>2, <2>1, Zenon
  <2>2. CASE i # s
    BY <1>1, <1>2, <2>2, Zenon DEF Exclusive
  <2> QED BY <2>1, <2>2
<1> QED BY <1>2, Zenon DEF Exclusive

\* The page and the handlers in the other slots stay as they are.
LEMMA HandlersAreKept ==
    ASSUME HandlersOK, page' = page, NEW s \in Slots, NEW r,
           running' = [running EXCEPT ![s] = r],
           r # Idle => /\ r.task \in Tasks(page)
                       /\ r.step \in 1..Len(Task(r.task).steps)
    PROVE  HandlersOK'
<1>1. /\ running' = [i \in Slots |-> running'[i]]
      /\ running'[s] = r
      /\ \A i \in Slots : i # s => running'[i] = running[i]
  BY OthersHold
<1>2. \A n : Task(n)' = Task(n)
  BY DEF Task
<1>3. \A i \in Slots : running'[i] # Idle =>
         /\ running'[i].task \in Tasks(page)
         /\ running'[i].step \in 1..Len(Task(running'[i].task).steps)
  BY <1>1, Zenon DEF HandlersOK
<1> QED BY <1>1, <1>2, <1>3, Zenon DEF HandlersOK

-----------------------------------------------------------------------------
(* The steps of a handler. *)

\* A handler that goes on clears a locked flag only if it is its own, and
\* keeps it no longer then.
LEMMA ContinueKeeps ==
    ASSUME HandlersOK, LocksHold, page' = page, NEW s \in Slots, running[s] # Idle,
           NEW ls \in SUBSET Loads, NEW cleared, cleared \subseteq Clears(page, ls),
           NEW answers, NEW fine, Continue(s, cleared, answers, fine)
    PROVE  HandlersOK' /\ LocksHold'
<1> DEFINE was == running[s]
           t == Task(was.task)
           k == NextAwait(t, was.step, fine)
           r == IF k > Len(t.steps) THEN Idle
                ELSE Begin(was.task, k, was.asks, was.from, Got(s))
           closed == Named(t, "close", was.step, k)
           gone == cleared \cup LocalFlags(closed \cup Replaced(t, k)) \cup Named(t, "free", was.step, k)
           freed == Freed(s, FreedAt(t, was.step, k))
<1>1. was.task \in Tasks(page) /\ was.step \in 1..Len(t.steps)
  BY DEF HandlersOK
<1>2. /\ Len(t.steps) \in Nat
      /\ \E m \in 1..Len(t.steps) : IsAwait(t.steps[m])
  BY <1>1, TasksAreProper DEF HandlersOK, Task
<1>3. was.step \in 0..Len(t.steps)
  BY <1>1, <1>2
<1>4. k \in (was.step + 1)..(Len(t.steps) + 1)
  BY <1>2, <1>3, NextAwaitIsNext, Zenon
<1>5. Unawaited(t) \in Nat
  BY <1>2, UnawaitedIsNumber, Zenon
<1>6. /\ running' = [running EXCEPT ![s] = r]
      /\ busy' = ((busy \ gone) \cup SetAt(page, t, k)) \ freed
  BY Zenon DEF Continue
<1>7. r # Idle => /\ r = Begin(was.task, k, was.asks, was.from, Got(s))
                  /\ k \in 1..Len(t.steps)
  BY <1>1, <1>2, <1>4
<1>8. \A m \in (was.step + 1)..(k - 1) : m \in 1..Len(t.steps)
  BY <1>1, <1>2, <1>4
<1>9. freed \subseteq FreedAt(t, was.step, k)
  BY DEF Freed
<1> HIDE DEF k, r, gone, freed, was, t
<1>10. r # Idle => r.task = was.task /\ r.step = k
  BY <1>7 DEF Begin
<1>11. HandlersOK'
  <2>1. r # Idle => r.task \in Tasks(page) /\ r.step \in 1..Len(Task(r.task).steps)
    BY <1>1, <1>7, <1>10 DEF t
  <2> QED BY <1>6, <2>1, HandlersAreKept, Zenon
<1>12. ASSUME NEW f, Locked(page, f) PROVE Exclusive(f)'
  <2>1. Exclusive(f)
    BY <1>12 DEF LocksHold
  <2>2. /\ f \in t.frees => Keeps(t, f)
        /\ \A m \in 1..Len(t.steps) : t.steps[m].op = "free" => f \notin t.steps[m].on
    BY <1>1, <1>12, LockedTasks DEF HandlersOK, Task, t
  <2>3. f \notin gone
    <3>1. f \notin cleared
      BY <1>12 DEF Clears, Locked, Loads, Here, HandlersOK
    <3>2. f \notin LocalFlags(closed \cup Replaced(t, k))
      BY <1>12, LockedIsNotLocal, Zenon
    <3>3. f \notin Named(t, "free", was.step, k)
      BY <1>8, <2>2 DEF Named
    <3> QED BY <3>1, <3>2, <3>3 DEF gone
  <2>4. f \in FreedAt(t, was.step, k) => Holds(s, f) /\ Unawaited(t) <= k
    BY <2>2 DEF FreedAt, Holds, was, t
  <2>5. Holds(s, f)' => Holds(s, f) /\ k < Unawaited(t)
    <3>1. Holds(s, f)' => /\ r # Idle
                          /\ Keeps(Task(r.task), f)
                          /\ r.step < Unawaited(Task(r.task))
      <4>1. running'[s] = r
        BY <1>6, OthersHold, Zenon
      <4> QED BY <4>1, Zenon DEF Holds, Task
    <3>2. Holds(s, f)' => Keeps(t, f) /\ k < Unawaited(t)
      BY <3>1, <1>10 DEF t
    <3>3. Holds(s, f)' => was.step < Unawaited(t)
      BY <3>2, <1>1, <1>2, <1>4, <1>5
    <3> QED BY <3>2, <3>3 DEF Holds, was, t
  <2>6. \A i \in Slots : i # s /\ Holds(i, f) => f \in busy'
    BY <1>6, <1>9, <2>1, <2>3, <2>4 DEF Exclusive
  <2>7. Holds(s, f)' => f \in busy' /\ \A i \in Slots : i # s => ~ Holds(i, f)
    <3>1. Holds(s, f)' => f \notin freed
      BY <1>4, <1>5, <1>9, <1>1, <1>2, <2>4, <2>5
    <3> QED BY <3>1, <1>6, <2>1, <2>3, <2>5 DEF Exclusive
  <2> QED BY <1>6, <2>1, <2>6, <2>7, LockIsKept, Zenon
<1> QED BY <1>11, <1>12, Zenon DEF LocksHold

\* A handler that ends in its catch clears its own flags only.
LEMMA AbortKeeps ==
    ASSUME HandlersOK, LocksHold, page' = page, NEW s \in Slots, running[s] # Idle,
           NEW ls \in SUBSET Loads, NEW cleared, cleared \subseteq Clears(page, ls),
           Abort(s, cleared)
    PROVE  HandlersOK' /\ LocksHold'
<1> DEFINE was == running[s]
           t == Task(was.task)
           freed == Freed(s, FreedAt(t, was.step, Len(t.steps) + 1))
<1>1. was.task \in Tasks(page)
  BY DEF HandlersOK
<1>2. /\ running' = [running EXCEPT ![s] = Idle]
      /\ busy' = (busy \ cleared) \ freed
  BY Zenon DEF Abort
<1>3. freed \subseteq FreedAt(t, was.step, Len(t.steps) + 1)
  BY DEF Freed
<1>4. HandlersOK'
  BY <1>2, HandlersAreKept, Zenon
<1> HIDE DEF freed, was, t
<1>5. ASSUME NEW f, Locked(page, f) PROVE Exclusive(f)'
  <2>1. Exclusive(f)
    BY <1>5 DEF LocksHold
  <2>2. f \in t.frees => Keeps(t, f)
    BY <1>1, <1>5, LockedTasks DEF HandlersOK, Task, t
  <2>3. f \notin cleared
    BY <1>5 DEF Clears, Locked, Loads, Here, HandlersOK
  <2>4. f \in FreedAt(t, was.step, Len(t.steps) + 1) => Holds(s, f)
    BY <2>2 DEF FreedAt, Holds, was, t
  <2>5. \A i \in Slots : i # s /\ Holds(i, f) => f \in busy'
    BY <1>2, <1>3, <2>1, <2>3, <2>4 DEF Exclusive
  <2>6. ~ Holds(s, f)'
    <3>1. running'[s] = Idle
      BY <1>2, OthersHold, Zenon
    <3> QED BY <3>1, Zenon DEF Holds, Idle
  <2> QED BY <1>2, <2>1, <2>5, <2>6, LockIsKept, Zenon
<1> QED BY <1>4, <1>5, Zenon DEF LocksHold

\* The server's part in a call or a read leaves the handler where it is.
LEMMA ServeKeeps ==
    ASSUME HandlersOK, LocksHold, NEW s \in Slots, Serve(s)
    PROVE  HandlersOK' /\ LocksHold'
<1> DEFINE r == Served(running[s], version')
<1>1. /\ page' = page /\ busy' = busy
      /\ running[s] # Idle
      /\ running' = [running EXCEPT ![s] = r]
  BY DEF Serve, Suspended
<1>2. r.task = running[s].task /\ r.step = running[s].step
  BY DEF Served
<1> HIDE DEF r
<1>3. running[s].task \in Tasks(page) /\ running[s].step \in 1..Len(Task(running[s].task).steps)
  BY <1>1 DEF HandlersOK
<1>4. HandlersOK'
  BY <1>1, <1>2, <1>3, HandlersAreKept, Zenon
<1>5. ASSUME NEW f, Locked(page, f) PROVE Exclusive(f)'
  <2>1. Exclusive(f)
    BY <1>5 DEF LocksHold
  <2>2. running'[s] = r
    BY <1>1, OthersHold, Zenon
  <2>3. Holds(s, f)' => Holds(s, f)
    BY <1>1, <1>2, <2>2, Zenon DEF Holds, Task
  <2>4. Holds(s, f)' => f \in busy' /\ \A i \in Slots : i # s => ~ Holds(i, f)
    BY <1>1, <2>1, <2>3 DEF Exclusive
  <2>5. \A i \in Slots : i # s /\ Holds(i, f) => f \in busy'
    BY <1>1, <2>1 DEF Exclusive
  <2> QED BY <1>1, <2>1, <2>4, <2>5, LockIsKept, Zenon
<1> QED BY <1>1, <1>4, <1>5, Zenon DEF LocksHold

\* Every step of a handler keeps the locks.
LEMMA GoesKeeps ==
    ASSUME HandlersOK, LocksHold, NEW s \in Slots, Goes(s)
    PROVE  HandlersOK' /\ LocksHold'
<1>1. {} \subseteq Clears(page, {}) /\ {} \in SUBSET Loads
  OBVIOUS
<1>2. CASE Serve(s)
  BY <1>2, ServeKeeps
<1>3. ASSUME Recovers(s), running[s] # Idle, page' = page
      PROVE  HandlersOK' /\ LocksHold'
  <2>1. CASE Continue(s, {}, {}, TRUE)
    BY <1>1, <1>3, <2>1, ContinueKeeps, Zenon
  <2>2. CASE Abort(s, {})
    BY <1>1, <1>3, <2>2, AbortKeeps, Zenon
  <2> QED BY <1>3, <2>1, <2>2, Zenon DEF Recovers
<1>4. CASE CallAnswered(s)
  <2>1. running[s] # Idle /\ page' = page /\ Continue(s, {}, {}, TRUE)
    BY <1>4, Zenon DEF CallAnswered, Suspended
  <2> QED BY <1>1, <2>1, ContinueKeeps, Zenon
<1>5. CASE CallRefused(s)
  <2>1. running[s] # Idle /\ page' = page /\ Recovers(s)
    BY <1>5, Zenon DEF CallRefused, Suspended
  <2> QED BY <1>3, <2>1
<1>6. CASE CallLost(s)
  <2>1. running[s] # Idle /\ page' = page /\ Recovers(s)
    BY <1>6, Zenon DEF CallLost, Suspended
  <2> QED BY <1>3, <2>1
<1>7. CASE TimerFires(s)
  <2>1. running[s] # Idle /\ page' = page /\ Continue(s, {}, {}, TRUE)
    BY <1>7, Zenon DEF TimerFires, Suspended
  <2> QED BY <1>1, <2>1, ContinueKeeps, Zenon
<1>8. ASSUME Suspended(s, {"await", "then"})
      PROVE  Showing(s) \in SUBSET Loads
  <2>1. running[s].task \in Tasks(page) /\ running[s].step \in 1..Len(Task(running[s].task).steps)
    BY <1>8 DEF Suspended, HandlersOK
  <2>2. At(s).op \in {"await", "then"}
    BY <1>8 DEF Suspended
  <2>3. At(s).on \subseteq Loads
    BY <2>1, <2>2, TasksAreProper DEF HandlersOK, At, Task, Loads, Here
  <2> QED BY <2>3 DEF Showing
<1>9. CASE ReadAnswered(s)
  <2>1. /\ running[s] # Idle /\ page' = page
        /\ Suspended(s, {"await", "then"})
        /\ Continue(s, Clears(page, Showing(s)), Answers(s), TRUE)
    BY <1>9, Zenon DEF ReadAnswered, Suspended
  <2>2. Showing(s) \in SUBSET Loads
    BY <1>8, <2>1
  <2>3. Clears(page, Showing(s)) \subseteq Clears(page, Showing(s))
    OBVIOUS
  <2> QED BY <2>1, <2>2, <2>3, ContinueKeeps, Zenon
<1>10. CASE ReadFailed(s)
  <2>1. /\ running[s] # Idle /\ page' = page
        /\ Suspended(s, {"await", "then"})
        /\ \/ Continue(s, Clears(page, Showing(s)), {}, FALSE)
           \/ Abort(s, Clears(page, Showing(s)))
    BY <1>10, Zenon DEF ReadFailed, Suspended
  <2>2. Showing(s) \in SUBSET Loads
    BY <1>8, <2>1
  <2>3. Clears(page, Showing(s)) \subseteq Clears(page, Showing(s))
    OBVIOUS
  <2>4. CASE Continue(s, Clears(page, Showing(s)), {}, FALSE)
    BY <2>1, <2>2, <2>3, <2>4, ContinueKeeps, Zenon
  <2>5. CASE Abort(s, Clears(page, Showing(s)))
    BY <2>1, <2>2, <2>3, <2>5, AbortKeeps, Zenon
  <2> QED BY <2>1, <2>4, <2>5
<1> QED BY <1>2, <1>4, <1>5, <1>6, <1>7, <1>9, <1>10, Zenon DEF Goes

-----------------------------------------------------------------------------
(* The user's actions. *)

\* A control starts a keeper of a locked flag only while no handler holds it.
LEMMA ClickKeeps ==
    ASSUME HandlersOK, LocksHold, NEW c \in Here.controls, Click(c)
    PROVE  HandlersOK' /\ LocksHold'
<1>1. page' = page /\ c.waits \cap busy = {}
  BY Zenon DEF Click, Usable
<1>2. CASE c.starts # NoTask
  <2> DEFINE t == Task(c.starts)
             k == NextAwait(t, 0, TRUE)
  <2>1. PICK s \in Slots :
          /\ running[s] = Idle
          /\ \E from : running' = [running EXCEPT ![s] =
                                      Begin(c.starts, k, asked', from, 0)]
          /\ busy' = ((busy \ (t.drops \cup LocalFlags(Replaced(t, k))))
                          \cup t.sets \cup SetAt(page, t, k))
                        \ FreedAt(t, 0, k)
    BY <1>2, Zenon DEF Click, Starting, Free
  <2>2. PICK from : running' = [running EXCEPT ![s] =
                                  Begin(c.starts, k, asked', from, 0)]
    BY <2>1
  <2> DEFINE r == Begin(c.starts, k, asked', from, 0)
  <2>3. c.starts \in Tasks(page)
    BY <1>2, PagesAssumption DEF HandlersOK, Here, Tasks
  <2>4. /\ Len(t.steps) \in Nat
        /\ \E m \in 1..Len(t.steps) : IsAwait(t.steps[m])
    BY <2>3, TasksAreProper DEF HandlersOK, Task
  <2>5. k \in 1..Len(t.steps)
    BY <2>4, AwaitIsReached, Zenon
  <2>6. Unawaited(t) \in Nat
    BY <2>4, UnawaitedIsNumber, Zenon
  <2>7. r.task = c.starts /\ r.step = k
    BY DEF Begin
  <2>8. running' = [running EXCEPT ![s] = r]
    BY <2>2
  <2> HIDE DEF k, r
  <2>9. HandlersOK'
    <3>1. r.task \in Tasks(page) /\ r.step \in 1..Len(Task(r.task).steps)
      BY <2>3, <2>5, <2>7
    <3> QED BY <1>1, <2>8, <3>1, HandlersAreKept, Zenon
  <2>10. ASSUME NEW f, Locked(page, f) PROVE Exclusive(f)'
    <3>1. Exclusive(f)
      BY <2>10 DEF LocksHold
    <3>2. /\ f \notin t.drops
          /\ f \in t.frees => Keeps(t, f)
      BY <2>3, <2>10, LockedTasks DEF HandlersOK, Task
    <3>3. Keeps(t, f) => f \notin busy
      <4>1. Keeps(t, f) => f \in c.waits
        BY <1>2, <2>10, KeepersWait DEF HandlersOK, Here, Task
      <4> QED BY <1>1, <4>1
    <3>4. Holds(s, f)' => Keeps(t, f) /\ k < Unawaited(t)
      <4>1. running'[s] = r
        BY <1>1, <2>8, OthersHold, Zenon
      <4> QED BY <1>1, <2>7, <4>1, Zenon DEF Holds, Task
    <3>5. \A i \in Slots : i # s /\ Holds(i, f) => f \in busy'
      <4>1. f \notin LocalFlags(Replaced(t, k))
        BY <2>10, LockedIsNotLocal, Zenon
      <4> QED BY <2>1, <3>1, <3>2, <3>3, <4>1 DEF Exclusive, FreedAt
    <3>6. Holds(s, f)' => f \in busy' /\ \A i \in Slots : i # s => ~ Holds(i, f)
      <4>1. Holds(s, f)' => f \in t.sets /\ f \notin busy
        BY <3>3, <3>4 DEF Keeps
      <4>2. Holds(s, f)' => f \notin FreedAt(t, 0, k)
        BY <2>4, <2>5, <2>6, <3>4 DEF FreedAt
      <4> QED BY <2>1, <3>1, <4>1, <4>2 DEF Exclusive
    <3> QED BY <1>1, <2>8, <3>1, <3>5, <3>6, LockIsKept, Zenon
  <2> QED BY <1>1, <2>9, <2>10, Zenon DEF LocksHold
<1>3. CASE c.starts = NoTask
  <2>1. /\ running' = running
        /\ \E names : busy' = busy \ LocalFlags(names) \/ busy' = busy \ {}
    BY <1>3, Zenon DEF Click
  <2>2. HandlersOK'
    BY <1>1, <2>1, Zenon DEF HandlersOK, Task
  <2>3. ASSUME NEW f, Locked(page, f) PROVE Exclusive(f)'
    <3>1. \A i : Holds(i, f)' <=> Holds(i, f)
      BY <1>1, <2>1, Zenon DEF Holds, Task
    <3>2. f \in busy => f \in busy'
      BY <2>1, <2>3, LockedIsNotLocal
    <3> QED BY <2>3, <3>1, <3>2, Zenon DEF LocksHold, Exclusive
  <2> QED BY <1>1, <2>2, <2>3, Zenon DEF LocksHold
<1> QED BY <1>2, <1>3

-----------------------------------------------------------------------------
(* The theorem. *)

\* Nothing that holds a lock is under way when the page is opened.
LEMMA InitLocks == Init => LocksInv
<1> SUFFICES ASSUME Init PROVE LocksInv
  OBVIOUS
<1>1. page \in DOMAIN Pages
  BY DEF Init
<1>2. /\ running = [i \in Slots |-> running[i]]
      /\ \A i \in Slots : \/ running[i] = Idle
                          \/ running[i] = Begin(Mount, 1, asked, 0, 0)
  BY DEF Init
<1>3. \A i \in Slots : running[i] # Idle => running[i].task = Mount /\ running[i].step = 1
  BY <1>2 DEF Begin
<1>4. /\ Task(Mount).steps = <<Await(Pages[page].mounts)>>
      /\ Task(Mount).frees = {}
  BY DEF Task, TaskOf, Reads, Handler
<1>5. Mount \in Tasks(page) /\ 1 \in 1..Len(Task(Mount).steps)
  BY <1>4 DEF Tasks
<1>6. HandlersOK
  BY <1>1, <1>2, <1>3, <1>5, Zenon DEF HandlersOK
<1>7. \A f : \A i \in Slots : ~ Holds(i, f)
  BY <1>3, <1>4 DEF Holds, Keeps
<1> QED BY <1>6, <1>7, Zenon DEF LocksInv, LocksHold, Exclusive

\* Every step keeps the locks.
LEMMA NextLocks == LocksInv /\ [Next]_vars => LocksInv'
<1> SUFFICES ASSUME LocksInv, [Next]_vars PROVE LocksInv'
  OBVIOUS
<1>1. HandlersOK /\ LocksHold
  BY DEF LocksInv
<1>2. CASE \E c \in Here.controls : Click(c)
  BY <1>1, <1>2, ClickKeeps, Zenon DEF LocksInv
<1>3. CASE \E i \in Slots : Goes(i)
  BY <1>1, <1>3, GoesKeeps, Zenon DEF LocksInv
<1>4. CASE UNCHANGED vars
  <2>1. page' = page /\ running' = running /\ busy' = busy
    BY <1>4 DEF vars
  <2> QED BY <1>1, <2>1, Zenon DEF LocksInv, HandlersOK, LocksHold, Exclusive, Holds, Task
<1> QED BY <1>2, <1>3, <1>4, Zenon DEF Next

\* While two handlers hold a flag it is one the code does not lock.
LEMMA LocksExclude == LocksInv => OneAtATime
<1> SUFFICES ASSUME LocksInv, NEW f \in busy, <<page, f>> \notin Unlocked,
                    NEW i \in Slots, NEW j \in Slots, Holds(i, f), Holds(j, f)
             PROVE  i = j
  BY DEF OneAtATime
<1>1. HandlersOK /\ LocksHold
  BY DEF LocksInv
<1> DEFINE n == running[i].task
<1>2. page \in DOMAIN Pages /\ n \in Tasks(page) /\ Keeps(TaskOf(page, n), f)
  BY <1>1 DEF HandlersOK, Holds, Task
<1>3. n # Mount
  BY <1>2 DEF TaskOf, Reads, Handler, Keeps
<1>4. n \in DOMAIN Pages[page].tasks /\ Keeps(Pages[page].tasks[n], f)
  BY <1>2, <1>3 DEF Tasks, TaskOf
<1>5. Locked(page, f)
  BY <1>2, <1>4, UnlockedAssumption, Zenon DEF Keeps
<1> QED BY <1>1, <1>5, Zenon DEF LocksHold, Exclusive

\* Whatever the pages, the number of handlers suspended at a time and the
\* user does: a flag that every control starting its keepers waits for is
\* kept by one handler at a time, and stays set until that one is done.
THEOREM OneAtATimeHolds == Spec => []OneAtATime
<1>1. Init /\ [][Next]_vars => []LocksInv
  BY InitLocks, NextLocks, PTL
<1> QED BY <1>1, LocksExclude, PTL DEF Spec

\* A flag the code does lock is never clear while a handler keeps it, so the
\* controls that start its keepers are disabled all that time.
THEOREM LockedFlagsStaySet == Spec => []LocksHold
<1>1. Init /\ [][Next]_vars => []LocksInv
  BY InitLocks, NextLocks, PTL
<1>2. LocksInv => LocksHold
  BY DEF LocksInv
<1> QED BY <1>1, <1>2, PTL DEF Spec

-----------------------------------------------------------------------------
(* The types of the variables. *)

\* The names of the dialogs of a page: those that controls, reads and handlers
\* open, and with the latter whatever else its steps name.
ControlNames(p) == {c.opens : c \in Pages[p].controls}
LoadNames(p)    == UNION {Pages[p].loads[l].raises : l \in DOMAIN Pages[p].loads}
StepNames(p)    == UNION {UNION {x.on : x \in StepsOf(TaskOf(p, n))} : n \in Tasks(p)}
Names(p)        == ControlNames(p) \cup LoadNames(p) \cup StepNames(p)

DialogsOK ==
    /\ opened \in Seq(Names(page)) /\ Len(opened) <= MaxOpens
    /\ dialogs \subseteq 1..Len(opened)

\* No list shows or owes more than the server has, nor answers what was not asked.
ListsOK ==
    /\ version \in Nat
    /\ asked \in [Loads -> Nat] /\ due \in [Loads -> Nat]
    /\ shown \in [Loads -> [question : Nat, at : Nat]]
    /\ \A l \in Loads : /\ shown[l].question <= asked[l]
                        /\ shown[l].at <= version /\ due[l] <= version

\* A handler under way is at an await of its own, and knows no more than there is.
Proper(r) ==
    /\ IsAwait(Task(r.task).steps[r.step])
    /\ r.asks \in [Loads -> Nat] /\ \A l \in Loads : r.asks[l] <= asked[l]
    /\ r.at \in Nat /\ r.at <= version
    /\ r.got \in Nat /\ r.got <= version
    /\ r.from \in Nat /\ r.from <= Len(opened)

Typed ==
    /\ HandlersOK
    /\ \A i \in Slots : running[i] # Idle => Proper(running[i])
    /\ busy \subseteq Flags[page]
    /\ DialogsOK
    /\ ListsOK

\* The flags that handlers set, at their start or on their way, are flags of
\* the page.
LEMMA FlagsAreThePages ==
    ASSUME NEW p \in DOMAIN Pages, NEW n \in Tasks(p)
    PROVE  /\ TaskOf(p, n).sets \subseteq Flags[p]
           /\ \A k \in Nat \ {0} : SetAt(p, TaskOf(p, n), k) \subseteq Flags[p]
<1> DEFINE t == TaskOf(p, n)
<1>1. Flags[p] = Sets(p, DOMAIN Pages[p].loads)
                 \cup UNION {TaskOf(p, m).sets \cup UNION {x.sets : x \in StepsOf(TaskOf(p, m))} :
                               m \in Tasks(p)}
  BY DEF Flags
<1>2. t.sets \subseteq Flags[p]
  BY <1>1
<1>3. \A x \in StepsOf(t) : x.sets \subseteq Flags[p]
  BY <1>1
<1>4. ASSUME NEW k \in Nat \ {0}
      PROVE  SetAt(p, t, k) \subseteq Flags[p]
  <2>1. Len(t.steps) \in Nat
    BY TasksAreProper
  <2>2. ReadAt(t, k) \subseteq DOMAIN Pages[p].loads
    BY TasksAreProper DEF ReadAt
  <2>3. Sets(p, ReadAt(t, k)) \subseteq Flags[p]
    BY <1>1, <2>2 DEF Sets
  <2>4. CASE k \in 1..Len(t.steps)
    BY <1>3, <2>3, <2>4 DEF SetAt, StepsOf
  <2>5. CASE k > Len(t.steps)
    BY <2>1, <2>3, <2>5 DEF SetAt
  <2> QED BY <2>1, <2>4, <2>5
<1> QED BY <1>2, <1>4

-----------------------------------------------------------------------------
(* Where a handler goes. *)

\* The handler in the slot is t, suspended at step j, and goes on to step k.
Going(s, t, j, k, fine) ==
    /\ t = Task(running[s].task) /\ j = running[s].step
    /\ k = NextAwait(t, j, fine)

\* Where it goes: on, past no await, to its next await or its end.
LEMMA HandlerGoes ==
    ASSUME HandlersOK, NEW s \in Slots, running[s] # Idle,
           NEW t, NEW j, NEW k, NEW fine, Going(s, t, j, k, fine)
    PROVE  /\ t = TaskOf(page, running[s].task) /\ running[s].task \in Tasks(page)
           /\ Len(t.steps) \in Nat /\ j \in 1..Len(t.steps)
           /\ k \in (j + 1)..(Len(t.steps) + 1)
           /\ k <= Len(t.steps) => IsAwait(t.steps[k]) /\ (fine \/ t.steps[k].op # "then")
           /\ \A m \in (j + 1)..(k - 1) :
                  ~ (IsAwait(t.steps[m]) /\ (fine \/ t.steps[m].op # "then"))
           /\ \A m \in Steps(t) : t.steps[m].op \in {"await", "then", "put"}
                                => t.steps[m].on \subseteq Loads
<1>1. /\ running[s].task \in Tasks(page) /\ page \in DOMAIN Pages
      /\ t = TaskOf(page, running[s].task) /\ j \in 1..Len(t.steps)
  BY DEF HandlersOK, Task, Going
<1>2. /\ Len(t.steps) \in Nat
      /\ \A m \in Steps(t) : t.steps[m].op \in {"await", "then", "put"}
                           => t.steps[m].on \subseteq Loads
  BY <1>1, TasksAreProper DEF Steps, Loads, Here
<1>3. j \in 0..Len(t.steps)
  BY <1>1, <1>2
<1>4. /\ k \in (j + 1)..(Len(t.steps) + 1)
      /\ k <= Len(t.steps) => IsAwait(t.steps[k]) /\ (fine \/ t.steps[k].op # "then")
      /\ \A m \in (j + 1)..(k - 1) :
             ~ (IsAwait(t.steps[m]) /\ (fine \/ t.steps[m].op # "then"))
  BY <1>2, <1>3, NextAwaitIsNext, Zenon DEF Going
<1> QED BY <1>1, <1>2, <1>4

\* What is left of a handler that starts or goes on: where it is, what it
\* asked, and what it was told.
LEMMA BeginFields ==
    ASSUME NEW name, NEW k, NEW asks, NEW from, NEW got
    PROVE  LET r == Begin(name, k, asks, from, got)
           IN /\ r.task = name /\ r.step = k /\ r.asks = asks /\ r.from = from
              /\ r.served = FALSE /\ r.at = 0 /\ r.got = got
              /\ name # NoTask => r # Idle
BY DEF Begin, Idle

\* What is left of a handler whose call is served.
LEMMA ServedFields ==
    ASSUME NEW r, NEW v
    PROVE  LET n == Served(r, v)
           IN /\ n.task = r.task /\ n.step = r.step /\ n.asks = r.asks /\ n.from = r.from
              /\ n.served = TRUE /\ n.at = v /\ n.got = r.got
              /\ r.task # NoTask => n # Idle
BY DEF Served, Idle

\* The handler that takes or leaves its slot.
LEMMA SlotsAreProper ==
    ASSUME Typed, page' = page, NEW s \in Slots, NEW r,
           running' = [running EXCEPT ![s] = r],
           version' \in Nat, version <= version',
           \A l \in Loads : asked[l] <= asked'[l], asked' \in [Loads -> Nat],
           Len(opened') \in Nat, Len(opened) <= Len(opened'),
           r # Idle => Proper(r)'
    PROVE  \A i \in Slots : running'[i] # Idle => Proper(running[i])'
<1> SUFFICES ASSUME NEW i \in Slots, running'[i] # Idle
             PROVE  Proper(running[i])'
  OBVIOUS
<1>1. running'[s] = r /\ (i # s => running'[i] = running[i])
  BY OthersHold DEF Typed
<1>2. CASE i = s
  BY <1>1, <1>2
<1>3. CASE i # s
  <2>1. PICK q : q = running[i]
    OBVIOUS
  <2>2. Proper(q) /\ running'[i] = q
    BY <1>1, <1>3, <2>1 DEF Typed
  <2>3. Task(q.task)' = Task(q.task) /\ Loads' = Loads
    BY DEF Task, Loads, Here
  <2>4. Proper(q)'
    BY <2>2, <2>3 DEF Proper, Typed, ListsOK, DialogsOK
  <2> QED BY <2>2, <2>4
<1> QED BY <1>2, <1>3

\* Dialogs that stay open when some are closed.
LEMMA FewerDialogs ==
    ASSUME DialogsOK, page' = page, opened' = opened, dialogs' \subseteq dialogs
    PROVE  DialogsOK'
BY DEF DialogsOK

\* A dialog is opened in front of those that stay.
LEMMA OneMoreDialog ==
    ASSUME DialogsOK, page' = page, NEW d \in Names(page), Len(opened) < MaxOpens,
           opened' = Append(opened, d),
           NEW n, n = Len(opened) + 1, NEW others \in SUBSET dialogs,
           dialogs' = others \cup {n}
    PROVE  /\ DialogsOK' /\ Len(opened') = n
           /\ opened'[n] = d /\ \A m \in 1..Len(opened) : opened'[m] = opened[m]
<1>1. Len(opened) \in Nat /\ opened \in Seq(Names(page))
  BY DEF DialogsOK
<1>2. /\ opened' \in Seq(Names(page)) /\ Len(opened') = n
      /\ opened'[n] = d
      /\ \A m \in 1..Len(opened) : opened'[m] = opened[m]
  BY <1>1
<1>3. dialogs' \subseteq 1..n
  <2>1. others \subseteq 1..Len(opened)
    BY DEF DialogsOK
  <2>2. 1..Len(opened) \subseteq 1..n /\ n \in 1..n
    BY <1>1
  <2> QED BY <2>1, <2>2
<1>4. Names(page)' = Names(page)
  BY DEF Names, ControlNames, LoadNames, StepNames
<1>5. n <= MaxOpens
  BY <1>1, BoundsAssumption
<1> QED BY <1>2, <1>3, <1>4, <1>5 DEF DialogsOK

\* The dialogs when a handler goes on: it closes some, and may raise one.
LEMMA ContinueDialogs ==
    ASSUME Typed, page' = page, NEW s \in Slots, running[s] # Idle,
           NEW cleared, NEW answers, NEW fine, Continue(s, cleared, answers, fine)
    PROVE  /\ DialogsOK' /\ Len(opened') \in Nat /\ Len(opened) <= Len(opened')
           /\ \A m \in 1..Len(opened) : opened'[m] = opened[m]
<1>1. HandlersOK /\ DialogsOK /\ Len(opened) \in Nat
  BY DEF Typed, DialogsOK
<1>2. PICK t, j, k : Going(s, t, j, k, fine)
  BY DEF Going
<1>3. /\ t = TaskOf(page, running[s].task) /\ running[s].task \in Tasks(page)
      /\ Len(t.steps) \in Nat /\ j \in 1..Len(t.steps)
      /\ k \in (j + 1)..(Len(t.steps) + 1)
      /\ \A m \in Steps(t) : t.steps[m].op \in {"await", "then", "put"}
                           => t.steps[m].on \subseteq Loads
  BY <1>1, <1>2, HandlerGoes
<1>4. PICK closed : closed = Named(t, "close", j, k)
  OBVIOUS
<1>5. PICK answered : answered = IF fine THEN ReadAt(t, j) ELSE {}
  OBVIOUS
<1>6. PICK raised :
        raised = {d \in Named(t, "raise", j, k) \cup UNION {Here.loads[l].raises : l \in answered} :
                     /\ Len(opened) < MaxOpens
                     /\ \A n \in dialogs : opened[n] # d}
  OBVIOUS
<1>7. \/ dialogs' = Without(closed) /\ opened' = opened
      \/ \E d \in raised : /\ opened' = Append(opened, d)
                           /\ dialogs' = Without(closed) \cup {Len(opened')}
  BY <1>2, <1>4, <1>5, <1>6, Zenon DEF Continue, Going
<1>8. raised \subseteq Names(page)
  <2>1. answered \subseteq Loads
    BY <1>3, <1>5 DEF ReadAt, Steps
  <2>2. \A l \in answered : Here.loads[l].raises \subseteq Names(page)
    BY <2>1 DEF Names, LoadNames, Loads, Here
  <2>3. \A m \in (j + 1)..(k - 1) : t.steps[m].on \subseteq Names(page)
    <3>1. \A m \in (j + 1)..(k - 1) : m \in 1..Len(t.steps)
      BY <1>3
    <3>2. \A m \in (j + 1)..(k - 1) : t.steps[m] \in StepsOf(t)
      BY <3>1 DEF StepsOf
    <3>3. ASSUME NEW m \in (j + 1)..(k - 1)
          PROVE  t.steps[m].on \in {x.on : x \in StepsOf(t)}
      BY <3>2
    <3>4. UNION {x.on : x \in StepsOf(t)} \subseteq Names(page)
      <4>1. PICK name \in Tasks(page) : t = TaskOf(page, name)
        BY <1>3
      <4> DEFINE of(n) == UNION {x.on : x \in StepsOf(TaskOf(page, n))}
      <4>2. StepNames(page) = UNION {of(n) : n \in Tasks(page)}
        BY Zenon DEF StepNames
      <4>5. StepNames(page) \subseteq Names(page)
        BY DEF Names
      <4>3. of(name) \in {of(n) : n \in Tasks(page)}
        OBVIOUS
      <4> HIDE DEF of
      <4>4. of(name) \subseteq Names(page)
        BY <4>2, <4>3, <4>5
      <4> QED BY <4>1, <4>4 DEF of
    <3> QED BY <3>3, <3>4
  <2>4. Named(t, "raise", j, k) \subseteq Names(page)
    BY <2>3 DEF Named
  <2> QED BY <1>6, <2>2, <2>4
<1>9. \A d \in raised : Len(opened) < MaxOpens
  BY <1>6
<1>10. Without(closed) \subseteq dialogs
  BY DEF Without
<1>11. CASE dialogs' = Without(closed) /\ opened' = opened
  BY <1>1, <1>10, <1>11, FewerDialogs
<1>12. ASSUME NEW d \in raised, opened' = Append(opened, d),
              dialogs' = Without(closed) \cup {Len(opened')}
       PROVE  /\ DialogsOK' /\ Len(opened') \in Nat /\ Len(opened) <= Len(opened')
              /\ \A m \in 1..Len(opened) : opened'[m] = opened[m]
  <2>1. PICK others \in SUBSET dialogs : others = Without(closed)
    BY <1>10
  <2>2. d \in Names(page) /\ Len(opened) < MaxOpens
    BY <1>8, <1>9
  <2>3. PICK n : n = Len(opened) + 1
    OBVIOUS
  <2>4. opened \in Seq(Names(page))
    BY <1>1 DEF DialogsOK
  <2>5. Len(opened') = n
    BY <1>12, <2>2, <2>3, <2>4
  <2>6. dialogs' = others \cup {n}
    BY <1>12, <2>1, <2>5
  <2>7. /\ DialogsOK' /\ Len(opened') = n
        /\ \A m \in 1..Len(opened) : opened'[m] = opened[m]
    BY <1>1, <1>12, <2>1, <2>2, <2>3, <2>6, OneMoreDialog
  <2> QED BY <1>1, <2>3, <2>7
<1> QED BY <1>1, <1>7, <1>11, <1>12

\* Where a handler that goes on comes to.
LEMMA ContinueSlot ==
    ASSUME HandlersOK, NEW s \in Slots, running[s] # Idle,
           NEW t, NEW j, NEW k, NEW fine, Going(s, t, j, k, fine),
           NEW cleared, NEW answers, Continue(s, cleared, answers, fine)
    PROVE  \E r : /\ running' = [running EXCEPT ![s] = r]
                  /\ k > Len(t.steps) => r = Idle
                  /\ r # Idle => k <= Len(t.steps)
                  /\ k <= Len(t.steps) =>
                       /\ r.task = running[s].task /\ r.step = k
                       /\ r.asks = running[s].asks /\ r.from = running[s].from
                       /\ r.served = FALSE /\ r.at = 0 /\ r.got = Got(s)
                       /\ r # Idle
<1>1. PICK was, got : was = running[s] /\ got = Got(s)
  OBVIOUS
<1>2. PICK r : r = IF k > Len(t.steps) THEN Idle ELSE Begin(was.task, k, was.asks, was.from, got)
  OBVIOUS
<1>3. running' = [running EXCEPT ![s] = r]
  BY <1>1, <1>2, Zenon DEF Continue, Going
<1>4. /\ was.task \in Tasks(page) /\ page \in DOMAIN Pages
      /\ Len(t.steps) \in Nat /\ k \in (j + 1)..(Len(t.steps) + 1) /\ j \in 1..Len(t.steps)
  BY <1>1, HandlerGoes DEF HandlersOK
<1>5. was.task # NoTask
  BY <1>4, TasksAreProper
<1>6. k > Len(t.steps) \/ k <= Len(t.steps)
  BY <1>4
<1>7. ASSUME k <= Len(t.steps)
      PROVE  /\ r.task = was.task /\ r.step = k /\ r.asks = was.asks /\ r.from = was.from
             /\ r.served = FALSE /\ r.at = 0 /\ r.got = got
             /\ r # Idle
  <2>1. ~ (k > Len(t.steps))
    BY <1>4, <1>7
  <2>2. r = Begin(was.task, k, was.asks, was.from, got)
    BY <1>2, <2>1
  <2> QED BY <1>5, <2>2 DEF Begin, Idle
<1> QED BY <1>1, <1>2, <1>3, <1>6, <1>7

\* A handler that goes on.
LEMMA ContinueTyped ==
    ASSUME Typed, HandlersOK', page' = page, NEW s \in Slots, running[s] # Idle,
           version' = version, asked' = asked,
           NEW cleared, NEW answers, NEW fine, Continue(s, cleared, answers, fine)
    PROVE  /\ \A i \in Slots : running'[i] # Idle => Proper(running[i])'
           /\ busy' \subseteq Flags[page]
           /\ DialogsOK'
           /\ shown' \in [Loads -> [question : Nat, at : Nat]]
           /\ \A l \in Loads : shown'[l].question <= asked[l] /\ shown'[l].at <= version
<1>1. HandlersOK /\ DialogsOK /\ ListsOK /\ Proper(running[s])
  BY DEF Typed
<1>2. PICK was, t, j, k : was = running[s] /\ Going(s, t, j, k, fine)
  BY DEF Going
<1>3. /\ t = TaskOf(page, was.task) /\ was.task \in Tasks(page)
      /\ Len(t.steps) \in Nat /\ j \in 1..Len(t.steps)
      /\ k \in (j + 1)..(Len(t.steps) + 1)
      /\ k <= Len(t.steps) => IsAwait(t.steps[k])
  BY <1>1, <1>2, HandlerGoes
<1>4. /\ DialogsOK' /\ Len(opened') \in Nat /\ Len(opened) <= Len(opened')
  BY ContinueDialogs
<1>5. PICK got : got = Got(s)
  OBVIOUS
<1>6. /\ got \in Nat /\ got <= version /\ was.at \in Nat /\ was.at <= version
      /\ was.asks \in [Loads -> Nat] /\ \A l \in Loads : was.asks[l] <= asked[l]
      /\ was.from \in Nat /\ was.from <= Len(opened)
  BY <1>1, <1>2, <1>5 DEF Got, Proper
<1>7. busy' \subseteq Flags[page]
  <2>1. busy' \subseteq busy \cup SetAt(page, t, k)
    BY <1>2 DEF Continue, Going
  <2>2. k \in Nat \ {0}
    BY <1>3
  <2>3. SetAt(page, t, k) \subseteq Flags[page]
    BY <1>1, <1>3, <2>2, FlagsAreThePages DEF HandlersOK
  <2> QED BY <2>1, <2>3 DEF Typed
<1>8. PICK r : /\ running' = [running EXCEPT ![s] = r]
               /\ r # Idle => k <= Len(t.steps)
               /\ k <= Len(t.steps) =>
                     /\ r.task = was.task /\ r.step = k /\ r.asks = was.asks
                     /\ r.from = was.from /\ r.at = 0 /\ r.got = got
  <2>1. \E x : /\ running' = [running EXCEPT ![s] = x]
               /\ k > Len(t.steps) => x = Idle
               /\ x # Idle => k <= Len(t.steps)
               /\ k <= Len(t.steps) =>
                     /\ x.task = running[s].task /\ x.step = k
                     /\ x.asks = running[s].asks /\ x.from = running[s].from
                     /\ x.served = FALSE /\ x.at = 0 /\ x.got = Got(s)
                     /\ x # Idle
    BY <1>1, <1>2, ContinueSlot, Zenon
  <2> QED BY <1>2, <1>5, <2>1
<1>9. Task(was.task)' = t /\ Loads' = Loads
  BY <1>2 DEF Task, Loads, Here, Going
<1>10. Len(opened) \in Nat /\ version \in Nat
  BY <1>1 DEF DialogsOK, ListsOK
<1>11. ASSUME r # Idle
       PROVE  Proper(r)'
  <2>1. /\ k <= Len(t.steps) /\ r.task = was.task /\ r.step = k /\ r.asks = was.asks
        /\ r.from = was.from /\ r.at = 0 /\ r.got = got
    BY <1>8, <1>11
  <2>2. Task(r.task)' = t
    BY <1>9, <2>1
  <2>3. IsAwait(Task(r.task)'.steps[r.step])
    BY <1>3, <2>1, <2>2
  <2>4. r.from \in Nat /\ r.from <= Len(opened')
    BY <1>4, <1>6, <1>10, <2>1
  <2>5. r.asks \in [Loads' -> Nat] /\ \A l \in Loads' : r.asks[l] <= asked'[l]
    BY <1>6, <1>9, <2>1
  <2>6. r.at \in Nat /\ r.at <= version' /\ r.got \in Nat /\ r.got <= version'
    BY <1>6, <1>10, <2>1
  <2>7. IsAwait(Task(r.task).steps[r.step])'
    BY <2>3 DEF IsAwait
  <2> QED BY <2>4, <2>5, <2>6, <2>7 DEF Proper
<1>12. \A i \in Slots : running'[i] # Idle => Proper(running[i])'
  <2>1. \A l \in Loads : asked[l] <= asked'[l]
    BY <1>1 DEF ListsOK
  <2>2. asked' \in [Loads -> Nat] /\ version' \in Nat /\ version <= version'
    BY <1>1 DEF ListsOK
  <2> QED BY <1>4, <1>8, <1>11, <2>1, <2>2, SlotsAreProper
<1>13. \A l \in Loads : \/ shown'[l] = shown[l]
                        \/ shown'[l] = [question |-> was.asks[l], at |-> got]
                        \/ shown'[l] = [question |-> was.asks[l], at |-> was.at]
  BY <1>2, <1>5 DEF Continue
<1>14. DOMAIN shown' = Loads /\ shown' = [l \in Loads |-> shown'[l]]
  BY DEF Continue
<1>15. ASSUME NEW l \in Loads
       PROVE  /\ shown'[l] \in [question : Nat, at : Nat]
              /\ shown'[l].question <= asked[l] /\ shown'[l].at <= version
  <2>1. PICK q \in Nat : q = was.asks[l] /\ q <= asked[l]
    BY <1>6
  <2>2. /\ shown[l] \in [question : Nat, at : Nat]
        /\ shown[l].question <= asked[l] /\ shown[l].at <= version
    BY <1>1 DEF ListsOK
  <2>3. PICK new : new = shown'[l]
    OBVIOUS
  <2>4. new = shown[l] \/ new = [question |-> q, at |-> got] \/ new = [question |-> q, at |-> was.at]
    BY <1>13, <2>1, <2>3
  <2>5. /\ new \in [question : Nat, at : Nat]
        /\ new.question <= asked[l] /\ new.at <= version
    BY <1>6, <2>1, <2>2, <2>4
  <2> QED BY <2>3, <2>5
<1> QED BY <1>4, <1>7, <1>12, <1>14, <1>15

\* The same when it gives up.
LEMMA AbortTyped ==
    ASSUME Typed, HandlersOK', page' = page, NEW s \in Slots,
           version' = version, asked' = asked, NEW cleared, Abort(s, cleared)
    PROVE  /\ \A i \in Slots : running'[i] # Idle => Proper(running[i])'
           /\ busy' \subseteq Flags[page]
           /\ DialogsOK' /\ shown' = shown /\ opened' = opened
<1>1. /\ running' = [running EXCEPT ![s] = Idle] /\ opened' = opened /\ shown' = shown
      /\ dialogs' \subseteq dialogs /\ busy' \subseteq busy
  BY DEF Abort, Without
<1>2. DialogsOK'
  BY <1>1, FewerDialogs DEF Typed
<1>3. \A l \in Loads : asked[l] <= asked'[l]
  BY DEF Typed, ListsOK
<1>4. /\ asked' \in [Loads -> Nat] /\ version' \in Nat /\ version <= version'
      /\ Len(opened') \in Nat /\ Len(opened) <= Len(opened')
  BY <1>1 DEF Typed, ListsOK, DialogsOK
<1>5. \A i \in Slots : running'[i] # Idle => Proper(running[i])'
  BY <1>1, <1>3, <1>4, SlotsAreProper
<1> QED BY <1>1, <1>2, <1>5 DEF Typed

\* The server's part in a call or a read: there may be one version more, and
\* the handler knows it.
LEMMA ServeTyped ==
    ASSUME Typed, HandlersOK', NEW s \in Slots, Serve(s)
    PROVE  Typed'
<1>1. /\ page' = page /\ busy' = busy /\ opened' = opened /\ dialogs' = dialogs
      /\ asked' = asked /\ shown' = shown /\ due' = due
      /\ running[s] # Idle
      /\ version' = version + (IF At(s).op \in {"call", "try"} THEN 1 ELSE 0)
  BY DEF Serve, Suspended
<1>2. PICK was, v : was = running[s] /\ v = version'
  OBVIOUS
<1>3. PICK r : r = Served(was, v)
  OBVIOUS
<1>4. running' = [running EXCEPT ![s] = r]
  BY <1>2, <1>3 DEF Serve
<1>5. /\ HandlersOK /\ DialogsOK /\ ListsOK /\ Proper(was)
      /\ was.task \in Tasks(page) /\ page \in DOMAIN Pages
  BY <1>1, <1>2 DEF Typed, HandlersOK
<1>6. version \in Nat /\ v \in Nat /\ version <= v /\ version' \in Nat /\ version <= version'
  BY <1>1, <1>2, <1>5 DEF ListsOK
<1>7. /\ r.task = was.task /\ r.step = was.step /\ r.asks = was.asks
      /\ r.from = was.from /\ r.at = v /\ r.got = was.got
  BY <1>3 DEF Served
<1>8. Task(was.task)' = Task(was.task) /\ Loads' = Loads
  BY <1>1 DEF Task, Loads, Here
<1>9. Proper(r)'
  <2>1. IsAwait(Task(r.task).steps[r.step])'
    BY <1>5, <1>7, <1>8 DEF Proper, IsAwait
  <2>2. /\ r.asks \in [Loads' -> Nat] /\ \A l \in Loads' : r.asks[l] <= asked'[l]
        /\ r.from \in Nat /\ r.from <= Len(opened')
    BY <1>1, <1>5, <1>7, <1>8 DEF Proper
  <2>3. was.got \in Nat /\ was.got <= version
    BY <1>5 DEF Proper
  <2>4. r.at \in Nat /\ r.at <= version' /\ r.got \in Nat /\ r.got <= version'
    BY <1>2, <1>6, <1>7, <2>3
  <2> QED BY <2>1, <2>2, <2>4 DEF Proper
<1>10. \A i \in Slots : running'[i] # Idle => Proper(running[i])'
  <2>1. \A l \in Loads : asked[l] <= asked'[l]
    BY <1>1, <1>5 DEF ListsOK
  <2>2. asked' \in [Loads -> Nat] /\ Len(opened') \in Nat /\ Len(opened) <= Len(opened')
    BY <1>1, <1>5 DEF ListsOK, DialogsOK
  <2> QED BY <1>1, <1>4, <1>6, <1>9, <2>1, <2>2, SlotsAreProper
<1>11. DialogsOK'
  BY <1>1, <1>5, FewerDialogs
<1>12. ListsOK'
  BY <1>1, <1>5, <1>6, <1>8 DEF ListsOK
<1>13. busy' \subseteq Flags[page']
  BY <1>1 DEF Typed
<1> QED BY <1>10, <1>11, <1>12, <1>13 DEF Typed

\* The steps of a handler change neither what is asked nor the server.
LEMMA ListsStay ==
    ASSUME ListsOK, page' = page, asked' = asked, version' = version,
           shown' \in [Loads -> [question : Nat, at : Nat]],
           \A l \in Loads : shown'[l].question <= asked[l] /\ shown'[l].at <= version,
           due' \in [Loads -> Nat], \A l \in Loads : due'[l] <= version
    PROVE  ListsOK'
<1>1. Loads' = Loads
  BY DEF Loads, Here
<1> QED BY <1>1 DEF ListsOK

\* What handlers do to the lists, apart from what they show, keeps the types.
LEMMA GoesOnTyped ==
    ASSUME Typed, HandlersOK', page' = page, NEW s \in Slots, running[s] # Idle,
           version' = version, asked' = asked,
           due' \in [Loads -> Nat], \A l \in Loads : due'[l] <= version,
           NEW cleared, NEW answers, NEW fine,
           Continue(s, cleared, answers, fine) \/ Abort(s, cleared)
    PROVE  Typed'
<1>1. ListsOK
  BY DEF Typed
<1>2. CASE Continue(s, cleared, answers, fine)
  <2>1. /\ \A i \in Slots : running'[i] # Idle => Proper(running[i])'
        /\ busy' \subseteq Flags[page] /\ DialogsOK'
        /\ shown' \in [Loads -> [question : Nat, at : Nat]]
        /\ \A l \in Loads : shown'[l].question <= asked[l] /\ shown'[l].at <= version
    BY <1>2, ContinueTyped
  <2>2. ListsOK'
    BY <1>1, <2>1, ListsStay
  <2> QED BY <2>1, <2>2 DEF Typed
<1>3. CASE Abort(s, cleared)
  <2>1. /\ \A i \in Slots : running'[i] # Idle => Proper(running[i])'
        /\ busy' \subseteq Flags[page] /\ DialogsOK' /\ shown' = shown
    BY <1>3, AbortTyped
  <2>2. ListsOK'
    BY <1>1, <2>1, ListsStay DEF ListsOK
  <2> QED BY <2>1, <2>2 DEF Typed
<1> QED BY <1>2, <1>3

\* The change a call made is no later than what the server has.
LEMMA DueIsKnown ==
    ASSUME Typed, NEW s \in Slots, CallAnswered(s)
    PROVE  due' \in [Loads -> Nat] /\ \A l \in Loads : due'[l] <= version
<1>1. ListsOK /\ Proper(running[s])
  BY DEF Typed, CallAnswered, Suspended
<1>2. PICK at : at = running[s].at /\ at \in Nat /\ at <= version
  BY <1>1 DEF Proper
<1>3. /\ DOMAIN due' = Loads /\ due' = [l \in Loads |-> due'[l]]
      /\ \A l \in Loads : due'[l] = at \/ due'[l] = due[l]
  BY <1>2 DEF CallAnswered
<1> QED BY <1>1, <1>2, <1>3 DEF ListsOK

\* Each way of a handler to go on keeps the types.
LEMMA GoesTyped ==
    ASSUME Typed, HandlersOK', NEW s \in Slots, Goes(s)
    PROVE  Typed'
<1>1. due \in [Loads -> Nat] /\ \A l \in Loads : due[l] <= version
  BY DEF Typed, ListsOK
<1>2. CASE Serve(s)
  BY <1>2, ServeTyped
<1>3. ASSUME Recovers(s), running[s] # Idle, page' = page, version' = version,
             asked' = asked, due' = due
      PROVE  Typed'
  <2>1. Continue(s, {}, {}, TRUE) \/ Abort(s, {})
    BY <1>3, Zenon DEF Recovers
  <2> QED BY <1>1, <1>3, <2>1, GoesOnTyped
<1>4. CASE CallAnswered(s)
  <2>1. /\ running[s] # Idle /\ page' = page /\ version' = version /\ asked' = asked
        /\ Continue(s, {}, {}, TRUE)
    BY <1>4, Zenon DEF CallAnswered, Suspended
  <2>2. due' \in [Loads -> Nat] /\ \A l \in Loads : due'[l] <= version
    BY <1>4, DueIsKnown
  <2> QED BY <2>1, <2>2, GoesOnTyped
<1>5. CASE CallRefused(s)
  <2>1. /\ running[s] # Idle /\ page' = page /\ version' = version /\ asked' = asked
        /\ due' = due /\ Recovers(s)
    BY <1>5, Zenon DEF CallRefused, Suspended
  <2> QED BY <1>3, <2>1
<1>6. CASE CallLost(s)
  <2>1. /\ running[s] # Idle /\ page' = page /\ version' = version /\ asked' = asked
        /\ due' = due /\ Recovers(s)
    BY <1>6, Zenon DEF CallLost, Suspended
  <2> QED BY <1>3, <2>1
<1>7. CASE TimerFires(s)
  <2>1. /\ running[s] # Idle /\ page' = page /\ version' = version /\ asked' = asked
        /\ due' = due /\ Continue(s, {}, {}, TRUE)
    BY <1>7, Zenon DEF TimerFires, Suspended
  <2> QED BY <1>1, <2>1, GoesOnTyped
<1>8. CASE ReadAnswered(s)
  <2>1. /\ running[s] # Idle /\ page' = page /\ version' = version /\ asked' = asked
        /\ due' = due
        /\ Continue(s, Clears(page, Showing(s)), Answers(s), TRUE)
    BY <1>8, Zenon DEF ReadAnswered, Suspended
  <2> QED BY <1>1, <2>1, GoesOnTyped
<1>9. CASE ReadFailed(s)
  <2>1. /\ running[s] # Idle /\ page' = page /\ version' = version /\ asked' = asked
        /\ due' = due
        /\ \/ Continue(s, Clears(page, Showing(s)), {}, FALSE)
           \/ Abort(s, Clears(page, Showing(s)))
    BY <1>9, Zenon DEF ReadFailed, Suspended
  <2> QED BY <1>1, <2>1, GoesOnTyped
<1> QED BY <1>2, <1>4, <1>5, <1>6, <1>7, <1>8, <1>9, Zenon DEF Goes

-----------------------------------------------------------------------------
(* The user's actions keep the types. *)

\* The dialog in front is one that is open.
LEMMA FrontIsOpen ==
    ASSUME DialogsOK
    PROVE  /\ Front \in 0..Len(opened) /\ (dialogs = {} => Front = 0)
           /\ dialogs # {} => Front \in dialogs /\ \A m \in dialogs : m <= Front
<1>1. Len(opened) \in Nat /\ dialogs \in SUBSET (1..Len(opened))
  BY DEF DialogsOK
<1>2. CASE dialogs = {}
  BY <1>1, <1>2 DEF Front
<1>3. CASE dialogs # {}
  <2>1. \E n \in dialogs : \A m \in dialogs : m <= n
    BY <1>1, <1>3, GreatestNumber, Zenon
  <2>2. Front = CHOOSE n \in dialogs : \A m \in dialogs : m <= n
    BY <1>3 DEF Front
  <2>3. Front \in dialogs /\ \A m \in dialogs : m <= Front
    BY <2>1, <2>2, Zenon
  <2> QED BY <1>1, <1>3, <2>3
<1> QED BY <1>2, <1>3

\* The dialogs when a control is used: it closes its own, or opens one.
LEMMA OpeningDialogs ==
    ASSUME Typed, page' = page, NEW c \in Here.controls, Opening(c)
    PROVE  /\ DialogsOK' /\ Len(opened') \in Nat /\ Len(opened) <= Len(opened')
           /\ c.opens # NoDialog /\ ~ c.closes => Len(opened') = Len(opened) + 1
           /\ c.opens = NoDialog => opened' = opened
           /\ \A m \in 1..Len(opened) : opened'[m] = opened[m]
<1>1. /\ DialogsOK /\ Len(opened) \in Nat /\ opened \in Seq(Names(page))
  BY DEF Typed, DialogsOK
<1>2. CASE dialogs' \subseteq dialogs /\ opened' = opened /\ (c.closes \/ c.opens = NoDialog)
  BY <1>1, <1>2, FewerDialogs
<1>3. CASE /\ Len(opened) < MaxOpens /\ opened' = Append(opened, c.opens)
           /\ dialogs' = dialogs \cup {Len(opened) + 1} /\ c.opens # NoDialog
  <2>1. PICK d, n, others : d = c.opens /\ n = Len(opened) + 1 /\ others = dialogs
    OBVIOUS
  <2>2. d \in Names(page)
    BY <2>1 DEF Names, ControlNames, Here
  <2>3. /\ Len(opened) < MaxOpens /\ opened' = Append(opened, d) /\ others \in SUBSET dialogs
        /\ dialogs' = others \cup {n}
    BY <1>3, <2>1
  <2>4. /\ DialogsOK' /\ Len(opened') = n
        /\ \A m \in 1..Len(opened) : opened'[m] = opened[m]
    BY <1>1, <2>1, <2>2, <2>3, OneMoreDialog
  <2> QED BY <1>1, <1>3, <2>1, <2>4
<1>4. \/ dialogs' \subseteq dialogs /\ opened' = opened /\ (c.closes \/ c.opens = NoDialog)
      \/ /\ Len(opened) < MaxOpens /\ opened' = Append(opened, c.opens)
         /\ dialogs' = dialogs \cup {Len(opened) + 1} /\ c.opens # NoDialog
  BY DEF Opening, Without
<1> QED BY <1>2, <1>3, <1>4

\* The lists when a control is used: what it asks is asked, and a list it
\* fills from another shows no more than that one does.
LEMMA AskingLists ==
    ASSUME ListsOK, page' = page, page \in DOMAIN Pages, version' = version,
           NEW c \in Here.controls, Asking(c)
    PROVE  /\ ListsOK' /\ Loads' = Loads /\ asked' \in [Loads -> Nat]
           /\ \A l \in Loads : /\ asked[l] <= asked'[l]
                               /\ asked'[l] = IF l \in c.asks THEN asked[l] + 1 ELSE asked[l]
<1>1. Loads' = Loads
  BY DEF Loads, Here
<1>2. /\ asked' \in [Loads -> Nat]
      /\ \A l \in Loads : /\ asked'[l] = IF l \in c.asks THEN asked[l] + 1 ELSE asked[l]
                          /\ asked[l] <= asked'[l]
  BY DEF Asking, ListsOK
<1>3. c.copies \in Loads \cup {NoList}
  BY PagesAssumption DEF Here, Loads
<1>4. CASE c.copies = NoList
  <2>1. shown' = shown /\ due' = due
    BY <1>4 DEF Asking
  <2>2. \A l \in Loads : shown[l].question \in Nat /\ shown[l].question <= asked'[l]
    BY <1>2 DEF ListsOK
  <2> QED BY <1>1, <1>2, <2>1, <2>2 DEF ListsOK
<1>5. CASE c.copies # NoList
  <2>1. PICK at : at = shown[c.copies].at /\ at \in Nat /\ at <= version
    BY <1>3, <1>5 DEF ListsOK
  <2>2. /\ DOMAIN shown' = Loads /\ shown' = [l \in Loads |-> shown'[l]]
        /\ \A l \in Loads : shown'[l] = IF l \in c.asks
                                        THEN [question |-> asked'[l], at |-> at]
                                        ELSE shown[l]
    BY <1>5, <2>1 DEF Asking
  <2>3. due' \in [Loads -> Nat] /\ \A l \in Loads : due'[l] <= version
    BY <1>5 DEF Asking, ListsOK
  <2>4. ASSUME NEW l \in Loads
        PROVE  /\ shown'[l] \in [question : Nat, at : Nat]
               /\ shown'[l].question <= asked'[l] /\ shown'[l].at <= version
    <3>1. PICK q : q = asked'[l] /\ q \in Nat /\ asked[l] \in Nat /\ asked[l] <= q
      BY <1>2 DEF ListsOK
    <3>2. CASE l \in c.asks
      <4>1. shown'[l] = [question |-> q, at |-> at]
        BY <2>2, <3>1, <3>2
      <4> QED BY <2>1, <3>1, <4>1
    <3>3. CASE l \notin c.asks
      <4>1. shown'[l] = shown[l]
        BY <2>2, <3>3
      <4>2. /\ shown[l] \in [question : Nat, at : Nat]
            /\ shown[l].question <= asked[l] /\ shown[l].at <= version
        BY DEF ListsOK
      <4>3. shown[l].question \in Nat
        BY <4>2
      <4>4. shown[l].question <= asked'[l]
        BY <3>1, <4>2, <4>3
      <4> QED BY <4>1, <4>2, <4>4
    <3> QED BY <3>2, <3>3
  <2> QED BY <1>1, <1>2, <2>2, <2>3, <2>4 DEF ListsOK
<1> QED BY <1>1, <1>2, <1>4, <1>5

\* Each use of a control keeps the types.
LEMMA ClickTyped ==
    ASSUME Typed, HandlersOK', NEW c \in Here.controls, Click(c)
    PROVE  Typed'
<1>1. /\ page' = page /\ version' = version /\ Opening(c) /\ Asking(c)
      /\ HandlersOK /\ DialogsOK /\ ListsOK /\ page \in DOMAIN Pages
  BY DEF Click, Typed, HandlersOK
<1>2. /\ DialogsOK' /\ Len(opened') \in Nat /\ Len(opened) <= Len(opened')
      /\ c.opens # NoDialog /\ ~ c.closes => Len(opened') = Len(opened) + 1
      /\ \A m \in 1..Len(opened) : opened'[m] = opened[m]
  BY <1>1, OpeningDialogs
<1>3. /\ ListsOK' /\ Loads' = Loads /\ asked' \in [Loads -> Nat]
      /\ \A l \in Loads : asked[l] <= asked'[l]
  BY <1>1, AskingLists
<1>4. version' \in Nat /\ version \in Nat /\ version <= version' /\ Len(opened) \in Nat
  BY <1>1 DEF ListsOK, DialogsOK
<1>5. CASE c.starts = NoTask
  <2>1. running' = running /\ busy' \subseteq busy
    BY <1>5 DEF Click
  <2>2. ASSUME NEW i \in Slots, running'[i] # Idle PROVE Proper(running[i])'
    <3>1. PICK q : q = running[i]
      OBVIOUS
    <3>2. Proper(q) /\ running'[i] = q
      BY <2>1, <2>2, <3>1 DEF Typed
    <3>3. Task(q.task)' = Task(q.task)
      BY <1>1 DEF Task
    <3>4. \A l \in Loads : q.asks[l] <= asked'[l]
      BY <1>1, <1>3, <3>2 DEF Proper, ListsOK
    <3>5. Proper(q)'
      BY <1>1, <1>2, <1>3, <1>4, <3>2, <3>3, <3>4 DEF Proper, IsAwait
    <3> QED BY <3>2, <3>5
  <2> QED BY <1>1, <1>2, <1>3, <2>1, <2>2 DEF Typed
<1>6. CASE c.starts # NoTask
  <2>1. PICK t : t = Task(c.starts)
    OBVIOUS
  <2>2. PICK k : k = NextAwait(t, 0, TRUE)
    OBVIOUS
  <2>3. PICK from : from = IF c.opens = NoDialog THEN Front ELSE Len(opened) + 1
    OBVIOUS
  <2>4. PICK asks : asks = asked'
    OBVIOUS
  <2>5. PICK s \in Slots :
          /\ running' = [running EXCEPT ![s] =
                            Begin(c.starts, k, asks, IF c.beside THEN 0 ELSE from, 0)]
          /\ busy' = ((busy \ (t.drops \cup LocalFlags(Replaced(t, k))))
                          \cup t.sets \cup SetAt(page, t, k))
                        \ FreedAt(t, 0, k)
    BY <1>6, <2>1, <2>2, <2>3, <2>4, Zenon DEF Click, Starting
  <2>6. PICK place : place = IF c.beside THEN 0 ELSE from
    OBVIOUS
  <2>7. PICK r : r = Begin(c.starts, k, asks, place, 0)
    OBVIOUS
  <2>8. running' = [running EXCEPT ![s] = r]
    BY <2>5, <2>6, <2>7
  <2>9. c.starts \in Tasks(page) /\ t = TaskOf(page, c.starts)
    BY <1>1, <1>6, <2>1, PagesAssumption DEF Here, Tasks, Task
  <2>10. Len(t.steps) \in Nat /\ \E m \in 1..Len(t.steps) : IsAwait(t.steps[m])
    BY <1>1, <2>9, TasksAreProper
  <2>11. k \in 1..Len(t.steps)
    BY <2>2, <2>10, AwaitIsReached, Zenon
  <2>12. IsAwait(t.steps[k])
    <3>1. 0 \in 0..Len(t.steps) /\ k <= Len(t.steps)
      BY <2>10, <2>11
    <3> QED BY <2>2, <2>10, <3>1, NextAwaitIsNext, Zenon
  <2>13. busy' \subseteq Flags[page]
    <3>1. t.sets \subseteq Flags[page] /\ SetAt(page, t, k) \subseteq Flags[page]
      BY <1>1, <2>9, <2>10, <2>11, FlagsAreThePages
    <3> QED BY <2>5, <3>1 DEF Typed
  <2>14. from \in Nat /\ from <= Len(opened')
    <3>1. Front \in Nat /\ Front <= Len(opened)
      BY <1>1, <1>4, FrontIsOpen
    <3>2. CASE c.opens = NoDialog
      BY <1>2, <1>4, <2>3, <3>1, <3>2
    <3>3. CASE c.opens # NoDialog
      <4>1. ~ c.closes
        BY <1>1, <1>6, <3>3, PagesAssumption DEF Here
      <4> QED BY <1>2, <1>4, <2>3, <3>3, <4>1
    <3> QED BY <3>2, <3>3
  <2>15. place \in Nat /\ place <= Len(opened')
    BY <1>2, <2>6, <2>14
  <2>16. Proper(r)'
    <3>1. r.task = c.starts /\ r.step = k /\ r.asks = asks /\ r.from = place /\ r.at = 0 /\ r.got = 0
      BY <2>7 DEF Begin
    <3>2. Task(r.task)' = t
      BY <1>1, <2>1, <3>1 DEF Task
    <3>3. IsAwait(Task(r.task).steps[r.step])'
      BY <2>12, <3>1, <3>2 DEF IsAwait
    <3>4. r.asks \in [Loads' -> Nat] /\ \A l \in Loads' : r.asks[l] <= asked'[l]
      BY <1>3, <2>4, <3>1
    <3> QED BY <1>4, <2>15, <3>1, <3>3, <3>4 DEF Proper
  <2>17. \A i \in Slots : running'[i] # Idle => Proper(running[i])'
    BY <1>1, <1>2, <1>3, <1>4, <2>8, <2>16, SlotsAreProper
  <2> QED BY <1>1, <1>2, <1>3, <2>13, <2>17 DEF Typed
<1> QED BY <1>5, <1>6

-----------------------------------------------------------------------------

\* The types when the page is opened.
LEMMA InitTyped == Init => Typed
<1> SUFFICES ASSUME Init PROVE Typed
  OBVIOUS
<1>1. HandlersOK /\ page \in DOMAIN Pages
  BY InitLocks DEF LocksInv, HandlersOK
<1>2. PICK asks : asks = asked /\ asks = [l \in Loads |-> 0]
  BY DEF Init
<1>3. \A i \in Slots : running[i] # Idle => running[i] = Begin(Mount, 1, asks, 0, 0)
  BY <1>2 DEF Init
<1>4. Task(Mount).steps = <<Await(Pages[page].mounts)>>
  BY DEF Task, TaskOf, Reads, Handler
<1>5. IsAwait(Task(Mount).steps[1])
  BY <1>4 DEF IsAwait, Await
<1>6. Len(opened) = 0 /\ version = 0 /\ dialogs = {} /\ opened = <<>>
  BY DEF Init
<1>7. \A i \in Slots : running[i] # Idle => Proper(running[i])
  <2>1. PICK r : r = Begin(Mount, 1, asks, 0, 0)
    OBVIOUS
  <2>2. r.task = Mount /\ r.step = 1 /\ r.asks = asks /\ r.from = 0 /\ r.at = 0 /\ r.got = 0
    BY <2>1 DEF Begin
  <2>3. asks \in [Loads -> Nat] /\ \A l \in Loads : asks[l] <= asked[l]
    BY <1>2
  <2>4. Proper(r)
    BY <1>5, <1>6, <2>2, <2>3 DEF Proper
  <2> QED BY <1>3, <2>1, <2>4
<1>8. busy \subseteq Flags[page]
  <2>1. TaskOf(page, Mount).sets = Pages[page].initially
    BY DEF TaskOf, Reads, Handler
  <2>2. Mount \in Tasks(page)
    BY DEF Tasks
  <2>3. TaskOf(page, Mount).sets \subseteq Flags[page]
    BY <1>1, <2>2, FlagsAreThePages
  <2> QED BY <2>1, <2>3 DEF Init
<1>9. DialogsOK
  BY <1>6, BoundsAssumption DEF DialogsOK
<1>10. ListsOK
  BY DEF Init, ListsOK
<1> QED BY <1>1, <1>7, <1>8, <1>9, <1>10 DEF Typed

\* Every step keeps the types.
LEMMA NextTyped == Typed /\ LocksInv /\ [Next]_vars => (Typed /\ LocksInv)'
<1> SUFFICES ASSUME Typed, LocksInv, [Next]_vars PROVE Typed' /\ LocksInv'
  OBVIOUS
<1>1. LocksInv' /\ HandlersOK'
  BY NextLocks DEF LocksInv
<1>2. CASE \E c \in Here.controls : Click(c)
  BY <1>1, <1>2, ClickTyped, Zenon
<1>3. CASE \E i \in Slots : Goes(i)
  BY <1>1, <1>3, GoesTyped, Zenon
<1>4. CASE UNCHANGED vars
  <2>1. /\ page' = page /\ busy' = busy /\ running' = running /\ opened' = opened
        /\ dialogs' = dialogs /\ asked' = asked /\ shown' = shown /\ due' = due
        /\ version' = version
    BY <1>4 DEF vars
  <2>2. DialogsOK' /\ ListsOK' /\ \A i \in Slots : running[i]' # Idle => Proper(running[i])'
    BY <2>1, Zenon DEF Typed, DialogsOK, Names, ControlNames, LoadNames, StepNames, ListsOK, Proper, Task, Loads, Here, IsAwait
  <2> QED BY <1>1, <2>1, <2>2 DEF Typed
<1> QED BY <1>1, <1>2, <1>3, <1>4, Zenon DEF Next

\* What a failed read leaves as it was is what the page keeps then.
KeptOK == \A l \in kept : Here.loads[l].keeps

\* A page opens with nothing kept.
LEMMA InitKept == Init => KeptOK
BY DEF Init, KeptOK

\* A step leaves more so only there.
OnlyKeeps == page' = page /\ \A l \in kept' : l \in kept \/ Here.loads[l].keeps

\* So the exemption never grows beyond the pages that have it.
LEMMA NextKept == KeptOK /\ [Next]_vars => KeptOK'
<1> SUFFICES ASSUME KeptOK, [Next]_vars PROVE KeptOK'
  OBVIOUS
<1>1. ASSUME \E c \in Here.controls : Click(c) PROVE OnlyKeeps
  <2>1. PICK c \in Here.controls : Click(c)
    BY <1>1
  <2>2. page' = page /\ kept' = (IF c.copies = NoList THEN kept ELSE kept \ c.asks) \ c.blanks
    BY <2>1 DEF Click, Asking
  <2>3. kept' \subseteq kept
    BY <2>2
  <2> QED BY <2>2, <2>3 DEF OnlyKeeps
<1>2. ASSUME \E i \in Slots : Goes(i) PROVE OnlyKeeps
  <2>1. PICK i \in Slots : Goes(i)
    BY <1>2
  <2>2. ASSUME page' = page, \E missing, put : Fails(missing, put) PROVE OnlyKeeps
    BY <2>2 DEF Fails, OnlyKeeps
  <2>3. ASSUME page' = page, \E ls : Succeeds(ls) PROVE OnlyKeeps
    BY <2>3 DEF Succeeds, OnlyKeeps
  <2>4. ASSUME page' = page, kept' = kept PROVE OnlyKeeps
    BY <2>4 DEF OnlyKeeps
  <2>5. page' = page
    BY <2>1, Zenon DEF Goes, Serve, CallAnswered, CallRefused, CallLost, TimerFires, ReadAnswered,
                      ReadFailed
  <2>6. Serve(i) \/ CallRefused(i) \/ CallLost(i) \/ TimerFires(i) => kept' = kept
    BY DEF Serve, CallRefused, CallLost, TimerFires
  <2>7. CallAnswered(i) \/ ReadAnswered(i) => \E ls : Succeeds(ls)
    BY Zenon DEF CallAnswered, ReadAnswered
  <2>8. ReadFailed(i) => \E missing, put : Fails(missing, put)
    BY Zenon DEF ReadFailed
  <2> QED BY <2>1, <2>2, <2>3, <2>4, <2>5, <2>6, <2>7, <2>8, Zenon DEF Goes
<1>3. ASSUME UNCHANGED vars PROVE OnlyKeeps
  BY <1>3 DEF vars, OnlyKeeps
<1>4. OnlyKeeps
  BY <1>1, <1>2, <1>3, Zenon DEF Next
<1> QED BY <1>4 DEF KeptOK, OnlyKeeps, Here

\* The types of the proof imply those that TLC checks.
LEMMA TypedIsTypeOK == Typed /\ KeptOK => TypeOK
<1> SUFFICES ASSUME Typed, KeptOK PROVE TypeOK
  OBVIOUS
<1>1. /\ page \in DOMAIN Pages
      /\ \A i \in Slots : running[i] # Idle =>
           /\ running[i].task \in Tasks(page)
           /\ running[i].step \in 1..Len(Task(running[i].task).steps)
  BY DEF Typed, HandlersOK
<1>2. \A i \in Slots : running[i] # Idle => IsAwait(At(i)) /\ running[i].at <= version
  BY DEF Typed, Proper, At
<1> QED BY <1>1, <1>2 DEF TypeOK, Typed, DialogsOK, ListsOK, KeptOK

\* On any page, whatever the user does, handlers under way are handlers of the
\* page at awaits of theirs, open dialogs were opened, only flags of the page are
\* set, no list shows, or is due to show, more than the server has, and a failed
\* read leaves rows as they were only on the pages that keep them.
THEOREM ScreensTypeOK == Spec => []TypeOK
<1>1. Init /\ [][Next]_vars => [](Typed /\ LocksInv /\ KeptOK)
  BY InitTyped, InitLocks, InitKept, NextTyped, NextKept, PTL
<1> QED BY <1>1, TypedIsTypeOK, PTL DEF Spec

-----------------------------------------------------------------------------
(* No flag is left behind. *)

\* The handler in the slot is bound to clear the flag: by what it does next, or
\* at its end, if the dialog it keeps its flags in was there all the time.
Owes(s, r, f) ==
    LET t == Task(r.task)
    IN \/ /\ f \in t.frees /\ r.step < Unawaited(t)
          /\ t.local => r.from \in dialogs /\ s \notin unmounted
       \/ \E l \in ReadAt(t, r.step) : /\ f \in Here.loads[l].clears
                                       /\ Here.loads[l].guarded => r.asks[l] = asked[l]
       \/ /\ t.steps[r.step].op = "pause"
          /\ f \in Named(t, "free", r.step, NextAwait(t, r.step, TRUE))

\* A handler with flags in a dialog was started from a control of that dialog.
AtHome(r) ==
    Task(r.task).local =>
        /\ r.from \in 1..Len(opened)
        /\ \E c \in LocalIn(page, {opened[r.from]}) : c.starts = r.task

\* A handler whose dialog is replaced by a skeleton loses its flags with others.
Withins == {c.within : c \in Here.controls}
TakenAway(s, names) == s \in unmounted' => s \in unmounted \/ Withins \subseteq names

FlagsOwed ==
    /\ \A i \in Slots : running[i] # Idle => AtHome(running[i])
    /\ \A f \in busy : \E i \in Slots : running[i] # Idle /\ Owes(i, running[i], f)

\* Dialogs that close take the flags of the handlers at home in them.
LEMMA LocalFlagsGo ==
    ASSUME HandlersOK, NEW r, r.task \in Tasks(page), AtHome(r), Task(r.task).local,
           NEW names, opened[r.from] \in names
    PROVE  Task(r.task).frees \subseteq LocalFlags(names) /\ LocalIn(page, names) # {}
<1>1. PICK c \in LocalIn(page, {opened[r.from]}) : c.starts = r.task
  BY DEF AtHome
<1>2. c \in LocalIn(page, names)
  BY <1>1 DEF LocalIn
<1>3. r.task # Mount
  BY DEF Task, TaskOf, Reads, Handler
<1>4. Task(r.task) = Here.tasks[c.starts]
  BY <1>1, <1>3 DEF Task, TaskOf, Here
<1>5. Task(r.task).frees \subseteq Task(r.task).sets
  BY ClearedAssumption DEF HandlersOK, Task
<1>6. Here.tasks[c.starts].sets \subseteq LocalFlags(names)
  BY <1>2, Zenon DEF LocalFlags
<1> QED BY <1>2, <1>4, <1>5, <1>6

\* A handler with flags in a dialog was started in a dialog of the page.
LEMMA WithinHome ==
    ASSUME NEW r, AtHome(r), Task(r.task).local
    PROVE  opened[r.from] \in Withins
<1>1. PICK c \in LocalIn(page, {opened[r.from]}) : c.starts = r.task
  BY DEF AtHome
<1>2. c \in Here.controls /\ c.within = opened[r.from]
  BY <1>1 DEF LocalIn, Here
<1> QED BY <1>2 DEF Withins

\* A handler still owes what it owed, unless its dialog took the flag along or
\* the question was asked anew.
LEMMA StillOwes ==
    ASSUME HandlersOK, page' = page, NEW r, r.task \in Tasks(page), AtHome(r),
           NEW s, NEW f, Owes(s, r, f), NEW names,
           \A n \in dialogs \ dialogs' : opened[n] \in names,
           TakenAway(s, names), f \notin LocalFlags(names)
    PROVE  \/ Owes(s, r, f)'
           \/ \E l \in ReadAt(Task(r.task), r.step) : /\ f \in Here.loads[l].clears
                                                      /\ Here.loads[l].guarded
                                                      /\ asked'[l] # asked[l]
<1>1. PICK t : t = Task(r.task)
  OBVIOUS
<1>2. Task(r.task)' = t /\ Here' = Here
  BY <1>1 DEF Task, Here
<1>3. CASE /\ f \in t.frees /\ r.step < Unawaited(t)
           /\ t.local => r.from \in dialogs /\ s \notin unmounted
  <2>1. t.local => opened[r.from] \notin names
    BY <1>1, <1>3, LocalFlagsGo
  <2>2. t.local => opened[r.from] \in Withins
    BY <1>1, WithinHome
  <2>3. t.local => r.from \in dialogs' /\ s \notin unmounted'
    BY <1>3, <2>1, <2>2 DEF TakenAway
  <2> QED BY <1>2, <1>3, <2>3 DEF Owes
<1>4. CASE \E l \in ReadAt(t, r.step) : /\ f \in Here.loads[l].clears
                                        /\ Here.loads[l].guarded => r.asks[l] = asked[l]
  <2>1. PICK l \in ReadAt(t, r.step) : /\ f \in Here.loads[l].clears
                                       /\ Here.loads[l].guarded => r.asks[l] = asked[l]
    BY <1>4
  <2>2. CASE Here.loads[l].guarded => r.asks[l] = asked'[l]
    BY <1>2, <2>1, <2>2 DEF Owes
  <2>3. CASE Here.loads[l].guarded /\ asked'[l] # asked[l]
    BY <1>1, <2>1, <2>3
  <2> QED BY <2>1, <2>2, <2>3
<1>5. CASE /\ t.steps[r.step].op = "pause"
           /\ f \in Named(t, "free", r.step, NextAwait(t, r.step, TRUE))
  BY <1>2, <1>5 DEF Owes
<1> QED BY <1>1, <1>3, <1>4, <1>5 DEF Owes

\* A handler stays at home when dialogs are opened after its own.
LEMMA StillAtHome ==
    ASSUME DialogsOK, page' = page, Len(opened') \in Nat, Len(opened) <= Len(opened'),
           \A m \in 1..Len(opened) : opened'[m] = opened[m],
           NEW r, AtHome(r)
    PROVE  AtHome(r)'
<1>1. Task(r.task)' = Task(r.task)
  BY DEF Task
<1>2. CASE Task(r.task).local
  <2>1. Len(opened) \in Nat
    BY DEF DialogsOK
  <2>2. r.from \in 1..Len(opened) /\ opened'[r.from] = opened[r.from] /\ r.from \in 1..Len(opened')
    BY <1>2, <2>1 DEF AtHome
  <2>3. \E c \in LocalIn(page', {opened'[r.from]}) : c.starts = r.task
    BY <1>2, <2>2 DEF AtHome
  <2> QED BY <2>2, <2>3 DEF AtHome
<1>3. CASE ~ Task(r.task).local
  BY <1>1, <1>3 DEF AtHome
<1> QED BY <1>2, <1>3

\* The other handlers, when the one in slot s takes a step.
LEMMA OthersOwe ==
    ASSUME HandlersOK, DialogsOK, FlagsOwed, page' = page, NEW s \in Slots,
           \A i \in Slots : i # s => running'[i] = running[i],
           Len(opened') \in Nat, Len(opened) <= Len(opened'),
           \A m \in 1..Len(opened) : opened'[m] = opened[m],
           asked' = asked, NEW names,
           \A n \in dialogs \ dialogs' : opened[n] \in names,
           \A i \in Slots : i # s => TakenAway(i, names),
           running'[s] # Idle => AtHome(running[s])',
           \A f \in busy' : \/ /\ f \in busy /\ f \notin LocalFlags(names)
                               /\ running[s] = Idle \/ ~ Owes(s, running[s], f)
                            \/ running'[s] # Idle /\ Owes(s, running[s], f)'
    PROVE  FlagsOwed'
<1>1. ASSUME NEW i \in Slots, running'[i] # Idle PROVE AtHome(running[i])'
  <2>1. CASE i = s
    BY <1>1, <2>1
  <2>2. CASE i # s
    <3>1. PICK r : r = running[i] /\ r = running'[i]
      BY <2>2
    <3>2. AtHome(r)
      BY <1>1, <3>1 DEF FlagsOwed
    <3>3. AtHome(r)'
      BY <3>2, StillAtHome
    <3> QED BY <3>1, <3>3
  <2> QED BY <2>1, <2>2
<1>2. ASSUME NEW f \in busy' PROVE \E i \in Slots : running'[i] # Idle /\ Owes(i, running[i], f)'
  <2>2. CASE running'[s] # Idle /\ Owes(s, running[s], f)'
    BY <2>2
  <2>3. CASE f \notin LocalFlags(names) /\ f \in busy /\ (running[s] = Idle \/ ~ Owes(s, running[s], f))
    <3>1. PICK i \in Slots : running[i] # Idle /\ Owes(i, running[i], f)
      BY <2>3 DEF FlagsOwed
    <3>2. i # s
      BY <2>3, <3>1
    <3>3. PICK r : r = running[i] /\ r = running'[i]
      BY <3>2
    <3>4. r.task \in Tasks(page) /\ AtHome(r) /\ Owes(i, r, f) /\ TakenAway(i, names)
      BY <3>1, <3>2, <3>3 DEF HandlersOK, FlagsOwed
    <3>5. Owes(i, r, f)'
      BY <2>3, <3>4, StillOwes
    <3> QED BY <3>1, <3>3, <3>5
  <2> QED BY <2>2, <2>3
<1> QED BY <1>1, <1>2 DEF FlagsOwed

\* A handler never waits before the await it reaches first.
LEMMA FirstIsFirst ==
    ASSUME NEW t, Len(t.steps) \in Nat, NEW j \in 1..Len(t.steps), IsAwait(t.steps[j])
    PROVE  First(t) \in 1..Len(t.steps) /\ First(t) <= j /\ IsAwait(t.steps[First(t)])
<1>1. PICK k : k = NextAwait(t, 0, TRUE)
  OBVIOUS
<1>2. 0 \in 0..Len(t.steps)
  OBVIOUS
<1>3. /\ k \in (0 + 1)..(Len(t.steps) + 1)
      /\ k <= Len(t.steps) => IsAwait(t.steps[k])
      /\ \A m \in (0 + 1)..(k - 1) : ~ (IsAwait(t.steps[m]) /\ (TRUE \/ t.steps[m].op # "then"))
  BY <1>1, <1>2, NextAwaitIsNext, Zenon
<1>4. \A m \in (0 + 1)..(k - 1) : ~ IsAwait(t.steps[m])
  BY <1>3
<1>5. ~ (j \in (0 + 1)..(k - 1))
  BY <1>4, Zenon
<1>6. k \in 1..Len(t.steps) /\ k <= j
  BY <1>3, <1>5
<1>7. IsAwait(t.steps[k])
  BY <1>3, <1>6
<1> QED BY <1>1, <1>6, <1>7 DEF First

\* What ClearedAssumption says of one handler.
LEMMA HandlersClear ==
    ASSUME NEW p \in DOMAIN Pages, NEW n \in Tasks(p), NEW t, t = TaskOf(p, n)
    PROVE  /\ \A f \in t.sets \cup SetAt(p, t, First(t)) :
                  f \in FreedAt(t, 0, First(t)) \/ Clearing(p, t, First(t), f)
           /\ \A j \in Steps(t), fine \in BOOLEAN : IsAwait(t.steps[j]) =>
                  \A f \in SetAt(p, t, NextAwait(t, j, fine)) :
                      Clearing(p, t, NextAwait(t, j, fine), f)
           /\ t.local => \A f \in t.frees : /\ f \in t.sets
                                            /\ \A k \in Steps(t) : f \notin SetAt(p, t, k)
           /\ LocalIn(p, t.quits) = {}
<1>1. LET x == TaskOf(p, n)
      IN /\ \A f \in x.sets \cup SetAt(p, x, First(x)) :
               f \in FreedAt(x, 0, First(x)) \/ Clearing(p, x, First(x), f)
         /\ \A j \in Steps(x), fine \in BOOLEAN : IsAwait(x.steps[j]) =>
               \A f \in SetAt(p, x, NextAwait(x, j, fine)) :
                   Clearing(p, x, NextAwait(x, j, fine), f)
         /\ x.local => x.frees \subseteq x.sets \ UNION {SetAt(p, x, k) : k \in Steps(x)}
         /\ LocalIn(p, x.quits) = {}
  BY ClearedAssumption, Zenon
<1>2. ASSUME NEW f \in t.frees, t.local, NEW k \in Steps(t) PROVE f \notin SetAt(p, t, k)
  <2>1. f \notin UNION {SetAt(p, t, m) : m \in Steps(t)}
    BY <1>1, <1>2
  <2> QED BY <2>1
<1>3. t.local => t.frees \subseteq t.sets
  BY <1>1
<1> QED BY <1>1, <1>2, <1>3

\* A handler that goes on clears what it owed, or owes it still, and owes what
\* it sets on its way.
LEMMA ContinueOwed ==
    ASSUME Typed, FlagsOwed, HandlersOK', page' = page, asked' = asked,
           NEW s \in Slots, running[s] # Idle,
           NEW cleared, NEW answers, NEW fine \in BOOLEAN,
           Continue(s, cleared, answers, fine),
           At(s).op = "pause" => fine,
           \A l \in ReadAt(Task(running[s].task), running[s].step) :
               (Here.loads[l].guarded => running[s].asks[l] = asked[l])
               => Here.loads[l].clears \subseteq cleared
    PROVE  FlagsOwed'
<1>1. HandlersOK /\ DialogsOK /\ Len(opened) \in Nat /\ page \in DOMAIN Pages
  BY DEF Typed, DialogsOK, HandlersOK
<1>2. PICK was, t, j, k : was = running[s] /\ Going(s, t, j, k, fine)
  BY DEF Going
<1>3. /\ t = TaskOf(page, was.task) /\ was.task \in Tasks(page)
      /\ t = Task(was.task) /\ j = was.step /\ k = NextAwait(t, j, fine)
      /\ Len(t.steps) \in Nat /\ j \in 1..Len(t.steps)
      /\ k \in (j + 1)..(Len(t.steps) + 1)
  BY <1>1, <1>2, HandlerGoes DEF Going
<1>4. /\ Len(opened') \in Nat /\ Len(opened) <= Len(opened')
      /\ \A m \in 1..Len(opened) : opened'[m] = opened[m]
  BY ContinueDialogs
<1>5. PICK names : names = Named(t, "close", j, k) \cup Replaced(t, k)
  OBVIOUS
<1>6. PICK r : /\ running' = [running EXCEPT ![s] = r]
               /\ r # Idle => k <= Len(t.steps)
               /\ k <= Len(t.steps) =>
                     /\ r.task = was.task /\ r.step = k /\ r.asks = was.asks
                     /\ r.from = was.from /\ r # Idle
  <2>1. \E x : /\ running' = [running EXCEPT ![s] = x]
               /\ k > Len(t.steps) => x = Idle
               /\ x # Idle => k <= Len(t.steps)
               /\ k <= Len(t.steps) =>
                     /\ x.task = running[s].task /\ x.step = k
                     /\ x.asks = running[s].asks /\ x.from = running[s].from
                     /\ x.served = FALSE /\ x.at = 0 /\ x.got = Got(s)
                     /\ x # Idle
    BY <1>1, <1>2, ContinueSlot, Zenon
  <2> QED BY <1>2, <2>1
<1>7. running'[s] = r /\ \A i \in Slots : i # s => running'[i] = running[i]
  BY <1>1, <1>6, OthersHold
<1>8. \A n \in dialogs \ dialogs' : opened[n] \in names
  BY <1>2, <1>3, <1>5 DEF Continue, Without
<1>9. busy' = ((busy \ (cleared \cup LocalFlags(names) \cup Named(t, "free", j, k)))
                  \cup SetAt(page, t, k)) \ Freed(s, FreedAt(t, j, k))
  BY <1>2, <1>3, <1>5, Zenon DEF Continue
<1>18. \A i : TakenAway(i, names)
  <2>1. Unmounts(t, k)
    BY <1>2, <1>3, Zenon DEF Continue
  <2>2. unmounted' # unmounted => Withins \subseteq names
    BY <1>5, <2>1 DEF Unmounts, Replaced, Withins
  <2> QED BY <2>2 DEF TakenAway
<1>10. Task(was.task)' = t /\ Here' = Here
  BY <1>3 DEF Task, Here
<1>11. Unawaited(t) \in Nat /\ Unawaited(t) <= Len(t.steps) + 1
  BY <1>1, <1>3, TasksAreProper, UnawaitedIsNumber
<1>12. AtHome(was)
  BY <1>2 DEF FlagsOwed
<1>13. ASSUME r # Idle PROVE AtHome(r)'
  <2>1. r.task = was.task /\ r.from = was.from
    BY <1>6, <1>13
  <2>2. AtHome(was)'
    BY <1>1, <1>4, <1>12, StillAtHome
  <2> QED BY <2>1, <2>2 DEF AtHome
<1>14. ASSUME NEW f \in SetAt(page, t, k)
       PROVE  r # Idle /\ Owes(s, r, f)'
  <2>1. Clearing(page, t, k, f)
    <3>1. IsAwait(t.steps[j])
      BY <1>2, <1>3 DEF Typed, Proper
    <3>2. j \in Steps(t)
      BY <1>3 DEF Steps
    <3> QED BY <1>1, <1>3, <3>1, <3>2, HandlersClear, Zenon
  <2>2. k <= Len(t.steps)
    <3>1. k > Len(t.steps) => SetAt(page, t, k) = {}
      BY <1>3 DEF SetAt, ReadAt, Sets
    <3> QED BY <1>3, <3>1
  <2>3. r # Idle /\ r.task = was.task /\ r.step = k
    BY <1>6, <2>2
  <2>4. k \in Steps(t)
    BY <1>3, <2>2 DEF Steps
  <2>5. t.local => f \notin t.frees
    BY <1>1, <1>3, <2>4, HandlersClear
  <2>6. First(t) <= j
    <3>1. IsAwait(t.steps[j])
      BY <1>2, <1>3 DEF Typed, Proper
    <3> QED BY <1>3, <3>1, FirstIsFirst
  <2>7. \/ \E l \in ReadAt(t, k) : f \in Here.loads[l].clears /\ (Here.loads[l].guarded => r.asks[l] = asked[l])
        \/ f \in t.frees /\ k < Unawaited(t)
        \/ t.steps[k].op = "pause" /\ f \in Named(t, "free", k, NextAwait(t, k, TRUE))
    <3>1. k # First(t)
      BY <1>3, <2>6
    <3>2. page \in DOMAIN Pages /\ Here = Pages[page]
      BY <1>1 DEF Here
    <3>3. \/ f \in t.frees /\ k < Unawaited(t)
          \/ \E l \in ReadAt(t, k) : /\ f \in Pages[page].loads[l].clears
                                     /\ Pages[page].loads[l].guarded => k = First(t)
          \/ t.steps[k].op = "pause" /\ f \in Named(t, "free", k, NextAwait(t, k, TRUE))
      BY <2>1, Zenon DEF Clearing
    <3>4. CASE \E l \in ReadAt(t, k) : /\ f \in Pages[page].loads[l].clears
                                       /\ Pages[page].loads[l].guarded => k = First(t)
      <4>1. PICK l \in ReadAt(t, k) : /\ f \in Pages[page].loads[l].clears
                                      /\ Pages[page].loads[l].guarded => k = First(t)
        BY <3>4
      <4>2. f \in Here.loads[l].clears /\ (Here.loads[l].guarded => r.asks[l] = asked[l])
        BY <3>1, <4>1 DEF Here
      <4> QED BY <4>2
    <3> QED BY <3>3, <3>4, Zenon
  <2> QED BY <1>10, <2>3, <2>5, <2>7 DEF Owes
<1>15. ASSUME NEW f \in busy', f \notin SetAt(page, t, k)
       PROVE  \/ /\ f \in busy /\ f \notin LocalFlags(names)
                 /\ running[s] = Idle \/ ~ Owes(s, running[s], f)
              \/ r # Idle /\ Owes(s, r, f)'
  <2>1. /\ f \in busy /\ f \notin cleared /\ f \notin LocalFlags(names)
        /\ f \notin Named(t, "free", j, k) /\ f \notin Freed(s, FreedAt(t, j, k))
    BY <1>9, <1>15
  <2>2. CASE /\ f \in t.frees /\ j < Unawaited(t)
             /\ t.local => was.from \in dialogs /\ s \notin unmounted
    <3>1. f \notin FreedAt(t, j, k)
      BY <1>2, <1>3, <2>1, <2>2 DEF Freed
    <3>2. k < Unawaited(t)
      BY <1>3, <1>11, <2>2, <3>1 DEF FreedAt
    <3>3. k <= Len(t.steps)
      BY <1>3, <1>11, <3>2
    <3>4. r # Idle /\ r.task = was.task /\ r.step = k /\ r.from = was.from
      BY <1>6, <3>3
    <3>6. t.local => opened[was.from] \notin names /\ opened[was.from] \in Withins
      BY <1>1, <1>3, <1>12, <2>1, <2>2, LocalFlagsGo, WithinHome
    <3>5. t.local => was.from \in dialogs' /\ s \notin unmounted'
      BY <1>8, <1>18, <2>2, <3>6 DEF TakenAway
    <3> QED BY <1>10, <2>2, <3>2, <3>4, <3>5 DEF Owes
  <2>3. ASSUME NEW l \in ReadAt(t, j)
        PROVE  ~ (/\ f \in Here.loads[l].clears
                  /\ Here.loads[l].guarded => was.asks[l] = asked[l])
    BY <1>2, <1>3, <2>1
  <2>4. ~ (t.steps[j].op = "pause" /\ f \in Named(t, "free", j, NextAwait(t, j, TRUE)))
    BY <1>2, <1>3, <2>1 DEF At
  <2> QED BY <1>2, <1>3, <2>1, <2>2, <2>3, <2>4 DEF Owes
<1>16. ASSUME NEW f \in busy'
       PROVE  \/ /\ f \in busy /\ f \notin LocalFlags(names)
                 /\ running[s] = Idle \/ ~ Owes(s, running[s], f)
              \/ running'[s] # Idle /\ Owes(s, running[s], f)'
  <2>1. CASE r # Idle /\ Owes(s, r, f)'
    BY <1>7, <2>1
  <2>2. CASE ~ (r # Idle /\ Owes(s, r, f)')
    BY <1>14, <1>15, <2>2
  <2> QED BY <2>1, <2>2
<1>17. running'[s] # Idle => AtHome(running[s])'
  <2>1. CASE r # Idle
    BY <1>7, <1>13, <2>1
  <2> QED BY <1>7, <2>1
<1> QED BY <1>1, <1>4, <1>7, <1>8, <1>16, <1>17, <1>18, OthersOwe

\* The server's part leaves the handler what it owes.
LEMMA ServeOwed ==
    ASSUME Typed, FlagsOwed, HandlersOK', NEW s \in Slots, Serve(s)
    PROVE  FlagsOwed'
<1>1. /\ page' = page /\ busy' = busy /\ opened' = opened /\ dialogs' = dialogs
      /\ asked' = asked /\ running[s] # Idle
      /\ HandlersOK /\ DialogsOK /\ Len(opened) \in Nat
  BY DEF Serve, Suspended, Typed, DialogsOK
<1>2. PICK was, v : was = running[s] /\ v = version'
  OBVIOUS
<1>3. PICK r : r = Served(was, v)
  OBVIOUS
<1>4. running' = [running EXCEPT ![s] = r]
  BY <1>2, <1>3 DEF Serve
<1>5. was.task \in Tasks(page) /\ AtHome(was) /\ was.task # NoTask
  BY <1>1, <1>2, TasksAreProper DEF HandlersOK, FlagsOwed
<1>6. r.task = was.task /\ r.step = was.step /\ r.asks = was.asks /\ r.from = was.from /\ r # Idle
  BY <1>3, <1>5 DEF Served, Idle
<1>7. running'[s] = r /\ \A i \in Slots : i # s => running'[i] = running[i]
  BY <1>1, <1>4, OthersHold
<1>8. AtHome(was)'
  BY <1>1, <1>5, StillAtHome
<1>9. AtHome(r)'
  BY <1>6, <1>8 DEF AtHome
<1>13. \A i : TakenAway(i, {})
  BY DEF Serve, TakenAway
<1>10. LocalFlags({}) = {}
  BY DEF LocalFlags, LocalIn
<1>11. ASSUME NEW f \in busy'
       PROVE  \/ /\ f \in busy /\ f \notin LocalFlags({})
                 /\ running[s] = Idle \/ ~ Owes(s, running[s], f)
              \/ running'[s] # Idle /\ Owes(s, running[s], f)'
  <2>1. CASE ~ Owes(s, running[s], f)
    BY <1>1, <1>10, <1>11, <2>1
  <2>2. CASE Owes(s, running[s], f)
    <3>1. Owes(s, was, f)
      BY <1>2, <2>2
    <3>2. Owes(s, was, f)'
      BY <1>1, <1>5, <1>10, <1>13, <3>1, StillOwes
    <3>3. Owes(s, r, f)'
      BY <1>6, <3>2 DEF Owes
    <3> QED BY <1>6, <1>7, <3>3
  <2> QED BY <2>1, <2>2
<1>12. running'[s] # Idle => AtHome(running[s])'
  BY <1>7, <1>9
<1> QED BY <1>1, <1>7, <1>11, <1>12, <1>13, OthersOwe

\* A handler that ends in its catch has cleared what it owed.
LEMMA AbortOwed ==
    ASSUME Typed, FlagsOwed, HandlersOK', page' = page, asked' = asked,
           NEW s \in Slots, running[s] # Idle, NEW cleared, Abort(s, cleared),
           At(s).op # "pause",
           \A l \in ReadAt(Task(running[s].task), running[s].step) :
               (Here.loads[l].guarded => running[s].asks[l] = asked[l])
               => Here.loads[l].clears \subseteq cleared
    PROVE  FlagsOwed'
<1>1. HandlersOK /\ DialogsOK /\ Len(opened) \in Nat /\ page \in DOMAIN Pages
  BY DEF Typed, DialogsOK, HandlersOK
<1>2. PICK was, t : was = running[s] /\ t = Task(was.task)
  OBVIOUS
<1>3. was.task \in Tasks(page) /\ t = TaskOf(page, was.task) /\ was.step \in 1..Len(t.steps)
  BY <1>1, <1>2 DEF HandlersOK, Task
<1>4. /\ running' = [running EXCEPT ![s] = Idle] /\ opened' = opened
      /\ dialogs' = Without(t.quits)
      /\ busy' = (busy \ cleared) \ Freed(s, FreedAt(t, was.step, Len(t.steps) + 1))
  BY <1>2, Zenon DEF Abort
<1>5. running'[s] = Idle /\ \A i \in Slots : i # s => running'[i] = running[i]
  BY <1>1, <1>4, OthersHold
<1>6. \A n \in dialogs \ dialogs' : opened[n] \in t.quits
  BY <1>4 DEF Without
<1>7. LocalFlags(t.quits) = {}
  BY <1>1, <1>3, HandlersClear DEF LocalFlags
<1>8. Unawaited(t) \in Nat /\ Unawaited(t) <= Len(t.steps) + 1
  BY <1>1, <1>3, TasksAreProper, UnawaitedIsNumber
<1>9. ASSUME NEW f \in busy'
      PROVE  f \in busy /\ f \notin LocalFlags(t.quits) /\ ~ Owes(s, running[s], f)
  <2>1. f \in busy /\ f \notin cleared /\ f \notin Freed(s, FreedAt(t, was.step, Len(t.steps) + 1))
    BY <1>4, <1>9
  <2>2. ~ (/\ f \in t.frees /\ was.step < Unawaited(t)
           /\ t.local => was.from \in dialogs /\ s \notin unmounted)
    BY <1>2, <1>8, <2>1 DEF Freed, FreedAt
  <2>3. ASSUME NEW l \in ReadAt(t, was.step)
        PROVE  ~ (/\ f \in Here.loads[l].clears
                  /\ Here.loads[l].guarded => was.asks[l] = asked[l])
    BY <1>2, <2>1
  <2>4. t.steps[was.step].op # "pause"
    BY <1>2 DEF At
  <2>5. ~ Owes(s, was, f)
    BY <1>2, <2>2, <2>3, <2>4 DEF Owes
  <2> QED BY <1>2, <1>7, <2>1, <2>5
<1>10. \A i : TakenAway(i, t.quits)
  BY DEF Abort, TakenAway
<1> QED BY <1>1, <1>4, <1>5, <1>6, <1>9, <1>10, OthersOwe

\* The loads whose answer is shown clear their flags.
LEMMA ShowingClears ==
    ASSUME HandlersOK, NEW s \in Slots, running[s] # Idle
    PROVE  /\ ~ At(s).op \in {"await", "then"}
              => ReadAt(Task(running[s].task), running[s].step) = {}
           /\ \A l \in ReadAt(Task(running[s].task), running[s].step) :
                 (Here.loads[l].guarded => running[s].asks[l] = asked[l])
                 => Here.loads[l].clears \subseteq Clears(page, Showing(s))
<1>1. ReadAt(Task(running[s].task), running[s].step)
        = IF At(s).op \in {"await", "then"} THEN At(s).on ELSE {}
  BY DEF HandlersOK, ReadAt, At
<1>2. ASSUME NEW l \in At(s).on, Here.loads[l].guarded => running[s].asks[l] = asked[l]
      PROVE  Here.loads[l].clears \subseteq Clears(page, Showing(s))
  <2>1. l \in Showing(s)
    BY <1>2 DEF Showing
  <2> QED BY <2>1 DEF Clears, Here
<1> QED BY <1>1, <1>2

\* Whatever a handler does, flags stay owed.
LEMMA GoesOwed ==
    ASSUME Typed, FlagsOwed, HandlersOK', NEW s \in Slots, Goes(s)
    PROVE  FlagsOwed'
<1>1. HandlersOK
  BY DEF Typed
<1> DEFINE NotRead == ReadAt(Task(running[s].task), running[s].step) = {}
<1>2. CASE Serve(s)
  BY <1>2, ServeOwed
<1>3. ASSUME Recovers(s), running[s] # Idle, page' = page, asked' = asked,
             At(s).op \in {"call", "try", "get"}
      PROVE  FlagsOwed'
  <2>1. NotRead /\ At(s).op # "pause"
    BY <1>1, <1>3, ShowingClears
  <2>2. CASE Continue(s, {}, {}, TRUE)
    BY <1>3, <2>1, <2>2, ContinueOwed
  <2>3. CASE Abort(s, {})
    BY <1>3, <2>1, <2>3, AbortOwed
  <2> QED BY <1>3, <2>2, <2>3, Zenon DEF Recovers
<1>4. CASE CallAnswered(s)
  <2>1. /\ running[s] # Idle /\ page' = page /\ asked' = asked
        /\ At(s).op \in {"call", "try", "get"} /\ Continue(s, {}, {}, TRUE)
    BY <1>4, Zenon DEF CallAnswered, Suspended
  <2>2. NotRead
    BY <1>1, <2>1, ShowingClears
  <2> QED BY <2>1, <2>2, ContinueOwed
<1>5. CASE CallRefused(s)
  <2>1. /\ running[s] # Idle /\ page' = page /\ asked' = asked
        /\ At(s).op \in {"call", "try", "get"} /\ Recovers(s)
    BY <1>5, Zenon DEF CallRefused, Suspended
  <2> QED BY <1>3, <2>1
<1>6. CASE CallLost(s)
  <2>1. /\ running[s] # Idle /\ page' = page /\ asked' = asked
        /\ At(s).op \in {"call", "try"} /\ Recovers(s)
    BY <1>6, Zenon DEF CallLost, Suspended
  <2>2. At(s).op \in {"call", "try", "get"}
    BY <2>1
  <2> QED BY <1>3, <2>1, <2>2
<1>7. CASE TimerFires(s)
  <2>1. /\ running[s] # Idle /\ page' = page /\ asked' = asked
        /\ At(s).op = "pause" /\ Continue(s, {}, {}, TRUE)
    BY <1>7 DEF TimerFires, Suspended
  <2>2. NotRead
    BY <1>1, <2>1, ShowingClears
  <2> QED BY <2>1, <2>2, ContinueOwed
<1>8. CASE ReadAnswered(s)
  <2>1. /\ running[s] # Idle /\ page' = page /\ asked' = asked
        /\ At(s).op \in {"await", "then"}
        /\ Continue(s, Clears(page, Showing(s)), Answers(s), TRUE)
    BY <1>8, Zenon DEF ReadAnswered, Suspended
  <2>2. At(s).op # "pause"
    BY <2>1
  <2> QED BY <1>1, <2>1, <2>2, ShowingClears, ContinueOwed
<1>9. CASE ReadFailed(s)
  <2>1. /\ running[s] # Idle /\ page' = page /\ asked' = asked
        /\ At(s).op \in {"await", "then"}
        /\ \/ Continue(s, Clears(page, Showing(s)), {}, FALSE)
           \/ Abort(s, Clears(page, Showing(s)))
    BY <1>9, Zenon DEF ReadFailed, Suspended
  <2>2. At(s).op # "pause"
    BY <2>1
  <2>3. CASE Continue(s, Clears(page, Showing(s)), {}, FALSE)
    BY <1>1, <2>1, <2>2, <2>3, ShowingClears, ContinueOwed
  <2>4. CASE Abort(s, Clears(page, Showing(s)))
    BY <1>1, <2>1, <2>2, <2>4, ShowingClears, AbortOwed
  <2> QED BY <2>1, <2>3, <2>4
<1> QED BY <1>2, <1>4, <1>5, <1>6, <1>7, <1>8, <1>9, Zenon DEF Goes

\* What ClearedAssumption says of one control.
LEMMA ControlsClear ==
    ASSUME HandlersOK, NEW c \in Here.controls
    PROVE  /\ c \in LocalIn(page, {c.within})
              => c.opens = NoDialog /\ ~ c.beside /\ c.within # OnPage
           /\ c.closes /\ c.starts # NoTask => LocalIn(page, {c.within}) = {}
           /\ \A l \in c.asks : Here.loads[l].guarded
                => /\ c.starts # NoTask
                   /\ l \in ReadAt(Task(c.starts), First(Task(c.starts)))
           /\ c.starts # NoTask => /\ c.starts \in Tasks(page)
                                   /\ Task(c.starts) = Here.tasks[c.starts]
BY PagesAssumption, ClearedAssumption DEF HandlersOK, Here, Task, Tasks, TaskOf

\* The user's actions: a control that closes a dialog takes its flags along.
LEMMA UseOwed ==
    ASSUME Typed, FlagsOwed, NEW c \in Here.controls, Click(c), c.starts = NoTask
    PROVE  FlagsOwed'
<1>1. /\ page' = page /\ Opening(c) /\ Asking(c) /\ running' = running
      /\ busy' = busy \ (IF c.closes THEN LocalFlags({c.within}) ELSE {})
      /\ HandlersOK /\ DialogsOK /\ ListsOK
  BY DEF Click, Typed
<1>2. /\ Len(opened') \in Nat /\ Len(opened) <= Len(opened')
      /\ \A m \in 1..Len(opened) : opened'[m] = opened[m]
  BY <1>1, OpeningDialogs
<1>3. \A l \in Loads : Here.loads[l].guarded => asked'[l] = asked[l]
  <2>1. \A l \in Loads : l \notin c.asks => asked'[l] = asked[l]
    BY <1>1 DEF Asking, ListsOK
  <2> QED BY <1>1, <2>1, ControlsClear
<1>4. PICK names : names = IF c.closes THEN {c.within} ELSE {}
  OBVIOUS
<1>5. \A n \in dialogs \ dialogs' : opened[n] \in names
  BY <1>1, <1>4 DEF Opening, Without
<1>6. LocalFlags({}) = {}
  BY DEF LocalFlags, LocalIn
<1>7. busy' = busy \ LocalFlags(names)
  BY <1>1, <1>4, <1>6
<1>8. ASSUME NEW i \in Slots, running'[i] # Idle PROVE AtHome(running[i])'
  <2>1. PICK r : r = running[i] /\ r = running'[i]
    BY <1>1
  <2>2. AtHome(r)
    BY <1>8, <2>1 DEF FlagsOwed
  <2>3. AtHome(r)'
    BY <1>1, <1>2, <2>2, StillAtHome
  <2> QED BY <2>1, <2>3
<1>9. ASSUME NEW f \in busy' PROVE \E i \in Slots : running'[i] # Idle /\ Owes(i, running[i], f)'
  <2>1. PICK i \in Slots : running[i] # Idle /\ Owes(i, running[i], f)
    BY <1>7, <1>9 DEF FlagsOwed
  <2>2. PICK r : r = running[i] /\ r = running'[i]
    BY <1>1
  <2>3. r.task \in Tasks(page) /\ AtHome(r) /\ Owes(i, r, f) /\ r.step \in 1..Len(Task(r.task).steps)
    BY <1>1, <2>1, <2>2 DEF HandlersOK, FlagsOwed
  <2>4. ReadAt(Task(r.task), r.step) \subseteq Loads
    BY <1>1, <2>3, TasksAreProper DEF HandlersOK, Task, ReadAt, Loads, Here
  <2>5. f \notin LocalFlags(names)
    BY <1>7, <1>9
  <2>7. TakenAway(i, names)
    BY DEF Click, TakenAway
  <2>6. Owes(i, r, f)'
    BY <2>7, <1>1, <1>3, <1>5, <2>3, <2>4, <2>5, StillOwes
  <2> QED BY <2>1, <2>2, <2>6
<1> QED BY <1>8, <1>9 DEF FlagsOwed

\* A handler that starts owes what it sets, and the flags of the reads that its
\* control asks anew.
LEMMA StartOwed ==
    ASSUME Typed, FlagsOwed, HandlersOK', NEW c \in Here.controls, Click(c), c.starts # NoTask
    PROVE  FlagsOwed'
<1>1. /\ page' = page /\ Opening(c) /\ Asking(c) /\ InFront(c)
      /\ HandlersOK /\ DialogsOK /\ ListsOK /\ page \in DOMAIN Pages
  BY DEF Click, Typed, HandlersOK, Usable
<1>2. /\ Len(opened') \in Nat /\ Len(opened) <= Len(opened') /\ Len(opened) \in Nat
      /\ c.opens = NoDialog => opened' = opened
      /\ \A m \in 1..Len(opened) : opened'[m] = opened[m]
  BY <1>1, OpeningDialogs DEF DialogsOK
<1>3. PICK t, k : t = Task(c.starts) /\ k = First(t)
  OBVIOUS
<1>4. PICK asks, from : /\ asks = asked'
                        /\ from = IF c.opens = NoDialog THEN Front ELSE Len(opened) + 1
  OBVIOUS
<1>5. PICK s \in Slots :
        /\ running[s] = Idle
        /\ running' = [running EXCEPT ![s] =
                          Begin(c.starts, k, asks, IF c.beside THEN 0 ELSE from, 0)]
        /\ busy' = ((busy \ (t.drops \cup LocalFlags(Replaced(t, k))))
                        \cup t.sets \cup SetAt(page, t, k)) \ FreedAt(t, 0, k)
        /\ unmounted' = (IF Hides(t, k)
                    THEN {j \in Slots : running[j] # Idle /\ Task(running[j].task).local}
                    ELSE unmounted) \ {s}
  BY <1>3, <1>4, Zenon DEF Click, Starting, Free, First
<1>6. PICK r : r = Begin(c.starts, k, asks, IF c.beside THEN 0 ELSE from, 0)
  OBVIOUS
<1>7. /\ c.starts \in Tasks(page) /\ t = TaskOf(page, c.starts) /\ t = Here.tasks[c.starts]
      /\ c.starts # NoTask
  BY <1>1, <1>3, ControlsClear DEF Task
<1>8. /\ r.task = c.starts /\ r.step = k /\ r.asks = asks /\ r # Idle
      /\ ~ c.beside => r.from = from
  BY <1>6, <1>7 DEF Begin, Idle
<1>9. running'[s] = r /\ \A i \in Slots : i # s => running'[i] = running[i]
  BY <1>1, <1>5, <1>6, OthersHold
<1>10. /\ Len(t.steps) \in Nat /\ \E m \in 1..Len(t.steps) : IsAwait(t.steps[m])
  BY <1>1, <1>7, TasksAreProper
<1>11. k \in 1..Len(t.steps) /\ k \in Steps(t)
  BY <1>3, <1>10, FirstIsFirst DEF Steps
<1>12. Task(r.task)' = t /\ Here' = Here
  BY <1>1, <1>3, <1>8 DEF Task, Here
<1>13. ASSUME t.local
       PROVE  /\ Front \in dialogs /\ r.from = Front /\ opened' = opened /\ dialogs' = dialogs
              /\ c \in LocalIn(page, {opened[Front]})
  <2>1. c \in LocalIn(page, {c.within})
    BY <1>7, <1>13 DEF LocalIn, Here
  <2>2. c.opens = NoDialog /\ ~ c.beside /\ c.within # OnPage /\ ~ c.closes
    BY <1>1, <1>7, <2>1, ControlsClear
  <2>3. Front # 0 /\ c.within = opened[Front]
    BY <1>1, <2>2 DEF InFront
  <2>4. Front \in dialogs
    BY <1>1, <2>3, FrontIsOpen
  <2>5. opened' = opened /\ dialogs' = dialogs
    BY <1>1, <2>2 DEF Opening
  <2> QED BY <1>4, <1>8, <2>1, <2>2, <2>3, <2>4, <2>5
<1>14. AtHome(r)'
  <2>1. CASE t.local
    <3>1. PICK n : n = Front
      OBVIOUS
    <3>2. n \in dialogs /\ r.from = n /\ opened' = opened /\ c \in LocalIn(page, {opened[n]})
      BY <1>13, <2>1, <3>1
    <3>3. r.from \in 1..Len(opened') /\ c \in LocalIn(page', {opened'[r.from]})
      BY <1>1, <3>2 DEF DialogsOK
    <3> QED BY <1>8, <3>3 DEF AtHome
  <2>2. CASE ~ t.local
    BY <1>12, <2>2 DEF AtHome
  <2> QED BY <2>1, <2>2
<1>15. PICK names : names = Replaced(t, k)
  OBVIOUS
<1>16. \A n \in dialogs \ dialogs' : opened[n] \in names
  <2>1. ~ c.closes
    BY <1>1, <1>7, DialogAssumption DEF Here
  <2> QED BY <1>1, <2>1 DEF Opening
<1>17. \A i : TakenAway(i, names)
  BY <1>5, <1>15 DEF TakenAway, Replaced, Withins
<1>18. ASSUME NEW i \in Slots, running'[i] # Idle PROVE AtHome(running[i])'
  <2>1. CASE i = s
    BY <1>9, <1>14, <2>1
  <2>2. CASE i # s
    <3>1. PICK q : q = running[i] /\ q = running'[i]
      BY <1>9, <2>2
    <3>2. AtHome(q)
      BY <1>18, <3>1 DEF FlagsOwed
    <3>3. AtHome(q)'
      BY <1>1, <1>2, <3>2, StillAtHome
    <3> QED BY <3>1, <3>3
  <2> QED BY <2>1, <2>2
<1>19. ASSUME NEW f \in busy', f \in t.sets \cup SetAt(page, t, k)
       PROVE  Owes(s, r, f)'
  <2>1. f \in FreedAt(t, 0, k) \/ Clearing(page, t, k, f)
    BY <1>1, <1>3, <1>7, <1>19, HandlersClear
  <2>2. Clearing(page, t, k, f)
    BY <1>5, <1>19, <2>1
  <2>3. t.local => r.from \in dialogs' /\ s \notin unmounted'
    BY <1>5, <1>13
  <2>4. \/ f \in t.frees /\ k < Unawaited(t)
        \/ \E l \in ReadAt(t, k) : f \in Here.loads[l].clears
        \/ t.steps[k].op = "pause" /\ f \in Named(t, "free", k, NextAwait(t, k, TRUE))
    BY <2>2 DEF Clearing, Here
  <2> QED BY <1>4, <1>8, <1>12, <2>3, <2>4 DEF Owes
<1>20. ASSUME NEW l \in Loads, Here.loads[l].guarded, asked'[l] # asked[l],
              NEW f \in Here.loads[l].clears
       PROVE  Owes(s, r, f)'
  <2>1. l \in c.asks
    BY <1>1, <1>20 DEF Asking, ListsOK
  <2>2. l \in ReadAt(t, k)
    BY <1>1, <1>3, <1>20, <2>1, ControlsClear
  <2> QED BY <1>4, <1>8, <1>12, <2>2 DEF Owes
<1>21. ASSUME NEW f \in busy' PROVE \E i \in Slots : running'[i] # Idle /\ Owes(i, running[i], f)'
  <2>1. CASE Owes(s, r, f)'
    BY <1>8, <1>9, <2>1
  <2>2. CASE ~ Owes(s, r, f)'
    <3>1. f \in busy /\ f \notin LocalFlags(names)
      BY <1>5, <1>15, <1>19, <1>21, <2>2
    <3>2. PICK i \in Slots : running[i] # Idle /\ Owes(i, running[i], f)
      BY <3>1 DEF FlagsOwed
    <3>3. i # s
      BY <1>5, <3>2
    <3>4. PICK q : q = running[i] /\ q = running'[i]
      BY <1>9, <3>3
    <3>5. q.task \in Tasks(page) /\ AtHome(q) /\ Owes(i, q, f) /\ q.step \in 1..Len(Task(q.task).steps)
      BY <1>1, <3>2, <3>4 DEF HandlersOK, FlagsOwed
    <3>6. ReadAt(Task(q.task), q.step) \subseteq Loads
      BY <1>1, <3>5, TasksAreProper DEF HandlersOK, Task, ReadAt, Loads, Here
    <3>7. Owes(i, q, f)'
      BY <1>1, <1>16, <1>17, <1>20, <2>2, <3>1, <3>5, <3>6, StillOwes
    <3> QED BY <3>2, <3>4, <3>7
  <2> QED BY <2>1, <2>2
<1> QED BY <1>18, <1>21 DEF FlagsOwed

\* The flags that are set when the page is opened are cleared by its mount effects.
LEMMA InitOwed == Init => FlagsOwed
<1> SUFFICES ASSUME Init PROVE FlagsOwed
  OBVIOUS
<1>1. HandlersOK /\ page \in DOMAIN Pages
  BY InitLocks DEF LocksInv, HandlersOK
<1>2. PICK t : t = TaskOf(page, Mount)
  OBVIOUS
<1>3. /\ t.steps = <<Await(Pages[page].mounts)>> /\ t.frees = {} /\ ~ t.local
      /\ t.sets = Pages[page].initially /\ t = Task(Mount) /\ Mount \in Tasks(page)
  BY <1>2 DEF TaskOf, Task, Tasks, Reads, Handler
<1>4. /\ Len(t.steps) = 1 /\ t.steps[1].op = "await" /\ t.steps[1].on = Pages[page].mounts
      /\ IsAwait(t.steps[1])
  BY <1>3 DEF Await, IsAwait
<1>5. First(t) = 1
  BY <1>4, FirstIsFirst
<1>6. PICK asks : asks = asked
  OBVIOUS
<1>7. PICK r : r = Begin(Mount, 1, asks, 0, 0)
  OBVIOUS
<1>8. \A i \in Slots : running[i] # Idle => running[i] = r
  BY <1>6, <1>7 DEF Init
<1>9. r.task = Mount /\ r.step = 1 /\ r.asks = asks /\ r # Idle
  BY <1>7 DEF Begin, Idle
<1>10. \A i \in Slots : running[i] # Idle => AtHome(running[i])
  BY <1>3, <1>8, <1>9 DEF AtHome
<1>11. ASSUME NEW f \in busy PROVE \E i \in Slots : running[i] # Idle /\ Owes(i, running[i], f)
  <2>1. f \in t.sets
    BY <1>3 DEF Init
  <2>2. Clearing(page, t, 1, f)
    BY <1>1, <1>2, <1>3, <1>5, <2>1, HandlersClear DEF FreedAt
  <2>3. PICK l \in ReadAt(t, 1) : f \in Here.loads[l].clears
    BY <1>3, <1>4, <2>2 DEF Clearing, Here
  <2>4. Owes(1, r, f)
    BY <1>3, <1>6, <1>9, <2>3 DEF Owes
  <2>5. Pages[page].mounts # {}
    BY <1>4, <2>3 DEF ReadAt
  <2>6. running[1] = r /\ 1 \in Slots
    BY <1>6, <1>7, <2>5, SlotsAssumption DEF Init
  <2> QED BY <1>9, <2>4, <2>6
<1> QED BY <1>10, <1>11 DEF FlagsOwed

\* Every step leaves every flag owed.
LEMMA NextOwed == Typed /\ LocksInv /\ FlagsOwed /\ [Next]_vars => FlagsOwed'
<1> SUFFICES ASSUME Typed, LocksInv, FlagsOwed, [Next]_vars PROVE FlagsOwed'
  OBVIOUS
<1>1. HandlersOK'
  BY NextLocks DEF LocksInv
<1>2. CASE \E c \in Here.controls : Click(c)
  BY <1>1, <1>2, UseOwed, StartOwed, Zenon
<1>3. CASE \E i \in Slots : Goes(i)
  BY <1>1, <1>3, GoesOwed, Zenon
<1>4. CASE UNCHANGED vars
  <2>1. /\ page' = page /\ busy' = busy /\ running' = running /\ opened' = opened
        /\ dialogs' = dialogs /\ asked' = asked /\ unmounted' = unmounted
    BY <1>4 DEF vars
  <2> QED BY <2>1, Zenon DEF FlagsOwed, AtHome, Owes, Task, Here
<1> QED BY <1>2, <1>3, <1>4, Zenon DEF Next

\* Whatever the user does and whatever the answers are, lost ones included, a
\* page on which nothing is under way has no control disabled and shows no
\* spinner: every flag a handler sets is cleared on each of its ways out.
THEOREM NothingIsLeftBusy == Spec => []NothingLeftBusy
<1>1. Init /\ [][Next]_vars => [](Typed /\ LocksInv /\ FlagsOwed)
  BY InitTyped, InitLocks, InitOwed, NextTyped, NextOwed, PTL
<1>2. FlagsOwed => NothingLeftBusy
  BY DEF FlagsOwed, NothingLeftBusy, Quiet
<1> QED BY <1>1, <1>2, PTL DEF Spec

-----------------------------------------------------------------------------
(* What is shown is up to date. *)

\* The loads that show no answer, or what they showed before a read failed.
Missing == blank \cup kept

\* The handler is to show the load, and for sure the answer to what is asked now.
Awaiting(r, l) == l \in Shows(Task(r.task), r.step)
Brings(r, l) ==
    /\ Awaiting(r, l) /\ Sure(Task(r.task), r.step, l)
    /\ r.asks[l] = asked[l]
Coming(l) == \E i \in Slots : running[i] # Idle /\ Brings(running[i], l)

\* One handler at a time is to show a load whose reads do not overlap.
Sole(l) ==
    \A i, j \in Slots :
        /\ running[i] # Idle /\ Awaiting(running[i], l)
        /\ running[j] # Idle /\ Awaiting(running[j], l)
        => i = j

\* A put that comes before another call shows what the handler has got by now.
PutNext(t, k, m) ==
    /\ m > k /\ t.steps[m].op = "put"
    /\ \A x \in k..(m - 1) : t.steps[x].op # "call"

\* A handler has asked what is asked now, and has been served since the last
\* change the load is to show.
Current(r) ==
    \A l \in Loads \ raced : Awaiting(r, l) =>
        r.asks[l] = asked[l] /\ (r.served => r.at >= due[l])
PutsCurrent(r) ==
    LET t == Task(r.task)
    IN \A m \in Steps(t) : PutNext(t, r.step, m) =>
           \A l \in t.steps[m].on \ raced : r.got >= due[l]
OthersCurrent(r) ==
    r.served => \A l \in ReadAt(Task(r.task), r.step) :
                    \A other \in Here.loads[l].also : r.at >= due[other]
Known(r) == Current(r) /\ PutsCurrent(r) /\ OthersCurrent(r)

\* What is shown answers what is asked and has the changes it is due to have,
\* or a handler brings an answer that does.
Answered(l) == (l \in raced => Here.loads[l].guarded)
               => shown[l].question = asked[l] \/ Coming(l)
Recent(l) == l \notin raced => shown[l].at >= due[l] \/ Coming(l)

ShownInv ==
    /\ \A l \in Loads \ raced : Sole(l)
    /\ \A i \in Slots : running[i] # Idle => Known(running[i])
    /\ \A l \in Loads : \A other \in Here.loads[l].also : asked[other] = 0
    /\ \A l \in Loads \ Missing : Answered(l) /\ Recent(l)

-----------------------------------------------------------------------------
(* The loads a handler is to show. *)

\* A handler that goes on is to show nothing that it was not.
LEMMA ShowsLater ==
    ASSUME NEW t, Len(t.steps) \in Nat, NEW j \in 0..Len(t.steps),
           NEW k \in (j + 1)..(Len(t.steps) + 1)
    PROVE  Shows(t, k) \subseteq ReadAfter(t, j) /\ ReadAfter(t, j) \subseteq Shows(t, j)
<1>1. ReadAt(t, k) \subseteq ReadAfter(t, j)
  <2>1. SUFFICES ASSUME NEW l \in ReadAt(t, k) PROVE l \in ReadAfter(t, j)
    OBVIOUS
  <2>2. /\ k \in (j + 1)..Len(t.steps) /\ t.steps[k].op \in {"await", "then", "put"}
        /\ l \in t.steps[k].on
    BY <2>1 DEF ReadAt
  <2> QED BY <2>2 DEF ReadAfter
<1>2. ReadAfter(t, k) \subseteq ReadAfter(t, j)
  <2>1. SUFFICES ASSUME NEW l \in ReadAfter(t, k) PROVE l \in ReadAfter(t, j)
    OBVIOUS
  <2>2. PICK m \in (k + 1)..Len(t.steps) : /\ t.steps[m].op \in {"await", "then", "put"}
                                           /\ l \in t.steps[m].on
    BY <2>1 DEF ReadAfter
  <2>3. m \in (j + 1)..Len(t.steps)
    BY <2>2
  <2> QED BY <2>2, <2>3 DEF ReadAfter
<1> QED BY <1>1, <1>2 DEF Shows

\* What it is to show when it goes on it shows then or there, or blanks.
LEMMA ShowsPassed ==
    ASSUME NEW t, Len(t.steps) \in Nat, NEW j \in 0..Len(t.steps),
           NEW k \in (j + 1)..(Len(t.steps) + 1), NEW fine,
           \A m \in (j + 1)..(k - 1) : ~ (IsAwait(t.steps[m]) /\ (fine \/ t.steps[m].op # "then")),
           k <= Len(t.steps) => IsAwait(t.steps[k]),
           NEW l \in ReadAfter(t, j)
    PROVE  \/ l \in Shows(t, k)
           \/ l \in Named(t, "put", j, k)
           \/ ~ fine /\ l \in Named(t, "then", j, k)
<1>1. PICK m \in (j + 1)..Len(t.steps) : /\ t.steps[m].op \in {"await", "then", "put"}
                                         /\ l \in t.steps[m].on
  BY DEF ReadAfter
<1>2. CASE m > k
  BY <1>1, <1>2 DEF Shows, ReadAfter
<1>3. CASE m = k /\ t.steps[m].op \in {"await", "then"}
  BY <1>1, <1>3 DEF Shows, ReadAt
<1>4. CASE m < k
  <2>1. m \in (j + 1)..(k - 1)
    BY <1>1, <1>4
  <2>2. \/ t.steps[m].op = "put"
        \/ ~ fine /\ t.steps[m].op = "then"
    BY <1>1, <2>1 DEF IsAwait
  <2> QED BY <1>1, <2>1, <2>2 DEF Named
<1>5. CASE m = k /\ t.steps[m].op = "put"
  BY <1>1, <1>5 DEF IsAwait
<1> QED BY <1>1, <1>2, <1>3, <1>4, <1>5

\* What is read for sure is so from any later step.
LEMMA SureLater ==
    ASSUME NEW t, NEW j \in Nat, NEW k \in Nat, j <= k, NEW l, Sure(t, j, l), Len(t.steps) \in Nat
    PROVE  Sure(t, k, l)
BY DEF Sure, Steps

\* What a handler puts later it is to show.
LEMMA PutsAreShown ==
    ASSUME NEW t, Len(t.steps) \in Nat, NEW k \in 1..Len(t.steps), NEW m \in Steps(t), PutNext(t, k, m)
    PROVE  t.steps[m].on \subseteq Shows(t, k)
<1>1. m \in (k + 1)..Len(t.steps) /\ t.steps[m].op \in {"await", "then", "put"}
  BY DEF PutNext, Steps
<1> QED BY <1>1 DEF Shows, ReadAfter

\* A handler that did not take the step knows what it knew.
LEMMA StillKnown ==
    ASSUME HandlersOK, page' = page, asked' = asked, raced' = raced,
           NEW r, r.task \in Tasks(page), r.step \in 1..Len(Task(r.task).steps), Known(r),
           \A l \in Loads \ raced : Awaiting(r, l) => due'[l] = due[l],
           \A l \in ReadAt(Task(r.task), r.step) : \A other \in Here.loads[l].also :
               due'[other] = due[other]
    PROVE  Known(r)'
<1>1. PICK t : t = Task(r.task)
  OBVIOUS
<1>2. Task(r.task)' = t /\ Here' = Here /\ Loads' = Loads
  BY <1>1 DEF Task, Here, Loads
<1>3. /\ Len(t.steps) \in Nat
      /\ \A k \in Steps(t) : t.steps[k].op \in {"await", "then", "put"} => t.steps[k].on \subseteq Loads
  BY <1>1, TasksAreProper DEF HandlersOK, Task, Loads, Here, Steps
<1>4. Current(r)'
  BY <1>1, <1>2 DEF Known, Current, Awaiting
<1>5. PutsCurrent(r)'
  <2>1. SUFFICES ASSUME NEW m \in Steps(t), PutNext(t, r.step, m), NEW l \in t.steps[m].on \ raced
                 PROVE  r.got >= due'[l]
    BY <1>2 DEF PutsCurrent
  <2>2. Awaiting(r, l)
    BY <1>1, <1>3, <2>1, PutsAreShown DEF Awaiting
  <2>3. l \in Loads
    BY <1>3, <2>1 DEF PutNext
  <2>4. r.got >= due[l]
    BY <1>1, <2>1 DEF Known, PutsCurrent
  <2> QED BY <2>1, <2>2, <2>3, <2>4
<1>6. OthersCurrent(r)'
  BY <1>1, <1>2 DEF Known, OthersCurrent
<1> QED BY <1>4, <1>5, <1>6 DEF Known

\* What a step of one handler has to keep.
LEMMA StepShown ==
    ASSUME Typed, ShownInv, page' = page, asked' = asked, raced' = raced,
           NEW s \in Slots, running[s] # Idle, NEW was, was = running[s],
           NEW r, running' = [running EXCEPT ![s] = r],
           r # Idle => Known(r)' /\ \A l \in Loads : Awaiting(r, l)' => Awaiting(was, l),
           \A l \in Loads \ raced : due'[l] = due[l] \/ Awaiting(was, l),
           \A i \in Slots : i # s /\ running[i] # Idle =>
               \A l \in ReadAt(Task(running[i].task), running[i].step) :
                   \A other \in Here.loads[l].also : due'[other] = due[other],
           \A l \in Loads \ Missing' :
               \/ r # Idle /\ Brings(r, l)'
               \/ /\ (l \in raced => Here.loads[l].guarded) => shown'[l].question = asked[l]
                  /\ l \notin raced => shown'[l].at >= due'[l]
               \/ /\ l \notin Missing /\ shown'[l] = shown[l] /\ ~ Brings(was, l)
                  /\ l \notin raced => due'[l] = due[l]
    PROVE  ShownInv'
<1>1. HandlersOK /\ Loads' = Loads /\ Here' = Here /\ \A n : Task(n)' = Task(n)
  BY DEF Typed, Loads, Here, Task
<1>2. running'[s] = r /\ \A i \in Slots : i # s => running'[i] = running[i]
  BY <1>1, OthersHold
<1>3. ASSUME NEW i \in Slots, running'[i] # Idle, NEW l \in Loads, Awaiting(running[i], l)'
      PROVE  running[i] # Idle /\ Awaiting(running[i], l)
  <2>1. PICK q : q = running'[i]
    OBVIOUS
  <2>2. Awaiting(q, l)'
    BY <1>3, <2>1
  <2>3. CASE i = s
    BY <1>2, <1>3, <2>1, <2>2, <2>3
  <2>4. CASE i # s
    <3>1. q = running[i]
      BY <1>2, <2>1, <2>4
    <3>2. Awaiting(q, l)
      BY <1>1, <2>2 DEF Awaiting
    <3> QED BY <1>3, <2>1, <3>1, <3>2
  <2> QED BY <2>3, <2>4
<1>4. ASSUME NEW l \in Loads \ raced
      PROVE  Sole(l)'
  <2>1. Sole(l)
    BY <1>4 DEF ShownInv
  <2>2. ASSUME NEW i \in Slots, NEW j \in Slots,
               running'[i] # Idle, Awaiting(running[i], l)',
               running'[j] # Idle, Awaiting(running[j], l)'
        PROVE  i = j
    <3>1. /\ running[i] # Idle /\ Awaiting(running[i], l)
          /\ running[j] # Idle /\ Awaiting(running[j], l)
      BY <1>3, <1>4, <2>2
    <3> QED BY <2>1, <3>1 DEF Sole
  <2> QED BY <2>2 DEF Sole
<1>5. ASSUME NEW i \in Slots, running'[i] # Idle PROVE Known(running[i])'
  <2>1. CASE i = s
    BY <1>2, <1>5, <2>1
  <2>2. CASE i # s
    <3>1. PICK q : q = running[i] /\ q = running'[i]
      BY <1>2, <2>2
    <3>2. q.task \in Tasks(page) /\ q.step \in 1..Len(Task(q.task).steps) /\ Known(q)
      BY <1>1, <1>5, <3>1 DEF HandlersOK, ShownInv
    <3>3. ASSUME NEW l \in Loads \ raced, Awaiting(q, l) PROVE due'[l] = due[l]
      <4>1. Sole(l)
        BY <3>3 DEF ShownInv
      <4>2. ~ Awaiting(was, l)
        BY <1>5, <2>2, <3>1, <3>3, <4>1 DEF Sole
      <4> QED BY <3>3, <4>2
    <3>4. \A l \in ReadAt(Task(q.task), q.step) : \A other \in Here.loads[l].also :
              due'[other] = due[other]
      BY <1>5, <2>2, <3>1
    <3>5. Known(q)'
      BY <1>1, <3>2, <3>3, <3>4, StillKnown
    <3> QED BY <3>1, <3>5
  <2> QED BY <2>1, <2>2
<1>6. ASSUME NEW l \in Loads, Coming(l), ~ Brings(was, l) PROVE Coming(l)'
  <2>1. PICK i \in Slots : running[i] # Idle /\ Brings(running[i], l)
    BY <1>6 DEF Coming
  <2>2. i # s
    BY <1>6, <2>1
  <2>3. PICK q : q = running[i] /\ q = running'[i]
    BY <1>2, <2>2
  <2>4. Brings(q, l)'
    BY <1>1, <2>1, <2>3 DEF Brings, Awaiting
  <2> QED BY <2>1, <2>3, <2>4 DEF Coming
<1>7. ASSUME NEW l \in Loads, r # Idle, Brings(r, l)' PROVE Coming(l)'
  BY <1>2, <1>7 DEF Coming
<1>8. ASSUME NEW l \in Loads \ Missing' PROVE Answered(l)' /\ Recent(l)'
  <2>1. CASE r # Idle /\ Brings(r, l)'
    BY <1>7, <2>1 DEF Answered, Recent
  <2>2. CASE /\ (l \in raced => Here.loads[l].guarded) => shown'[l].question = asked[l]
             /\ l \notin raced => shown'[l].at >= due'[l]
    BY <1>1, <2>2 DEF Answered, Recent
  <2>3. CASE /\ l \notin Missing /\ shown'[l] = shown[l] /\ ~ Brings(was, l)
             /\ l \notin raced => due'[l] = due[l]
    <3>1. Answered(l) /\ Recent(l)
      BY <1>8, <2>3 DEF ShownInv
    <3> QED BY <1>1, <1>6, <1>8, <2>3, <3>1 DEF Answered, Recent
  <2> QED BY <1>8, <2>1, <2>2, <2>3
<1>9. \A l \in Loads : \A other \in Here.loads[l].also : asked'[other] = 0
  BY DEF ShownInv
<1> QED BY <1>1, <1>4, <1>5, <1>8, <1>9 DEF ShownInv

\* A read or a call that is served is served at the newest version.
LEMMA ServeShown ==
    ASSUME Typed, ShownInv, NEW s \in Slots, Serve(s)
    PROVE  ShownInv'
<1>1. /\ page' = page /\ asked' = asked /\ raced' = raced /\ due' = due
      /\ shown' = shown /\ Missing' = Missing /\ running[s] # Idle
      /\ version' = version + (IF At(s).op \in {"call", "try"} THEN 1 ELSE 0)
  BY DEF Serve, Suspended, Missing
<1>2. PICK was, v : was = running[s] /\ v = version'
  OBVIOUS
<1>3. PICK r : r = Served(was, v)
  OBVIOUS
<1>4. running' = [running EXCEPT ![s] = r]
  BY <1>2, <1>3 DEF Serve
<1>5. /\ r.task = was.task /\ r.step = was.step /\ r.asks = was.asks
      /\ r.at = v /\ r.got = was.got
  BY <1>3, ServedFields
<1>6. /\ Known(was) /\ was.task # NoTask /\ Loads' = Loads /\ Here' = Here /\ Task(r.task)' = Task(was.task)
      /\ ReadAt(Task(was.task), was.step) \subseteq Loads
      /\ \A l \in Loads : Here.loads[l].also \subseteq Loads
  <2>1. Known(was) /\ Loads' = Loads /\ Here' = Here /\ Task(r.task)' = Task(was.task)
    BY <1>1, <1>2, <1>5 DEF ShownInv, Loads, Here, Task
  <2>2. /\ page \in DOMAIN Pages /\ was.task \in Tasks(page)
        /\ was.step \in 1..Len(Task(was.task).steps)
    BY <1>1, <1>2 DEF Typed, HandlersOK
  <2>3. ReadAt(Task(was.task), was.step) \subseteq Loads
    BY <2>2, TasksAreProper DEF Task, ReadAt, Loads, Here
  <2>4. was.task # NoTask
    BY <2>2, TasksAreProper
  <2> QED BY <2>1, <2>2, <2>3, <2>4, PagesAssumption DEF Loads, Here
<1>7. \A l \in Loads : v >= due[l]
  BY <1>1, <1>2 DEF Typed, ListsOK
<1>8. Known(r)'
  <2>1. Current(r)'
    BY <1>1, <1>5, <1>6, <1>7 DEF Known, Current, Awaiting
  <2>2. PutsCurrent(r)'
    BY <1>1, <1>5, <1>6 DEF Known, PutsCurrent
  <2>3. OthersCurrent(r)'
    BY <1>1, <1>5, <1>6, <1>7 DEF OthersCurrent
  <2> QED BY <2>1, <2>2, <2>3 DEF Known
<1>9. \A l : (Awaiting(r, l)' <=> Awaiting(was, l)) /\ (Brings(r, l)' <=> Brings(was, l))
  BY <1>1, <1>5, <1>6 DEF Awaiting, Brings
<1>10. r # Idle
  BY <1>3, <1>6, ServedFields
<1> QED BY <1>1, <1>2, <1>4, <1>8, <1>9, <1>10, StepShown

\* A handler that gives up leaves what it was to show as it is, or blank.
LEMMA AbortShown ==
    ASSUME Typed, ShownInv, page' = page, asked' = asked, raced' = raced, due' = due,
           NEW s \in Slots, running[s] # Idle, NEW was, was = running[s],
           NEW cleared, Abort(s, cleared), Missing \subseteq Missing',
           \A l \in Loads : Brings(was, l) => l \in Missing'
    PROVE  ShownInv'
<1>1. shown' = shown
  BY DEF Abort
<1>2. PICK r : r = Idle
  OBVIOUS
<1>3. running' = [running EXCEPT ![s] = r]
  BY <1>2 DEF Abort
<1> QED BY <1>1, <1>2, <1>3, StepShown

\* What ShownAssumption says of one handler.
LEMMA HandlersShow ==
    ASSUME NEW p \in DOMAIN Pages, NEW n \in Tasks(p), NEW t, t = TaskOf(p, n)
    PROVE  /\ \A i, m \in Steps(t) : i < m /\ t.steps[i].op = "call" /\ t.steps[m].op \in {"call", "get"}
                                   => ReadAfter(t, m) = {}
           /\ \A m \in Steps(t) : t.steps[m].op = "put" =>
                /\ \A l \in t.steps[m].on \cap DOMAIN Pages[p].loads : ~ Pages[p].loads[l].guarded
                /\ \E i \in 1..(m - 1) : t.steps[i].op = "call"
<1>1. LET x == TaskOf(p, n)
          guarded == {l \in DOMAIN Pages[p].loads : Pages[p].loads[l].guarded}
      IN /\ \A i, m \in Steps(x) : /\ i < m /\ x.steps[i].op = "call"
                                   /\ x.steps[m].op \in {"call", "get"}
                                   => ReadAfter(x, m) = {}
         /\ \A m \in Steps(x) : x.steps[m].op = "put" =>
                /\ x.steps[m].on \cap guarded = {}
                /\ \E i \in 1..(m - 1) : x.steps[i].op = "call"
  BY ShownAssumption, Zenon
<1> QED BY <1>1

\* The load a handler puts its answer in, when it goes on, has been waited for.
LEMMA PutsPassed ==
    ASSUME NEW t, Len(t.steps) \in Nat, NEW j \in 1..Len(t.steps),
           NEW k \in (j + 1)..(Len(t.steps) + 1),
           \A x \in j..(k - 1) : t.steps[x].op # "call"
    PROVE  /\ \A l \in Named(t, "put", j, k) : \E m \in Steps(t) : PutNext(t, j, m) /\ l \in t.steps[m].on
           /\ \A m \in Steps(t) : PutNext(t, k, m) => PutNext(t, j, m)
<1>1. ASSUME NEW l \in Named(t, "put", j, k)
      PROVE  \E m \in Steps(t) : PutNext(t, j, m) /\ l \in t.steps[m].on
  <2>1. PICK m \in (j + 1)..(k - 1) : t.steps[m].op = "put" /\ l \in t.steps[m].on
    BY DEF Named
  <2>2. m \in Steps(t) /\ PutNext(t, j, m)
    BY <2>1 DEF PutNext, Steps
  <2> QED BY <2>1, <2>2
<1>2. ASSUME NEW m \in Steps(t), PutNext(t, k, m) PROVE PutNext(t, j, m)
  <2>1. m > j /\ t.steps[m].op = "put"
    BY <1>2 DEF PutNext, Steps
  <2>2. \A x \in j..(m - 1) : x \in j..(k - 1) \/ x \in k..(m - 1)
    BY <1>2 DEF PutNext, Steps
  <2>3. \A x \in j..(m - 1) : t.steps[x].op # "call"
    BY <1>2, <2>2 DEF PutNext
  <2> QED BY <2>1, <2>3 DEF PutNext
<1> QED BY <1>1, <1>2

\* A handler whose answer is put in another list too, and one that changes
\* what that list shows, are not under way at the same time.
LEMMA OthersKeepDue ==
    ASSUME Typed, LocksInv, NEW s \in Slots, running[s] # Idle, At(s).op = "call",
           NEW i \in Slots, i # s, running[i] # Idle,
           NEW l \in ReadAt(Task(running[i].task), running[i].step),
           NEW other \in Here.loads[l].also
    PROVE  other \notin ReadAfter(Task(running[s].task), running[s].step)
<1>1. SUFFICES ASSUME other \in ReadAfter(Task(running[s].task), running[s].step) PROVE FALSE
  OBVIOUS
<1>2. PICK q, r : q = running[i] /\ r = running[s]
  OBVIOUS
<1>3. /\ page \in DOMAIN Pages /\ Here = Pages[page]
      /\ q.task \in Tasks(page) /\ q.step \in Steps(Task(q.task)) /\ Task(q.task) = TaskOf(page, q.task)
      /\ r.task \in Tasks(page) /\ r.step \in Steps(Task(r.task)) /\ Task(r.task) = TaskOf(page, r.task)
  BY <1>2 DEF Typed, HandlersOK, Steps, Task, Here
<1>4. l \in DOMAIN Pages[page].loads
  <2>1. ReadAt(Task(q.task), q.step) \subseteq DOMAIN Pages[page].loads
    BY <1>3, TasksAreProper DEF ReadAt
  <2> QED BY <1>2, <2>1
<1>5. PICK f : Alternate(page, f, l, other)
  BY <1>3, <1>4, ShownAssumption, Zenon
<1>6. Keeps(Task(q.task), f) /\ q.step < Unawaited(Task(q.task))
  BY <1>2, <1>3, <1>5 DEF Alternate
<1>7. Keeps(Task(r.task), f) /\ r.step < Unawaited(Task(r.task))
  BY <1>1, <1>2, <1>3, <1>5 DEF Alternate, At
<1>8. Holds(i, f) /\ Holds(s, f)
  BY <1>2, <1>6, <1>7 DEF Holds
<1>9. Exclusive(f)
  BY <1>5 DEF LocksInv, LocksHold, Alternate
<1> QED BY <1>8, <1>9 DEF Exclusive

\* What a handler awaited leaves the lists as they are to be for it to go on.
Settles(s, was, t, j, k, fine, answers) ==
    /\ t.steps[j].op = "call" => was.served /\ fine
    /\ \A l \in Loads : due'[l] = IF /\ t.steps[j].op = "call" /\ l \in ReadAfter(t, j)
                                     /\ was.at > due[l]
                                  THEN was.at ELSE due[l]
    /\ \A l \in Loads \ Missing' : l \notin Missing \/ l \in Puts(s, fine) \cup answers
    /\ \A l \in answers : /\ (l \in raced => Here.loads[l].guarded) => was.asks[l] = asked[l]
                          /\ l \notin raced => was.at >= due'[l]
    /\ \A l \in ReadAt(t, j) : \/ l \in answers \cup Missing' \cup Puts(s, fine)
                               \/ was.asks[l] # asked[l]
    /\ ~ fine => Named(t, "then", j, k) \subseteq Missing' \cup Puts(s, fine)

\* A handler that goes on shows what is asked, as new as it is to be, or is to
\* show it still.
LEMMA ContinueShown ==
    ASSUME Typed, LocksInv, ShownInv, page' = page, asked' = asked, raced' = raced,
           NEW s \in Slots, running[s] # Idle, NEW was, was = running[s],
           NEW t, NEW j, NEW k, NEW fine \in BOOLEAN, Going(s, t, j, k, fine),
           NEW cleared, NEW answers, Continue(s, cleared, answers, fine),
           Settles(s, was, t, j, k, fine, answers)
    PROVE  ShownInv'
<1>1. HandlersOK /\ ListsOK /\ Proper(was) /\ page \in DOMAIN Pages
  BY DEF Typed, HandlersOK
<1>2. /\ t.steps[j].op = "call" => was.served /\ fine
      /\ \A l \in Loads : due'[l] = IF /\ t.steps[j].op = "call" /\ l \in ReadAfter(t, j)
                                       /\ was.at > due[l]
                                    THEN was.at ELSE due[l]
      /\ \A l \in Loads \ Missing' : l \notin Missing \/ l \in Puts(s, fine) \cup answers
      /\ \A l \in answers : /\ (l \in raced => Here.loads[l].guarded) => was.asks[l] = asked[l]
                            /\ l \notin raced => was.at >= due'[l]
      /\ \A l \in ReadAt(t, j) : \/ l \in answers \cup Missing' \cup Puts(s, fine)
                                 \/ was.asks[l] # asked[l]
      /\ ~ fine => Named(t, "then", j, k) \subseteq Missing' \cup Puts(s, fine)
  BY Zenon DEF Settles
<1>3. /\ t = TaskOf(page, was.task) /\ was.task \in Tasks(page)
      /\ t = Task(was.task) /\ j = was.step /\ Len(t.steps) \in Nat
      /\ j \in 1..Len(t.steps) /\ j \in 0..Len(t.steps)
      /\ k \in (j + 1)..(Len(t.steps) + 1)
  BY <1>1, HandlerGoes DEF Going
<1>4. /\ k <= Len(t.steps) => IsAwait(t.steps[k])
      /\ \A m \in (j + 1)..(k - 1) : ~ (IsAwait(t.steps[m]) /\ (fine \/ t.steps[m].op # "then"))
      /\ \A m \in Steps(t) : t.steps[m].op \in {"await", "then", "put"} => t.steps[m].on \subseteq Loads
  BY <1>1, HandlerGoes
<1>5. PICK got, puts : got = Got(s) /\ puts = Named(t, "put", j, k)
  OBVIOUS
<1>6. /\ got = IF t.steps[j].op = "call" THEN was.at ELSE was.got
      /\ puts = Puts(s, fine)
  BY <1>3, <1>5 DEF Got, Puts, At, Going
<1>7. PICK r : /\ running' = [running EXCEPT ![s] = r]
               /\ r # Idle => k <= Len(t.steps)
               /\ k <= Len(t.steps) =>
                     /\ r.task = was.task /\ r.step = k /\ r.asks = was.asks
                     /\ r.served = FALSE /\ r.got = got /\ r # Idle
  <2>1. \E x : /\ running' = [running EXCEPT ![s] = x]
               /\ k > Len(t.steps) => x = Idle
               /\ x # Idle => k <= Len(t.steps)
               /\ k <= Len(t.steps) =>
                     /\ x.task = running[s].task /\ x.step = k
                     /\ x.asks = running[s].asks /\ x.from = running[s].from
                     /\ x.served = FALSE /\ x.at = 0 /\ x.got = Got(s)
                     /\ x # Idle
    BY <1>1, ContinueSlot, Zenon
  <2> QED BY <1>5, <2>1
<1>8. /\ Known(was) /\ Loads' = Loads /\ Here' = Here /\ Task(was.task)' = t
  BY <1>3 DEF ShownInv, Loads, Here, Task
<1>9. /\ ReadAfter(t, j) \subseteq Shows(t, j) /\ Shows(t, k) \subseteq ReadAfter(t, j)
      /\ \A l \in Shows(t, k) : k <= Len(t.steps)
  <2>1. k > Len(t.steps) => Shows(t, k) = {}
    BY <1>3 DEF Shows, ReadAt, ReadAfter
  <2> QED BY <1>3, <2>1, ShowsLater
<1>10. ASSUME NEW l \in ReadAfter(t, j)
      PROVE  l \in Shows(t, k) \/ l \in puts \/ (~ fine /\ l \in Named(t, "then", j, k))
  <2>1. \/ l \in Shows(t, k)
        \/ l \in Named(t, "put", j, k)
        \/ ~ fine /\ l \in Named(t, "then", j, k)
    BY <1>3, <1>4, ShowsPassed, Zenon
  <2> QED BY <1>5, <2>1
<1>11. puts \subseteq ReadAfter(t, j) /\ puts \subseteq Loads
  BY <1>3, <1>4, <1>5 DEF Named, ReadAfter, Steps
<1>12. \A l \in Loads : /\ due[l] \in Nat /\ due'[l] \in Nat /\ was.at \in Nat /\ was.got \in Nat
  BY <1>1, <1>2 DEF ListsOK, Proper
<1>13. ASSUME NEW l \in Loads \ raced, l \in Shows(t, j)
       PROVE  was.asks[l] = asked[l] /\ (was.served => was.at >= due[l])
  BY <1>3, <1>8, <1>13 DEF Known, Current, Awaiting
\* What it has got is as new as what is to be put in a list needs.
<1>14. ASSUME NEW l \in Loads \ raced, l \in ReadAfter(t, j), t.steps[j].op = "call"
       PROVE  got >= due'[l]
  <2>1. was.at >= due[l] /\ got = was.at
    BY <1>6, <1>9, <1>13, <1>14, <1>2
  <2> QED BY <1>12, <1>14, <1>2, <2>1
<1>15. ASSUME NEW m \in Steps(t), PutNext(t, j, m), t.steps[j].op # "call", NEW l \in t.steps[m].on \ raced
       PROVE  got >= due'[l]
  <2>1. l \in Loads
    BY <1>4, <1>15 DEF PutNext
  <2>2. due'[l] = due[l] /\ got = was.got
    BY <1>6, <1>15, <1>2, <2>1
  <2>3. was.got >= due[l]
    BY <1>3, <1>8, <1>15 DEF Known, PutsCurrent
  <2> QED BY <2>2, <2>3
<1>16. t.steps[j].op # "call" => \A x \in j..(k - 1) : t.steps[x].op # "call"
  BY <1>3, <1>4 DEF IsAwait
<1>17. ASSUME NEW l \in puts \ raced PROVE got >= due'[l]
  <2>1. CASE t.steps[j].op = "call"
    BY <1>11, <1>14, <1>17, <2>1
  <2>2. CASE t.steps[j].op # "call"
    <3>1. \A x \in Named(t, "put", j, k) : \E m \in Steps(t) : PutNext(t, j, m) /\ x \in t.steps[m].on
      BY <1>3, <1>16, <2>2, PutsPassed
    <3>2. PICK m \in Steps(t) : PutNext(t, j, m) /\ l \in t.steps[m].on
      BY <1>5, <1>17, <3>1
    <3> QED BY <1>15, <1>17, <2>2, <3>2
  <2> QED BY <2>1, <2>2
<1>18. ASSUME r # Idle PROVE Known(r)'
  <2>1. r.task = was.task /\ r.step = k /\ r.asks = was.asks /\ r.served = FALSE /\ r.got = got
    BY <1>7, <1>18
  <2>2. Task(r.task)' = t
    BY <1>8, <2>1
  <2>3. Current(r)'
    BY <1>8, <1>9, <1>13, <2>1, <2>2 DEF Current, Awaiting
  <2>4. ASSUME NEW m \in Steps(t), PutNext(t, k, m), NEW l \in t.steps[m].on \ raced
        PROVE  got >= due'[l]
    <3>1. CASE t.steps[j].op = "call"
      <4>1. l \in Loads /\ l \in ReadAfter(t, j)
        BY <1>3, <1>4, <2>4 DEF PutNext, ReadAfter, Steps
      <4> QED BY <1>14, <2>4, <3>1, <4>1
    <3>2. CASE t.steps[j].op # "call"
      <4>1. PutNext(t, j, m)
        BY <1>3, <1>16, <2>4, <3>2, PutsPassed
      <4> QED BY <1>15, <2>4, <3>2, <4>1
    <3> QED BY <3>1, <3>2
  <2>5. PutsCurrent(r)'
    BY <2>1, <2>2, <2>4 DEF PutsCurrent
  <2>6. OthersCurrent(r)'
    BY <2>1 DEF OthersCurrent
  <2> QED BY <2>3, <2>5, <2>6 DEF Known
<1>19. \A l : r # Idle => /\ Awaiting(r, l)' <=> l \in Shows(t, k)
                          /\ Brings(r, l)' <=> /\ l \in Shows(t, k) /\ Sure(t, k, l)
                                               /\ was.asks[l] = asked[l]
  BY <1>7, <1>8 DEF Awaiting, Brings
<1>20. \A l : Brings(was, l) <=> /\ l \in Shows(t, j) /\ Sure(t, j, l)
                                 /\ was.asks[l] = asked[l]
  BY <1>3 DEF Brings, Awaiting
<1>21. r # Idle => Known(r)' /\ \A l \in Loads : Awaiting(r, l)' => Awaiting(was, l)
  BY <1>3, <1>9, <1>18, <1>19 DEF Awaiting
<1>22. \A l \in Loads \ raced : due'[l] = due[l] \/ Awaiting(was, l)
  BY <1>3, <1>9, <1>2 DEF Awaiting
<1>23. ASSUME NEW i \in Slots, i # s, running[i] # Idle,
              NEW l \in ReadAt(Task(running[i].task), running[i].step),
              NEW other \in Here.loads[l].also
       PROVE  due'[other] = due[other]
  <2>1. other \in Loads
    <3>1. running[i].task \in Tasks(page) /\ Here = Pages[page]
      BY <1>1, <1>23 DEF HandlersOK, Here
    <3>2. l \in Loads
      BY <1>1, <1>23, <3>1, TasksAreProper DEF ReadAt, Task, Loads
    <3> QED BY <1>1, <3>1, <3>2, PagesAssumption DEF Loads
  <2>2. CASE t.steps[j].op = "call"
    <3>1. At(s).op = "call" /\ t = Task(running[s].task) /\ j = running[s].step
      BY <1>3, <2>2 DEF At
    <3>2. other \notin ReadAfter(t, j)
      BY <1>23, <3>1, OthersKeepDue
    <3> QED BY <1>2, <2>1, <3>2
  <2>3. CASE t.steps[j].op # "call"
    BY <1>2, <2>1, <2>3
  <2> QED BY <2>2, <2>3
<1>24. ASSUME NEW l \in Loads \ Missing'
       PROVE  \/ r # Idle /\ Brings(r, l)'
              \/ /\ (l \in raced => Here.loads[l].guarded) => shown'[l].question = asked[l]
                 /\ l \notin raced => shown'[l].at >= due'[l]
              \/ /\ l \notin Missing /\ shown'[l] = shown[l] /\ ~ Brings(was, l)
                 /\ l \notin raced => due'[l] = due[l]
  <2>1. shown'[l] = CASE l \in puts -> [question |-> was.asks[l], at |-> got]
                      [] l \in answers \ puts -> [question |-> was.asks[l], at |-> was.at]
                      [] OTHER -> shown[l]
    BY <1>5, <1>6, <1>24, Zenon DEF Continue
  <2>2. CASE l \in puts
    <3>1. shown'[l].question = was.asks[l] /\ shown'[l].at = got
      BY <2>1, <2>2
    <3>2. ~ Here.loads[l].guarded
      <4>1. PICK m \in (j + 1)..(k - 1) : t.steps[m].op = "put" /\ l \in t.steps[m].on
        BY <1>5, <2>2 DEF Named
      <4>2. m \in Steps(t)
        BY <1>3, <4>1 DEF Steps
      <4> QED BY <1>1, <1>3, <1>24, <4>1, <4>2, HandlersShow DEF Loads, Here
    <3>3. l \notin raced => was.asks[l] = asked[l]
      BY <1>9, <1>11, <1>13, <1>24, <2>2
    <3> QED BY <1>17, <2>2, <3>1, <3>2, <3>3
  <2>3. CASE l \in answers \ puts
    <3>1. shown'[l].question = was.asks[l] /\ shown'[l].at = was.at
      BY <2>1, <2>3
    <3> QED BY <1>2, <2>3, <3>1
  <2>4. CASE l \notin puts /\ l \notin answers
    <3>1. l \notin Missing /\ shown'[l] = shown[l]
      BY <1>6, <1>24, <1>2, <2>1, <2>4
    <3>2. CASE Brings(was, l)
      <4>1. l \in ReadAfter(t, j)
        BY <1>3, <1>6, <1>20, <1>24, <1>2, <2>4, <3>2 DEF Shows
      <4>2. l \in Shows(t, k)
        BY <1>6, <1>10, <1>24, <1>2, <2>4, <4>1
      <4>3. Sure(t, k, l)
        BY <1>3, <1>20, <3>2, SureLater
      <4>4. r # Idle
        BY <1>7, <1>9, <4>2
      <4> QED BY <1>19, <1>20, <3>2, <4>2, <4>3, <4>4
    <3>3. CASE ~ Brings(was, l) /\ (l \notin raced => due'[l] = due[l])
      BY <3>1, <3>3
    <3>4. CASE l \notin raced /\ due'[l] # due[l]
      <4>1. t.steps[j].op = "call" /\ l \in ReadAfter(t, j) /\ fine
        BY <1>24, <1>2, <3>4
      <4>2. l \in Shows(t, k)
        BY <1>10, <2>4, <4>1
      <4>3. r # Idle
        BY <1>7, <1>9, <4>2
      <4>4. Sure(t, k, l)
        <5>1. ASSUME NEW m \in Steps(t), m >= k, t.steps[m].op \in {"call", "get"} PROVE ReadAfter(t, m) = {}
          <6>1. j \in Steps(t) /\ j < m
            BY <1>3, <5>1 DEF Steps
          <6> QED BY <1>1, <1>3, <4>1, <5>1, <6>1, HandlersShow
        <5> QED BY <5>1 DEF Sure
      <4>5. was.asks[l] = asked[l]
        BY <1>9, <1>13, <1>24, <3>4, <4>1
      <4> QED BY <1>19, <4>2, <4>3, <4>4, <4>5
    <3> QED BY <3>2, <3>3, <3>4
  <2> QED BY <2>2, <2>3, <2>4
<1>25. running' = [running EXCEPT ![s] = r]
  BY <1>7
<1>26. \A i \in Slots : i # s /\ running[i] # Idle =>
          \A l \in ReadAt(Task(running[i].task), running[i].step) :
              \A other \in Here.loads[l].also : due'[other] = due[other]
  BY <1>23
<1>27. \A l \in Loads \ Missing' :
          \/ r # Idle /\ Brings(r, l)'
          \/ /\ (l \in raced => Here.loads[l].guarded) => shown'[l].question = asked[l]
             /\ l \notin raced => shown'[l].at >= due'[l]
          \/ /\ l \notin Missing /\ shown'[l] = shown[l] /\ ~ Brings(was, l)
             /\ l \notin raced => due'[l] = due[l]
  BY <1>24
<1> QED BY <1>21, <1>22, <1>25, <1>26, <1>27, StepShown, Zenon

\* The answers of a read that are shown answer what is asked, and are as new as
\* their lists are due to be.
LEMMA AnswersAreCurrent ==
    ASSUME Typed, ShownInv, NEW s \in Slots, running[s] # Idle, NEW was, was = running[s],
           was.served, At(s).op \in {"await", "then"}
    PROVE  /\ \A l \in Answers(s) : /\ (l \in raced => Here.loads[l].guarded) => was.asks[l] = asked[l]
                                    /\ l \notin raced => was.at >= due[l]
           /\ \A l \in ReadAt(Task(was.task), was.step) : l \in Answers(s) \/ was.asks[l] # asked[l]
<1>1. PICK t, j : t = Task(was.task) /\ j = was.step
  OBVIOUS
<1>2. /\ HandlersOK /\ Proper(was) /\ page \in DOMAIN Pages /\ Here = Pages[page]
      /\ was.task \in Tasks(page) /\ t = TaskOf(page, was.task) /\ j \in 1..Len(t.steps)
      /\ At(s) = t.steps[j]
  BY <1>1 DEF Typed, HandlersOK, Task, Here, At
<1>3. ReadAt(t, j) = At(s).on /\ At(s).on \subseteq Loads
  BY <1>2, TasksAreProper DEF ReadAt, Loads
<1>4. Known(was)
  BY DEF ShownInv
<1>5. ASSUME NEW l \in Showing(s)
      PROVE  /\ (l \in raced => Here.loads[l].guarded) => was.asks[l] = asked[l]
             /\ l \notin raced => was.at >= due[l]
  <2>1. l \in Loads /\ l \in ReadAt(t, j) /\ Awaiting(was, l)
    BY <1>1, <1>3, <1>5 DEF Showing, Awaiting, Shows
  <2>2. ~ Here.loads[l].guarded \/ was.asks[l] = asked[l]
    BY <1>5 DEF Showing
  <2>3. l \notin raced => was.asks[l] = asked[l] /\ was.at >= due[l]
    BY <1>4, <2>1 DEF Known, Current
  <2> QED BY <2>2, <2>3
<1>6. ASSUME NEW m \in Showing(s), NEW l \in Here.loads[m].also
      PROVE  was.asks[l] = asked[l] /\ was.at >= due[l]
  <2>1. m \in Loads /\ m \in ReadAt(t, j)
    BY <1>3, <1>6 DEF Showing
  <2>2. l \in Loads
    BY <1>2, <1>6, <2>1, PagesAssumption DEF Loads
  <2>3. asked[l] = 0
    BY <1>6, <2>1 DEF ShownInv
  <2>4. was.asks[l] \in Nat /\ was.asks[l] <= asked[l]
    BY <1>2, <2>2 DEF Proper
  <2>5. was.at >= due[l]
    BY <1>1, <1>4, <1>6, <2>1 DEF Known, OthersCurrent
  <2> QED BY <2>3, <2>4, <2>5
<1>7. \A l \in ReadAt(t, j) : l \in Showing(s) \/ was.asks[l] # asked[l]
  BY <1>3 DEF Showing
<1> QED BY <1>1, <1>5, <1>6, <1>7 DEF Answers

\* A handler suspended at a call that its catch ends brings nothing.
LEMMA NothingBrought ==
    ASSUME NEW r, NEW t, t = Task(r.task), r.step \in 1..Len(t.steps),
           t.steps[r.step].op \in {"call", "get"}
    PROVE  \A l : ~ Brings(r, l)
<1> SUFFICES ASSUME NEW l, Brings(r, l) PROVE FALSE
  OBVIOUS
<1>1. l \in Shows(t, r.step) /\ Sure(t, r.step, l)
  BY DEF Brings, Awaiting
<1>2. ReadAt(t, r.step) = {}
  BY DEF ReadAt
<1>3. l \in ReadAfter(t, r.step) /\ r.step \in Steps(t) /\ r.step >= r.step
  BY <1>1, <1>2 DEF Shows, Steps
<1> QED BY <1>1, <1>3 DEF Sure

\* Whatever a handler does, what is shown is up to date or about to be.
LEMMA GoesShown ==
    ASSUME Typed, LocksInv, ShownInv, NEW s \in Slots, Goes(s)
    PROVE  ShownInv'
<1>1. running[s] # Idle
  BY DEF Goes, Serve, CallAnswered, CallRefused, CallLost, TimerFires, ReadAnswered,
         ReadFailed, Suspended
<1>2. PICK was, t, j, on, off : /\ was = running[s] /\ Going(s, t, j, on, TRUE)
                                /\ off = NextAwait(t, j, FALSE)
  BY DEF Going
<1>3. /\ t = Task(was.task) /\ j = was.step /\ At(s) = t.steps[j]
      /\ Going(s, t, j, off, FALSE) /\ j \in 1..Len(t.steps)
      /\ Puts(s, TRUE) = Named(t, "put", j, on) /\ Puts(s, FALSE) = Named(t, "put", j, off)
  BY <1>1, <1>2 DEF Going, At, Puts, Typed, HandlersOK
<1>4. ASSUME At(s).op \notin {"await", "then"} PROVE ReadAt(t, j) = {}
  BY <1>3, <1>4 DEF ReadAt
<1> DEFINE Same == page' = page /\ asked' = asked /\ raced' = raced
<1>5. ASSUME Same, due' = due, Missing' = Missing, At(s).op \in {"try", "pause"},
             Continue(s, {}, {}, TRUE)
      PROVE  ShownInv'
  <2>1. ReadAt(t, j) = {} /\ t.steps[j].op # "call"
    BY <1>3, <1>4, <1>5
  <2>2. Settles(s, was, t, j, on, TRUE, {})
    BY <1>5, <2>1 DEF Settles
  <2> QED BY <1>1, <1>2, <1>5, <2>2, ContinueShown
<1>6. ASSUME Same, due' = due, Missing' = Missing, At(s).op \in {"call", "try", "get"}, Recovers(s)
      PROVE  ShownInv'
  <2>1. CASE At(s).op = "try"
    BY <1>5, <1>6, <2>1 DEF Recovers
  <2>2. CASE At(s).op # "try"
    <3>1. Abort(s, {}) /\ \A l : ~ Brings(was, l)
      BY <1>3, <1>6, <2>2, NothingBrought DEF Recovers
    <3> QED BY <1>1, <1>2, <1>6, <3>1, AbortShown
  <2> QED BY <2>1, <2>2
<1>7. CASE Serve(s)
  BY <1>7, ServeShown
<1>8. CASE CallAnswered(s)
  <2>1. /\ Same /\ At(s).op \in {"call", "try", "get"} /\ Continue(s, {}, {}, TRUE)
        /\ t.steps[j].op = "call" => was.served
        /\ Missing' = Missing \ Puts(s, TRUE)
    BY <1>2, <1>3, <1>8 DEF CallAnswered, Suspended, Succeeds, Missing
  <2>2. \A l \in Loads : due'[l] = IF /\ t.steps[j].op = "call" /\ l \in ReadAfter(t, j)
                                      /\ was.at > due[l]
                                   THEN was.at ELSE due[l]
    BY <1>2, <1>3, <1>8 DEF CallAnswered
  <2>3. ReadAt(t, j) = {}
    BY <1>4, <2>1
  <2>4. Settles(s, was, t, j, on, TRUE, {})
    BY <2>1, <2>2, <2>3 DEF Settles
  <2> QED BY <1>1, <1>2, <2>1, <2>4, ContinueShown
<1>9. CASE CallRefused(s)
  <2>1. Same /\ due' = due /\ Missing' = Missing /\ At(s).op \in {"call", "try", "get"} /\ Recovers(s)
    BY <1>9, Zenon DEF CallRefused, Suspended, Missing
  <2> QED BY <1>6, <2>1
<1>10. CASE CallLost(s)
  <2>1. Same /\ due' = due /\ Missing' = Missing /\ At(s).op \in {"call", "try"} /\ Recovers(s)
    BY <1>10, Zenon DEF CallLost, Suspended, Missing
  <2> QED BY <1>6, <2>1
<1>11. CASE TimerFires(s)
  <2>1. /\ Same /\ due' = due /\ Missing' = Missing /\ At(s).op = "pause"
        /\ Continue(s, {}, {}, TRUE)
    BY <1>11, Zenon DEF TimerFires, Suspended, Missing
  <2> QED BY <1>5, <2>1
<1>12. CASE ReadAnswered(s)
  <2>1. /\ Same /\ due' = due /\ At(s).op \in {"await", "then"} /\ was.served
        /\ Missing' = Missing \ (Answers(s) \cup Puts(s, TRUE))
        /\ Continue(s, Clears(page, Showing(s)), Answers(s), TRUE)
    <3>1. Succeeds(Answers(s) \cup Puts(s, TRUE))
      BY <1>12, Zenon DEF ReadAnswered
    <3>2. Missing' = Missing \ (Answers(s) \cup Puts(s, TRUE))
      BY <3>1 DEF Succeeds, Missing
    <3> QED BY <1>2, <1>12, <3>2, Zenon DEF ReadAnswered, Suspended
  <2>2. /\ \A l \in Answers(s) : /\ (l \in raced => Here.loads[l].guarded) => was.asks[l] = asked[l]
                                 /\ l \notin raced => was.at >= due[l]
        /\ \A l \in ReadAt(t, j) : l \in Answers(s) \/ was.asks[l] # asked[l]
    BY <1>1, <1>2, <1>3, <2>1, AnswersAreCurrent
  <2>3. t.steps[j].op # "call"
    BY <1>3, <2>1
  <2>4. Settles(s, was, t, j, on, TRUE, Answers(s))
    BY <2>1, <2>2, <2>3 DEF Settles
  <2> QED BY <1>1, <1>2, <2>1, <2>4, ContinueShown
<1>13. CASE ReadFailed(s)
  <2>1. /\ Same /\ due' = due /\ At(s).op \in {"await", "then"}
        /\ \/ /\ Continue(s, Clears(page, Showing(s)), {}, FALSE)
              /\ Missing' = (Missing \cup (Showing(s) \cup Named(t, "then", j, off))) \ Puts(s, FALSE)
           \/ /\ Abort(s, Clears(page, Showing(s)))
              /\ Missing' = Missing \cup Showing(s) \cup ReadAfter(t, j)
    <3>1. \A missing, put : Fails(missing, put) => Missing' = (Missing \cup missing) \ put
      BY DEF Fails, Missing
    <3>2. /\ Same /\ due' = due /\ At(s).op \in {"await", "then"}
          /\ \/ /\ Continue(s, Clears(page, Showing(s)), {}, FALSE)
                /\ Fails(Showing(s) \cup Named(t, "then", j, off), Puts(s, FALSE))
             \/ /\ Abort(s, Clears(page, Showing(s)))
                /\ Fails(Showing(s) \cup ReadAfter(t, j), {})
      BY <1>2, <1>3, <1>13, Zenon DEF ReadFailed, Suspended
    <3>3. CASE /\ Continue(s, Clears(page, Showing(s)), {}, FALSE)
               /\ Fails(Showing(s) \cup Named(t, "then", j, off), Puts(s, FALSE))
      BY <3>1, <3>2, <3>3
    <3>4. CASE /\ Abort(s, Clears(page, Showing(s)))
               /\ Fails(Showing(s) \cup ReadAfter(t, j), {})
      <4>1. Missing' = (Missing \cup (Showing(s) \cup ReadAfter(t, j))) \ {}
        BY <3>1, <3>4
      <4> QED BY <3>2, <3>4, <4>1
    <3> QED BY <3>2, <3>3, <3>4
  <2>2. t.steps[j].op # "call" /\ ReadAt(t, j) = At(s).on
    BY <1>3, <2>1 DEF ReadAt
  <2>3. \A l \in ReadAt(t, j) : l \in Showing(s) \/ was.asks[l] # asked[l]
    BY <1>2, <2>2 DEF Showing
  <2>4. CASE /\ Continue(s, Clears(page, Showing(s)), {}, FALSE)
             /\ Missing' = (Missing \cup (Showing(s) \cup Named(t, "then", j, off))) \ Puts(s, FALSE)
    <3>1. Settles(s, was, t, j, off, FALSE, {})
      BY <2>1, <2>2, <2>3, <2>4 DEF Settles
    <3> QED BY <1>1, <1>2, <1>3, <2>1, <2>4, <3>1, ContinueShown
  <2>5. CASE /\ Abort(s, Clears(page, Showing(s)))
             /\ Missing' = Missing \cup Showing(s) \cup ReadAfter(t, j)
    <3>1. \A l \in Loads : Brings(was, l) => l \in Missing'
      BY <1>3, <2>3, <2>5 DEF Brings, Awaiting, Shows
    <3> QED BY <1>1, <1>2, <2>1, <2>5, <3>1, AbortShown
  <2> QED BY <2>1, <2>4, <2>5
<1> QED BY <1>7, <1>8, <1>9, <1>10, <1>11, <1>12, <1>13, Zenon DEF Goes

\* A handler that starts is to show all that it ever shows: it puts nothing
\* before it has called, nor what it has not called for.
LEMMA StartsShowing ==
    ASSUME NEW p \in DOMAIN Pages, NEW n \in Tasks(p), NEW t, t = TaskOf(p, n), NEW k, k = First(t)
    PROVE  /\ k \in 1..Len(t.steps) /\ Len(t.steps) \in Nat
           /\ Shows(t, k) = Shows(t, 0)
           /\ \A m \in Steps(t) : ~ PutNext(t, k, m)
<1>1. /\ Len(t.steps) \in Nat /\ \E m \in 1..Len(t.steps) : IsAwait(t.steps[m])
      /\ 0 \in 0..Len(t.steps)
  BY TasksAreProper
<1>2. k \in 1..Len(t.steps)
  BY <1>1, FirstIsFirst
<1>3. /\ k \in (0 + 1)..(Len(t.steps) + 1)
      /\ k <= Len(t.steps) => IsAwait(t.steps[k])
      /\ \A m \in (0 + 1)..(k - 1) : ~ (IsAwait(t.steps[m]) /\ (TRUE \/ t.steps[m].op # "then"))
  BY <1>1, NextAwaitIsNext, Zenon DEF First
<1>4. \A m \in 1..(k - 1) : t.steps[m].op # "call"
  BY <1>3 DEF IsAwait
<1>5. \A m \in Steps(t) : t.steps[m].op = "put" => \E j \in 1..(m - 1) : j >= k /\ t.steps[j].op = "call"
  <2>1. \A m \in Steps(t) : t.steps[m].op = "put" => \E j \in 1..(m - 1) : t.steps[j].op = "call"
    BY HandlersShow
  <2> QED BY <1>2, <1>4, <2>1
<1>6. \A m \in Steps(t) : ~ PutNext(t, k, m)
  BY <1>2, <1>5 DEF PutNext, Steps
<1>7. Shows(t, k) \subseteq Shows(t, 0)
  BY <1>1, <1>3, ShowsLater
<1>8. ASSUME NEW l \in Shows(t, 0) PROVE l \in Shows(t, k)
  <2>1. l \in ReadAfter(t, 0)
    BY <1>1 DEF Shows, ReadAt
  <2>2. \/ l \in Shows(t, k)
        \/ l \in Named(t, "put", 0, k)
        \/ ~ TRUE /\ l \in Named(t, "then", 0, k)
    BY <1>1, <1>3, <2>1, ShowsPassed, Zenon
  <2>3. l \notin Named(t, "put", 0, k)
    BY <1>2, <1>4, <1>5 DEF Named, Steps
  <2> QED BY <2>2, <2>3
<1> QED BY <1>1, <1>2, <1>6, <1>7, <1>8

\* What a control asks.
LEMMA AskedLists ==
    ASSUME Typed, page' = page, NEW c \in Here.controls, Asking(c)
    PROVE  /\ c.asks \subseteq Loads /\ Loads' = Loads
           /\ \A l \in Loads \ c.asks : /\ asked'[l] = asked[l] /\ shown'[l] = shown[l]
                                        /\ due'[l] = due[l]
                                        /\ l \in Missing => l \in Missing'
           /\ c.blanks \subseteq Missing'
           /\ c.copies # NoList => \A l \in c.asks : /\ shown'[l].question = asked'[l]
                                                     /\ shown'[l].at >= due'[l]
<1>1. page \in DOMAIN Pages /\ ListsOK /\ Loads' = Loads
  BY DEF Typed, HandlersOK, Loads, Here
<1>2. c.asks \subseteq Loads /\ c.copies \in Loads \cup {NoList}
  BY <1>1, PagesAssumption DEF Here, Loads
<1>3. CASE c.copies = NoList
  <2>1. shown' = shown /\ due' = due /\ Missing' = c.blanks \cup Missing
    BY <1>3 DEF Asking, Missing
  <2>2. \A l \in Loads \ c.asks : asked'[l] = asked[l]
    BY <1>1 DEF Asking, ListsOK
  <2> QED BY <1>1, <1>2, <1>3, <2>1, <2>2
<1>4. CASE c.copies # NoList
  <2>1. shown[c.copies].at \in Nat
    BY <1>1, <1>2, <1>4 DEF ListsOK
  <2>2. Missing' = c.blanks \cup (Missing \ c.asks)
    BY <1>4 DEF Asking, Missing
  <2>3. \A l \in Loads \ c.asks : asked'[l] = asked[l] /\ shown'[l] = shown[l] /\ due'[l] = due[l]
    BY <1>1, <1>4 DEF Asking, ListsOK
  <2>4. \A l \in c.asks : /\ shown'[l].question = asked'[l]
                          /\ shown'[l].at = shown[c.copies].at /\ due'[l] = 0
    BY <1>1, <1>2, <1>4 DEF Asking, ListsOK
  <2> QED BY <1>1, <1>2, <2>1, <2>2, <2>3, <2>4
<1> QED BY <1>3, <1>4

\* A handler under way knows what it knew when a control is used: what it is to
\* show and the control asks for is shown out of order from then on.
LEMMA KnownMeanwhile ==
    ASSUME Typed, ShownInv, page' = page, NEW c \in Here.controls, Asking(c), Racing(c),
           NEW i \in Slots, running[i] # Idle, NEW q, q = running[i]
    PROVE  /\ Known(q)'
           /\ \A l \in Loads \ c.asks : Brings(q, l) => Brings(q, l)'
           /\ \A l \in Loads \ raced' : Awaiting(q, l) => l \notin c.asks
<1>1. PICK t : t = Task(q.task)
  OBVIOUS
<1>2. Task(q.task)' = t /\ Here' = Here /\ Loads' = Loads
  BY <1>1 DEF Task, Here, Loads
<1>3. /\ q.task \in Tasks(page) /\ q.step \in 1..Len(t.steps) /\ page \in DOMAIN Pages
      /\ t = TaskOf(page, q.task) /\ Known(q) /\ Here = Pages[page] /\ Loads = DOMAIN Pages[page].loads
  BY <1>1 DEF Typed, HandlersOK, ShownInv, Task, Here, Loads
<1>4. /\ Len(t.steps) \in Nat /\ ReadAt(t, q.step) \subseteq Loads
      /\ \A m \in Steps(t) : t.steps[m].op \in {"await", "then", "put"} => t.steps[m].on \subseteq Loads
  BY <1>3, TasksAreProper DEF Steps, ReadAt
<1>5. /\ raced \subseteq raced'
      /\ \A l \in c.asks : Awaiting(q, l) => l \in raced'
  <2>1. PICK touched, awaited :
          /\ c.asks \subseteq touched
          /\ awaited = UNION {Shows(Task(running[m].task), running[m].step) :
                                m \in {x \in Slots : running[x] # Idle}}
          /\ raced' = raced \cup (touched \cap awaited)
    BY DEF Racing
  <2>2. Shows(t, q.step) \subseteq awaited
    BY <1>1, <2>1
  <2> QED BY <1>1, <2>1, <2>2 DEF Awaiting
<1>6. \A l \in Loads \ c.asks : asked'[l] = asked[l] /\ due'[l] = due[l]
  BY AskedLists
<1>7. \A l \in Loads \ raced' : Awaiting(q, l) => l \notin c.asks
  BY <1>5
<1>8. Current(q)'
  BY <1>1, <1>2, <1>3, <1>5, <1>6, <1>7 DEF Known, Current, Awaiting
<1>9. PutsCurrent(q)'
  <2>1. SUFFICES ASSUME NEW m \in Steps(t), PutNext(t, q.step, m), NEW l \in t.steps[m].on \ raced'
                 PROVE  q.got >= due'[l]
    BY <1>2 DEF PutsCurrent
  <2>2. Awaiting(q, l)
    BY <1>1, <1>3, <1>4, <2>1, PutsAreShown DEF Awaiting
  <2>3. l \in Loads
    BY <1>4, <2>1 DEF PutNext
  <2>4. q.got >= due[l]
    BY <1>1, <1>3, <1>5, <2>1 DEF Known, PutsCurrent
  <2> QED BY <1>6, <1>7, <2>1, <2>2, <2>3, <2>4
<1>10. OthersCurrent(q)'
  <2>1. SUFFICES ASSUME q.served, NEW l \in ReadAt(t, q.step), NEW other \in Here.loads[l].also
                 PROVE  q.at >= due'[other]
    BY <1>2 DEF OthersCurrent
  <2>2. l \in Loads /\ other \in Loads /\ other \notin c.asks
    BY <1>3, <1>4, <2>1, PagesAssumption, ShownAssumption
  <2>3. q.at >= due[other]
    BY <1>1, <1>3, <2>1 DEF Known, OthersCurrent
  <2> QED BY <1>6, <2>2, <2>3
<1>11. \A l \in Loads \ c.asks : Brings(q, l) => Brings(q, l)'
  BY <1>1, <1>2, <1>6 DEF Brings, Awaiting
<1> QED BY <1>7, <1>8, <1>9, <1>10, <1>11 DEF Known

\* What is shown stays up to date when a control is used, given that what it
\* asks anew is brought by the handler it starts, if that is how it is shown.
LEMMA UsedShown ==
    ASSUME Typed, ShownInv, page' = page, NEW c \in Here.controls, Asking(c), Racing(c),
           \A i \in Slots : running[i] # Idle => running'[i] = running[i],
           \A l \in Loads \ raced' : Sole(l)',
           \A i \in Slots : running'[i] # Idle => Known(running[i])',
           \A l \in c.asks : l \notin c.blanks /\ c.copies = NoList => Coming(l)'
    PROVE  ShownInv'
<1>1. /\ page \in DOMAIN Pages /\ Loads' = Loads /\ Here' = Here /\ Here = Pages[page]
      /\ raced \subseteq raced'
  BY DEF Typed, HandlersOK, Loads, Here, Racing
<1>2. ASSUME NEW l \in Loads, NEW other \in Here.loads[l].also PROVE asked'[other] = 0
  <2>1. other \in Loads /\ other \notin c.asks
    BY <1>1, <1>2, PagesAssumption, ShownAssumption DEF Loads
  <2>2. asked'[other] = asked[other]
    BY <2>1, AskedLists
  <2> QED BY <1>2, <2>2 DEF ShownInv
<1>3. ASSUME NEW l \in Loads \ Missing' PROVE Answered(l)' /\ Recent(l)'
  <2>1. CASE l \notin c.asks
    <3>1. /\ l \notin Missing /\ asked'[l] = asked[l] /\ shown'[l] = shown[l] /\ due'[l] = due[l]
      BY <1>3, <2>1, AskedLists
    <3>2. Answered(l) /\ Recent(l)
      BY <1>3, <3>1 DEF ShownInv
    <3>3. Coming(l) => Coming(l)'
      <4>1. SUFFICES ASSUME Coming(l) PROVE Coming(l)'
        OBVIOUS
      <4>2. PICK i \in Slots : running[i] # Idle /\ Brings(running[i], l)
        BY <4>1 DEF Coming
      <4>3. PICK q : q = running[i] /\ q = running'[i]
        BY <4>2
      <4>4. Brings(q, l)'
        BY <1>3, <2>1, <4>2, <4>3, KnownMeanwhile
      <4> QED BY <4>2, <4>3, <4>4 DEF Coming
    <3> QED BY <1>1, <3>1, <3>2, <3>3 DEF Answered, Recent
  <2>2. CASE l \in c.asks
    <3>1. l \notin c.blanks
      BY <1>3, AskedLists
    <3>2. CASE c.copies # NoList
      <4>1. shown'[l].question = asked'[l] /\ shown'[l].at >= due'[l]
        BY <2>2, <3>2, AskedLists
      <4> QED BY <4>1 DEF Answered, Recent
    <3>3. CASE c.copies = NoList
      BY <2>2, <3>1, <3>3 DEF Answered, Recent
    <3> QED BY <3>2, <3>3
  <2> QED BY <2>1, <2>2
<1> QED BY <1>1, <1>2, <1>3 DEF ShownInv

\* A control that asks something anew, and starts no handler, takes the answer
\* away or has another to show.
LEMMA UseShown ==
    ASSUME Typed, ShownInv, NEW c \in Here.controls, Click(c), c.starts = NoTask
    PROVE  ShownInv'
<1>1. /\ page' = page /\ Asking(c) /\ Racing(c) /\ running' = running
  BY DEF Click
<1>2. \A n : Task(n)' = Task(n)
  BY <1>1 DEF Task
<1>3. Loads' = Loads /\ raced \subseteq raced' /\ page \in DOMAIN Pages
  BY <1>1 DEF Loads, Here, Racing, Typed, HandlersOK
<1>4. ASSUME NEW l \in Loads \ raced' PROVE Sole(l)'
  <2>1. Sole(l)
    BY <1>3, <1>4 DEF ShownInv
  <2> QED BY <1>1, <1>2, <2>1 DEF Sole, Awaiting
<1>5. ASSUME NEW i \in Slots, running'[i] # Idle PROVE Known(running[i])'
  <2>1. PICK q : q = running[i] /\ q = running'[i]
    BY <1>1
  <2>2. Known(q)'
    BY <1>1, <1>5, <2>1, KnownMeanwhile
  <2> QED BY <2>1, <2>2
<1>6. \A l \in c.asks : l \in c.blanks \/ c.copies # NoList
  BY <1>3, ShownAssumption DEF Here
<1> QED BY <1>1, <1>4, <1>5, <1>6, UsedShown

\* A handler that starts shows what its control asks, or what nobody else is
\* to show.
LEMMA StartShown ==
    ASSUME Typed, ShownInv, NEW c \in Here.controls, Click(c), c.starts # NoTask
    PROVE  ShownInv'
<1>1. /\ page' = page /\ Asking(c) /\ Racing(c) /\ HandlersOK /\ page \in DOMAIN Pages
  BY DEF Click, Typed, HandlersOK
<1>2. PICK t, k : t = Task(c.starts) /\ k = First(t)
  OBVIOUS
<1>3. PICK asks, from : /\ asks = asked'
                        /\ from = IF c.opens = NoDialog THEN Front ELSE Len(opened) + 1
  OBVIOUS
<1>4. PICK s \in Slots :
        /\ running[s] = Idle
        /\ running' = [running EXCEPT ![s] =
                          Begin(c.starts, k, asks, IF c.beside THEN 0 ELSE from, 0)]
  BY <1>2, <1>3, Zenon DEF Click, Starting, Free, First
<1>5. PICK r : r = Begin(c.starts, k, asks, IF c.beside THEN 0 ELSE from, 0)
  OBVIOUS
<1>6. c.starts \in Tasks(page) /\ t = TaskOf(page, c.starts) /\ c.starts # NoTask
  BY <1>1, <1>2, ControlsClear DEF Task
<1>7. r.task = c.starts /\ r.step = k /\ r.asks = asks /\ r.served = FALSE /\ r # Idle
  BY <1>5, <1>6 DEF Begin, Idle
<1>8. running'[s] = r /\ \A i \in Slots : i # s => running'[i] = running[i]
  BY <1>1, <1>4, <1>5, OthersHold
<1>9. /\ k \in 1..Len(t.steps) /\ Len(t.steps) \in Nat /\ Shows(t, k) = Shows(t, 0)
      /\ \A m \in Steps(t) : ~ PutNext(t, k, m)
  BY <1>1, <1>2, <1>6, StartsShowing
<1>10. Task(r.task)' = t /\ Loads' = Loads /\ raced \subseteq raced'
  BY <1>1, <1>2, <1>7 DEF Task, Loads, Here, Racing
<1>11. ASSUME NEW i \in Slots, running[i] # Idle
       PROVE  running'[i] = running[i] /\ i # s
  BY <1>4, <1>8, <1>11
<1>12. ASSUME NEW l \in Loads \ raced', l \in Shows(t, k),
              NEW i \in Slots, running[i] # Idle, NEW q, q = running[i]
       PROVE  ~ Awaiting(q, l)
  <2>1. PICK touched, awaited :
          /\ touched = c.asks \cup (IF c.starts = NoTask THEN {} ELSE Shows(Task(c.starts), 0))
          /\ awaited = UNION {Shows(Task(running[m].task), running[m].step) :
                                m \in {x \in Slots : running[x] # Idle}}
          /\ raced' = raced \cup (touched \cap awaited)
    BY <1>1 DEF Racing
  <2>2. l \in touched
    BY <1>2, <1>9, <1>12, <2>1
  <2>3. Shows(Task(q.task), q.step) \subseteq awaited
    BY <1>12, <2>1
  <2> QED BY <1>12, <2>1, <2>2, <2>3 DEF Awaiting
<1>13. ASSUME NEW i \in Slots, running'[i] # Idle, i # s
       PROVE  running'[i] = running[i] /\ running[i] # Idle
  BY <1>8, <1>13
<1>14. ASSUME NEW l \in Loads \ raced' PROVE Sole(l)'
  <2>1. Sole(l)
    BY <1>10, <1>14 DEF ShownInv
  <2>2. ASSUME NEW i \in Slots, running'[i] # Idle, Awaiting(running[i], l)',
               NEW j \in Slots, running'[j] # Idle, Awaiting(running[j], l)'
        PROVE  i = j
    <3>1. PICK q, o : q = running'[i] /\ o = running'[j]
      OBVIOUS
    <3>2. Awaiting(q, l)' /\ Awaiting(o, l)'
      BY <2>2, <3>1
    <3>3. \A x : Task(x)' = Task(x)
      BY <1>1 DEF Task
    <3>4. Awaiting(q, l) /\ Awaiting(o, l)
      BY <3>2, <3>3 DEF Awaiting
    <3>5. \A x : x = r /\ Awaiting(x, l) => l \in Shows(t, k)
      BY <1>2, <1>7 DEF Awaiting
    <3>6. CASE i = s /\ j = s
      BY <3>6
    <3>7. CASE i = s /\ j # s
      <4>1. o = running[j] /\ running[j] # Idle /\ q = r
        BY <1>8, <1>13, <2>2, <3>1, <3>7
      <4> QED BY <1>12, <1>14, <3>4, <3>5, <4>1
    <3>8. CASE i # s /\ j = s
      <4>1. q = running[i] /\ running[i] # Idle /\ o = r
        BY <1>8, <1>13, <2>2, <3>1, <3>8
      <4> QED BY <1>12, <1>14, <3>4, <3>5, <4>1
    <3>9. CASE i # s /\ j # s
      <4>1. q = running[i] /\ running[i] # Idle /\ o = running[j] /\ running[j] # Idle
        BY <1>13, <2>2, <3>1, <3>9
      <4> QED BY <2>1, <3>4, <4>1 DEF Sole
    <3> QED BY <3>6, <3>7, <3>8, <3>9
  <2> QED BY <2>2 DEF Sole
<1>15. Known(r)'
  <2>1. Current(r)'
    BY <1>3, <1>7 DEF Current
  <2>2. PutsCurrent(r)'
    BY <1>7, <1>9, <1>10 DEF PutsCurrent
  <2>3. OthersCurrent(r)'
    BY <1>7 DEF OthersCurrent
  <2> QED BY <2>1, <2>2, <2>3 DEF Known
<1>16. ASSUME NEW i \in Slots, running'[i] # Idle PROVE Known(running[i])'
  <2>1. CASE i = s
    BY <1>8, <1>15, <2>1
  <2>2. CASE i # s
    <3>1. PICK q : q = running[i] /\ q = running'[i] /\ q # Idle
      BY <1>13, <1>16, <2>2
    <3>2. Known(q)'
      BY <1>1, <3>1, KnownMeanwhile
    <3> QED BY <3>1, <3>2
  <2> QED BY <2>1, <2>2
<1>17. ASSUME NEW l \in c.asks, l \notin c.blanks, c.copies = NoList PROVE Coming(l)'
  <2>1. l \in Shows(t, 0) /\ Sure(t, 0, l)
    BY <1>1, <1>6, <1>17, ShownAssumption DEF Here
  <2>2. Sure(t, k, l)
    BY <1>9, <2>1, SureLater
  <2>3. Brings(r, l)'
    BY <1>3, <1>7, <1>9, <1>10, <2>1, <2>2 DEF Brings, Awaiting
  <2> QED BY <1>7, <1>8, <2>3 DEF Coming
<1> QED BY <1>1, <1>11, <1>14, <1>16, <1>17, UsedShown

\* The page is opened with empty lists, about questions not changed yet.
LEMMA InitShown == Init => ShownInv
<1> SUFFICES ASSUME Init PROVE ShownInv
  OBVIOUS
<1>1. page \in DOMAIN Pages
  BY DEF Init
<1>2. PICK asks : asks = asked
  OBVIOUS
<1>3. PICK r : r = Begin(Mount, 1, asks, 0, 0)
  OBVIOUS
<1>4. \A i \in Slots : running[i] # Idle => running[i] = r /\ i = 1
  BY <1>2, <1>3 DEF Init
<1>5. /\ r.task = Mount /\ r.step = 1 /\ r.asks = asks /\ r.served = FALSE
  BY <1>3 DEF Begin
<1>6. PICK t : t = TaskOf(page, Mount)
  OBVIOUS
<1>7. t.steps = <<Await(Pages[page].mounts)>> /\ Task(Mount) = t /\ Mount \in Tasks(page)
  BY <1>6 DEF TaskOf, Task, Tasks, Reads, Handler
<1>8. Len(t.steps) = 1 /\ t.steps[1].op = "await"
  BY <1>7 DEF Await
<1>9. Known(r)
  <2>1. Current(r)
    BY <1>2, <1>5 DEF Current
  <2>2. PutsCurrent(r)
    BY <1>5, <1>7, <1>8 DEF PutsCurrent, PutNext, Steps
  <2>3. OthersCurrent(r)
    BY <1>5 DEF OthersCurrent
  <2> QED BY <2>1, <2>2, <2>3 DEF Known
<1>10. \A l \in Loads : Sole(l)
  BY <1>4 DEF Sole
<1>11. \A l \in Loads : asked[l] = 0 /\ shown[l].question = 0 /\ shown[l].at = 0 /\ due[l] = 0
  BY DEF Init
<1>12. \A l \in Loads : Answered(l) /\ Recent(l)
  BY <1>11 DEF Answered, Recent
<1>13. ASSUME NEW l \in Loads, NEW other \in Here.loads[l].also PROVE asked[other] = 0
  BY <1>1, <1>11, <1>13, PagesAssumption DEF Loads, Here
<1> QED BY <1>4, <1>9, <1>10, <1>12, <1>13 DEF ShownInv

\* Every step keeps what is shown up to date or about to be.
LEMMA NextShown == Typed /\ LocksInv /\ ShownInv /\ [Next]_vars => ShownInv'
<1> SUFFICES ASSUME Typed, LocksInv, ShownInv, [Next]_vars PROVE ShownInv'
  OBVIOUS
<1>1. CASE \E c \in Here.controls : Click(c)
  BY <1>1, UseShown, StartShown, Zenon
<1>2. CASE \E i \in Slots : Goes(i)
  BY <1>2, GoesShown, Zenon
<1>3. CASE UNCHANGED vars
  <2>1. /\ page' = page /\ running' = running /\ asked' = asked /\ shown' = shown
        /\ Missing' = Missing /\ due' = due /\ raced' = raced
    BY <1>3 DEF vars, Missing
  <2>2. Loads' = Loads /\ Here' = Here /\ \A n : Task(n)' = Task(n)
    BY <2>1 DEF Loads, Here, Task
  <2>3. \A r, l : (Awaiting(r, l)' <=> Awaiting(r, l)) /\ (Brings(r, l)' <=> Brings(r, l))
    BY <2>1, <2>2 DEF Awaiting, Brings
  <2>4. \A r : Known(r) => Known(r)'
    BY <2>1, <2>2, <2>3 DEF Known, Current, PutsCurrent, OthersCurrent
  <2>5. \A l : (Sole(l) => Sole(l)') /\ (Coming(l) => Coming(l)')
    BY <2>1, <2>3 DEF Sole, Coming
  <2>6. \A l : (Answered(l) => Answered(l)') /\ (Recent(l) => Recent(l)')
    BY <2>1, <2>2, <2>5 DEF Answered, Recent
  <2>7. ASSUME NEW i \in Slots, running'[i] # Idle PROVE Known(running[i])'
    <3>1. PICK q : q = running[i] /\ q = running'[i]
      BY <2>1
    <3>2. Known(q)'
      BY <2>4, <2>7, <3>1 DEF ShownInv
    <3> QED BY <3>1, <3>2
  <2> QED BY <2>1, <2>2, <2>5, <2>6, <2>7 DEF ShownInv
<1> QED BY <1>1, <1>2, <1>3, Zenon DEF Next

\* When no handler is under way, nothing is about to come.
LEMMA ShownAtRest ==
    Typed /\ ShownInv => OwnWritesShown /\ AnswersTheQuestion
<1> SUFFICES ASSUME Typed, ShownInv, Quiet
             PROVE  \A l \in Loads \ Missing :
                        /\ l \notin raced => shown[l].at >= due[l]
                        /\ (l \in raced => Here.loads[l].guarded) => shown[l].question = asked[l]
  BY DEF OwnWritesShown, AnswersTheQuestion, Missing
<1>1. \A l : ~ Coming(l)
  BY DEF Quiet, Coming
<1> QED BY <1>1 DEF ShownInv, Answered, Recent

\* A page at rest shows the changes it made itself, whatever the user clicked
\* and in whatever order the answers came: every handler that changes something
\* reads what depends on it anew, after the change was answered.  The older rows
\* are left only by reads of a list that overlapped, and by a failed read on the
\* pages that keep them then (Keeping); the others show that it failed.
THEOREM OwnWritesAreShown == Spec => []OwnWritesShown
<1>1. Init /\ [][Next]_vars => [](Typed /\ LocksInv /\ ShownInv)
  BY InitTyped, InitLocks, InitShown, NextTyped, NextShown, PTL
<1> QED BY <1>1, ShownAtRest, PTL DEF Spec

\* A page at rest shows the answer to the question it asks now: a control that
\* changes the question asks it at once or takes the old answer away, and where
\* a flag guards the read, late answers to earlier questions are dropped.  The
\* exceptions are unguarded reads that overlapped, and the rows of an earlier
\* question that pages keep when a read fails (Keeping).
THEOREM TheQuestionIsAnswered == Spec => []AnswersTheQuestion
<1>1. Init /\ [][Next]_vars => [](Typed /\ LocksInv /\ ShownInv)
  BY InitTyped, InitLocks, InitShown, NextTyped, NextShown, PTL
<1> QED BY <1>1, ShownAtRest, PTL DEF Spec

-----------------------------------------------------------------------------
(* What a handler has still to close. *)

\* What is not between j and k is at k or beyond.
LEMMA NotBetween ==
    ASSUME NEW len \in Nat, NEW j \in 1..len, NEW m \in 1..len, NEW k \in (j + 1)..(len + 1),
           j <= m, m # j, ~ (m \in (j + 1)..(k - 1))
    PROVE  k <= m /\ k \in 1..len /\ k <= len
OBVIOUS

\* A handler that has still to close the dialog has to do so before its next
\* await, or after.
LEMMA StillToClose ==
    ASSUME NEW t, Len(t.steps) \in Nat, NEW d, NEW j \in ToClose(t, d),
           NEW k, k = NextAwait(t, j, TRUE)
    PROVE  k \in ToClose(t, d) \/ d \in Named(t, "close", j, k)
<1>1. j \in Steps(t) /\ \E m \in Steps(t) : /\ j <= m /\ IsAwait(t.steps[m])
                                            /\ d \in Named(t, "close", m, NextAwait(t, m, TRUE))
  BY DEF ToClose
<1>2. PICK m \in Steps(t) : /\ j <= m /\ IsAwait(t.steps[m])
                            /\ d \in Named(t, "close", m, NextAwait(t, m, TRUE))
  BY <1>1
<1>3. j \in 1..Len(t.steps) /\ m \in 1..Len(t.steps) /\ j \in 0..Len(t.steps)
  BY <1>1, <1>2 DEF Steps
<1>4. CASE m = j
  BY <1>2, <1>4
<1>5. CASE m # j
  <2>1. /\ k \in (j + 1)..(Len(t.steps) + 1)
        /\ k <= Len(t.steps) => IsAwait(t.steps[k]) /\ (TRUE \/ t.steps[k].op # "then")
        /\ \A x \in (j + 1)..(k - 1) : ~ (IsAwait(t.steps[x]) /\ (TRUE \/ t.steps[x].op # "then"))
    BY <1>3, NextAwaitIsNext, Zenon
  <2>2. \A x \in (j + 1)..(k - 1) : ~ IsAwait(t.steps[x])
    BY <2>1
  <2>3. ~ (m \in (j + 1)..(k - 1))
    BY <1>2, <2>2
  <2>4. k <= m /\ k \in Steps(t) /\ k <= Len(t.steps)
    <3>1. PICK len : len = Len(t.steps)
      OBVIOUS
    <3>2. j \in 1..len /\ m \in 1..len /\ len \in Nat /\ k \in (j + 1)..(len + 1) /\ j <= m
      BY <1>2, <1>3, <2>1, <3>1
    <3>3. k <= m /\ k \in 1..len /\ k <= len
      BY <1>5, <2>3, <3>2, NotBetween, Zenon
    <3> QED BY <3>1, <3>3 DEF Steps
  <2>5. IsAwait(t.steps[k])
    BY <2>1, <2>4, Zenon
  <2> QED BY <1>2, <2>4, <2>5 DEF ToClose
<1> QED BY <1>4, <1>5

\* It has so at the awaits before.
LEMMA ToCloseBefore ==
    ASSUME NEW t, Len(t.steps) \in Nat, NEW d, NEW k \in ToClose(t, d),
           NEW j \in Steps(t), j <= k, IsAwait(t.steps[j])
    PROVE  j \in ToClose(t, d)
<1>1. k \in Steps(t) /\ \E m \in Steps(t) : /\ k <= m /\ IsAwait(t.steps[m])
                                            /\ d \in Named(t, "close", m, NextAwait(t, m, TRUE))
  BY DEF ToClose
<1>2. PICK m \in Steps(t) : /\ k <= m /\ IsAwait(t.steps[m])
                            /\ d \in Named(t, "close", m, NextAwait(t, m, TRUE))
  BY <1>1
<1>3. j <= m
  BY <1>1, <1>2 DEF Steps
<1> QED BY <1>2, <1>3 DEF ToClose

\* What a handler closes on its way from an await it had still to close there.
LEMMA ClosingIsAhead ==
    ASSUME NEW t, Len(t.steps) \in Nat, NEW j \in Steps(t), IsAwait(t.steps[j]),
           NEW k \in (j + 1)..(Len(t.steps) + 1), NEW d \in Named(t, "close", j, k)
    PROVE  j \in ToClose(t, d)
<1>1. PICK len : len = Len(t.steps)
  OBVIOUS
<1>2. PICK x \in (j + 1)..(k - 1) : t.steps[x].op = "close" /\ d \in t.steps[x].on
  BY DEF Named
<1>3. len \in Nat /\ j \in 1..len /\ x \in 1..len /\ j < x
  BY <1>1, <1>2 DEF Steps
<1> DEFINE Before == {m \in 1..len : m <= x /\ IsAwait(t.steps[m])}
<1>4. Before \in SUBSET (1..len) /\ j \in Before
  BY <1>3
<1>5. \E m \in Before : \A y \in Before : y <= m
  BY <1>3, <1>4, GreatestNumber, Zenon
<1>6. PICK m \in Before : \A y \in Before : y <= m
  BY <1>5
<1>7. PICK n : n = NextAwait(t, m, TRUE)
  OBVIOUS
<1>8. m \in 1..len /\ m <= x /\ IsAwait(t.steps[m]) /\ j <= m
  BY <1>4, <1>6
<1>9. m # x
  BY <1>2, <1>8 DEF IsAwait
<1>10. n \in (m + 1)..(len + 1) /\ (n <= len => IsAwait(t.steps[n]))
  <2>1. m \in 0..Len(t.steps)
    BY <1>1, <1>3, <1>8
  <2>2. /\ n \in (m + 1)..(Len(t.steps) + 1)
        /\ n <= Len(t.steps) => IsAwait(t.steps[n]) /\ (TRUE \/ t.steps[n].op # "then")
    BY <1>7, <2>1, NextAwaitIsNext, Zenon
  <2> QED BY <1>1, <2>2
<1>11. x < n
  <2>1. ASSUME n <= x PROVE FALSE
    <3>1. n <= len /\ n \in 1..len
      BY <1>3, <1>8, <1>10, <2>1
    <3>2. n \in Before
      BY <1>10, <2>1, <3>1
    <3> QED BY <1>6, <1>8, <1>10, <3>2
  <2> QED BY <1>3, <1>8, <1>10, <2>1
<1>12. x \in (m + 1)..(n - 1)
  BY <1>3, <1>8, <1>9, <1>10, <1>11
<1>13. d \in Named(t, "close", m, n)
  BY <1>2, <1>12 DEF Named
<1>14. m \in Steps(t)
  BY <1>1, <1>8 DEF Steps
<1> QED BY <1>7, <1>8, <1>13, <1>14 DEF ToClose

\* And it is one of the dialogs that the handler closes.
LEMMA NamedIsClosed ==
    ASSUME NEW t, Len(t.steps) \in Nat, NEW j \in Steps(t),
           NEW k \in (j + 1)..(Len(t.steps) + 1), NEW d \in Named(t, "close", j, k),
           d # NoDialog
    PROVE  d \in Closed(t)
<1>1. PICK x \in (j + 1)..(k - 1) : t.steps[x].op = "close" /\ d \in t.steps[x].on
  BY DEF Named
<1>2. x \in Steps(t)
  BY <1>1 DEF Steps
<1> QED BY <1>1, <1>2 DEF Closed

-----------------------------------------------------------------------------
(* Dialogs that close. *)

\* No two dialogs that are open have the same name, and one that opens in
\* another is in front of it.
Nested ==
    /\ \A n \in 1..Len(opened) : opened[n] \notin {OnPage, NoDialog}
    /\ \A m, n \in dialogs : opened[m] = opened[n] => m = n
    /\ \A c \in Inner(page) : \A n \in dialogs :
         opened[n] = c.opens => \E m \in dialogs : m < n /\ opened[m] = c.within

\* A handler closes the dialogs with the name of the one it belongs to, if any.
ClosesOwn(r) ==
    Closed(Task(r.task)) \subseteq {IF r.from = 0 THEN OnPage ELSE opened[r.from]}

NestedInv == Nested /\ \A i \in Slots : running[i] # Idle => ClosesOwn(running[i])

\* Some dialogs close, none of them below one that was opened in it.
Closing(gone) ==
    \A c \in Inner(page) : c.within \in gone => \A n \in dialogs : opened[n] # c.opens

\* Dialogs that close leave the others nested.
LEMMA FewerNested ==
    ASSUME Nested, page' = page, opened' = opened, NEW gone, Closing(gone),
           dialogs' = Without(gone)
    PROVE  Nested'
<1>1. dialogs' \subseteq dialogs /\ \A n \in dialogs : n \in dialogs' <=> opened[n] \notin gone
  BY DEF Without
<1>2. Inner(page') = Inner(page)
  BY DEF Inner
<1>3. ASSUME NEW c \in Inner(page), NEW n \in dialogs', opened[n] = c.opens
      PROVE  \E m \in dialogs' : m < n /\ opened[m] = c.within
  <2>1. n \in dialogs /\ c.within \notin gone
    BY <1>1, <1>3 DEF Closing
  <2>2. PICK m \in dialogs : m < n /\ opened[m] = c.within
    BY <1>3, <2>1 DEF Nested
  <2> QED BY <1>1, <2>1, <2>2
<1> QED BY <1>1, <1>2, <1>3 DEF Nested

\* And one opens: it has a name of its own, and is in front.
LEMMA MoreNested ==
    ASSUME Nested, DialogsOK, page' = page, NEW gone, Closing(gone),
           NEW n, n = Len(opened) + 1, Len(opened') = n,
           \A m \in 1..Len(opened) : opened'[m] = opened[m],
           dialogs' = Without(gone) \cup {n},
           opened'[n] \notin {OnPage, NoDialog},
           \A m \in Without(gone) : opened[m] # opened'[n],
           \A c \in Inner(page) : c.opens = opened'[n]
               => \E m \in Without(gone) : opened[m] = c.within
    PROVE  Nested'
<1>1. Len(opened) \in Nat /\ dialogs \subseteq 1..Len(opened)
  BY DEF DialogsOK
<1>2. PICK others : others = Without(gone)
  OBVIOUS
<1>3. /\ others \subseteq dialogs /\ \A m \in dialogs : m \in others <=> opened[m] \notin gone
      /\ dialogs' = others \cup {n}
  BY <1>2 DEF Without
<1>4. Inner(page') = Inner(page)
  BY DEF Inner
<1>5. \A m \in others : m \in 1..Len(opened) /\ m # n /\ opened'[m] = opened[m] /\ m < n
  BY <1>1, <1>3
<1>6. \A m \in 1..Len(opened') : opened'[m] \notin {OnPage, NoDialog}
  <2>1. \A m \in 1..Len(opened') : m = n \/ m \in 1..Len(opened)
    BY <1>1
  <2> QED BY <2>1 DEF Nested
<1>7. ASSUME NEW x \in dialogs', NEW y \in dialogs', opened'[x] = opened'[y]
      PROVE  x = y
  <2>1. CASE x \in others /\ y \in others
    BY <1>3, <1>5, <1>7, <2>1 DEF Nested
  <2>2. CASE x = n \/ y = n
    BY <1>2, <1>3, <1>5, <1>7, <2>2
  <2> QED BY <1>3, <2>1, <2>2
<1>8. ASSUME NEW c \in Inner(page), NEW x \in dialogs', opened'[x] = c.opens
      PROVE  \E m \in dialogs' : m < x /\ opened'[m] = c.within
  <2>1. CASE x = n
    <3>1. PICK m \in others : opened[m] = c.within
      BY <1>2, <1>8, <2>1
    <3> QED BY <1>3, <1>5, <2>1, <3>1
  <2>2. CASE x \in others
    <3>1. opened[x] = c.opens /\ x \in dialogs
      BY <1>3, <1>5, <1>8, <2>2
    <3>2. PICK m \in dialogs : m < x /\ opened[m] = c.within
      BY <3>1 DEF Nested
    <3>3. m \in others
      BY <1>3, <3>1, <3>2 DEF Closing
    <3> QED BY <1>3, <1>5, <3>2, <3>3
  <2> QED BY <1>3, <2>1, <2>2
<1> QED BY <1>4, <1>6, <1>7, <1>8 DEF Nested

\* What a handler leaves of the dialogs as it goes on or ends.
Moves(gone) ==
    \/ dialogs' = Without(gone) /\ opened' = opened
    \/ \E d \in Raised(page) : /\ opened' = Append(opened, d) /\ Len(opened) < MaxOpens
                               /\ dialogs' = Without(gone) \cup {Len(opened')}
                               /\ \A n \in dialogs : opened[n] # d

\* What a handler that is suspended can close.
MayClose(r) == Closed(Task(r.task)) \cup {NoDialog}

\* It closes nothing while it waits; else what its catch closes, or what it
\* names on its way to where it goes.
ClosesAsItGoes(s, gone, r) ==
    LET t == Task(running[s].task)
        j == running[s].step
    IN \/ gone = {} /\ (r # Idle => r.step = j)
       \/ gone = t.quits /\ r = Idle
       \/ \E fine \in BOOLEAN : /\ gone = Named(t, "close", j, NextAwait(t, j, fine))
                                /\ r # Idle => r.step = NextAwait(t, j, fine)

\* What a handler closes, and what it opens, as it goes on.
LEMMA ContinueCloses ==
    ASSUME Typed, page' = page, NEW s \in Slots, running[s] # Idle,
           NEW cleared, NEW answers, NEW fine, Continue(s, cleared, answers, fine)
    PROVE  \E gone \in SUBSET MayClose(running[s]) :
              /\ gone = Named(Task(running[s].task), "close", running[s].step,
                              NextAwait(Task(running[s].task), running[s].step, fine))
              /\ Moves(gone)
<1>1. HandlersOK /\ DialogsOK /\ Len(opened) \in Nat
  BY DEF Typed, DialogsOK
<1>2. PICK t, j, k : Going(s, t, j, k, fine)
  BY DEF Going
<1>3. /\ t = TaskOf(page, running[s].task) /\ running[s].task \in Tasks(page)
      /\ Len(t.steps) \in Nat /\ j \in 1..Len(t.steps)
      /\ k \in (j + 1)..(Len(t.steps) + 1)
      /\ \A m \in Steps(t) : t.steps[m].op \in {"await", "then", "put"}
                           => t.steps[m].on \subseteq Loads
  BY <1>1, <1>2, HandlerGoes
<1>4. PICK gone : gone = Named(t, "close", j, k)
  OBVIOUS
<1>5. PICK answered : answered = IF fine THEN ReadAt(t, j) ELSE {}
  OBVIOUS
<1>6. PICK raised :
        raised = {d \in Named(t, "raise", j, k) \cup UNION {Here.loads[l].raises : l \in answered} :
                     /\ Len(opened) < MaxOpens
                     /\ \A n \in dialogs : opened[n] # d}
  OBVIOUS
<1>7. \/ dialogs' = Without(gone) /\ opened' = opened
      \/ \E d \in raised : /\ opened' = Append(opened, d)
                           /\ dialogs' = Without(gone) \cup {Len(opened')}
  BY <1>2, <1>4, <1>5, <1>6, Zenon DEF Continue, Going
<1>8. \A m \in (j + 1)..(k - 1) : m \in Steps(t) /\ t.steps[m] \in StepsOf(t)
  BY <1>3 DEF Steps, StepsOf
<1>9. gone \subseteq Closed(t) \cup {NoDialog}
  BY <1>4, <1>8 DEF Named, Closed
<1>10. raised \subseteq Raised(page)
  <2>1. answered \subseteq DOMAIN Pages[page].loads
    BY <1>3, <1>5 DEF ReadAt, Steps, Loads, Here
  <2>2. \A l \in answered : Here.loads[l].raises \subseteq Raised(page)
    BY <2>1 DEF Raised, Here
  <2>3. Named(t, "raise", j, k) \subseteq Raised(page)
    <3>1. Named(t, "raise", j, k) \subseteq RaisedBy(t)
      BY <1>8 DEF Named, RaisedBy
    <3>2. RaisedBy(t) \subseteq Raised(page)
      BY <1>3 DEF Raised
    <3> QED BY <3>1, <3>2
  <2> QED BY <1>6, <2>2, <2>3
<1>11. Task(running[s].task) = t /\ running[s].step = j /\ k = NextAwait(t, j, fine)
  BY <1>2 DEF Going
<1>12. Moves(gone)
  BY <1>6, <1>7, <1>10 DEF Moves
<1>13. gone \in SUBSET MayClose(running[s])
  BY <1>9, <1>11 DEF MayClose
<1> QED BY <1>4, <1>11, <1>12, <1>13

\* A handler that goes on closes what it may, and opens at most one dialog.
LEMMA ContinueMoves ==
    ASSUME Typed, page' = page, NEW s \in Slots, running[s] # Idle,
           NEW cleared, NEW answers, NEW fine \in BOOLEAN, Continue(s, cleared, answers, fine)
    PROVE  /\ \E gone \in SUBSET MayClose(running[s]) :
                 Moves(gone) /\ ClosesAsItGoes(s, gone, running'[s])
           /\ running' = [running EXCEPT ![s] = running'[s]]
           /\ running'[s] # running[s]
           /\ running'[s] # Idle => /\ running'[s].task = running[s].task
                                    /\ running'[s].from = running[s].from
<1>1. HandlersOK
  BY DEF Typed
<1>2. PICK gone \in SUBSET MayClose(running[s]) :
              /\ gone = Named(Task(running[s].task), "close", running[s].step,
                              NextAwait(Task(running[s].task), running[s].step, fine))
              /\ Moves(gone)
  BY ContinueCloses
<1>3. PICK t, j, k : Going(s, t, j, k, fine)
  BY DEF Going
<1>4. PICK r : /\ running' = [running EXCEPT ![s] = r]
               /\ r # Idle => k <= Len(t.steps)
               /\ k <= Len(t.steps) => /\ r.task = running[s].task /\ r.step = k
                                       /\ r.from = running[s].from
  <2>1. \E x : /\ running' = [running EXCEPT ![s] = x]
               /\ k > Len(t.steps) => x = Idle
               /\ x # Idle => k <= Len(t.steps)
               /\ k <= Len(t.steps) =>
                     /\ x.task = running[s].task /\ x.step = k
                     /\ x.asks = running[s].asks /\ x.from = running[s].from
                     /\ x.served = FALSE /\ x.at = 0 /\ x.got = Got(s)
                     /\ x # Idle
    BY <1>1, <1>3, ContinueSlot, Zenon
  <2> QED BY <2>1
<1>5. running'[s] = r
  BY <1>1, <1>4 DEF HandlersOK
<1>6. j = running[s].step /\ j \in Nat /\ k > j
  BY <1>1, <1>3, HandlerGoes DEF Going
<1>7. r # running[s]
  BY <1>4, <1>6
<1>8. r # Idle => r.step = NextAwait(Task(running[s].task), running[s].step, fine)
  BY <1>3, <1>4 DEF Going
<1>9. ClosesAsItGoes(s, gone, r)
  BY <1>2, <1>8 DEF ClosesAsItGoes
<1> QED BY <1>2, <1>4, <1>5, <1>7, <1>9

\* One that gives up opens none.
LEMMA AbortMoves ==
    ASSUME Typed, page' = page, NEW s \in Slots, running[s] # Idle,
           NEW cleared, Abort(s, cleared)
    PROVE  /\ \E gone \in SUBSET MayClose(running[s]) :
                 Moves(gone) /\ ClosesAsItGoes(s, gone, running'[s])
           /\ running' = [running EXCEPT ![s] = running'[s]]
           /\ running'[s] = Idle
<1>1. /\ running' = [running EXCEPT ![s] = Idle] /\ opened' = opened
      /\ dialogs' = Without(Task(running[s].task).quits)
  BY DEF Abort
<1>2. running'[s] = Idle
  BY <1>1 DEF Typed, HandlersOK
<1>3. Task(running[s].task).quits \in SUBSET MayClose(running[s])
  BY DEF MayClose, Closed
<1>4. PICK gone : gone = Task(running[s].task).quits
  OBVIOUS
<1>5. gone \in SUBSET MayClose(running[s]) /\ Moves(gone)
  BY <1>1, <1>3, <1>4 DEF Moves
<1>6. ClosesAsItGoes(s, gone, running'[s])
  BY <1>2, <1>4 DEF ClosesAsItGoes
<1> QED BY <1>1, <1>2, <1>5, <1>6

\* A step of a handler changes its slot, and closes no dialog it may not close.
LEMMA GoesMoves ==
    ASSUME Typed, NEW s \in Slots, Goes(s)
    PROVE  /\ page' = page /\ running[s] # Idle
           /\ \E gone \in SUBSET MayClose(running[s]) :
                 Moves(gone) /\ ClosesAsItGoes(s, gone, running'[s])
           /\ running' = [running EXCEPT ![s] = running'[s]]
           /\ running'[s] # running[s]
           /\ running'[s] # Idle => /\ running'[s].task = running[s].task
                                    /\ running'[s].from = running[s].from
<1> DEFINE Concl == /\ page' = page /\ running[s] # Idle
                    /\ \E gone \in SUBSET MayClose(running[s]) :
                          Moves(gone) /\ ClosesAsItGoes(s, gone, running'[s])
                    /\ running' = [running EXCEPT ![s] = running'[s]]
                    /\ running'[s] # running[s]
                    /\ running'[s] # Idle => /\ running'[s].task = running[s].task
                                             /\ running'[s].from = running[s].from
<1>1. CASE Serve(s)
  <2>1. /\ page' = page /\ running[s] # Idle /\ ~ running[s].served
        /\ opened' = opened /\ dialogs' = dialogs
    BY <1>1 DEF Serve, Suspended
  <2>2. PICK was, v : was = running[s] /\ v = version'
    OBVIOUS
  <2>3. running' = [running EXCEPT ![s] = Served(was, v)]
    BY <1>1, <2>2 DEF Serve
  <2>4. running'[s] = Served(was, v)
    BY <2>3 DEF Typed, HandlersOK
  <2>5. /\ Served(was, v).task = was.task /\ Served(was, v).from = was.from
        /\ Served(was, v).step = was.step /\ Served(was, v).served = TRUE
    BY DEF Served
  <2>6. Served(was, v) # was
    BY <2>1, <2>2, <2>5
  <2>7. Without({}) = dialogs
    BY DEF Without
  <2>8. Moves({})
    BY <2>1, <2>7 DEF Moves
  <2>9. ClosesAsItGoes(s, {}, running'[s])
    BY <2>2, <2>4, <2>5 DEF ClosesAsItGoes
  <2> QED BY <2>1, <2>2, <2>3, <2>4, <2>5, <2>6, <2>8, <2>9
<1>2. ASSUME page' = page, running[s] # Idle,
             \/ \E cleared, answers : \E fine \in BOOLEAN : Continue(s, cleared, answers, fine)
             \/ \E cleared : Abort(s, cleared)
      PROVE  Concl
  <2>1. CASE \E cleared, answers : \E fine \in BOOLEAN : Continue(s, cleared, answers, fine)
    BY <1>2, <2>1, ContinueMoves, Zenon
  <2>2. CASE \E cleared : Abort(s, cleared)
    BY <1>2, <2>2, AbortMoves, Zenon
  <2> QED BY <1>2, <2>1, <2>2
<1> HIDE DEF Concl
<1>3. CallAnswered(s) => Concl
  BY <1>2, Zenon DEF CallAnswered, Suspended
<1>4. CallRefused(s) => Concl
  BY <1>2, Zenon DEF CallRefused, Suspended, Recovers
<1>5. CallLost(s) => Concl
  BY <1>2, Zenon DEF CallLost, Suspended, Recovers
<1>6. TimerFires(s) => Concl
  BY <1>2, Zenon DEF TimerFires, Suspended
<1>7. ReadAnswered(s) => Concl
  BY <1>2, Zenon DEF ReadAnswered, Suspended
<1>8. ReadFailed(s) => Concl
  BY <1>2, Zenon DEF ReadFailed, Suspended
<1>9. Serve(s) => Concl
  BY <1>1, Zenon DEF Concl
<1>10. Concl
  BY <1>3, <1>4, <1>5, <1>6, <1>7, <1>8, <1>9, Zenon DEF Goes
<1> QED BY <1>10, Zenon DEF Concl

-----------------------------------------------------------------------------
(* Where controls are. *)

\* A control that can be used is beside the dialogs, or on the page while none
\* is open, or in the one in front.
LEMMA UsedInFront ==
    ASSUME Typed, Nested, NEW c \in Here.controls, InFront(c), ~ c.beside
    PROVE  \/ Front = 0 /\ dialogs = {} /\ c.within = OnPage
           \/ /\ Front \in dialogs /\ \A m \in dialogs : m <= Front
              /\ opened[Front] = c.within /\ c.within \notin {OnPage, NoDialog}
<1>1. /\ Front \in 0..Len(opened) /\ (dialogs = {} => Front = 0)
      /\ dialogs # {} => Front \in dialogs /\ \A m \in dialogs : m <= Front
  BY FrontIsOpen DEF Typed
<1>2. dialogs \subseteq 1..Len(opened) /\ Len(opened) \in Nat
  BY DEF Typed, DialogsOK
<1>3. CASE dialogs = {}
  BY <1>1, <1>3 DEF InFront
<1>4. CASE dialogs # {}
  <2>1. Front \in 1..Len(opened)
    BY <1>1, <1>2, <1>4
  <2>2. opened[Front] = c.within
    BY <2>1 DEF InFront
  <2>3. opened[Front] \notin {OnPage, NoDialog}
    BY <2>1 DEF Nested
  <2> QED BY <1>1, <1>4, <2>2, <2>3
<1> QED BY <1>3, <1>4

\* The dialogs and controls of a page, as DialogAssumption has them.
LEMMA ControlsOfDialogs ==
    ASSUME HandlersOK, NEW c \in Here.controls
    PROVE  /\ {OnPage, NoDialog} \cap Raised(page) = {}
           /\ c.opens # OnPage
           /\ c.closes => c.starts = NoTask /\ ~ c.beside /\ c.opens = NoDialog
           /\ c.opens # NoDialog => ~ c.beside
           /\ c.starts # NoTask =>
                \A d \in Closed(Task(c.starts)) : DialogOf(c) = d /\ ~ c.beside
           /\ c.starts # NoTask => c.starts \in Tasks(page)
<1>1. page \in DOMAIN Pages /\ c \in Pages[page].controls
  BY DEF HandlersOK, Here
<1>2. /\ c.opens # OnPage
      /\ c.closes => c.starts = NoTask /\ ~ c.beside
      /\ c.opens # NoDialog => ~ c.beside
      /\ c.starts # NoTask => \A d \in Closed(TaskOf(page, c.starts)) :
                                DialogOf(c) = d /\ ~ c.beside
  BY <1>1, DialogAssumption, Zenon
<1>3. {OnPage, NoDialog} \cap Raised(page) = {}
  BY <1>1, DialogAssumption, Zenon
<1>4. /\ c.closes => c.opens = NoDialog
      /\ c.starts \in DOMAIN Pages[page].tasks \cup {NoTask}
  BY <1>1, PagesAssumption, Zenon
<1> QED BY <1>2, <1>3, <1>4 DEF Task, Tasks

\* What a handler may close has no dialog open above it.
LEMMA HandlersClose ==
    ASSUME Typed, Nested, NEW s \in Slots, running[s] # Idle,
           NEW gone \in SUBSET MayClose(running[s])
    PROVE  Closing(gone)
<1>1. page \in DOMAIN Pages /\ running[s].task \in Tasks(page)
  BY DEF Typed, HandlersOK
<1>2. ASSUME NEW c \in Inner(page), c.within \in gone, NEW n \in dialogs, opened[n] = c.opens
      PROVE  FALSE
  <2>1. c.within \notin Closed(TaskOf(page, running[s].task))
    BY <1>1, DialogAssumption, Zenon
  <2>2. c.within = NoDialog
    BY <1>2, <2>1 DEF MayClose, Task
  <2>3. PICK m \in dialogs : opened[m] = c.within
    BY <1>2 DEF Nested
  <2>4. m \in 1..Len(opened)
    BY DEF Typed, DialogsOK
  <2> QED BY <2>2, <2>3, <2>4 DEF Nested
<1> QED BY <1>2 DEF Closing

\* Such steps keep the open dialogs distinct, and each above the one it was
\* opened in.
LEMMA MovesNested ==
    ASSUME Typed, Nested, page' = page, NEW gone, Moves(gone), Closing(gone)
    PROVE  /\ Nested'
           /\ Len(opened) \in Nat /\ Len(opened') \in Nat /\ Len(opened) <= Len(opened')
           /\ \A n \in 1..Len(opened) : opened'[n] = opened[n]
           /\ \A n \in dialogs \ dialogs' : opened[n] \in gone
<1>1. DialogsOK /\ page \in DOMAIN Pages /\ Len(opened) \in Nat /\ opened \in Seq(Names(page))
      /\ dialogs \subseteq 1..Len(opened)
  BY DEF Typed, HandlersOK, DialogsOK
<1>2. Without(gone) \subseteq dialogs /\ \A n \in dialogs \ Without(gone) : opened[n] \in gone
  BY DEF Without
<1>3. CASE dialogs' = Without(gone) /\ opened' = opened
  <2>1. Nested'
    BY <1>3, FewerNested
  <2> QED BY <1>1, <1>2, <1>3, <2>1
<1>4. CASE \E d \in Raised(page) : /\ opened' = Append(opened, d) /\ Len(opened) < MaxOpens
                                   /\ dialogs' = Without(gone) \cup {Len(opened')}
                                   /\ \A n \in dialogs : opened[n] # d
  <2>1. PICK d \in Raised(page) : /\ opened' = Append(opened, d)
                                  /\ dialogs' = Without(gone) \cup {Len(opened')}
                                  /\ \A n \in dialogs : opened[n] # d
    BY <1>4
  <2>2. PICK n : n = Len(opened) + 1
    OBVIOUS
  <2>3. Len(opened') = n /\ opened'[n] = d /\ \A m \in 1..Len(opened) : opened'[m] = opened[m]
    BY <1>1, <2>1, <2>2
  <2>4. d \notin {OnPage, NoDialog}
    BY <1>1, DialogAssumption
  <2>5. \A c \in Inner(page) : c.opens # d
    BY <1>1, DialogAssumption
  <2>6. dialogs' = Without(gone) \cup {n}
    BY <2>1, <2>3
  <2>7. /\ opened'[n] \notin {OnPage, NoDialog}
        /\ \A m \in Without(gone) : opened[m] # opened'[n]
        /\ \A c \in Inner(page) : c.opens = opened'[n]
             => \E m \in Without(gone) : opened[m] = c.within
    BY <1>2, <2>1, <2>3, <2>4, <2>5
  <2>8. Nested'
    BY <1>1, <2>2, <2>3, <2>6, <2>7, MoreNested, Zenon
  <2> QED BY <1>1, <1>2, <2>2, <2>3, <2>6, <2>8
<1> QED BY <1>3, <1>4, Zenon DEF Moves

\* What stays in the other slots closes what it closed before.
LEMMA OthersCloseOwn ==
    ASSUME Typed, NestedInv, page' = page, NEW s \in Slots,
           \A i \in Slots : i # s => running'[i] = running[i],
           \A n \in 1..Len(opened) : opened'[n] = opened[n],
           running'[s] # Idle => ClosesOwn(running[s])'
    PROVE  \A i \in Slots : running'[i] # Idle => ClosesOwn(running[i])'
<1>1. ASSUME NEW i \in Slots, i # s, running'[i] # Idle
      PROVE  ClosesOwn(running[i])'
  <2>1. PICK q : q = running[i] /\ q = running'[i]
    BY <1>1
  <2>2. ClosesOwn(q) /\ q.from \in Nat /\ q.from <= Len(opened) /\ Len(opened) \in Nat
    BY <1>1, <2>1 DEF NestedInv, Typed, Proper, DialogsOK
  <2>3. Task(q.task)' = Task(q.task)
    BY DEF Task
  <2>4. q.from # 0 => opened'[q.from] = opened[q.from]
    BY <2>2
  <2>5. ClosesOwn(q)'
    BY <2>2, <2>3, <2>4 DEF ClosesOwn
  <2> QED BY <2>1, <2>5
<1> QED BY <1>1

\* While a handler has still to close such a dialog, the one it belongs to is
\* open: nobody can put it aside.
StaysToClose(r) ==
    /\ r.from # 0 /\ <<page, opened[r.from]>> \in Modal
    /\ r.step \in ToClose(Task(r.task), opened[r.from])
    => r.from \in dialogs

StillModal == \A i \in Slots : running[i] # Idle => StaysToClose(running[i])

\* A flag keeps such a dialog open.
LEMMA ModalStaysUnder ==
    ASSUME HandlersOK, NEW d, <<page, d>> \in Modal
    PROVE  \E f : StaysUnder(page, d, f)
<1>1. PICK m \in Modal : m = <<page, d>>
  OBVIOUS
<1>2. m[1] = page /\ m[2] = d /\ page \in DOMAIN Pages
  BY <1>1 DEF HandlersOK
<1>3. \E f \in Flags[m[1]] : StaysUnder(m[1], m[2], f)
  BY <1>2, ModalAssumption
<1> QED BY <1>2, <1>3

\* A handler that has still to close it keeps the flag.
LEMMA ClosersHold ==
    ASSUME HandlersOK, NEW d, d # NoDialog, NEW f, StaysUnder(page, d, f),
           NEW i \in Slots, running[i] # Idle,
           running[i].step \in ToClose(Task(running[i].task), d)
    PROVE  Holds(i, f) /\ running[i].task \in Closers(page, d)
<1>1. PICK n, t, j : n = running[i].task /\ t = Task(n) /\ j = running[i].step
  OBVIOUS
<1>2. n \in Tasks(page) /\ t = TaskOf(page, n) /\ Len(t.steps) \in Nat /\ j \in ToClose(t, d)
  BY <1>1, TasksAreProper DEF HandlersOK, Task
<1>3. PICK m \in Steps(t) : /\ j <= m /\ IsAwait(t.steps[m])
                            /\ d \in Named(t, "close", m, NextAwait(t, m, TRUE))
  BY <1>2 DEF ToClose
<1>4. PICK k : k = NextAwait(t, m, TRUE)
  OBVIOUS
<1>5. k \in (m + 1)..(Len(t.steps) + 1)
  <2>1. m \in 0..Len(t.steps)
    BY <1>2 DEF Steps
  <2> QED BY <1>2, <1>4, <2>1, NextAwaitIsNext
<1>6. d \in Closed(t)
  BY <1>2, <1>3, <1>4, <1>5, NamedIsClosed, Zenon
<1>7. n \in Closers(page, d)
  BY <1>2, <1>6 DEF Closers
<1>8. Keeps(t, f) /\ j < Unawaited(t)
  BY <1>2, <1>7, Zenon DEF StaysUnder
<1> QED BY <1>1, <1>7, <1>8 DEF Holds

\* A handler that closes it had still to close it, and has not any more.
LEMMA ClosersAreDone ==
    ASSUME Typed, NEW s \in Slots, running[s] # Idle,
           NEW gone, NEW r, ClosesAsItGoes(s, gone, r),
           NEW d \in gone, d # NoDialog, NEW f, StaysUnder(page, d, f)
    PROVE  /\ running[s].step \in ToClose(Task(running[s].task), d)
           /\ r # Idle => r.step \notin ToClose(Task(running[s].task), d)
<1>1. PICK n, t, j : n = running[s].task /\ t = Task(n) /\ j = running[s].step
  OBVIOUS
<1>2. /\ n \in Tasks(page) /\ t = TaskOf(page, n) /\ Len(t.steps) \in Nat
      /\ j \in Steps(t) /\ IsAwait(t.steps[j]) /\ HandlersOK
  BY <1>1, TasksAreProper DEF Typed, HandlersOK, Task, Proper, Steps
<1>3. d \notin t.quits
  <2>1. ASSUME d \in t.quits PROVE FALSE
    <3>1. n \in Closers(page, d)
      BY <1>2, <2>1 DEF Closers, Closed
    <3> QED BY <1>2, <2>1, <3>1, Zenon DEF StaysUnder
  <2> QED BY <2>1
<1>4. PICK fine \in BOOLEAN : /\ gone = Named(t, "close", j, NextAwait(t, j, fine))
                              /\ r # Idle => r.step = NextAwait(t, j, fine)
  BY <1>1, <1>3 DEF ClosesAsItGoes
<1>5. PICK k : k = NextAwait(t, j, fine)
  OBVIOUS
<1>6. k \in (j + 1)..(Len(t.steps) + 1)
  <2>1. j \in 0..Len(t.steps)
    BY <1>2 DEF Steps
  <2> QED BY <1>2, <1>5, <2>1, NextAwaitIsNext
<1>7. d \in Named(t, "close", j, k)
  BY <1>4, <1>5
<1>8. j \in ToClose(t, d) /\ d \in Closed(t)
  BY <1>2, <1>6, <1>7, ClosingIsAhead, NamedIsClosed
<1>9. n \in Closers(page, d)
  BY <1>2, <1>8 DEF Closers
<1>10. k \notin ToClose(t, d)
  BY <1>2, <1>4, <1>5, <1>7, <1>9, Zenon DEF StaysUnder
<1> QED BY <1>1, <1>4, <1>5, <1>8, <1>10

\* The dialogs that go in a step: the user closes the one in front, or a
\* handler the one it belongs to.
Leaves ==
    \A n \in dialogs \ dialogs' :
        \/ n = Front /\ running' = running
        \/ \E i \in Slots :
             /\ running[i] # running'[i]
             /\ running[i] # Idle
             /\ \/ running[i].from = n
                \/ /\ <<page, opened[n]>> \notin Modal
                   /\ running[i].from # 0 /\ opened[running[i].from] = opened[n]

\* The steps of the handlers keep the dialogs so, and close no dialog of others.
LEMMA GoesNested ==
    ASSUME Typed, NestedInv, StillModal, NEW s \in Slots, Goes(s)
    PROVE  NestedInv' /\ Leaves
<1>1. /\ page' = page /\ running[s] # Idle
      /\ \E gone \in SUBSET MayClose(running[s]) :
            Moves(gone) /\ ClosesAsItGoes(s, gone, running'[s])
      /\ running' = [running EXCEPT ![s] = running'[s]]
      /\ running'[s] # running[s]
      /\ running'[s] # Idle => /\ running'[s].task = running[s].task
                               /\ running'[s].from = running[s].from
  BY GoesMoves
<1>2. PICK gone \in SUBSET MayClose(running[s]) :
              Moves(gone) /\ ClosesAsItGoes(s, gone, running'[s])
  BY <1>1
<1>3. Nested /\ ClosesOwn(running[s]) /\ running[s].from \in Nat /\ running[s].from <= Len(opened)
      /\ dialogs \subseteq 1..Len(opened)
  BY <1>1 DEF NestedInv, Typed, Proper, DialogsOK
<1>4. Closing(gone)
  BY <1>1, <1>3, HandlersClose
<1>5. /\ Nested'
      /\ Len(opened) \in Nat /\ Len(opened') \in Nat /\ Len(opened) <= Len(opened')
      /\ \A n \in 1..Len(opened) : opened'[n] = opened[n]
      /\ \A n \in dialogs \ dialogs' : opened[n] \in gone
  BY <1>1, <1>2, <1>3, <1>4, MovesNested
<1>6. \A i \in Slots : i # s => running'[i] = running[i]
  BY <1>1 DEF Typed, HandlersOK
<1>7. ASSUME running'[s] # Idle PROVE ClosesOwn(running[s])'
  <2>1. PICK q, r : q = running[s] /\ r = running'[s]
    OBVIOUS
  <2>2. r.task = q.task /\ r.from = q.from
    BY <1>1, <1>7, <2>1
  <2>3. q.from # 0 => opened'[q.from] = opened[q.from]
    BY <1>3, <1>5, <2>1
  <2>4. Task(r.task)' = Task(q.task)
    BY <1>1, <2>2 DEF Task
  <2>5. ClosesOwn(r)'
    BY <1>3, <2>1, <2>2, <2>3, <2>4 DEF ClosesOwn
  <2> QED BY <2>1, <2>5
<1>8. NestedInv'
  BY <1>1, <1>5, <1>6, <1>7, OthersCloseOwn DEF NestedInv
<1>9. ASSUME NEW n \in dialogs \ dialogs'
      PROVE  \/ running[s].from = n
             \/ /\ <<page, opened[n]>> \notin Modal
                /\ running[s].from # 0 /\ opened[running[s].from] = opened[n]
  <2>1. PICK d, r : d = opened[n] /\ r = running'[s]
    OBVIOUS
  <2>2. d \in MayClose(running[s]) /\ d \notin {OnPage, NoDialog} /\ d \in gone
    BY <1>2, <1>3, <1>5, <2>1 DEF Nested
  <2>3. running[s].from # 0 /\ d = opened[running[s].from]
    BY <1>3, <2>2 DEF MayClose, ClosesOwn
  <2>4. ASSUME <<page, d>> \in Modal PROVE running[s].from = n
    <3>1. PICK f : StaysUnder(page, d, f)
      BY <2>4, ModalStaysUnder DEF Typed
    <3>2. running[s].step \in ToClose(Task(running[s].task), d)
      BY <1>1, <1>2, <2>1, <2>2, <3>1, ClosersAreDone
    <3>3. running[s].from \in dialogs
      BY <1>1, <2>3, <2>4, <3>2 DEF StillModal, StaysToClose
    <3> QED BY <1>3, <2>1, <2>3, <3>3 DEF Nested
  <2> QED BY <2>1, <2>3, <2>4
<1> QED BY <1>1, <1>8, <1>9 DEF Leaves

\* The dialogs when a control is used.
LEMMA OpeningNested ==
    ASSUME Typed, Nested, page' = page, NEW c \in Here.controls, InFront(c), Opening(c)
    PROVE  /\ Nested'
           /\ dialogs' # dialogs => opened' # opened \/ c.closes
           /\ \A n \in dialogs \ dialogs' : c.closes /\ n = Front
<1>1. /\ page \in DOMAIN Pages /\ c \in Pages[page].controls /\ DialogsOK
      /\ Len(opened) \in Nat /\ dialogs \subseteq 1..Len(opened)
  BY DEF Typed, HandlersOK, DialogsOK, Here
<1>2. /\ c.opens # OnPage /\ (c.closes => ~ c.beside /\ c.opens = NoDialog)
      /\ c.opens # NoDialog => ~ c.beside
  BY ControlsOfDialogs DEF Typed
<1>3. ~ c.beside =>
        \/ Front = 0 /\ dialogs = {} /\ c.within = OnPage
        \/ /\ Front \in dialogs /\ \A m \in dialogs : m <= Front
           /\ opened[Front] = c.within /\ c.within \notin {OnPage, NoDialog}
  BY UsedInFront
<1>4. CASE c.closes
  <2>1. PICK gone : gone = {c.within}
    OBVIOUS
  <2>2. dialogs' = Without(gone) /\ opened' = opened
    BY <1>4, <2>1 DEF Opening
  <2>3. Closing(gone)
    <3>1. ASSUME NEW d \in Inner(page), d.within \in gone, NEW n \in dialogs, opened[n] = d.opens
          PROVE  FALSE
      <4>1. PICK m \in dialogs : m < n /\ opened[m] = d.within
        BY <3>1 DEF Nested
      <4>2. m = Front /\ n <= Front
        BY <1>2, <1>3, <1>4, <2>1, <3>1, <4>1 DEF Nested
      <4> QED BY <1>1, <4>1, <4>2
    <3> QED BY <3>1 DEF Closing
  <2>4. Nested'
    BY <2>2, <2>3, FewerNested
  <2>5. \A n \in dialogs \ dialogs' : n = Front
    BY <1>2, <1>3, <1>4, <2>1, <2>2 DEF Without, Nested
  <2> QED BY <1>4, <2>4, <2>5
<1>5. CASE ~ c.closes /\ c.opens = NoDialog
  <2>1. dialogs' = dialogs /\ opened' = opened
    BY <1>5 DEF Opening
  <2> QED BY <2>1 DEF Nested, Inner
<1>6. CASE ~ c.closes /\ c.opens # NoDialog
  <2>1. PICK gone, n, d : gone = {} /\ n = Len(opened) + 1 /\ d = c.opens
    OBVIOUS
  <2>2. opened' = Append(opened, d) /\ dialogs' = dialogs \cup {n} /\ Without(gone) = dialogs
    BY <1>6, <2>1 DEF Opening, Without
  <2>3. opened \in Seq(Names(page))
    BY <1>1 DEF DialogsOK
  <2>4. Len(opened') = n /\ opened'[n] = d /\ \A m \in 1..Len(opened) : opened'[m] = opened[m]
    BY <1>1, <2>1, <2>2, <2>3
  <2>5. \A m \in dialogs : opened[m] # d
    <3>1. CASE dialogs = {}
      BY <3>1
    <3>2. CASE dialogs # {}
      <4>1. /\ \A m \in dialogs : m <= Front
            /\ opened[Front] = c.within /\ Front \in dialogs /\ c.within # OnPage
        BY <1>2, <1>3, <1>6, <3>2
      <4>2. c \in Inner(page)
        BY <1>1, <1>6, <4>1 DEF Inner
      <4>3. ASSUME NEW m \in dialogs, opened[m] = d PROVE FALSE
        <5>1. PICK x \in dialogs : x < m /\ opened[x] = c.within
          BY <2>1, <4>2, <4>3 DEF Nested
        <5>2. x = Front /\ m <= Front
          BY <4>1, <5>1 DEF Nested
        <5> QED BY <1>1, <5>1, <5>2
      <4> QED BY <4>3
    <3> QED BY <3>1, <3>2
  <2>6. ASSUME NEW b \in Inner(page), b.opens = d
        PROVE  \E m \in Without(gone) : opened[m] = b.within
    <3>1. \A a \in Pages[page].controls : a.opens = b.opens => a.within = b.within
      BY <1>1, DialogAssumption, Zenon
    <3>2. c.within = b.within /\ b.within # OnPage
      BY <1>1, <2>1, <2>6, <3>1 DEF Inner
    <3> QED BY <1>2, <1>3, <1>6, <2>2, <3>2
  <2>7. Closing(gone)
    BY <2>1 DEF Closing
  <2>8. /\ opened'[n] \notin {OnPage, NoDialog} /\ dialogs' = Without(gone) \cup {n}
        /\ \A m \in Without(gone) : opened[m] # opened'[n]
        /\ \A b \in Inner(page) : b.opens = opened'[n]
             => \E m \in Without(gone) : opened[m] = b.within
    BY <1>2, <1>6, <2>1, <2>2, <2>4, <2>5, <2>6
  <2>9. Nested'
    <3>1. n = Len(opened) + 1 /\ Len(opened') = n /\ \A m \in 1..Len(opened) : opened'[m] = opened[m]
      BY <2>1, <2>4
    <3>2. DialogsOK
      BY <1>1
    <3> QED BY <2>7, <2>8, <3>1, <3>2, MoreNested, Zenon
  <2>10. opened' # opened
    BY <1>1, <2>1, <2>4
  <2> QED BY <2>2, <2>9, <2>10
<1> QED BY <1>4, <1>5, <1>6

\* The handler that a control starts: it belongs to the dialog that the control
\* is in, or opens.
Started(c, r) ==
    /\ r # Idle /\ r.task = c.starts /\ r.step = First(Task(c.starts)) /\ r.served = FALSE
    /\ \/ r.from = 0 /\ (c.beside \/ DialogOf(c) = OnPage)
       \/ /\ ~ c.beside /\ r.from \in 1..Len(opened') /\ opened'[r.from] = DialogOf(c)
          /\ DialogOf(c) # OnPage
    /\ r.from # 0 /\ c.opens = NoDialog =>
          r.from = Front /\ Front \in dialogs /\ opened' = opened /\ dialogs' = dialogs
    /\ c.opens # NoDialog => r.from = Len(opened) + 1

\* A control that starts a handler puts it in a slot that was free.
LEMMA StartsHandler ==
    ASSUME Typed, Nested, NEW c \in Here.controls, Click(c), c.starts # NoTask
    PROVE  \E s \in Slots :
              /\ running[s] = Idle /\ running' = [running EXCEPT ![s] = running'[s]]
              /\ Started(c, running'[s])
              /\ LET t == Task(c.starts)
                     k == First(t)
                 IN busy' = ((busy \ (t.drops \cup LocalFlags(Replaced(t, k))))
                               \cup t.sets \cup SetAt(page, t, k)) \ FreedAt(t, 0, k)
<1>1. /\ page' = page /\ Opening(c) /\ InFront(c)
      /\ HandlersOK /\ DialogsOK /\ page \in DOMAIN Pages
      /\ Len(opened) \in Nat /\ opened \in Seq(Names(page))
  BY DEF Click, Typed, HandlersOK, Usable, DialogsOK
<1>2. PICK t, k : t = Task(c.starts) /\ k = First(t)
  OBVIOUS
<1>3. PICK asks, from : /\ asks = asked'
                        /\ from = IF c.opens = NoDialog THEN Front ELSE Len(opened) + 1
  OBVIOUS
<1>4. PICK s \in Slots :
        /\ running[s] = Idle
        /\ running' = [running EXCEPT ![s] =
                          Begin(c.starts, k, asks, IF c.beside THEN 0 ELSE from, 0)]
        /\ busy' = ((busy \ (t.drops \cup LocalFlags(Replaced(t, k))))
                      \cup t.sets \cup SetAt(page, t, k)) \ FreedAt(t, 0, k)
  BY <1>2, <1>3, Zenon DEF Click, Starting, Free, First
<1>5. PICK place : place = IF c.beside THEN 0 ELSE from
  OBVIOUS
<1>6. PICK r : r = Begin(c.starts, k, asks, place, 0)
  OBVIOUS
<1>7. /\ r.task = c.starts /\ r.step = k /\ r.from = place /\ r.served = FALSE /\ r # Idle
  BY <1>6 DEF Begin, Idle
<1>8. running' = [running EXCEPT ![s] = r]
  BY <1>4, <1>5, <1>6
<1>9. running'[s] = r
  BY <1>1, <1>8, OthersHold
<1>10. /\ ~ c.closes /\ c.opens # OnPage /\ (c.opens # NoDialog => ~ c.beside)
  BY <1>1, ControlsOfDialogs
<1>11. ASSUME c.opens # NoDialog
       PROVE  /\ r.from = Len(opened) + 1
              /\ r.from \in 1..Len(opened') /\ opened'[r.from] = c.opens
  <2>1. r.from = Len(opened) + 1
    BY <1>3, <1>5, <1>7, <1>10, <1>11
  <2>2. PICK d : d = c.opens
    OBVIOUS
  <2>3. opened' = Append(opened, d)
    BY <1>1, <1>10, <1>11, <2>2 DEF Opening
  <2> QED BY <1>1, <2>1, <2>2, <2>3
<1>12. ASSUME c.opens = NoDialog, ~ c.beside, r.from # 0
       PROVE  /\ r.from = Front /\ Front \in dialogs /\ opened' = opened /\ dialogs' = dialogs
              /\ opened'[r.from] = c.within /\ r.from \in 1..Len(opened') /\ c.within # OnPage
  <2>1. r.from = Front
    BY <1>3, <1>5, <1>7, <1>12
  <2>2. opened' = opened /\ dialogs' = dialogs
    BY <1>1, <1>10, <1>12 DEF Opening
  <2>3. Front \in dialogs /\ opened[Front] = c.within /\ c.within # OnPage
    BY <1>1, <1>12, <2>1, UsedInFront
  <2> QED BY <1>1, <2>1, <2>2, <2>3 DEF DialogsOK
<1>13. Started(c, r)
  <2>1. \/ r.from = 0 /\ (c.beside \/ DialogOf(c) = OnPage)
        \/ /\ ~ c.beside /\ r.from \in 1..Len(opened') /\ opened'[r.from] = DialogOf(c)
           /\ DialogOf(c) # OnPage
    <3>1. CASE c.opens # NoDialog
      BY <1>10, <1>11, <3>1 DEF DialogOf
    <3>2. CASE c.opens = NoDialog
      <4>1. r.from = 0 /\ ~ c.beside => c.within = OnPage
        <5>1. r.from = 0 /\ ~ c.beside => Front = 0
          BY <1>3, <1>5, <1>7, <3>2
        <5> QED BY <1>1, <5>1, UsedInFront DEF DialogsOK
      <4> QED BY <1>5, <1>7, <1>12, <3>2, <4>1 DEF DialogOf
    <3> QED BY <3>1, <3>2
  <2>2. r.from # 0 /\ c.opens = NoDialog =>
           r.from = Front /\ Front \in dialogs /\ opened' = opened /\ dialogs' = dialogs
    BY <1>5, <1>7, <1>12
  <2> QED BY <1>2, <1>7, <1>11, <2>1, <2>2 DEF Started
<1> QED BY <1>2, <1>4, <1>8, <1>9, <1>13

\* The use of a control keeps the dialogs nested, and closes the one in front.
LEMMA ClickNested ==
    ASSUME Typed, NestedInv, NEW c \in Here.controls, Click(c)
    PROVE  NestedInv' /\ Leaves
<1>1. page' = page /\ Opening(c) /\ InFront(c) /\ Nested /\ HandlersOK
  BY DEF Click, Usable, NestedInv, Typed
<1>2. /\ Nested' /\ \A n \in dialogs \ dialogs' : c.closes /\ n = Front
  BY <1>1, OpeningNested
<1>3. \A m \in 1..Len(opened) : opened'[m] = opened[m]
  BY <1>1, OpeningDialogs
<1>4. c.closes => c.starts = NoTask
  BY <1>1, ControlsOfDialogs
<1>5. Leaves
  <2>1. c.closes => running' = running
    BY <1>4 DEF Click
  <2> QED BY <1>2, <2>1 DEF Leaves
<1>6. \A n : Task(n)' = Task(n)
  BY <1>1 DEF Task
<1>7. CASE c.starts = NoTask
  <2>1. running' = running
    BY <1>7 DEF Click
  <2>2. ASSUME NEW i \in Slots, running'[i] # Idle PROVE ClosesOwn(running[i])'
    <3>1. PICK q : q = running[i] /\ q = running'[i]
      BY <2>1
    <3>2. ClosesOwn(q) /\ q.from \in Nat /\ q.from <= Len(opened) /\ Len(opened) \in Nat
      <4>1. q # Idle
        BY <2>2, <3>1
      <4>2. ClosesOwn(q)
        BY <3>1, <4>1 DEF NestedInv
      <4>3. Proper(q) /\ DialogsOK
        BY <3>1, <4>1 DEF Typed
      <4> QED BY <4>2, <4>3 DEF Proper, DialogsOK
    <3>3. q.from # 0 => opened'[q.from] = opened[q.from]
      BY <1>3, <3>2
    <3>4. ClosesOwn(q)'
      BY <1>6, <3>2, <3>3 DEF ClosesOwn
    <3> QED BY <3>1, <3>4
  <2> QED BY <1>2, <1>5, <2>2 DEF NestedInv
<1>8. CASE c.starts # NoTask
  <2>1. PICK s \in Slots : /\ running[s] = Idle /\ running' = [running EXCEPT ![s] = running'[s]]
                           /\ Started(c, running'[s])
    BY <1>1, <1>8, StartsHandler
  <2>2. \A i \in Slots : i # s => running'[i] = running[i]
    BY <1>1, <2>1 DEF HandlersOK
  <2>3. PICK r : r = running'[s]
    OBVIOUS
  <2>4. \A d \in Closed(Task(c.starts)) : DialogOf(c) = d /\ ~ c.beside
    BY <1>1, <1>8, ControlsOfDialogs
  <2>5. ClosesOwn(r)'
    <3>1. Started(c, r)
      BY <2>1, <2>3
    <3>2. Closed(Task(r.task)) \subseteq {IF r.from = 0 THEN OnPage ELSE opened'[r.from]}
      BY <2>4, <3>1 DEF Started
    <3> QED BY <1>6, <3>2 DEF ClosesOwn
  <2>6. running'[s] # Idle => ClosesOwn(running[s])'
    BY <2>3, <2>5
  <2>7. \A i \in Slots : running'[i] # Idle => ClosesOwn(running[i])'
    BY <1>1, <1>3, <2>2, <2>6, OthersCloseOwn
  <2> QED BY <1>2, <1>5, <2>7 DEF NestedInv
<1> QED BY <1>7, <1>8

\* A page opens without dialogs.
LEMMA InitNested == Init => NestedInv
<1> SUFFICES ASSUME Init PROVE NestedInv
  OBVIOUS
<1>1. Len(opened) = 0 /\ dialogs = {}
  BY DEF Init
<1>2. Nested
  BY <1>1 DEF Nested
<1>3. ASSUME NEW i \in Slots, running[i] # Idle PROVE ClosesOwn(running[i])
  <2>1. PICK asks : asks = asked
    OBVIOUS
  <2>2. running[i] = Begin(Mount, 1, asks, 0, 0)
    BY <1>3, <2>1 DEF Init
  <2>3. running[i].from = 0 /\ running[i].task = Mount
    BY <2>2 DEF Begin
  <2>4. Closed(Task(Mount)) = {}
    BY DEF Closed, Task, TaskOf, Reads, Handler, Await, Steps
  <2> QED BY <2>3, <2>4 DEF ClosesOwn
<1> QED BY <1>2, <1>3 DEF NestedInv

\* Every step keeps the dialogs nested, and closes only what it may.
LEMMA NextNested ==
    Typed /\ NestedInv /\ StillModal /\ [Next]_vars => NestedInv' /\ (Leaves \/ UNCHANGED vars)
<1> SUFFICES ASSUME Typed, NestedInv, StillModal, [Next]_vars
             PROVE  NestedInv' /\ (Leaves \/ UNCHANGED vars)
  OBVIOUS
<1>1. CASE \E c \in Here.controls : Click(c)
  BY <1>1, ClickNested, Zenon
<1>2. CASE \E i \in Slots : Goes(i)
  BY <1>2, GoesNested, Zenon
<1>3. CASE UNCHANGED vars
  <2>1. page' = page /\ running' = running /\ opened' = opened /\ dialogs' = dialogs
    BY <1>3 DEF vars
  <2>2. Nested' /\ \A n : Task(n)' = Task(n)
    BY <2>1 DEF NestedInv, Nested, Inner, Task
  <2>3. ASSUME NEW i \in Slots, running'[i] # Idle PROVE ClosesOwn(running[i])'
    <3>1. PICK q : q = running[i] /\ q = running'[i]
      BY <2>1
    <3>2. ClosesOwn(q)
      BY <2>3, <3>1 DEF NestedInv
    <3>3. ClosesOwn(q)'
      BY <2>1, <2>2, <3>2 DEF ClosesOwn
    <3> QED BY <3>1, <3>3
  <2> QED BY <1>3, <2>2, <2>3 DEF NestedInv
<1> QED BY <1>1, <1>2, <1>3, Zenon DEF Next

\* A step of a handler leaves open what the others have still to close.
LEMMA GoesStays ==
    ASSUME Typed, LocksInv, NestedInv, StillModal, NEW s \in Slots, Goes(s)
    PROVE  StillModal'
<1>1. /\ page' = page /\ running[s] # Idle
      /\ \E gone \in SUBSET MayClose(running[s]) :
            Moves(gone) /\ ClosesAsItGoes(s, gone, running'[s])
      /\ running' = [running EXCEPT ![s] = running'[s]]
      /\ running'[s] # Idle => /\ running'[s].task = running[s].task
                               /\ running'[s].from = running[s].from
  BY GoesMoves
<1>2. PICK gone \in SUBSET MayClose(running[s]) :
              Moves(gone) /\ ClosesAsItGoes(s, gone, running'[s])
  BY <1>1
<1>3. Nested /\ HandlersOK /\ Closing(gone)
  <2>1. Nested
    BY DEF NestedInv
  <2> QED BY <1>1, <2>1, HandlersClose DEF Typed
<1>4. /\ Len(opened) \in Nat
      /\ \A n \in 1..Len(opened) : opened'[n] = opened[n] /\ opened[n] # NoDialog
      /\ \A n \in dialogs \ dialogs' : opened[n] \in gone
  <2>1. /\ Len(opened) \in Nat /\ \A n \in 1..Len(opened) : opened'[n] = opened[n]
        /\ \A n \in dialogs \ dialogs' : opened[n] \in gone
    BY <1>1, <1>2, <1>3, MovesNested
  <2> QED BY <1>3, <2>1 DEF Nested
<1>5. \A i \in Slots : i # s => running'[i] = running[i]
  BY <1>1, <1>3 DEF HandlersOK
<1>6. ASSUME NEW i \in Slots, running'[i] # Idle PROVE StaysToClose(running[i])'
  <2>1. PICK q, r, d, t : q = running[i] /\ r = running'[i] /\ d = opened[q.from] /\ t = Task(q.task)
    OBVIOUS
  <2>2. q # Idle /\ r # Idle /\ r.task = q.task /\ r.from = q.from
    BY <1>1, <1>5, <1>6, <2>1
  <2>3. ASSUME q.from # 0, <<page, d>> \in Modal, r.step \in ToClose(t, d)
        PROVE  q.from \in dialogs'
    <3>1. PICK f : StaysUnder(page, d, f)
      BY <1>3, <2>3, ModalStaysUnder
    <3>2. q.from \in 1..Len(opened) /\ d # NoDialog
      BY <1>4, <2>1, <2>2, <2>3 DEF Typed, Proper
    <3>3. q.step \in ToClose(t, d)
      <4>1. CASE i # s
        BY <1>5, <2>1, <2>3, <4>1
      <4>2. CASE i = s
        <5>1. /\ Len(t.steps) \in Nat /\ q.step \in Steps(t) /\ IsAwait(t.steps[q.step])
          BY <1>3, <2>1, <2>2, TasksAreProper DEF Typed, HandlersOK, Task, Proper, Steps
        <5>2. r.step \in Nat /\ q.step <= r.step
          <6>1. \/ r.step = q.step \/ \E fine : r.step = NextAwait(t, q.step, fine)
            BY <1>2, <2>1, <2>2, <4>2 DEF ClosesAsItGoes
          <6>2. \A fine : NextAwait(t, q.step, fine) \in (q.step + 1)..(Len(t.steps) + 1)
            <7>1. q.step \in 0..Len(t.steps)
              BY <5>1 DEF Steps
            <7> QED BY <5>1, <7>1, NextAwaitIsNext
          <6>3. q.step \in Nat
            BY <5>1 DEF Steps
          <6> QED BY <6>1, <6>2, <6>3
        <5> QED BY <2>3, <5>1, <5>2, ToCloseBefore
      <4> QED BY <4>1, <4>2
    <3>4. q.from \in dialogs
      <4>1. StaysToClose(q)
        BY <2>1, <2>2 DEF StillModal
      <4> QED BY <2>1, <2>3, <3>3, <4>1 DEF StaysToClose
    <3>5. ASSUME q.from \notin dialogs' PROVE FALSE
      <4>1. d \in gone
        BY <1>4, <2>1, <3>4, <3>5
      <4>2. /\ running[s].step \in ToClose(Task(running[s].task), d)
            /\ running'[s] # Idle => running'[s].step \notin ToClose(Task(running[s].task), d)
        BY <1>1, <1>2, <3>1, <3>2, <4>1, ClosersAreDone
      <4>3. Holds(s, f) /\ Holds(i, f)
        BY <1>1, <1>3, <2>1, <2>2, <3>1, <3>2, <3>3, <4>2, ClosersHold
      <4>4. Exclusive(f)
        BY <3>1 DEF LocksInv, LocksHold, StaysUnder
      <4>5. i = s
        BY <4>3, <4>4 DEF Exclusive
      <4> QED BY <2>1, <2>2, <2>3, <4>2, <4>5
    <3> QED BY <3>5
  <2>4. r.from # 0 => opened'[r.from] = d
    BY <1>4, <2>1, <2>2 DEF Typed, Proper
  <2>5. Task(r.task)' = t
    BY <1>1, <2>1, <2>2 DEF Task
  <2>6. StaysToClose(r)'
    BY <1>1, <2>2, <2>3, <2>4, <2>5 DEF StaysToClose
  <2> QED BY <2>1, <2>6
<1> QED BY <1>6 DEF StillModal

\* Nor does the use of a control: what puts such a dialog aside is disabled, and
\* what submits it is in it.
LEMMA ClickStays ==
    ASSUME Typed, LocksInv, NestedInv, StillModal, NEW c \in Here.controls, Click(c)
    PROVE  StillModal'
<1>1. /\ page' = page /\ Opening(c) /\ InFront(c) /\ Nested /\ HandlersOK
      /\ c.waits \cap busy = {} /\ Len(opened) \in Nat /\ dialogs \subseteq 1..Len(opened)
  BY DEF Click, Usable, NestedInv, Typed, DialogsOK
<1>2. \A n \in dialogs \ dialogs' : c.closes /\ n = Front
  BY <1>1, OpeningNested
<1>3. \A m \in 1..Len(opened) : opened'[m] = opened[m] /\ opened[m] # NoDialog
  BY <1>1, OpeningDialogs DEF Nested
<1>4. ASSUME NEW i \in Slots, running[i] # Idle, running'[i] = running[i]
      PROVE  StaysToClose(running[i])'
  <2>1. PICK q, d, t : q = running[i] /\ d = opened[q.from] /\ t = Task(q.task)
    OBVIOUS
  <2>2. StaysToClose(q) /\ (q.from # 0 => q.from \in 1..Len(opened))
    BY <1>4, <2>1 DEF StillModal, Typed, Proper
  <2>3. ASSUME q.from # 0, <<page, d>> \in Modal, q.step \in ToClose(t, d)
        PROVE  q.from \in dialogs'
    <3>1. q.from \in dialogs /\ d # NoDialog
      BY <1>3, <2>1, <2>2, <2>3 DEF StaysToClose
    <3>2. ASSUME q.from \notin dialogs' PROVE FALSE
      <4>1. c.closes /\ c.within = d
        <5>1. c.closes /\ q.from = Front
          BY <1>2, <3>1, <3>2
        <5>2. c.within = opened[Front]
          BY <1>1, <3>1, <5>1, UsedInFront, ControlsOfDialogs
        <5> QED BY <2>1, <5>1, <5>2
      <4>2. PICK f : StaysUnder(page, d, f)
        BY <1>1, <2>3, ModalStaysUnder
      <4>3. f \in c.waits
        BY <4>1, <4>2 DEF StaysUnder, Here
      <4>4. Holds(i, f)
        BY <1>1, <1>4, <2>1, <2>3, <3>1, <4>2, ClosersHold
      <4>5. f \in busy
        BY <4>2, <4>4 DEF LocksInv, LocksHold, Exclusive, StaysUnder
      <4> QED BY <1>1, <4>3, <4>5
    <3> QED BY <3>2
  <2>4. q.from # 0 => opened'[q.from] = d
    BY <1>3, <2>1, <2>2
  <2>5. Task(q.task)' = t
    BY <1>1, <2>1 DEF Task
  <2>6. StaysToClose(q)'
    BY <1>1, <2>3, <2>4, <2>5 DEF StaysToClose
  <2> QED BY <1>4, <2>1, <2>6
<1>5. CASE c.starts = NoTask
  <2>1. running' = running
    BY <1>5 DEF Click
  <2> QED BY <1>4, <2>1 DEF StillModal
<1>6. CASE c.starts # NoTask
  <2>1. PICK s \in Slots : /\ running[s] = Idle /\ running' = [running EXCEPT ![s] = running'[s]]
                           /\ Started(c, running'[s])
    BY <1>1, <1>6, StartsHandler
  <2>2. \A i \in Slots : i # s => running'[i] = running[i]
    BY <1>1, <2>1 DEF HandlersOK
  <2>3. PICK r, d, t : r = running'[s] /\ d = opened'[r.from] /\ t = Task(c.starts)
    OBVIOUS
  <2>4. Started(c, r)
    BY <2>1, <2>3
  <2>5. ASSUME r.from # 0, <<page, d>> \in Modal, r.step \in ToClose(t, d)
        PROVE  r.from \in dialogs'
    <3>1. PICK f : StaysUnder(page, d, f)
      BY <1>1, <2>5, ModalStaysUnder
    <3>2. d = DialogOf(c) /\ d # NoDialog
      <4>1. d = DialogOf(c)
        BY <2>3, <2>4, <2>5 DEF Started
      <4>2. c.opens = NoDialog => d # NoDialog
        BY <1>1, <1>3, <2>3, <2>4, <2>5 DEF Started
      <4> QED BY <4>1, <4>2 DEF DialogOf
    <3>3. c.starts \in Closers(page, d)
      <4>1. c.starts \in Tasks(page) /\ t = TaskOf(page, c.starts) /\ Len(t.steps) \in Nat
        BY <1>1, <1>6, <2>3, ControlsOfDialogs, TasksAreProper DEF HandlersOK, Task
      <4>2. PICK m \in Steps(t) : d \in Named(t, "close", m, NextAwait(t, m, TRUE))
        BY <2>5 DEF ToClose
      <4>3. PICK k : k = NextAwait(t, m, TRUE)
        OBVIOUS
      <4>4. k \in (m + 1)..(Len(t.steps) + 1)
        <5>1. m \in 0..Len(t.steps)
          BY <4>1 DEF Steps
        <5> QED BY <4>1, <4>3, <5>1, NextAwaitIsNext
      <4>5. d \in Closed(t)
        BY <3>2, <4>1, <4>2, <4>3, <4>4, NamedIsClosed, Zenon
      <4> QED BY <4>1, <4>5 DEF Closers
    <3>4. c.opens = NoDialog
      BY <3>1, <3>3 DEF StaysUnder, Here
    <3> QED BY <2>4, <2>5, <3>4 DEF Started
  <2>6. r.task = c.starts /\ r # Idle
    BY <2>4 DEF Started
  <2>7. Task(r.task)' = t
    BY <1>1, <2>3, <2>6 DEF Task
  <2>8. StaysToClose(r)'
    BY <1>1, <2>3, <2>5, <2>7 DEF StaysToClose
  <2>9. ASSUME NEW i \in Slots, running'[i] # Idle PROVE StaysToClose(running[i])'
    <3>1. CASE i = s
      BY <2>3, <2>8, <3>1
    <3>2. CASE i # s
      BY <1>4, <2>2, <2>9, <3>2
    <3> QED BY <3>1, <3>2
  <2> QED BY <2>9 DEF StillModal
<1> QED BY <1>5, <1>6

\* What the mount effects start belongs to no dialog.
LEMMA InitStays == Init => StillModal
<1> SUFFICES ASSUME Init, NEW i \in Slots, running[i] # Idle PROVE StaysToClose(running[i])
  BY DEF StillModal
<1>1. PICK asks : asks = asked
  OBVIOUS
<1>2. running[i] = Begin(Mount, 1, asks, 0, 0)
  BY <1>1 DEF Init
<1>3. running[i].from = 0
  BY <1>2 DEF Begin
<1> QED BY <1>3 DEF StaysToClose

\* Every step leaves open what has still to be closed.
LEMMA NextStays ==
    Typed /\ LocksInv /\ NestedInv /\ StillModal /\ [Next]_vars => StillModal'
<1> SUFFICES ASSUME Typed, LocksInv, NestedInv, StillModal, [Next]_vars PROVE StillModal'
  OBVIOUS
<1>1. CASE \E c \in Here.controls : Click(c)
  BY <1>1, ClickStays, Zenon
<1>2. CASE \E i \in Slots : Goes(i)
  BY <1>2, GoesStays, Zenon
<1>3. CASE UNCHANGED vars
  <2>1. page' = page /\ running' = running /\ opened' = opened /\ dialogs' = dialogs
    BY <1>3 DEF vars
  <2>2. ASSUME NEW i \in Slots, running'[i] # Idle PROVE StaysToClose(running[i])'
    <3>1. PICK q : q = running[i] /\ q = running'[i]
      BY <2>1
    <3>2. StaysToClose(q)
      BY <2>2, <3>1 DEF StillModal
    <3>3. Task(q.task)' = Task(q.task)
      BY <2>1 DEF Task
    <3>4. StaysToClose(q)'
      BY <2>1, <3>2, <3>3 DEF StaysToClose
    <3> QED BY <3>1, <3>4
  <2> QED BY <2>2 DEF StillModal
<1> QED BY <1>1, <1>2, <1>3, Zenon DEF Next

\* What a handler closes is the dialog it was started from, or one of the same
\* name that was opened since.  The latter only where the user can put a dialog
\* aside while it is submitted, which is most: with the Modal ones a late answer
\* never closes the form of another record.
THEOREM OtherDialogsStay == Spec => LeavesOthersOpen
<1>1. Typed /\ NestedInv /\ StillModal /\ [Next]_vars => [\A n \in dialogs \ dialogs' :
         \/ n = Front /\ running' = running
         \/ \E i \in Slots :
              /\ running[i] # running'[i]
              /\ running[i] # Idle
              /\ \/ running[i].from = n
                 \/ /\ <<page, opened[n]>> \notin Modal
                    /\ running[i].from # 0 /\ opened[running[i].from] = opened[n]]_vars
  BY NextNested, Zenon DEF Leaves
<1>2. Init /\ [][Next]_vars => [](Typed /\ LocksInv /\ NestedInv /\ StillModal)
  BY InitTyped, InitLocks, InitNested, InitStays, NextTyped, NextNested, NextStays, PTL
<1> QED BY <1>1, <1>2, PTL DEF Spec, LeavesOthersOpen

-----------------------------------------------------------------------------
(* What is submitted in a dialog. *)

Single(n) == <<page, opened[n]>> \notin Repeatable

\* The handler submits the dialog at place n, which it has still to close.
Submitting(r, n) ==
    /\ r.from = n /\ CallsOf(Task(r.task)) # {}
    /\ r.step \in ToClose(Task(r.task), opened[n])

Engaged(i, n) == running[i] # Idle /\ Submitting(running[i], n)

\* Its call has been served.
HasSent(r) == \E k \in CallsOf(Task(r.task)) : k < r.step \/ (k = r.step /\ r.served)

\* A handler that calls belongs to a dialog that one of its controls submits.
Submitter(r) ==
    r.from # 0 /\ CallsOf(Task(r.task)) # {}
    => \E c \in Submits(page, opened[r.from]) : c.starts = r.task

AtMostOne(n) == \A i, j \in Slots : Engaged(i, n) /\ Engaged(j, n) => i = j

\* What was done from the dialog is the call of the handler that is submitting
\* it, after those whose answers were lost; or the dialog is closed.
Counted(n) ==
    /\ done[n] <= 1 + lost[n]
    /\ \/ \E i \in Slots : Engaged(i, n) /\ HasSent(running[i])
       \/ done[n] <= lost[n]
       \/ n \notin dialogs /\ \A i \in Slots : ~ Engaged(i, n)

CountsOK ==
    /\ done \in [Openings -> Nat] /\ lost \in [Openings -> Nat]
    /\ \A n \in Openings : n > Len(opened) => done[n] = 0

\* A handler that has not gone past its pause is the only one, and the flag that
\* it sets there is set while it is at it.
Paused(i, k, f) == /\ running[i] # Idle /\ running[i].task # Mount
                   /\ running[i].step <= k /\ k \in Steps(Task(running[i].task))
                   /\ OwnedAtPause(page, running[i].task, k, f)

HeldAtPause ==
    \A i \in Slots : \A k, f : Paused(i, k, f) =>
        /\ running[i].step = k => f \in busy
        /\ \A j \in Slots : Paused(j, k, f) /\ running[j].task = running[i].task => i = j

SubmitInv ==
    /\ CountsOK
    /\ \A i \in Slots : running[i] # Idle => Submitter(running[i])
    /\ \A n \in 1..Len(opened) : Single(n) => AtMostOne(n) /\ Counted(n)
    /\ HeldAtPause

\* What SubmitAssumption says of a handler that submits a dialog.
LEMMA SubmittersCallOnce ==
    ASSUME HandlersOK, Nested, NEW n \in 1..Len(opened), Single(n),
           NEW c \in Submits(page, opened[n])
    PROVE  LET t == Task(c.starts)
               d == opened[n]
           IN /\ c.starts \in DOMAIN Pages[page].tasks /\ c.starts \notin {Mount, NoTask}
              /\ t = Pages[page].tasks[c.starts] /\ t = TaskOf(page, c.starts)
              /\ c \in Here.controls /\ c.opens = NoDialog /\ c.within = d /\ ~ c.beside
              /\ CallsOnce(t, d)
              /\ \A k \in ToClose(t, d) : \A b \in Submits(page, d) :
                   \E f \in b.waits : Bars(page, d, c.starts, k, f)
<1>1. /\ page \in DOMAIN Pages /\ c \in Pages[page].controls /\ c.starts # NoTask
      /\ DialogOf(c) = opened[n] /\ ~ c.beside
  BY DEF HandlersOK, Submits
<1>2. c.starts \in DOMAIN Pages[page].tasks /\ {NoTask, Mount} \cap DOMAIN Pages[page].tasks = {}
  BY <1>1, PagesAssumption
<1>3. Task(c.starts) = TaskOf(page, c.starts) /\ TaskOf(page, c.starts) = Pages[page].tasks[c.starts]
  BY <1>2 DEF Task, TaskOf
<1>4. opened[n] \in {DialogOf(x) : x \in Pages[page].controls} \ {OnPage}
  BY <1>1 DEF Nested
<1>5. /\ c.opens = NoDialog
      /\ CallsOnce(TaskOf(page, c.starts), opened[n])
      /\ \A k \in ToClose(TaskOf(page, c.starts), opened[n]) : \A b \in Submits(page, opened[n]) :
             \E f \in b.waits : Bars(page, opened[n], c.starts, k, f)
  BY <1>1, <1>4, SubmitAssumption, Zenon DEF Single
<1>6. c.within = opened[n]
  BY <1>1, <1>5 DEF DialogOf
<1> QED BY <1>1, <1>2, <1>3, <1>5, <1>6 DEF Here

\* While a handler is submitting an open dialog, all that submit it are disabled.
LEMMA SubmitIsBarred ==
    ASSUME HandlersOK, LocksHold, NestedInv, DialogsOK, SubmitInv, NEW n \in dialogs, Single(n),
           NEW i \in Slots, Engaged(i, n), NEW b \in Submits(page, opened[n])
    PROVE  ~ Usable(b)
<1>1. Nested /\ n \in 1..Len(opened)
  BY DEF NestedInv, DialogsOK
<1>2. PICK r : r = running[i]
  OBVIOUS
<1>3. /\ r # Idle /\ r.from = n /\ CallsOf(Task(r.task)) # {}
      /\ r.step \in ToClose(Task(r.task), opened[n])
  BY <1>2 DEF Engaged, Submitting
<1>4. PICK c \in Submits(page, opened[n]) : c.starts = r.task
  <2>1. Submitter(r) /\ r.from # 0
    BY <1>1, <1>2, <1>3 DEF SubmitInv
  <2> QED BY <1>3, <2>1 DEF Submitter
<1>5. PICK t : t = Task(r.task)
  OBVIOUS
<1>6. /\ r.task # Mount /\ t = Pages[page].tasks[r.task]
      /\ \E f \in b.waits : Bars(page, opened[n], r.task, r.step, f)
  <2>1. PICK d, k : d = opened[n] /\ k = r.step
    OBVIOUS
  <2>2. /\ c.starts # Mount /\ Task(c.starts) = Pages[page].tasks[c.starts]
        /\ \A m \in ToClose(Task(c.starts), opened[n]) : \A x \in Submits(page, opened[n]) :
             \E f \in x.waits : Bars(page, opened[n], c.starts, m, f)
    BY <1>1, SubmittersCallOnce
  <2>3. k \in ToClose(Task(c.starts), opened[n])
    BY <1>3, <1>4, <2>1
  <2>4. \E f \in b.waits : Bars(page, opened[n], c.starts, k, f)
    BY <2>2, <2>3, Zenon
  <2> QED BY <1>4, <1>5, <2>1, <2>2, <2>4
<1>7. PICK f \in b.waits : Bars(page, opened[n], r.task, r.step, f)
  BY <1>6
<1>8. CASE Locked(page, f) /\ Keeps(t, f) /\ r.step < Unawaited(t)
  <2>1. Holds(i, f)
    BY <1>2, <1>3, <1>5, <1>8 DEF Holds
  <2>2. f \in busy
    BY <1>8, <2>1 DEF LocksHold, Exclusive
  <2> QED BY <2>2 DEF Usable
<1>9. CASE OwnedAtPause(page, r.task, r.step, f)
  <2>1. r.step \in Steps(t) /\ r.step <= r.step
    BY <1>2, <1>3, <1>5 DEF HandlersOK, Steps
  <2>2. Paused(i, r.step, f)
    BY <1>2, <1>3, <1>5, <1>6, <1>9, <2>1 DEF Paused
  <2>3. f \in busy
    BY <1>2, <2>2 DEF SubmitInv, HeldAtPause
  <2> QED BY <2>3 DEF Usable
<1>10. \/ Locked(page, f) /\ Keeps(t, f) /\ r.step < Unawaited(t)
       \/ OwnedAtPause(page, r.task, r.step, f)
  BY <1>6, <1>7 DEF Bars
<1> QED BY <1>8, <1>9, <1>10

\* A handler was that goes on as r: where from and where to, what it closes and
\* which flags it leaves set.
GoesOn(s, cleared, fine, was, t, j, k, r, closed) ==
    /\ was = running[s] /\ was # Idle /\ was.task \in Tasks(page)
    /\ t = Task(was.task) /\ t = TaskOf(page, was.task)
    /\ j = was.step /\ k = NextAwait(t, j, fine)
    /\ Len(t.steps) \in Nat /\ j \in 1..Len(t.steps) /\ IsAwait(t.steps[j])
    /\ k \in (j + 1)..(Len(t.steps) + 1)
    /\ running' = [running EXCEPT ![s] = r] /\ running'[s] = r
    /\ r # Idle => /\ k <= Len(t.steps) /\ r.task = was.task /\ r.from = was.from
                   /\ r.step = k /\ r.served = FALSE
    /\ k <= Len(t.steps) => r # Idle
    /\ closed = Named(t, "close", j, k)
    /\ \A n \in dialogs : n \notin dialogs' <=> opened[n] \in closed
    /\ busy' = ((busy \ (cleared \cup LocalFlags(closed \cup Replaced(t, k))
                                 \cup Named(t, "free", j, k)))
                  \cup SetAt(page, t, k)) \ Freed(s, FreedAt(t, j, k))

\* A handler that goes on is at its next await, or has ended.
LEMMA ContinueGoesOn ==
    ASSUME Typed, page' = page, NEW s \in Slots, running[s] # Idle,
           NEW cleared, NEW answers, NEW fine, Continue(s, cleared, answers, fine)
    PROVE  \E was, t, j, k, r, closed : GoesOn(s, cleared, fine, was, t, j, k, r, closed)
<1>1. HandlersOK /\ DialogsOK /\ Len(opened) \in Nat /\ page \in DOMAIN Pages
      /\ opened \in Seq(Names(page)) /\ dialogs \subseteq 1..Len(opened)
  BY DEF Typed, DialogsOK, HandlersOK
<1>2. PICK was, t, j, k : was = running[s] /\ Going(s, t, j, k, fine)
  BY DEF Going
<1>3. /\ t = TaskOf(page, was.task) /\ was.task \in Tasks(page)
      /\ t = Task(was.task) /\ j = was.step /\ k = NextAwait(t, j, fine)
      /\ Len(t.steps) \in Nat /\ j \in 1..Len(t.steps)
      /\ k \in (j + 1)..(Len(t.steps) + 1)
  BY <1>1, <1>2, HandlerGoes DEF Going
<1>4. IsAwait(t.steps[j])
  BY <1>2, <1>3 DEF Typed, Proper
<1>5. PICK closed : closed = Named(t, "close", j, k)
  OBVIOUS
<1>6. PICK r : /\ running' = [running EXCEPT ![s] = r]
               /\ r # Idle => k <= Len(t.steps)
               /\ k <= Len(t.steps) =>
                     /\ r.task = was.task /\ r.step = k
                     /\ r.from = was.from /\ r.served = FALSE /\ r # Idle
  <2>1. \E x : /\ running' = [running EXCEPT ![s] = x]
               /\ k > Len(t.steps) => x = Idle
               /\ x # Idle => k <= Len(t.steps)
               /\ k <= Len(t.steps) =>
                     /\ x.task = running[s].task /\ x.step = k
                     /\ x.asks = running[s].asks /\ x.from = running[s].from
                     /\ x.served = FALSE /\ x.at = 0 /\ x.got = Got(s)
                     /\ x # Idle
    BY <1>1, <1>2, ContinueSlot, Zenon
  <2> QED BY <1>2, <2>1
<1>7. running'[s] = r
  BY <1>1, <1>6, OthersHold
<1>8. \/ dialogs' = Without(closed)
      \/ \E d : /\ opened' = Append(opened, d)
                /\ dialogs' = Without(closed) \cup {Len(opened')}
  BY <1>2, <1>3, <1>5 DEF Continue
<1>9. ASSUME NEW n \in dialogs PROVE n \notin dialogs' <=> opened[n] \in closed
  <2>1. n \in Without(closed) <=> opened[n] \notin closed
    BY DEF Without
  <2>2. \A d : opened' = Append(opened, d) => Len(opened') # n
    BY <1>1
  <2> QED BY <1>8, <2>1, <2>2
<1>10. busy' = ((busy \ (cleared \cup LocalFlags(closed \cup Replaced(t, k))
                                 \cup Named(t, "free", j, k)))
                  \cup SetAt(page, t, k)) \ Freed(s, FreedAt(t, j, k))
  BY <1>2, <1>3, <1>5, Zenon DEF Continue
<1>11. GoesOn(s, cleared, fine, was, t, j, k, r, closed)
  <2>1. /\ was = running[s] /\ was # Idle
        /\ r # Idle => /\ k <= Len(t.steps) /\ r.task = was.task /\ r.from = was.from
                       /\ r.step = k /\ r.served = FALSE
        /\ k <= Len(t.steps) => r # Idle
    BY <1>2, <1>6
  <2> QED BY <1>3, <1>4, <1>5, <1>6, <1>7, <1>9, <1>10, <2>1, Zenon DEF GoesOn
<1> QED BY <1>11

-----------------------------------------------------------------------------
(* One step of a handler that submits. *)

\* What a step of the handler in slot s can do to the counts of a dialog.
Outcome(s, n) ==
    /\ Engaged(s, n)' => Engaged(s, n)
    /\ \/ /\ done'[n] = done[n] + 1 /\ lost'[n] = lost[n]
          /\ Engaged(s, n) /\ ~ HasSent(running[s])
          /\ Engaged(s, n)' /\ HasSent(running[s])'
       \/ done'[n] = done[n] /\ lost'[n] = lost[n] + 1
       \/ /\ done'[n] = done[n] /\ lost'[n] = lost[n]
          /\ Engaged(s, n) /\ HasSent(running[s]) =>
               \/ Engaged(s, n)' /\ HasSent(running[s])'
               \/ n \notin dialogs' /\ ~ Engaged(s, n)'

\* The handler makes one call, and after it nothing that can fail.
OneCall(t, d, k) ==
    \E call \in ToClose(t, d) :
        /\ CallsOf(t) = {call}
        /\ k \in ToClose(t, d) =>
              t.steps[k].op \in (IF k > call THEN {"try", "pause"}
                                ELSE {"call", "try", "get", "pause"})

\* A handler that submits a dialog is about its one call, or short of closing.
LEMMA EngagedAt ==
    ASSUME Typed, Nested, SubmitInv, NEW n \in 1..Len(opened), Single(n),
           NEW s \in Slots, NEW was, was = running[s], was # Idle, was.from = n,
           NEW t, t = Task(was.task), CallsOf(t) # {}
    PROVE  OneCall(t, opened[n], was.step)
<1>1. Submitter(was) /\ was.from # 0 /\ HandlersOK
  BY DEF SubmitInv, Typed
<1>2. PICK c \in Submits(page, opened[n]) : c.starts = was.task
  BY <1>1 DEF Submitter
<1>3. CallsOnce(t, opened[n])
  BY <1>1, <1>2, SubmittersCallOnce
<1> QED BY <1>3, Zenon DEF CallsOnce, OneCall

\* A task that is the same, and a dialog of the same name.
LEMMA SubmittingStays ==
    ASSUME page' = page, NEW r, NEW n, opened'[n] = opened[n]
    PROVE  (Submitting(r, n)' <=> Submitting(r, n)) /\ (HasSent(r)' <=> HasSent(r))
<1>1. Task(r.task)' = Task(r.task)
  BY DEF Task
<1> QED BY <1>1 DEF Submitting, HasSent

\* A handler goes on: it submits the dialog still, or has closed it.
LEMMA ContinueOutcome ==
    ASSUME Typed, Nested, SubmitInv, page' = page, NEW n \in 1..Len(opened), Single(n),
           NEW s \in Slots, running[s] # Idle, opened'[n] = opened[n],
           NEW cleared, NEW answers, NEW fine, Continue(s, cleared, answers, fine),
           Engaged(s, n) => fine = TRUE,
           done'[n] = done[n], lost'[n] = lost[n],
           n \notin dialogs => n \notin dialogs'
    PROVE  Outcome(s, n)
<1>1. \E was, t, j, k, r, closed : GoesOn(s, cleared, fine, was, t, j, k, r, closed)
  BY ContinueGoesOn, Zenon
<1>2. PICK was, t, j, k, r, closed : GoesOn(s, cleared, fine, was, t, j, k, r, closed)
  BY <1>1
<1>3. /\ was = running[s] /\ was # Idle /\ t = Task(was.task) /\ j = was.step
      /\ k = NextAwait(t, j, fine) /\ Len(t.steps) \in Nat /\ j \in 1..Len(t.steps)
      /\ IsAwait(t.steps[j]) /\ k \in (j + 1)..(Len(t.steps) + 1) /\ running'[s] = r
      /\ r # Idle => /\ k <= Len(t.steps) /\ r.task = was.task /\ r.from = was.from /\ r.step = k
      /\ k <= Len(t.steps) => r # Idle
      /\ closed = Named(t, "close", j, k)
      /\ \A m \in dialogs : m \notin dialogs' <=> opened[m] \in closed
  BY <1>2 DEF GoesOn
<1>4. r # Idle => (Submitting(r, n)' <=> /\ was.from = n /\ CallsOf(t) # {}
                                         /\ k \in ToClose(t, opened[n]))
  <2>1. Submitting(r, n)' <=> Submitting(r, n)
    BY SubmittingStays
  <2>2. r # Idle => (Submitting(r, n) <=> /\ was.from = n /\ CallsOf(t) # {}
                                          /\ k \in ToClose(t, opened[n]))
    BY <1>3 DEF Submitting
  <2> QED BY <2>1, <2>2
<1>5. (Engaged(s, n) <=> was.from = n /\ CallsOf(t) # {} /\ j \in ToClose(t, opened[n]))
  BY <1>3 DEF Engaged, Submitting
<1>6. Engaged(s, n)' <=> /\ r # Idle /\ was.from = n /\ CallsOf(t) # {}
                         /\ k \in ToClose(t, opened[n])
  <2>1. Engaged(s, n)' <=> r # Idle /\ Submitting(r, n)'
    BY <1>3 DEF Engaged
  <2> QED BY <1>4, <2>1
<1>7. Engaged(s, n)' => Engaged(s, n)
  <2>1. k \in ToClose(t, opened[n]) => j \in ToClose(t, opened[n])
    <3>1. j \in Steps(t) /\ j <= k
      BY <1>3 DEF Steps
    <3> QED BY <1>3, <3>1, ToCloseBefore
  <2> QED BY <1>5, <1>6, <2>1
<1>8. ASSUME Engaged(s, n), HasSent(was)
      PROVE  \/ Engaged(s, n)' /\ HasSent(running[s])'
             \/ n \notin dialogs' /\ ~ Engaged(s, n)'
  <2>1. k = NextAwait(t, j, TRUE)
    BY <1>3, <1>8
  <2>2. j \in ToClose(t, opened[n]) /\ was.from = n /\ CallsOf(t) # {}
    BY <1>5, <1>8
  <2>3. CASE k \in ToClose(t, opened[n])
    <3>1. k <= Len(t.steps)
      BY <1>3, <2>3 DEF ToClose, Steps
    <3>2. Engaged(s, n)'
      BY <1>3, <1>6, <2>2, <2>3, <3>1
    <3>3. PICK x \in CallsOf(t) : x < j \/ (x = j /\ was.served)
      BY <1>3, <1>8 DEF HasSent
    <3>4. x \in 1..Len(t.steps)
      BY DEF CallsOf, Steps
    <3>5. x < r.step /\ r.task = was.task
      BY <1>3, <3>1, <3>3, <3>4
    <3>6. HasSent(r)
      BY <1>3, <3>5 DEF HasSent
    <3>7. HasSent(r)'
      BY <3>6, SubmittingStays
    <3> QED BY <1>3, <3>2, <3>7
  <2>4. CASE k \notin ToClose(t, opened[n])
    <3>1. opened[n] \in closed
      BY <1>3, <2>1, <2>2, <2>4, StillToClose
    <3>2. n \notin dialogs'
      BY <1>3, <3>1
    <3> QED BY <1>6, <2>4, <3>2
  <2> QED BY <2>3, <2>4
<1> QED BY <1>3, <1>7, <1>8 DEF Outcome

\* A handler gives up: it submits nothing more.
LEMMA AbortOutcome ==
    ASSUME Typed, page' = page, NEW n, NEW s \in Slots, NEW cleared, Abort(s, cleared),
           done'[n] = done[n],
           \/ lost'[n] = lost[n] + 1
           \/ lost'[n] = lost[n] /\ ~ (Engaged(s, n) /\ HasSent(running[s]))
    PROVE  Outcome(s, n)
<1>1. running' = [running EXCEPT ![s] = Idle]
  BY DEF Abort
<1>2. running'[s] = Idle
  BY <1>1 DEF Typed, HandlersOK
<1>3. ~ Engaged(s, n)'
  BY <1>2 DEF Engaged
<1> QED BY <1>3 DEF Outcome

\* The server serves a handler: its call counts for the dialog it is from.
LEMMA ServeOutcome ==
    ASSUME Typed, Nested, SubmitInv, NEW n \in 1..Len(opened), Single(n),
           NEW s \in Slots, Serve(s)
    PROVE  Outcome(s, n)
<1>1. /\ page' = page /\ running[s] # Idle /\ ~ running[s].served
      /\ opened' = opened /\ lost' = lost
      /\ done' = IF At(s).op = "call" /\ running[s].from \in Openings
                 THEN [done EXCEPT ![running[s].from] = @ + 1] ELSE done
  BY DEF Serve, Suspended
<1>2. PICK was, v, t : was = running[s] /\ v = version' /\ t = Task(was.task)
  OBVIOUS
<1>3. PICK r : r = Served(was, v)
  OBVIOUS
<1>4. running' = [running EXCEPT ![s] = r]
  BY <1>2, <1>3 DEF Serve
<1>5. HandlersOK /\ was.task \in Tasks(page) /\ was # Idle /\ page \in DOMAIN Pages
      /\ was.step \in Steps(t) /\ t = TaskOf(page, was.task)
  BY <1>1, <1>2 DEF Typed, HandlersOK, Steps, Task
<1>6. running'[s] = r
  BY <1>1, <1>4, <1>5, OthersHold
<1>7. was.task # NoTask
  BY <1>5, TasksAreProper
<1>8. r.task = was.task /\ r.from = was.from /\ r.step = was.step /\ r.served = TRUE /\ r # Idle
  BY <1>3, <1>7, ServedFields
<1>9. /\ Submitting(r, n)' <=> Submitting(r, n)
      /\ HasSent(r)' <=> HasSent(r)
  BY <1>1, SubmittingStays
<1>10. Submitting(r, n) <=> Submitting(was, n)
  BY <1>8 DEF Submitting
<1>11. Engaged(s, n)' <=> Engaged(s, n)
  <2>1. Engaged(s, n)' <=> r # Idle /\ Submitting(r, n)'
    BY <1>6 DEF Engaged
  <2>2. Engaged(s, n) <=> Submitting(was, n)
    BY <1>2, <1>5 DEF Engaged
  <2> QED BY <1>8, <1>9, <1>10, <2>1, <2>2
<1>12. HasSent(running[s])' <=> HasSent(r)
  BY <1>6, <1>9
<1>13. HasSent(was) => HasSent(r)
  BY <1>8 DEF HasSent
<1>14. n \in Openings /\ done \in [Openings -> Nat]
  BY BoundsAssumption DEF SubmitInv, CountsOK, Typed, DialogsOK, Openings
<1>15. CASE was.from = n /\ At(s).op = "call"
  <2>1. t.steps[was.step].op = "call"
    BY <1>2, <1>15 DEF At
  <2>2. was.step \in CallsOf(t)
    BY <1>5, <2>1 DEF CallsOf
  <2>3. \E call \in ToClose(t, opened[n]) : CallsOf(t) = {call}
    <3>1. CallsOf(t) # {} /\ was.from = n
      BY <1>15, <2>2
    <3>2. OneCall(t, opened[n], was.step)
      BY <1>2, <1>5, <3>1, EngagedAt, Zenon
    <3> QED BY <3>2, Zenon DEF OneCall
  <2>4. CallsOf(t) = {was.step} /\ was.step \in ToClose(t, opened[n])
    BY <2>2, <2>3
  <2>5. Engaged(s, n)
    BY <1>2, <1>5, <1>15, <2>4 DEF Engaged, Submitting
  <2>6. ~ HasSent(was)
    <3>1. was.step \in Nat
      BY <1>5, TasksAreProper DEF Steps
    <3> QED BY <1>1, <1>2, <2>4, <3>1 DEF HasSent
  <2>7. HasSent(r)
    BY <1>2, <1>8, <2>4 DEF HasSent
  <2>8. done'[n] = done[n] + 1
    BY <1>1, <1>2, <1>14, <1>15
  <2> QED BY <1>1, <1>2, <1>11, <1>12, <2>5, <2>6, <2>7, <2>8 DEF Outcome
<1>16. CASE ~ (was.from = n /\ At(s).op = "call")
  <2>1. done'[n] = done[n]
    BY <1>1, <1>2, <1>14, <1>16
  <2> QED BY <1>1, <1>2, <1>11, <1>12, <1>13, <2>1 DEF Outcome
<1> QED BY <1>15, <1>16

\* Where a handler that is submitting can be.
LEMMA EngagedOp ==
    ASSUME Typed, Nested, SubmitInv, NEW n \in 1..Len(opened), Single(n),
           NEW s \in Slots, Engaged(s, n)
    PROVE  /\ At(s).op \in {"call", "try", "get", "pause"}
           /\ HasSent(running[s]) /\ ~ running[s].served => At(s).op \in {"try", "pause"}
<1>1. PICK was, t : was = running[s] /\ t = Task(was.task)
  OBVIOUS
<1>2. was # Idle /\ was.from = n /\ CallsOf(t) # {} /\ was.step \in ToClose(t, opened[n])
  BY <1>1 DEF Engaged, Submitting
<1>3. OneCall(t, opened[n], was.step)
  BY <1>1, <1>2, EngagedAt, Zenon
<1>4. PICK call : /\ CallsOf(t) = {call}
                  /\ t.steps[was.step].op \in (IF was.step > call THEN {"try", "pause"}
                                               ELSE {"call", "try", "get", "pause"})
  BY <1>2, <1>3 DEF OneCall
<1>5. At(s).op = t.steps[was.step].op
  BY <1>1 DEF At
<1>6. HasSent(was) /\ ~ was.served => call < was.step
  BY <1>1, <1>4 DEF HasSent
<1>7. call < was.step => was.step > call
  OBVIOUS
<1> QED BY <1>1, <1>4, <1>5, <1>6, <1>7

\* A step of a handler counts what it does, for the dialog it belongs to.
LEMMA GoesOutcome ==
    ASSUME Typed, NestedInv, SubmitInv, NEW n \in 1..Len(opened), Single(n),
           NEW s \in Slots, Goes(s)
    PROVE  Outcome(s, n)
<1>1. /\ page' = page /\ running[s] # Idle
      /\ \E gone \in SUBSET MayClose(running[s]) : Moves(gone)
  BY GoesMoves
<1>2. PICK gone \in SUBSET MayClose(running[s]) : Moves(gone)
  BY <1>1
<1>3. Nested /\ n \in Openings /\ lost \in [Openings -> Nat]
  BY BoundsAssumption DEF NestedInv, SubmitInv, CountsOK, Typed, DialogsOK, Openings
<1>4. Closing(gone)
  BY <1>1, <1>3, HandlersClose
<1>5. opened'[n] = opened[n]
  BY <1>1, <1>2, <1>3, <1>4, MovesNested
<1>6. n \notin dialogs => n \notin dialogs'
  <2>1. Len(opened) \in Nat /\ opened \in Seq(Names(page))
    BY DEF Typed, DialogsOK
  <2>2. \A d : opened' = Append(opened, d) => Len(opened') # n
    BY <2>1
  <2>3. Without(gone) \subseteq dialogs
    BY DEF Without
  <2> QED BY <1>2, <2>2, <2>3 DEF Moves
<1>7. Engaged(s, n) => /\ At(s).op \in {"call", "try", "get", "pause"}
                       /\ HasSent(running[s]) /\ ~ running[s].served => At(s).op \in {"try", "pause"}
  BY <1>3, EngagedOp
<1>8. ASSUME NEW cleared, NEW answers, NEW fine, Continue(s, cleared, answers, fine),
             done' = done, lost'[n] = lost[n], Engaged(s, n) => fine = TRUE
      PROVE  Outcome(s, n)
  <2>1. done'[n] = done[n]
    BY <1>8
  <2> QED BY <1>1, <1>3, <1>5, <1>6, <1>8, <2>1, ContinueOutcome, Zenon
<1>9. ASSUME NEW cleared, Abort(s, cleared), done' = done,
             \/ lost'[n] = lost[n] + 1
             \/ lost'[n] = lost[n] /\ ~ (Engaged(s, n) /\ HasSent(running[s]))
      PROVE  Outcome(s, n)
  <2>1. done'[n] = done[n]
    BY <1>9
  <2> QED BY <1>1, <1>9, <2>1, AbortOutcome, Zenon
<1>10. CASE Serve(s)
  BY <1>3, <1>10, ServeOutcome
<1>11. CASE CallAnswered(s)
  <2>1. Continue(s, {}, {}, TRUE) /\ done' = done /\ lost' = lost
    BY <1>11 DEF CallAnswered
  <2> QED BY <1>8, <2>1
<1>12. CASE CallRefused(s)
  <2>1. Recovers(s) /\ done' = done /\ lost' = lost /\ ~ running[s].served
        /\ At(s).op \in {"call", "try", "get"}
    BY <1>12 DEF CallRefused, Suspended
  <2>2. CASE At(s).op = "try"
    <3>1. Continue(s, {}, {}, TRUE)
      BY <2>1, <2>2 DEF Recovers
    <3> QED BY <1>8, <2>1, <3>1
  <2>3. CASE At(s).op # "try"
    <3>1. Abort(s, {})
      BY <2>1, <2>3 DEF Recovers
    <3>2. ~ (Engaged(s, n) /\ HasSent(running[s]))
      BY <1>7, <2>1, <2>3
    <3> QED BY <1>9, <2>1, <3>1, <3>2
  <2> QED BY <2>2, <2>3
<1>13. CASE CallLost(s)
  <2>1. /\ Recovers(s) /\ done' = done /\ At(s).op \in {"call", "try"}
        /\ lost' = IF At(s).op = "call" /\ running[s].from \in Openings
                   THEN [lost EXCEPT ![running[s].from] = @ + 1] ELSE lost
    BY <1>13 DEF CallLost, Suspended
  <2>2. CASE At(s).op = "try"
    <3>1. Continue(s, {}, {}, TRUE) /\ lost' = lost
      BY <2>1, <2>2 DEF Recovers
    <3> QED BY <1>8, <2>1, <3>1
  <2>3. CASE At(s).op = "call"
    <3>1. Abort(s, {})
      BY <2>1, <2>3 DEF Recovers
    <3>2. PICK m : m = running[s].from
      OBVIOUS
    <3>3. CASE m = n
      <4>1. lost'[n] = lost[n] + 1
        BY <1>3, <2>1, <2>3, <3>2, <3>3
      <4> QED BY <1>9, <2>1, <3>1, <4>1
    <3>4. CASE m # n
      <4>1. lost'[n] = lost[n]
        BY <1>3, <2>1, <2>3, <3>2, <3>4
      <4>2. ~ Engaged(s, n)
        BY <3>2, <3>4 DEF Engaged, Submitting
      <4> QED BY <1>9, <2>1, <3>1, <4>1, <4>2
    <3> QED BY <3>3, <3>4
  <2> QED BY <2>1, <2>2, <2>3
<1>14. CASE TimerFires(s)
  <2>1. Continue(s, {}, {}, TRUE) /\ done' = done /\ lost' = lost
    BY <1>14 DEF TimerFires
  <2> QED BY <1>8, <2>1
<1>15. CASE ReadAnswered(s)
  <2>1. Continue(s, Clears(page, Showing(s)), Answers(s), TRUE) /\ done' = done /\ lost' = lost
    BY <1>15 DEF ReadAnswered
  <2> QED BY <1>8, <2>1
<1>16. CASE ReadFailed(s)
  <2>1. /\ done' = done /\ lost' = lost /\ At(s).op \in {"await", "then"}
        /\ \/ Continue(s, Clears(page, Showing(s)), {}, FALSE)
           \/ Abort(s, Clears(page, Showing(s)))
    BY <1>16 DEF ReadFailed, Suspended
  <2>2. ~ Engaged(s, n)
    BY <1>7, <2>1
  <2> QED BY <1>8, <1>9, <2>1, <2>2
<1> QED BY <1>10, <1>11, <1>12, <1>13, <1>14, <1>15, <1>16 DEF Goes

\* What one slot does decides, if it is the only one that submits.
LEMMA OutcomeCounts ==
    ASSUME CountsOK, NEW n \in Openings, NEW s \in Slots, AtMostOne(n), Counted(n), Outcome(s, n),
           \A i \in Slots : i # s => /\ Engaged(i, n)' <=> Engaged(i, n)
                                     /\ HasSent(running[i])' <=> HasSent(running[i]),
           n \notin dialogs => n \notin dialogs'
    PROVE  AtMostOne(n)' /\ Counted(n)'
<1>1. \A i \in Slots : Engaged(i, n)' => Engaged(i, n)
  BY DEF Outcome
<1>2. AtMostOne(n)'
  BY <1>1 DEF AtMostOne
<1>3. done[n] \in Nat /\ lost[n] \in Nat
  BY DEF CountsOK
<1>4. CASE /\ done'[n] = done[n] + 1 /\ lost'[n] = lost[n]
           /\ Engaged(s, n) /\ ~ HasSent(running[s])
           /\ Engaged(s, n)' /\ HasSent(running[s])'
  <2>1. done[n] <= lost[n]
    BY <1>4 DEF Counted, AtMostOne
  <2>2. done'[n] <= 1 + lost'[n]
    BY <1>3, <1>4, <2>1
  <2> QED BY <1>2, <1>4, <2>2 DEF Counted
<1>5. CASE done'[n] = done[n] /\ lost'[n] = lost[n] + 1
  <2>1. done[n] <= 1 + lost[n]
    BY DEF Counted
  <2>2. done'[n] <= lost'[n] /\ done'[n] <= 1 + lost'[n]
    BY <1>3, <1>5, <2>1
  <2> QED BY <1>2, <2>2 DEF Counted
<1>6. CASE /\ done'[n] = done[n] /\ lost'[n] = lost[n]
           /\ Engaged(s, n) /\ HasSent(running[s]) =>
                \/ Engaged(s, n)' /\ HasSent(running[s])'
                \/ n \notin dialogs' /\ ~ Engaged(s, n)'
  <2>1. done'[n] <= 1 + lost'[n]
    BY <1>6 DEF Counted
  <2>2. CASE \E i \in Slots : Engaged(i, n) /\ HasSent(running[i])
    <3>1. PICK i \in Slots : Engaged(i, n) /\ HasSent(running[i])
      BY <2>2
    <3>2. CASE i # s
      BY <1>2, <2>1, <3>1, <3>2 DEF Counted
    <3>3. CASE i = s /\ Engaged(s, n)' /\ HasSent(running[s])'
      BY <1>2, <2>1, <3>3 DEF Counted
    <3>4. CASE i = s /\ n \notin dialogs' /\ ~ Engaged(s, n)'
      <4>1. \A x \in Slots : ~ Engaged(x, n)'
        BY <1>1, <3>1, <3>4 DEF AtMostOne
      <4> QED BY <1>2, <2>1, <3>4, <4>1 DEF Counted
    <3> QED BY <1>6, <3>1, <3>2, <3>3, <3>4
  <2>3. CASE done[n] <= lost[n]
    BY <1>2, <1>3, <1>6, <2>1, <2>3 DEF Counted
  <2>4. CASE n \notin dialogs /\ \A i \in Slots : ~ Engaged(i, n)
    BY <1>1, <1>2, <1>6, <2>1, <2>4 DEF Counted
  <2> QED BY <2>2, <2>3, <2>4 DEF Counted
<1> QED BY <1>2, <1>4, <1>5, <1>6 DEF Outcome

-----------------------------------------------------------------------------
(* The flags that disable what submits. *)

\* How a step of the handler in slot s can clear a flag.
MayFree(s, f) ==
    LET r == running[s]
        t == Task(running[s].task)
    IN \/ \E l \in Loads : f \in Here.loads[l].clears
       \/ \E names : f \in LocalFlags(names)
       \/ \E m \in Steps(t) : t.steps[m].op = "free" /\ f \in t.steps[m].on /\ r.step < m
       \/ f \in t.frees

\* What a step of the handler does to the flags.
FlagsGo(s) ==
    /\ \A f \in busy \ busy' : MayFree(s, f)
    /\ running'[s] # Idle =>
         /\ running'[s].task = running[s].task
         /\ running[s].step <= running'[s].step
         /\ running[s].step = running'[s].step => busy' = busy
         /\ running[s].step # running'[s].step =>
              Task(running[s].task).steps[running'[s].step].sets \ Task(running[s].task).frees
              \subseteq busy'

\* The flags that a handler sets and clears as it goes on.
LEMMA ContinueFlags ==
    ASSUME Typed, page' = page, NEW s \in Slots, running[s] # Idle,
           NEW cleared, NEW answers, NEW fine, Continue(s, cleared, answers, fine),
           \A f \in cleared : \E l \in Loads : f \in Here.loads[l].clears
    PROVE  FlagsGo(s)
<1>1. \E was, t, j, k, r, closed : GoesOn(s, cleared, fine, was, t, j, k, r, closed)
  BY ContinueGoesOn, Zenon
<1>2. PICK was, t, j, k, r, closed : GoesOn(s, cleared, fine, was, t, j, k, r, closed)
  BY <1>1
<1>3. /\ was = running[s] /\ t = Task(was.task) /\ j = was.step
      /\ Len(t.steps) \in Nat /\ j \in 1..Len(t.steps)
      /\ k \in (j + 1)..(Len(t.steps) + 1) /\ running'[s] = r
      /\ r # Idle => k <= Len(t.steps) /\ r.task = was.task /\ r.step = k
      /\ busy' = ((busy \ (cleared \cup LocalFlags(closed \cup Replaced(t, k))
                                   \cup Named(t, "free", j, k)))
                    \cup SetAt(page, t, k)) \ Freed(s, FreedAt(t, j, k))
  BY <1>2 DEF GoesOn
<1>4. Freed(s, FreedAt(t, j, k)) \subseteq t.frees
  BY DEF Freed, FreedAt
<1>5. ASSUME NEW f \in busy \ busy' PROVE MayFree(s, f)
  <2>1. CASE f \in cleared
    BY <2>1 DEF MayFree
  <2>2. CASE f \in LocalFlags(closed \cup Replaced(t, k))
    BY <2>2 DEF MayFree
  <2>3. CASE f \in Named(t, "free", j, k)
    <3>1. PICK m \in (j + 1)..(k - 1) : t.steps[m].op = "free" /\ f \in t.steps[m].on
      BY <2>3 DEF Named
    <3>2. m \in Steps(t) /\ j < m
      BY <1>3 DEF Steps
    <3> QED BY <1>3, <3>1, <3>2 DEF MayFree
  <2>4. CASE f \in Freed(s, FreedAt(t, j, k))
    BY <1>3, <1>4, <2>4 DEF MayFree
  <2>5. f \in cleared \cup LocalFlags(closed \cup Replaced(t, k)) \cup Named(t, "free", j, k)
             \cup Freed(s, FreedAt(t, j, k))
    BY <1>3, <1>5
  <2> QED BY <2>1, <2>2, <2>3, <2>4, <2>5
<1>6. ASSUME r # Idle
      PROVE  /\ r.task = was.task /\ was.step < r.step
             /\ t.steps[r.step].sets \ t.frees \subseteq busy'
  <2>1. r.task = was.task /\ r.step = k /\ k <= Len(t.steps) /\ j < k
    BY <1>3, <1>6
  <2>2. t.steps[k].sets \subseteq SetAt(page, t, k)
    BY <2>1 DEF SetAt
  <2>3. \A f \in t.steps[k].sets \ t.frees : f \in busy'
    BY <1>3, <1>4, <2>2
  <2> QED BY <1>3, <2>1, <2>3
<1>7. was.step \in Nat /\ (r # Idle => r.step \in Nat)
  BY <1>3
<1>8. r # Idle => was.step <= r.step /\ was.step # r.step
  BY <1>6, <1>7
<1> QED BY <1>3, <1>5, <1>6, <1>8 DEF FlagsGo

\* The flags that it clears as it gives up.
LEMMA AbortFlags ==
    ASSUME Typed, page' = page, NEW s \in Slots, running[s] # Idle,
           NEW cleared, Abort(s, cleared),
           \A f \in cleared : \E l \in Loads : f \in Here.loads[l].clears
    PROVE  FlagsGo(s)
<1>1. PICK was, t : was = running[s] /\ t = Task(was.task)
  OBVIOUS
<1>2. /\ running' = [running EXCEPT ![s] = Idle]
      /\ busy' = (busy \ cleared) \ Freed(s, FreedAt(t, was.step, Len(t.steps) + 1))
  BY <1>1, Zenon DEF Abort
<1>3. running'[s] = Idle
  BY <1>2 DEF Typed, HandlersOK
<1>4. ASSUME NEW f \in busy \ busy' PROVE MayFree(s, f)
  <2>1. CASE f \in cleared
    BY <2>1 DEF MayFree
  <2>2. CASE f \in Freed(s, FreedAt(t, was.step, Len(t.steps) + 1))
    <3>1. f \in t.frees
      BY <2>2 DEF Freed, FreedAt
    <3> QED BY <1>1, <3>1 DEF MayFree
  <2> QED BY <1>2, <1>4, <2>1, <2>2
<1> QED BY <1>3, <1>4 DEF FlagsGo

\* What a step of a handler does to the flags, and where it leaves the handler.
LEMMA GoesFlags ==
    ASSUME Typed, NEW s \in Slots, Goes(s)
    PROVE  FlagsGo(s)
<1>1. page' = page /\ running[s] # Idle /\ HandlersOK /\ page \in DOMAIN Pages
  BY GoesMoves DEF Typed, HandlersOK
<1>2. CASE Serve(s)
  <2>1. PICK was, v : was = running[s] /\ v = version'
    OBVIOUS
  <2>2. PICK r : r = Served(was, v)
    OBVIOUS
  <2>3. running' = [running EXCEPT ![s] = r] /\ busy' = busy
    BY <1>2, <2>1, <2>2 DEF Serve
  <2>4. running'[s] = r
    BY <1>1, <2>3, OthersHold
  <2>5. r.task = was.task /\ r.step = was.step
    BY <2>2 DEF Served
  <2>6. was.step \in Nat
    <3>1. was.step \in 1..Len(Task(was.task).steps) /\ was.task \in Tasks(page)
      BY <1>1, <2>1 DEF HandlersOK
    <3> QED BY <3>1
  <2> QED BY <2>1, <2>3, <2>4, <2>5, <2>6 DEF FlagsGo
<1>3. ASSUME NEW cleared, \A f \in cleared : \E l \in Loads : f \in Here.loads[l].clears,
             \/ \E answers, fine : Continue(s, cleared, answers, fine)
             \/ Abort(s, cleared)
      PROVE  FlagsGo(s)
  <2>1. CASE Abort(s, cleared)
    BY <1>1, <1>3, <2>1, AbortFlags
  <2>2. CASE \E answers, fine : Continue(s, cleared, answers, fine)
    BY <1>1, <1>3, <2>2, ContinueFlags
  <2> QED BY <1>3, <2>1, <2>2
<1>4. ASSUME At(s).op \in {"await", "then"}
      PROVE  \A f \in Clears(page, Showing(s)) : \E l \in Loads : f \in Here.loads[l].clears
  <2>1. At(s).on \subseteq Loads
    <3>1. PICK was, t : was = running[s] /\ t = TaskOf(page, was.task)
      OBVIOUS
    <3>2. was.task \in Tasks(page) /\ was.step \in 1..Len(t.steps) /\ At(s) = t.steps[was.step]
      BY <1>1, <3>1 DEF HandlersOK, At, Task
    <3>3. \A k \in 1..Len(t.steps) : t.steps[k].op \in {"await", "then", "put"}
                                     => t.steps[k].on \subseteq DOMAIN Pages[page].loads
      BY <1>1, <3>1, <3>2, TasksAreProper
    <3> QED BY <1>4, <3>2, <3>3 DEF Loads, Here
  <2>2. Showing(s) \subseteq Loads
    BY <2>1 DEF Showing
  <2> QED BY <2>2 DEF Clears, Here
<1>5. ASSUME \/ \E answers, fine : Continue(s, {}, answers, fine)
             \/ Abort(s, {})
      PROVE  FlagsGo(s)
  <2>1. PICK none : none = {}
    OBVIOUS
  <2>2. \A f \in none : \E l \in Loads : f \in Here.loads[l].clears
    BY <2>1
  <2>3. \/ \E answers, fine : Continue(s, none, answers, fine)
        \/ Abort(s, none)
    BY <1>5, <2>1
  <2> QED BY <1>3, <2>2, <2>3, Zenon
<1>6. CASE CallAnswered(s)
  BY <1>5, <1>6, Zenon DEF CallAnswered
<1>7. CASE CallRefused(s)
  BY <1>5, <1>7, Zenon DEF CallRefused, Recovers
<1>8. CASE CallLost(s)
  BY <1>5, <1>8, Zenon DEF CallLost, Recovers
<1>9. CASE TimerFires(s)
  BY <1>5, <1>9, Zenon DEF TimerFires
<1>10. CASE ReadAnswered(s)
  BY <1>3, <1>4, <1>10, Zenon DEF ReadAnswered, Suspended
<1>11. CASE ReadFailed(s)
  BY <1>3, <1>4, <1>11, Zenon DEF ReadFailed, Suspended
<1> QED BY <1>2, <1>6, <1>7, <1>8, <1>9, <1>10, <1>11, Zenon DEF Goes

\* A flag that one handler owns is no other's.
LEMMA OwnedTasks ==
    ASSUME HandlersOK, NEW name, NEW f, Owns(page, name, f)
    PROVE  /\ \A l \in Loads : f \notin Here.loads[l].clears
           /\ \A u \in Tasks(page) :
                /\ f \notin Task(u).drops
                /\ u # name => /\ f \notin Task(u).frees
                               /\ \A k \in Steps(Task(u)) : Task(u).steps[k].op = "free"
                                                           => f \notin Task(u).steps[k].on
           /\ \A names : f \in LocalFlags(names) =>
                \E c \in LocalIn(page, names) : c.starts = name /\ f \in Here.tasks[name].sets
<1>1. page \in DOMAIN Pages
  BY DEF HandlersOK
<1>2. \A l \in Loads : f \notin Here.loads[l].clears
  BY DEF Owns, Loads, Here
<1>3. ASSUME NEW u \in Tasks(page)
      PROVE  /\ f \notin Task(u).drops
             /\ u # name => /\ f \notin Task(u).frees
                            /\ \A k \in Steps(Task(u)) : Task(u).steps[k].op = "free"
                                                        => f \notin Task(u).steps[k].on
  <2>1. CASE u = Mount
    <3>1. /\ Task(u).steps = <<Await(Pages[page].mounts)>> /\ Task(u).frees = {} /\ Task(u).drops = {}
      BY <2>1 DEF Task, TaskOf, Reads, Handler
    <3>2. /\ Len(Task(u).steps) = 1 /\ Task(u).steps[1].op = "await"
      BY <3>1 DEF Await
    <3>3. \A k \in Steps(Task(u)) : k = 1
      BY <3>2 DEF Steps
    <3> QED BY <3>1, <3>2, <3>3
  <2>2. CASE u # Mount
    <3>1. u \in DOMAIN Pages[page].tasks /\ Task(u) = Pages[page].tasks[u]
      BY <2>2 DEF Tasks, Task, TaskOf
    <3> QED BY <3>1, Zenon DEF Owns
  <2> QED BY <2>1, <2>2
<1>4. ASSUME NEW names, f \in LocalFlags(names)
      PROVE  \E c \in LocalIn(page, names) : c.starts = name /\ f \in Here.tasks[name].sets
  <2>1. PICK c \in LocalIn(page, names) : f \in Here.tasks[c.starts].sets
    BY <1>4 DEF LocalFlags
  <2>2. c \in Pages[page].controls /\ c.starts # NoTask
    BY <2>1 DEF LocalIn
  <2>3. c.starts \in DOMAIN Pages[page].tasks
    BY <1>1, <2>2, PagesAssumption
  <2>4. c.starts = name
    BY <2>1, <2>3 DEF Owns, Here
  <2> QED BY <2>1, <2>4
<1> QED BY <1>2, <1>3, <1>4

\* A handler that is not past its pause was not before.
LEMMA PausedBefore ==
    ASSUME Typed, HandlersOK', NEW s \in Slots, Goes(s),
           NEW i \in Slots, i # s => running'[i] = running[i],
           NEW k, NEW f, Paused(i, k, f)'
    PROVE  /\ Paused(i, k, f) /\ running'[i].task = running[i].task
           /\ running[i].step <= running'[i].step
<1>1. page' = page /\ running[s] # Idle /\ FlagsGo(s) /\ HandlersOK
  BY GoesMoves, GoesFlags DEF Typed
<1>2. PICK q, r : q = running[i] /\ r = running'[i]
  OBVIOUS
<1>3. \A n : Task(n)' = Task(n)
  BY <1>1 DEF Task
<1>4. /\ r # Idle /\ r.task # Mount /\ r.step <= k /\ k \in Steps(Task(r.task))
      /\ OwnedAtPause(page, r.task, k, f)
  <2>1. Task(r.task)' = Task(r.task)
    BY <1>3
  <2> QED BY <1>1, <1>2, <2>1 DEF Paused
<1>5. q # Idle /\ q.task = r.task
  BY <1>1, <1>2, <1>4 DEF FlagsGo
<1>6. r.step \in Nat /\ q.step \in Nat /\ q.step <= r.step
  <2>1. q.step \in 1..Len(Task(q.task).steps)
    BY <1>1, <1>2, <1>5 DEF HandlersOK
  <2>2. r.step \in 1..Len(Task(r.task).steps)'
    BY <1>2, <1>4 DEF HandlersOK
  <2>3. r.step \in Nat /\ q.step \in Nat
    BY <2>1, <2>2
  <2>4. CASE i = s
    BY <1>1, <1>2, <1>4, <2>3, <2>4 DEF FlagsGo
  <2>5. CASE i # s
    BY <1>2, <2>3, <2>5
  <2> QED BY <2>3, <2>4, <2>5
<1>7. k \in Nat
  BY <1>4 DEF Steps
<1> QED BY <1>2, <1>4, <1>5, <1>6, <1>7 DEF Paused

\* No step of a handler clears the flag that another set before its pause.
LEMMA GoesHeldAtPause ==
    ASSUME Typed, SubmitInv, HandlersOK', NEW s \in Slots, Goes(s),
           \A i \in Slots : i # s => running'[i] = running[i]
    PROVE  HeldAtPause'
<1>1. /\ page' = page /\ running[s] # Idle /\ FlagsGo(s) /\ HandlersOK /\ HeldAtPause
      /\ page \in DOMAIN Pages
  BY GoesMoves, GoesFlags DEF Typed, SubmitInv, HandlersOK
<1>2. ASSUME NEW i \in Slots, NEW k, NEW f, Paused(i, k, f)', running'[i].step = k
      PROVE  f \in busy'
  <2>1. /\ Paused(i, k, f) /\ running'[i].task = running[i].task
        /\ running[i].step <= running'[i].step
    BY <1>2, PausedBefore
  <2>2. PICK r, t : r = running[i] /\ t = Task(r.task)
    OBVIOUS
  <2>3. /\ r # Idle /\ r.task # Mount /\ k \in Steps(t) /\ r.step <= k
        /\ OwnedAtPause(page, r.task, k, f)
    BY <2>1, <2>2 DEF Paused
  <2>4. r.task \in Tasks(page) /\ t = Pages[page].tasks[r.task] /\ t = TaskOf(page, r.task)
    BY <1>1, <2>2, <2>3 DEF HandlersOK, Task, TaskOf
  <2>5. /\ Owns(page, r.task, f) /\ f \notin t.sets \cup t.frees /\ f \in t.steps[k].sets
        /\ \A m \in Steps(t) : t.steps[m].op = "free" /\ f \in t.steps[m].on
                               => k < m /\ m < NextAwait(t, k, TRUE)
    BY <2>3, <2>4, Zenon DEF OwnedAtPause
  <2>6. CASE i = s /\ running[s].step # running'[s].step
    BY <1>1, <1>2, <2>2, <2>3, <2>5, <2>6 DEF FlagsGo, Paused
  <2>7. CASE i = s /\ running[s].step = running'[s].step
    <3>1. busy' = busy
      BY <1>1, <1>2, <2>7 DEF FlagsGo, Paused
    <3>2. f \in busy
      BY <1>1, <1>2, <2>1, <2>7 DEF HeldAtPause
    <3> QED BY <3>1, <3>2
  <2>8. CASE i # s
    <3>1. r.step = k /\ f \in busy
      BY <1>1, <1>2, <2>1, <2>2, <2>8 DEF HeldAtPause
    <3>2. ASSUME f \notin busy' PROVE FALSE
      <4>1. MayFree(s, f)
        BY <1>1, <3>1, <3>2 DEF FlagsGo
      <4>2. PICK q : q = running[s]
        OBVIOUS
      <4>3. q.task \in Tasks(page) /\ q.step \in 1..Len(Task(q.task).steps)
            /\ IsAwait(Task(q.task).steps[q.step])
        BY <1>1, <4>2 DEF Typed, HandlersOK, Proper
      <4>4. ~ \E l \in Loads : f \in Here.loads[l].clears
        BY <1>1, <2>5, OwnedTasks
      <4>5. \A names : f \notin LocalFlags(names)
        BY <1>1, <2>4, <2>5, OwnedTasks DEF Here
      <4>6. f \notin Task(q.task).frees
        <5>1. CASE q.task = r.task
          BY <2>2, <2>5, <5>1
        <5>2. CASE q.task # r.task
          BY <1>1, <2>5, <4>3, <5>2, OwnedTasks
        <5> QED BY <5>1, <5>2
      <4>7. PICK m \in Steps(Task(q.task)) :
                 /\ Task(q.task).steps[m].op = "free" /\ f \in Task(q.task).steps[m].on
                 /\ q.step < m
        BY <4>1, <4>2, <4>4, <4>5, <4>6 DEF MayFree
      <4>8. q.task = r.task
        BY <1>1, <2>5, <4>3, <4>7, OwnedTasks
      <4>9. k < m /\ m < NextAwait(t, k, TRUE) /\ Len(t.steps) \in Nat
        BY <1>1, <2>2, <2>4, <2>5, <4>7, <4>8, TasksAreProper
      <4>10. k \in 1..Len(t.steps) /\ q.step \in 1..Len(t.steps) /\ m \in 1..Len(t.steps)
        BY <2>2, <2>3, <4>3, <4>7, <4>8 DEF Steps
      <4>11. CASE q.step <= k
        <5>1. Paused(s, k, f)
          BY <1>1, <2>2, <2>3, <4>2, <4>8, <4>11 DEF Paused
        <5>2. s = i
          BY <1>1, <2>1, <2>2, <4>2, <4>8, <5>1 DEF HeldAtPause
        <5> QED BY <2>8, <5>2
      <4>12. CASE ~ (q.step <= k)
        <5>1. k \in 0..Len(t.steps)
          BY <4>9, <4>10
        <5>2. PICK x : x = NextAwait(t, k, TRUE)
          OBVIOUS
        <5>3. /\ x \in (k + 1)..(Len(t.steps) + 1)
              /\ \A y \in (k + 1)..(x - 1) : ~ (IsAwait(t.steps[y]) /\ (TRUE \/ t.steps[y].op # "then"))
          BY <4>9, <5>1, <5>2, NextAwaitIsNext, Zenon
        <5>4. q.step \in (k + 1)..(x - 1)
          <6>1. k \in Nat /\ q.step \in Nat /\ m \in Nat /\ x \in Nat
            BY <4>9, <4>10, <5>3
          <6>2. q.step < m /\ m < x
            BY <4>7, <4>9, <5>2
          <6> QED BY <4>12, <6>1, <6>2
        <5> QED BY <2>2, <4>3, <4>8, <5>3, <5>4, Zenon
      <4> QED BY <4>11, <4>12
    <3> QED BY <3>2
  <2> QED BY <2>6, <2>7, <2>8
<1>3. ASSUME NEW i \in Slots, NEW j \in Slots, NEW k, NEW f, Paused(i, k, f)', Paused(j, k, f)',
             running'[j].task = running'[i].task
      PROVE  i = j
  <2>1. Paused(i, k, f) /\ running'[i].task = running[i].task
    BY <1>3, PausedBefore
  <2>2. Paused(j, k, f) /\ running'[j].task = running[j].task
    BY <1>3, PausedBefore
  <2> QED BY <1>1, <1>3, <2>1, <2>2 DEF HeldAtPause
<1> QED BY <1>2, <1>3 DEF HeldAtPause

-----------------------------------------------------------------------------
(* The steps of the handlers. *)

\* The counts are numbers, and nothing was done from a dialog before it opens.
LEMMA GoesCounts ==
    ASSUME Typed, SubmitInv, NEW s \in Slots, Goes(s), Len(opened) <= Len(opened'),
           Len(opened') \in Nat
    PROVE  CountsOK' /\ \A n \in Openings : n > Len(opened) => done'[n] = 0
<1>1. /\ done \in [Openings -> Nat] /\ lost \in [Openings -> Nat]
      /\ \A n \in Openings : n > Len(opened) => done[n] = 0
      /\ running[s] # Idle => running[s].from \in Nat /\ running[s].from <= Len(opened)
      /\ Len(opened) \in Nat
  BY DEF SubmitInv, CountsOK, Typed, Proper, DialogsOK
<1>2. running[s] # Idle
  BY GoesMoves
<1>3. PICK m : m = running[s].from
  OBVIOUS
<1>4. \/ done' = done
      \/ m \in Openings /\ done' = [done EXCEPT ![m] = @ + 1]
  BY <1>3, Zenon DEF Goes, Serve, CallAnswered, CallRefused, CallLost, TimerFires, ReadAnswered,
                     ReadFailed
<1>5. \/ lost' = lost
      \/ m \in Openings /\ lost' = [lost EXCEPT ![m] = @ + 1]
  BY <1>3, Zenon DEF Goes, Serve, CallAnswered, CallRefused, CallLost, TimerFires, ReadAnswered,
                     ReadFailed
<1>6. done' \in [Openings -> Nat] /\ lost' \in [Openings -> Nat]
  BY <1>1, <1>4, <1>5
<1>7. ASSUME NEW n \in Openings, n > Len(opened) PROVE done'[n] = 0
  <2>1. n # m
    BY <1>1, <1>2, <1>3, <1>7 DEF Openings
  <2> QED BY <1>1, <1>4, <1>7, <2>1
<1>8. \A n \in Openings : n > Len(opened') => n > Len(opened)
  BY <1>1, BoundsAssumption DEF Openings
<1> QED BY <1>6, <1>7, <1>8 DEF CountsOK, Openings

\* The steps of the handlers keep what is submitted in the dialogs to one call.
LEMMA GoesSubmits ==
    ASSUME Typed, NestedInv, SubmitInv, HandlersOK', NEW s \in Slots, Goes(s)
    PROVE  SubmitInv'
<1>1. /\ page' = page /\ running[s] # Idle
      /\ \E gone \in SUBSET MayClose(running[s]) :
            Moves(gone) /\ ClosesAsItGoes(s, gone, running'[s])
      /\ running' = [running EXCEPT ![s] = running'[s]]
      /\ running'[s] # Idle => /\ running'[s].task = running[s].task
                               /\ running'[s].from = running[s].from
  BY GoesMoves
<1>2. PICK gone \in SUBSET MayClose(running[s]) : Moves(gone)
  BY <1>1
<1>3. Nested /\ HandlersOK /\ dialogs \subseteq 1..Len(opened)
      /\ Len(opened) \in Nat /\ opened \in Seq(Names(page)) /\ Len(opened) <= MaxOpens
  BY DEF NestedInv, Typed, DialogsOK
<1>4. Closing(gone)
  BY <1>1, <1>3, HandlersClose
<1>5. /\ Len(opened') \in Nat /\ Len(opened) <= Len(opened')
      /\ \A n \in 1..Len(opened) : opened'[n] = opened[n]
  BY <1>1, <1>2, <1>3, <1>4, MovesNested
<1>6. \A n \in dialogs' : n \in dialogs \/ n = Len(opened) + 1
  <2>1. \A d : opened' = Append(opened, d) => Len(opened') = Len(opened) + 1
    BY <1>3
  <2>2. Without(gone) \subseteq dialogs
    BY DEF Without
  <2> QED BY <1>2, <1>3, <2>1, <2>2 DEF Moves
<1>7. \A i \in Slots : i # s => running'[i] = running[i]
  BY <1>1, <1>3 DEF HandlersOK
<1>8. CountsOK' /\ \A n \in Openings : n > Len(opened) => done'[n] = 0
  BY <1>5, GoesCounts
<1>9. HeldAtPause'
  BY <1>7, GoesHeldAtPause
<1>10. ASSUME NEW i \in Slots, running'[i] # Idle
       PROVE  /\ running[i] # Idle /\ running'[i].task = running[i].task
              /\ running'[i].from = running[i].from
              /\ running[i].from \in Nat /\ running[i].from <= Len(opened)
  <2>1. /\ running[i] # Idle /\ running'[i].task = running[i].task
        /\ running'[i].from = running[i].from
    BY <1>1, <1>7, <1>10
  <2>2. Proper(running[i])
    BY <2>1 DEF Typed
  <2> QED BY <2>1, <2>2 DEF Proper
<1>11. ASSUME NEW i \in Slots, running'[i] # Idle PROVE Submitter(running[i])'
  <2>1. PICK q, r : q = running[i] /\ r = running'[i]
    OBVIOUS
  <2>2. /\ Submitter(q) /\ r.task = q.task /\ r.from = q.from /\ q.from \in Nat
        /\ q.from <= Len(opened)
    BY <1>10, <1>11, <2>1 DEF SubmitInv
  <2>3. q.from # 0 => opened'[q.from] = opened[q.from]
    BY <1>3, <1>5, <2>2
  <2>4. Task(r.task)' = Task(q.task)
    BY <1>1, <2>2 DEF Task
  <2>5. Submitter(r)'
    BY <1>1, <2>2, <2>3, <2>4 DEF Submitter
  <2> QED BY <2>1, <2>5
<1>12. ASSUME NEW n \in 1..Len(opened), NEW i \in Slots, i # s
       PROVE  /\ Engaged(i, n)' <=> Engaged(i, n)
              /\ HasSent(running[i])' <=> HasSent(running[i])
  <2>1. PICK q : q = running[i] /\ q = running'[i]
    BY <1>7, <1>12
  <2>2. (Submitting(q, n)' <=> Submitting(q, n)) /\ (HasSent(q)' <=> HasSent(q))
    BY <1>1, <1>5, SubmittingStays
  <2>3. Engaged(i, n) <=> q # Idle /\ Submitting(q, n)
    BY <2>1 DEF Engaged
  <2>4. Engaged(i, n)' <=> q # Idle /\ Submitting(q, n)'
    BY <2>1 DEF Engaged
  <2> QED BY <2>1, <2>2, <2>3, <2>4
<1>13. \A n \in 1..Len(opened) : Single(n)' => Single(n)
  BY <1>1, <1>5 DEF Single
<1>14. ASSUME NEW n \in 1..Len(opened'), Single(n)' PROVE AtMostOne(n)' /\ Counted(n)'
  <2>1. CASE n \in 1..Len(opened)
    <3>1. Single(n) /\ AtMostOne(n) /\ Counted(n) /\ CountsOK
      BY <1>13, <1>14, <2>1 DEF SubmitInv
    <3>2. Outcome(s, n)
      BY <2>1, <3>1, GoesOutcome
    <3>3. n \in Openings
      BY <1>3, <2>1, BoundsAssumption DEF Openings
    <3>4. \A i \in Slots : i # s => /\ Engaged(i, n)' <=> Engaged(i, n)
                                    /\ HasSent(running[i])' <=> HasSent(running[i])
      BY <1>12, <2>1
    <3>5. n \notin dialogs => n \notin dialogs'
      BY <1>3, <1>6, <2>1
    <3> QED BY <3>1, <3>2, <3>3, <3>4, <3>5, OutcomeCounts
  <2>2. CASE n \notin 1..Len(opened)
    <3>1. n > Len(opened)
      BY <1>3, <1>14, <2>2
    <3>2. ASSUME NEW i \in Slots PROVE ~ Engaged(i, n)'
      BY <1>3, <1>10, <3>1, <3>2 DEF Engaged, Submitting
    <3>3. n \in Openings /\ done[n] = 0 /\ lost[n] \in Nat
      <4>1. MaxOpens \in Nat /\ Len(opened') <= MaxOpens
        BY <1>2, <1>3, BoundsAssumption DEF Moves
      <4>2. n \in Openings
        BY <1>5, <1>14, <4>1 DEF Openings
      <4> QED BY <3>1, <4>2 DEF SubmitInv, CountsOK
    <3>4. done'[n] <= lost'[n] /\ done'[n] <= 1 + lost'[n]
      BY <1>8, <3>1, <3>3 DEF CountsOK, Openings
    <3> QED BY <3>2, <3>4 DEF AtMostOne, Counted
  <2> QED BY <2>1, <2>2
<1> QED BY <1>8, <1>9, <1>11, <1>14 DEF SubmitInv

-----------------------------------------------------------------------------
(* The user's actions. *)

\* The places of dialogs when a control is used.
LEMMA PlacesWhenUsed ==
    ASSUME Typed, NEW c \in Here.controls, Click(c)
    PROVE  /\ page' = page /\ done' = done /\ lost' = lost
           /\ Len(opened) \in Nat /\ Len(opened') \in Nat /\ Len(opened) <= Len(opened')
           /\ Len(opened') <= MaxOpens
           /\ \A m \in 1..Len(opened) : opened'[m] = opened[m]
           /\ \A n \in dialogs' : n \in dialogs \/ n = Len(opened) + 1
           /\ dialogs \subseteq 1..Len(opened)
           /\ \A n \in 1..Len(opened) : (Single(n)' => Single(n)) /\ n \in Openings
<1>1. page' = page /\ done' = done /\ lost' = lost /\ Opening(c)
  BY DEF Click
<1>2. /\ DialogsOK' /\ Len(opened') \in Nat /\ Len(opened) <= Len(opened')
      /\ \A m \in 1..Len(opened) : opened'[m] = opened[m]
  BY <1>1, OpeningDialogs
<1>3. Len(opened) \in Nat /\ dialogs \subseteq 1..Len(opened) /\ Len(opened) <= MaxOpens
  BY DEF Typed, DialogsOK
<1>4. \A n \in dialogs' : n \in dialogs \/ n = Len(opened) + 1
  BY <1>1 DEF Opening, Without
<1>5. \A n \in 1..Len(opened) : (Single(n)' => Single(n)) /\ n \in Openings
  BY <1>1, <1>2, <1>3, BoundsAssumption DEF Single, Openings
<1> QED BY <1>1, <1>2, <1>3, <1>4, <1>5 DEF DialogsOK

\* What was under way submits what it submitted.
LEMMA OthersWhenUsed ==
    ASSUME Typed, NestedInv, SubmitInv, NEW c \in Here.controls, Click(c),
           NEW i \in Slots, running'[i] = running[i]
    PROVE  /\ \A n \in 1..Len(opened) : /\ Engaged(i, n)' <=> Engaged(i, n)
                                        /\ HasSent(running[i])' <=> HasSent(running[i])
           /\ \A n : n > Len(opened) => ~ Engaged(i, n)'
           /\ running[i] # Idle => Submitter(running[i])'
           /\ \A k, f : Paused(i, k, f)' <=> Paused(i, k, f)
<1>1. /\ page' = page
      /\ Len(opened) \in Nat /\ \A m \in 1..Len(opened) : opened'[m] = opened[m]
  BY PlacesWhenUsed
<1>2. PICK q : q = running[i] /\ q = running'[i]
  OBVIOUS
<1>3. q # Idle => Submitter(q) /\ q.from \in Nat /\ q.from <= Len(opened)
  <2>1. q # Idle => Submitter(q) /\ Proper(q)
    BY <1>2 DEF SubmitInv, Typed
  <2> QED BY <2>1 DEF Proper
<1>4. \A n : Task(n)' = Task(n)
  BY <1>1 DEF Task
<1>5. ASSUME NEW n \in 1..Len(opened)
      PROVE  /\ Engaged(i, n)' <=> Engaged(i, n)
             /\ HasSent(running[i])' <=> HasSent(running[i])
  <2>1. (Submitting(q, n)' <=> Submitting(q, n)) /\ (HasSent(q)' <=> HasSent(q))
    BY <1>1, SubmittingStays
  <2>2. Engaged(i, n) <=> q # Idle /\ Submitting(q, n)
    BY <1>2 DEF Engaged
  <2>3. Engaged(i, n)' <=> q # Idle /\ Submitting(q, n)'
    BY <1>2 DEF Engaged
  <2> QED BY <1>2, <2>1, <2>2, <2>3
<1>6. ASSUME NEW n, n > Len(opened) PROVE ~ Engaged(i, n)'
  BY <1>1, <1>2, <1>3, <1>6 DEF Engaged, Submitting
<1>7. ASSUME running[i] # Idle PROVE Submitter(running[i])'
  <2>1. q.from # 0 => opened'[q.from] = opened[q.from]
    BY <1>1, <1>2, <1>3, <1>7
  <2>2. Submitter(q)'
    BY <1>1, <1>2, <1>3, <1>4, <1>7, <2>1 DEF Submitter
  <2> QED BY <1>2, <2>2
<1>8. \A k, f : Paused(i, k, f)' <=> Paused(i, k, f)
  BY <1>1, <1>2, <1>4 DEF Paused
<1> QED BY <1>5, <1>6, <1>7, <1>8

\* A control that starts nothing submits nothing, and takes away no flag that a
\* handler set for its pause.
LEMMA UseSubmits ==
    ASSUME Typed, NestedInv, SubmitInv, NEW c \in Here.controls, Click(c), c.starts = NoTask
    PROVE  SubmitInv'
<1>1. /\ page' = page /\ done' = done /\ lost' = lost
      /\ Len(opened) \in Nat /\ Len(opened') \in Nat /\ Len(opened) <= Len(opened')
      /\ Len(opened') <= MaxOpens
      /\ \A m \in 1..Len(opened) : opened'[m] = opened[m]
      /\ \A n \in dialogs' : n \in dialogs \/ n = Len(opened) + 1
      /\ dialogs \subseteq 1..Len(opened)
      /\ \A n \in 1..Len(opened) : (Single(n)' => Single(n)) /\ n \in Openings
  BY PlacesWhenUsed
<1>2. /\ running' = running /\ Opening(c) /\ HandlersOK /\ Nested
      /\ busy' = busy \ (IF c.closes THEN LocalFlags({c.within}) ELSE {})
  BY DEF Click, Typed, NestedInv
<1>3. /\ \A i \in Slots : \A n \in 1..Len(opened) :
             /\ Engaged(i, n)' <=> Engaged(i, n)
             /\ HasSent(running[i])' <=> HasSent(running[i])
      /\ \A i \in Slots : \A n : n > Len(opened) => ~ Engaged(i, n)'
      /\ \A i \in Slots : running[i] # Idle => Submitter(running[i])'
      /\ \A i \in Slots : \A k, f : Paused(i, k, f)' <=> Paused(i, k, f)
  <2>1. \A i \in Slots : running'[i] = running[i]
    BY <1>2
  <2> QED BY <2>1, OthersWhenUsed
<1>4. CountsOK /\ HeldAtPause /\ \A n \in 1..Len(opened) : Single(n) => AtMostOne(n) /\ Counted(n)
  BY DEF SubmitInv
<1>5. CountsOK'
  BY <1>1, <1>4, BoundsAssumption DEF CountsOK, Openings
<1>6. ASSUME NEW n \in 1..Len(opened'), Single(n)' PROVE AtMostOne(n)' /\ Counted(n)'
  <2>1. CASE n \in 1..Len(opened)
    <3>1. AtMostOne(n) /\ Counted(n)
      BY <1>1, <1>4, <1>6, <2>1
    <3>2. AtMostOne(n)'
      BY <1>3, <2>1, <3>1 DEF AtMostOne
    <3>3. n \notin dialogs => n \notin dialogs'
      BY <1>1, <2>1
    <3>4. Counted(n)'
      BY <1>1, <1>3, <2>1, <3>1, <3>3 DEF Counted
    <3> QED BY <3>2, <3>4
  <2>2. CASE n \notin 1..Len(opened)
    <3>1. n > Len(opened) /\ n \in Openings
      BY <1>1, <1>6, <2>2, BoundsAssumption DEF Openings
    <3>2. done'[n] <= lost'[n] /\ done'[n] <= 1 + lost'[n]
      BY <1>1, <1>4, <3>1 DEF CountsOK
    <3> QED BY <1>3, <3>1, <3>2 DEF AtMostOne, Counted
  <2> QED BY <2>1, <2>2
<1>7. HeldAtPause'
  <2>1. ASSUME NEW i \in Slots, NEW k, NEW f, Paused(i, k, f), running[i].step = k
        PROVE  f \in busy'
    <3>1. f \in busy
      BY <1>4, <2>1 DEF HeldAtPause
    <3>2. PICK q, t : q = running[i] /\ t = Task(q.task)
      OBVIOUS
    <3>3. /\ q # Idle /\ q.task # Mount /\ OwnedAtPause(page, q.task, k, f)
          /\ q.task \in Tasks(page)
      BY <1>2, <2>1, <3>2 DEF Paused, HandlersOK
    <3>4. t = Pages[page].tasks[q.task]
      BY <3>2, <3>3 DEF Task, TaskOf
    <3>5. Owns(page, q.task, f) /\ f \notin t.sets
      BY <3>3, <3>4 DEF OwnedAtPause
    <3>6. \A names : f \notin LocalFlags(names)
      BY <1>2, <3>4, <3>5, OwnedTasks DEF Here
    <3> QED BY <1>2, <3>1, <3>6
  <2>2. \A i \in Slots : running'[i] = running[i]
    BY <1>2
  <2> QED BY <1>3, <1>4, <2>1, <2>2 DEF HeldAtPause
<1>8. \A i \in Slots : running'[i] # Idle => Submitter(running[i])'
  BY <1>2, <1>3
<1> QED BY <1>5, <1>6, <1>7, <1>8 DEF SubmitInv

\* What the handler that a control starts finds of its dialog: it was open, or
\* is opened by the control.
LEMMA StartedSubmits ==
    ASSUME Typed, NestedInv, LocksHold, SubmitInv, NEW c \in Here.controls, Click(c),
           c.starts # NoTask, NEW r, Started(c, r), page' = page
    PROVE  /\ Submitter(r)'
           /\ \A n \in 1..Len(opened) : Single(n) /\ Submitting(r, n)' =>
                n \in dialogs /\ \A i \in Slots : ~ Engaged(i, n)
<1>1. /\ HandlersOK /\ DialogsOK /\ Nested /\ Len(opened) \in Nat
      /\ c.opens # NoDialog => r.from = Len(opened) + 1
      /\ r.task = c.starts /\ c \in Pages[page].controls
      /\ \/ r.from = 0
         \/ /\ ~ c.beside /\ r.from \in 1..Len(opened') /\ opened'[r.from] = DialogOf(c)
            /\ DialogOf(c) # OnPage
      /\ r.from # 0 /\ c.opens = NoDialog =>
            r.from = Front /\ Front \in dialogs /\ opened' = opened
      /\ Usable(c)
  BY DEF Typed, NestedInv, DialogsOK, Started, Here, Click
<1>2. Task(r.task)' = Task(r.task) /\ c.starts \in Tasks(page) /\ Task(r.task) = TaskOf(page, c.starts)
  BY <1>1, ControlsClear DEF Task
<1>3. ASSUME r.from # 0, CallsOf(Task(r.task)) # {}
      PROVE  c \in Submits(page, opened'[r.from])
  BY <1>1, <1>2, <1>3 DEF Submits
<1>4. Submitter(r)'
  BY <1>1, <1>2, <1>3 DEF Submitter
<1>5. ASSUME NEW n \in 1..Len(opened), Single(n), Submitting(r, n)'
      PROVE  n \in dialogs /\ \A i \in Slots : ~ Engaged(i, n)
  <2>1. r.from = n /\ r.from # 0 /\ CallsOf(Task(r.task)) # {}
    BY <1>1, <1>2, <1>5 DEF Submitting
  <2>2. c.opens = NoDialog
    BY <1>1, <1>5, <2>1
  <2>3. n \in dialogs /\ opened'[n] = opened[n]
    BY <1>1, <2>1, <2>2
  <2>4. c \in Submits(page, opened[n])
    BY <1>3, <2>1, <2>3
  <2> QED BY <1>1, <1>5, <2>3, <2>4, SubmitIsBarred
<1> QED BY <1>4, <1>5

\* Its flags, and what it leaves of those of others.
StartFlags(c) ==
    LET t == Task(c.starts)
        k == First(Task(c.starts))
    IN busy' = ((busy \ (t.drops \cup LocalFlags(Replaced(t, k))))
                  \cup t.sets \cup SetAt(page, t, k)) \ FreedAt(t, 0, k)

\* While a handler is not past its pause, no other of its kind starts.
LEMMA PauseBars ==
    ASSUME Typed, LocksHold, SubmitInv, NEW c \in Here.controls, Usable(c), c.starts # NoTask,
           NEW i \in Slots, NEW k, NEW f, Paused(i, k, f)
    PROVE  running[i].task # c.starts
<1> SUFFICES ASSUME running[i].task = c.starts PROVE FALSE
  OBVIOUS
<1>1. HandlersOK /\ HeldAtPause /\ page \in DOMAIN Pages /\ c \in Pages[page].controls
  BY DEF Typed, SubmitInv, HandlersOK, Here
<1>2. PICK q, t : q = running[i] /\ t = Task(q.task)
  OBVIOUS
<1>3. /\ q # Idle /\ q.task = c.starts /\ q.step <= k /\ k \in Steps(t)
      /\ OwnedAtPause(page, c.starts, k, f)
  BY <1>2 DEF Paused
<1>4. t = Pages[page].tasks[c.starts] /\ t = TaskOf(page, c.starts)
  BY <1>1, <1>2, <1>3, ControlsClear DEF Here, Task
<1>5. /\ f \in c.waits
      /\ \E g \in t.sets \cap t.frees :
            /\ Locked(page, g)
            /\ \A j \in 1..(k - 1) : IsAwait(t.steps[j]) => j < Unawaited(t)
  BY <1>1, <1>3, <1>4 DEF OwnedAtPause
<1>6. CASE q.step = k
  <2>1. f \in busy
    BY <1>1, <1>2, <1>6 DEF HeldAtPause
  <2> QED BY <1>5, <2>1 DEF Usable
<1>7. CASE q.step # k
  <2>1. PICK g \in t.sets \cap t.frees :
            /\ Locked(page, g)
            /\ \A j \in 1..(k - 1) : IsAwait(t.steps[j]) => j < Unawaited(t)
    BY <1>5
  <2>2. q.step \in 1..Len(t.steps) /\ IsAwait(t.steps[q.step])
    BY <1>1, <1>2, <1>3 DEF HandlersOK, Typed, Proper
  <2>3. q.step \in 1..(k - 1)
    BY <1>3, <1>7, <2>2 DEF Steps
  <2>4. q.step < Unawaited(t)
    BY <2>1, <2>2, <2>3
  <2>5. Holds(i, g)
    BY <1>2, <1>3, <2>1, <2>4 DEF Holds, Keeps
  <2>6. g \in busy
    BY <2>1, <2>5 DEF LocksHold, Exclusive
  <2>7. g \in c.waits
    BY <1>1, <1>4, <2>1, KeepersWait DEF Keeps
  <2> QED BY <2>6, <2>7 DEF Usable
<1> QED BY <1>6, <1>7

\* A handler that starts at its pause sets the flag; it clears no other's.
LEMMA StartHeldAtPause ==
    ASSUME Typed, NestedInv, LocksHold, SubmitInv, NEW c \in Here.controls, Click(c),
           c.starts # NoTask, StartFlags(c), NEW s \in Slots, running[s] = Idle,
           Started(c, running'[s]), \A i \in Slots : i # s => running'[i] = running[i]
    PROVE  HeldAtPause'
<1>1. /\ page' = page /\ Usable(c) /\ HandlersOK /\ HeldAtPause /\ page \in DOMAIN Pages
      /\ c \in Pages[page].controls
  BY DEF Click, Typed, SubmitInv, HandlersOK, Here
<1>2. PICK t, r : t = Task(c.starts) /\ r = running'[s]
  OBVIOUS
<1>3. r # Idle /\ r.task = c.starts /\ r.step = First(t)
  BY <1>2 DEF Started
<1>4. c.starts \in Tasks(page) /\ t = Here.tasks[c.starts] /\ t = Pages[page].tasks[c.starts]
  BY <1>1, <1>2, ControlsClear DEF Here
<1>5. \A n : Task(n)' = Task(n)
  BY <1>1 DEF Task
<1>6. ASSUME NEW k, NEW f, Paused(s, k, f)'
      PROVE  OwnedAtPause(page, c.starts, k, f) /\ k \in Steps(t)
  <2>1. Task(r.task)' = t
    BY <1>2, <1>3, <1>5
  <2> QED BY <1>1, <1>2, <1>3, <1>6, <2>1 DEF Paused
<1>7. ASSUME NEW i \in Slots, i # s, NEW k, NEW f, Paused(i, k, f)'
      PROVE  /\ Paused(i, k, f) /\ running'[i] = running[i]
             /\ running[i].task # c.starts
  <2>1. running'[i] = running[i]
    BY <1>7
  <2>2. Paused(i, k, f)
    BY <1>7, <2>1, OthersWhenUsed
  <2> QED BY <1>1, <2>1, <2>2, PauseBars
<1>8. ASSUME NEW i \in Slots, NEW k, NEW f, Paused(i, k, f)', running'[i].step = k
      PROVE  f \in busy'
  <2>1. CASE i = s
    <3>1. /\ OwnedAtPause(page, c.starts, k, f) /\ k \in Steps(t) /\ First(t) = k
      BY <1>2, <1>3, <1>6, <1>8, <2>1
    <3>2. f \in t.steps[k].sets /\ f \notin t.frees
      BY <1>4, <3>1 DEF OwnedAtPause
    <3>3. f \in SetAt(page, t, k)
      BY <3>1, <3>2 DEF SetAt, Steps
    <3>4. f \notin FreedAt(t, 0, k)
      BY <3>2 DEF FreedAt
    <3> QED BY <1>2, <3>1, <3>3, <3>4 DEF StartFlags
  <2>2. CASE i # s
    <3>1. Paused(i, k, f) /\ running[i].task # c.starts /\ running[i].step = k
      BY <1>7, <1>8, <2>2
    <3>2. PICK q, u : q = running[i].task /\ u = c.starts
      OBVIOUS
    <3>3. /\ f \in busy /\ q \in Tasks(page) /\ q # Mount
          /\ OwnedAtPause(page, q, k, f)
      BY <1>1, <3>1, <3>2 DEF HeldAtPause, Paused, HandlersOK
    <3>4. Owns(page, q, f) /\ u \in Tasks(page) /\ u # q
      BY <1>4, <3>1, <3>2, <3>3 DEF OwnedAtPause
    <3>5. f \notin Task(u).drops /\ f \notin Task(u).frees
      BY <1>1, <3>4, OwnedTasks
    <3>6. f \notin t.drops /\ f \notin FreedAt(t, 0, First(t))
      BY <1>2, <3>2, <3>5 DEF FreedAt
    <3>7. f \notin Here.tasks[q].sets
      BY <3>3 DEF OwnedAtPause, Here
    <3>8. \A names : f \notin LocalFlags(names)
      BY <1>1, <3>4, <3>7, OwnedTasks
    <3> QED BY <1>2, <3>3, <3>6, <3>8 DEF StartFlags
  <2> QED BY <2>1, <2>2
<1>9. ASSUME NEW i \in Slots, NEW j \in Slots, NEW k, NEW f, Paused(i, k, f)', Paused(j, k, f)',
             running'[j].task = running'[i].task
      PROVE  i = j
  <2>1. CASE i # s /\ j # s
    <3>1. Paused(i, k, f) /\ Paused(j, k, f) /\ running[j].task = running[i].task
      BY <1>7, <1>9, <2>1
    <3> QED BY <1>1, <3>1 DEF HeldAtPause
  <2>2. CASE i # s /\ j = s
    BY <1>2, <1>3, <1>7, <1>9, <2>2
  <2>3. CASE i = s /\ j # s
    BY <1>2, <1>3, <1>7, <1>9, <2>3
  <2> QED BY <2>1, <2>2, <2>3
<1> QED BY <1>8, <1>9 DEF HeldAtPause

\* A control that starts a handler: it submits a dialog that nothing submits.
LEMMA StartSubmits ==
    ASSUME Typed, NestedInv, LocksHold, SubmitInv, NEW c \in Here.controls, Click(c),
           c.starts # NoTask
    PROVE  SubmitInv'
<1>1. /\ page' = page /\ done' = done /\ lost' = lost
      /\ Len(opened) \in Nat /\ Len(opened') \in Nat /\ Len(opened) <= Len(opened')
      /\ Len(opened') <= MaxOpens
      /\ \A m \in 1..Len(opened) : opened'[m] = opened[m]
      /\ \A n \in dialogs' : n \in dialogs \/ n = Len(opened) + 1
      /\ dialogs \subseteq 1..Len(opened)
      /\ \A n \in 1..Len(opened) : (Single(n)' => Single(n)) /\ n \in Openings
  BY PlacesWhenUsed
<1>2. HandlersOK /\ Nested /\ Usable(c)
  BY DEF Click, Typed, NestedInv
<1>3. PICK s \in Slots : /\ running[s] = Idle /\ running' = [running EXCEPT ![s] = running'[s]]
                         /\ Started(c, running'[s]) /\ StartFlags(c)
  BY <1>2, StartsHandler DEF StartFlags
<1>4. \A i \in Slots : i # s => running'[i] = running[i]
  BY <1>2, <1>3 DEF HandlersOK
<1>5. PICK r : r = running'[s]
  OBVIOUS
<1>6. Started(c, r) /\ r # Idle /\ r.task = c.starts /\ r.step = First(Task(c.starts))
  BY <1>3, <1>5 DEF Started
<1>7. /\ Submitter(r)'
      /\ \A n \in 1..Len(opened) : Single(n) /\ Submitting(r, n)' =>
            n \in dialogs /\ \A i \in Slots : ~ Engaged(i, n)
  BY <1>1, <1>6, StartedSubmits
<1>8. \A n : Engaged(s, n)' <=> Submitting(r, n)'
  BY <1>5, <1>6 DEF Engaged
<1>9. ASSUME NEW i \in Slots, i # s
      PROVE  /\ \A n \in 1..Len(opened) : /\ Engaged(i, n)' <=> Engaged(i, n)
                                          /\ HasSent(running[i])' <=> HasSent(running[i])
             /\ \A n : n > Len(opened) => ~ Engaged(i, n)'
             /\ running[i] # Idle => Submitter(running[i])'
  <2>1. running'[i] = running[i]
    BY <1>4, <1>9
  <2> QED BY <2>1, OthersWhenUsed
<1>10. \A n : ~ Engaged(s, n)
  BY <1>3 DEF Engaged
<1>11. CountsOK /\ \A n \in 1..Len(opened) : Single(n) => AtMostOne(n) /\ Counted(n)
  BY DEF SubmitInv
<1>12. CountsOK'
  BY <1>1, <1>11, BoundsAssumption DEF CountsOK, Openings
<1>13. ASSUME NEW n \in 1..Len(opened'), Single(n)' PROVE AtMostOne(n)' /\ Counted(n)'
  <2>1. CASE n \in 1..Len(opened)
    <3>1. AtMostOne(n) /\ Counted(n) /\ Single(n)
      BY <1>1, <1>11, <1>13, <2>1
    <3>2. Engaged(s, n)' => n \in dialogs /\ \A i \in Slots : ~ Engaged(i, n)
      BY <1>7, <1>8, <2>1, <3>1
    <3>3. AtMostOne(n)'
      BY <1>9, <2>1, <3>1, <3>2 DEF AtMostOne
    <3>4. n \notin dialogs => n \notin dialogs'
      BY <1>1, <2>1
    <3>5. ASSUME NEW i \in Slots, Engaged(i, n), HasSent(running[i])
          PROVE  Engaged(i, n)' /\ HasSent(running[i])'
      BY <1>9, <1>10, <2>1, <3>5
    <3>6. ASSUME n \notin dialogs, \A i \in Slots : ~ Engaged(i, n)
          PROVE  n \notin dialogs' /\ \A i \in Slots : ~ Engaged(i, n)'
      BY <1>9, <2>1, <3>2, <3>4, <3>6
    <3>7. Counted(n)'
      BY <1>1, <3>1, <3>5, <3>6 DEF Counted
    <3> QED BY <3>3, <3>7
  <2>2. CASE n \notin 1..Len(opened)
    <3>1. n > Len(opened) /\ n \in Openings
      BY <1>1, <1>13, <2>2, BoundsAssumption DEF Openings
    <3>2. done'[n] <= lost'[n] /\ done'[n] <= 1 + lost'[n]
      BY <1>1, <1>11, <3>1 DEF CountsOK
    <3> QED BY <1>9, <3>1, <3>2 DEF AtMostOne, Counted
  <2> QED BY <2>1, <2>2
<1>14. HeldAtPause'
  BY <1>3, <1>4, StartHeldAtPause
<1>15. ASSUME NEW i \in Slots, running'[i] # Idle PROVE Submitter(running[i])'
  <2>1. CASE i = s
    BY <1>5, <1>7, <2>1
  <2>2. CASE i # s
    BY <1>4, <1>9, <1>15, <2>2
  <2> QED BY <2>1, <2>2
<1> QED BY <1>12, <1>13, <1>14, <1>15 DEF SubmitInv

\* A page opens with nothing submitted.
LEMMA InitSubmits == Init => SubmitInv
<1> SUFFICES ASSUME Init PROVE SubmitInv
  OBVIOUS
<1>1. /\ Len(opened) = 0 /\ dialogs = {}
      /\ done = [n \in Openings |-> 0] /\ lost = [n \in Openings |-> 0]
  BY DEF Init
<1>2. CountsOK
  BY <1>1 DEF CountsOK
<1>3. ASSUME NEW i \in Slots, running[i] # Idle
      PROVE  running[i].from = 0 /\ running[i].task = Mount
  <2>1. PICK asks : asks = asked
    OBVIOUS
  <2>2. running[i] = Begin(Mount, 1, asks, 0, 0)
    BY <1>3, <2>1 DEF Init
  <2> QED BY <2>2 DEF Begin
<1>4. \A i \in Slots : running[i] # Idle => Submitter(running[i])
  BY <1>3 DEF Submitter
<1>5. HeldAtPause
  BY <1>3 DEF HeldAtPause, Paused
<1> QED BY <1>1, <1>2, <1>4, <1>5 DEF SubmitInv

\* A step that changes nothing keeps it.
LEMMA StillSubmits ==
    ASSUME SubmitInv, UNCHANGED vars
    PROVE  SubmitInv'
<1>1. /\ page' = page /\ busy' = busy /\ running' = running /\ opened' = opened
      /\ dialogs' = dialogs /\ done' = done /\ lost' = lost
  BY DEF vars
<1>2. \A n : (Task(n)' = Task(n)) /\ (Single(n)' <=> Single(n))
  BY <1>1 DEF Task, Single
<1>3. CountsOK'
  BY <1>1 DEF SubmitInv, CountsOK
<1>4. \A i \in Slots : \A n : Engaged(i, n)' <=> Engaged(i, n)
  BY <1>1, <1>2 DEF Engaged, Submitting
<1>5. \A i \in Slots : HasSent(running[i])' <=> HasSent(running[i])
  BY <1>1, <1>2 DEF HasSent
<1>6. \A i \in Slots : Submitter(running[i])' <=> Submitter(running[i])
  BY <1>1, <1>2 DEF Submitter
<1>7. \A n : (AtMostOne(n)' <=> AtMostOne(n)) /\ (Counted(n)' <=> Counted(n))
  BY <1>1, <1>4, <1>5 DEF AtMostOne, Counted
<1>8. HeldAtPause'
  <2>1. \A i \in Slots : \A k, f : Paused(i, k, f)' <=> Paused(i, k, f)
    BY <1>1, <1>2 DEF Paused
  <2> QED BY <1>1, <2>1 DEF SubmitInv, HeldAtPause
<1> QED BY <1>1, <1>2, <1>3, <1>4, <1>6, <1>7, <1>8 DEF SubmitInv

\* Every step keeps what is submitted in the dialogs to one call.
LEMMA NextSubmits ==
    Typed /\ LocksInv /\ NestedInv /\ SubmitInv /\ [Next]_vars => SubmitInv'
<1> SUFFICES ASSUME Typed, LocksInv, NestedInv, SubmitInv, [Next]_vars
             PROVE  SubmitInv'
  OBVIOUS
<1>1. LocksHold /\ HandlersOK'
  BY NextLocks DEF LocksInv
<1>2. CASE \E c \in Here.controls : Click(c)
  BY <1>1, <1>2, UseSubmits, StartSubmits, Zenon
<1>3. CASE \E i \in Slots : Goes(i)
  BY <1>1, <1>3, GoesSubmits, Zenon
<1>4. CASE UNCHANGED vars
  BY <1>4, StillSubmits, Zenon
<1> QED BY <1>2, <1>3, <1>4, Zenon DEF Next

\* What is submitted from a dialog is done at most once more often than its
\* answer was lost, on every page and however its controls are used: the
\* handler that submits it makes one call, and all that submit it are disabled
\* until the handler has closed the dialog or has given up.
THEOREM DoneOnceForEachAnswer == Spec => []SubmittedOnce
<1>1. SubmitInv => SubmittedOnce
  BY DEF SubmitInv, Counted, Single, SubmittedOnce
<1>2. Init => Typed /\ LocksInv /\ NestedInv /\ StillModal /\ SubmitInv
  BY InitTyped, InitLocks, InitNested, InitStays, InitSubmits
<1>3. Typed /\ LocksInv /\ NestedInv /\ StillModal /\ SubmitInv /\ [Next]_vars
        => (Typed /\ LocksInv /\ NestedInv /\ StillModal /\ SubmitInv)'
  BY NextTyped, NextNested, NextStays, NextSubmits
<1> QED BY <1>1, <1>2, <1>3, PTL DEF Spec
=============================================================================
