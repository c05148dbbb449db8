-------------------------------- MODULE Screens --------------------------------
(***************************************************************************)
(* One page of the web client and the server it talks to.  The user uses   *)
(* controls; each may start a handler, and several handlers may be         *)
(* suspended at an await at a time.  Their calls are served, answered in   *)
(* any order, refused, or served without an answer (the client gives a     *)
(* call up after 30 seconds).  The server is the number of changes the     *)
(* page made on it; a read shows the number it was served at.  Pages gives *)
(* the pages, described with ScreenParts; Init chooses the one that is     *)
(* open.                                                                   *)
(***************************************************************************)
EXTENDS ScreenParts, Naturals, FiniteSets

CONSTANTS
    Pages,        \* [page names -> descriptions]
    Slots,        \* places for handlers suspended at a time: 1..n
    MaxClicks,    \* bound on the user's actions
    MaxOpens      \* bound on the dialogs opened

\* Where the code does not keep a property: <<page, flag or dialog>>.
CONSTANTS Unlocked, Repeatable

\* The dialogs that stay in front while they are submitted: <<page, dialog>>.
CONSTANT Modal

ASSUME BoundsAssumption == MaxClicks \in Nat /\ MaxOpens \in Nat
ASSUME SlotsAssumption  == Slots \subseteq Nat /\ 1 \in Slots

VARIABLES
    page,       \* the page that is open
    busy,       \* the flags that are set
    running,    \* [slot -> the handler suspended at an await, or Idle]
    opened,     \* the dialogs opened so far, in order: their names
    dialogs,    \* those still open: places in opened, the last one in front
    asked,      \* [load -> its question]
    shown,      \* [load -> the question and the server version it shows]
    blank,      \* loads that show an error, or whose answer was taken away
    kept,       \* loads whose last read failed and left what they showed
    due,        \* [load -> version of the last change it is read again after]
    raced,      \* loads asked, or read, while a handler under way was to show them
    version,    \* changes made on the server
    done,       \* [place of a dialog -> changes made from it]
    lost,       \* [place of a dialog -> changes made whose answer was lost]
    unmounted,  \* slots whose handler's dialog was replaced by a skeleton since
    clicks      \* the user's actions so far, closing dialogs aside

vars == <<page, busy, running, opened, dialogs, asked, shown, blank, kept, due,
          raced, version, done, lost, unmounted, clicks>>

-----------------------------------------------------------------------------
Here     == Pages[page]
Loads    == DOMAIN Here.loads
Openings == 1..MaxOpens

Idle == [task |-> NoTask]

\* The mount effects of a page are a handler it starts itself.
Mount == "mount"
Tasks(p) == DOMAIN Pages[p].tasks \cup {Mount}
TaskOf(p, name) == IF name = Mount
                   THEN Reads(Pages[p].initially, Pages[p].mounts)
                   ELSE Pages[p].tasks[name]
Task(name) == TaskOf(page, name)

IsAwait(step) == step.op \in {"call", "try", "get", "pause", "await", "then"}

\* The first await after step k, the length + 1 if there is none.  A read
\* that only follows a successful load is passed over when the load failed.
NextAwait(t, k, fine) ==
    LET Stops(n) == IsAwait(t.steps[n]) /\ (fine \/ t.steps[n].op # "then")
    IN CHOOSE n \in (k + 1)..(Len(t.steps) + 1) :
           /\ n <= Len(t.steps) => Stops(n)
           /\ \A m \in (k + 1)..(n - 1) : ~ Stops(m)

\* What the code names in steps of this kind after step k, before step n.
Named(t, kind, k, n) ==
    UNION {t.steps[m].on : m \in {j \in (k + 1)..(n - 1) : t.steps[j].op = kind}}

\* The loads a handler reads at step k, and shows anew at a step after k.
ReadAt(t, k) == IF k \in 1..Len(t.steps) /\ t.steps[k].op \in {"await", "then"}
                THEN t.steps[k].on ELSE {}
ReadAfter(t, k) ==
    UNION {t.steps[m].on : m \in {j \in (k + 1)..Len(t.steps) :
                                    t.steps[j].op \in {"await", "then", "put"}}}

\* The loads a handler shows from its step k on.
Shows(t, k) == ReadAt(t, k) \cup ReadAfter(t, k)

Sets(p, ls)   == UNION {Pages[p].loads[l].sets : l \in ls}
Clears(p, ls) == UNION {Pages[p].loads[l].clears : l \in ls}

\* The flags set when a handler comes to step k.
SetAt(p, t, k) ==
    Sets(p, ReadAt(t, k)) \cup (IF k <= Len(t.steps) THEN t.steps[k].sets ELSE {})

\* The flags of a page.
StepsOf(t) == {t.steps[k] : k \in 1..Len(t.steps)}
Flags == [p \in DOMAIN Pages |->
            Sets(p, DOMAIN Pages[p].loads)
            \cup UNION {TaskOf(p, n).sets \cup UNION {s.sets : s \in StepsOf(TaskOf(p, n))} :
                          n \in Tasks(p)}]

\* The first step a handler does not wait for: past its end, or for a detached
\* one its first timer, or its last await.
Unawaited(t) ==
    LET Awaits == {k \in 1..Len(t.steps) : IsAwait(t.steps[k])}
        Timers == {k \in Awaits : t.steps[k].op = "pause"}
    IN IF ~ t.detached THEN Len(t.steps) + 1
       ELSE IF Timers # {} THEN CHOOSE k \in Timers : \A m \in Timers : k <= m
       ELSE CHOOSE k \in Awaits : \A m \in Awaits : m <= k

\* Mutant: the flags are cleared when the handler first waits.
FreedAt_AtOnce(t, j, k) == IF j = 0 THEN t.frees ELSE {}

\* Its finally clears its flags as it goes from step j to step k.
FreedAt(t, j, k) == IF j < Unawaited(t) /\ Unawaited(t) <= k THEN t.frees ELSE {}

-----------------------------------------------------------------------------
(* Flags as locks. *)

\* A handler that sets a flag and clears it at its end keeps it meanwhile.
Keeps(t, f) == f \in t.sets \cap t.frees

Holds(i, f) ==
    /\ running[i] # Idle
    /\ Keeps(Task(running[i].task), f)
    /\ running[i].step < Unawaited(Task(running[i].task))

\* Nothing but the end of its keepers clears the flag, and every control that
\* starts one of them is disabled while it is set.
Locked(p, f) ==
    /\ \A l \in DOMAIN Pages[p].loads : f \notin Pages[p].loads[l].clears
    /\ \A n \in DOMAIN Pages[p].tasks :
         LET t == Pages[p].tasks[n]
         IN /\ f \notin t.drops
            /\ f \in t.frees => f \in t.sets
            /\ f \in t.sets => ~ t.local
            /\ \A k \in 1..Len(t.steps) : t.steps[k].op = "free" => f \notin t.steps[k].on
    /\ \A c \in Pages[p].controls :
         c.starts # NoTask /\ Keeps(Pages[p].tasks[c.starts], f) => f \in c.waits

-----------------------------------------------------------------------------
(* What the descriptions of the pages promise. *)

Steps(t) == 1..Len(t.steps)
First(t) == NextAwait(t, 0, TRUE)

ASSUME PagesAssumption ==
    \A p \in DOMAIN Pages :
        LET loads == DOMAIN Pages[p].loads
            tasks == DOMAIN Pages[p].tasks
        IN /\ Pages[p].mounts \subseteq loads
           /\ {NoTask, Mount} \cap tasks = {}
           /\ \A l \in loads : Pages[p].loads[l].also \subseteq loads
           /\ \A n \in tasks :
                LET t == Pages[p].tasks[n]
                IN /\ Len(t.steps) \in Nat
                   /\ \E k \in Steps(t) : IsAwait(t.steps[k])
                   /\ \A k \in Steps(t) : t.steps[k].op \in {"await", "then", "put"}
                                         => t.steps[k].on \subseteq loads
           /\ \A c \in Pages[p].controls :
                /\ c.starts \in tasks \cup {NoTask}
                /\ c.blanks \subseteq c.asks /\ c.asks \subseteq loads
                /\ c.copies \in loads \cup {NoList}
                /\ c.closes => c.opens = NoDialog

ASSUME UnlockedAssumption ==
    \A p \in DOMAIN Pages : \A n \in DOMAIN Pages[p].tasks :
        \A f \in Pages[p].tasks[n].sets \cap Pages[p].tasks[n].frees :
            <<p, f>> \in Unlocked \/ Locked(p, f)

\* The controls that start handlers whose flags go with these dialogs.
LocalIn(p, names) == {c \in Pages[p].controls : /\ c.within \in names
                                                /\ c.starts # NoTask
                                                /\ Pages[p].tasks[c.starts].local}

\* A handler suspended at step k is bound to clear the flag: in its finally,
\* after the read, or when its timer fires.  The answer to a later read may be
\* dropped by an active flag, and then clears nothing.
Clearing(p, t, k, f) ==
    \/ f \in t.frees /\ k < Unawaited(t)
    \/ \E l \in ReadAt(t, k) : /\ f \in Pages[p].loads[l].clears
                               /\ Pages[p].loads[l].guarded => k = First(t)
    \/ /\ k \in Steps(t) /\ t.steps[k].op = "pause"
       /\ f \in Named(t, "free", k, NextAwait(t, k, TRUE))

\* A handler that sets a flag is bound to clear it.  What dialogs lose when
\* they close is set by handlers started in them, and neither a catch nor a
\* control that starts another handler closes one; a new question to a load
\* with an active flag is asked at once, so that its answer clears what the
\* dropped ones do not.
ASSUME ClearedAssumption ==
    \A p \in DOMAIN Pages :
        /\ \A n \in Tasks(p) :
             LET t == TaskOf(p, n)
             IN /\ \A f \in t.sets \cup SetAt(p, t, First(t)) :
                     f \in FreedAt(t, 0, First(t)) \/ Clearing(p, t, First(t), f)
                /\ \A j \in Steps(t), fine \in BOOLEAN : IsAwait(t.steps[j]) =>
                     \A f \in SetAt(p, t, NextAwait(t, j, fine)) :
                         Clearing(p, t, NextAwait(t, j, fine), f)
                /\ t.local => t.frees \subseteq t.sets \ UNION {SetAt(p, t, k) : k \in Steps(t)}
                /\ LocalIn(p, t.quits) = {}
        /\ \A c \in Pages[p].controls :
             /\ c \in LocalIn(p, {c.within})
                => c.opens = NoDialog /\ ~ c.beside /\ c.within # OnPage
             /\ c.closes /\ c.starts # NoTask => LocalIn(p, {c.within}) = {}
             /\ \A l \in c.asks : Pages[p].loads[l].guarded =>
                  /\ c.starts # NoTask
                  /\ l \in ReadAt(TaskOf(p, c.starts), First(TaskOf(p, c.starts)))

\* From step k on nothing but a failed read, which blanks the load, keeps the
\* handler from reading it.
Sure(t, k, l) ==
    \A m \in Steps(t) : m >= k /\ t.steps[m].op \in {"call", "get"} => l \notin ReadAfter(t, m)

\* Two handlers that have the flag to themselves: one whose answer is put in
\* the other list too, and one that changes what that list shows.
Alternate(p, f, l, other) ==
    /\ Locked(p, f)
    /\ \A n \in Tasks(p) :
         LET t == TaskOf(p, n)
         IN \A k \in Steps(t) :
              \/ l \in ReadAt(t, k)
              \/ t.steps[k].op = "call" /\ other \in ReadAfter(t, k)
              => Keeps(t, f) /\ k < Unawaited(t)

\* What is read after a change is read for sure, and what is put in a list is
\* the answer to a call made before.  A control that changes the question of a
\* load takes the answer away, or has another to show, or asks at once.
ASSUME ShownAssumption ==
    \A p \in DOMAIN Pages :
        LET guarded == {l \in DOMAIN Pages[p].loads : Pages[p].loads[l].guarded}
        IN /\ \A n \in Tasks(p) :
                LET t == TaskOf(p, n)
                IN /\ \A j, m \in Steps(t) :
                        /\ j < m /\ t.steps[j].op = "call"
                        /\ t.steps[m].op \in {"call", "get"}
                        => ReadAfter(t, m) = {}
                   /\ \A m \in Steps(t) : t.steps[m].op = "put" =>
                        /\ t.steps[m].on \cap guarded = {}
                        /\ \E j \in 1..(m - 1) : t.steps[j].op = "call"
           /\ \A l \in DOMAIN Pages[p].loads : \A other \in Pages[p].loads[l].also :
                /\ other \notin guarded
                /\ \A c \in Pages[p].controls : other \notin c.asks
                /\ \E f \in Flags[p] : Alternate(p, f, l, other)
           /\ \A c \in Pages[p].controls : \A l \in c.asks :
                \/ l \in c.blanks
                \/ c.copies # NoList
                \/ /\ c.starts # NoTask
                   /\ l \in Shows(TaskOf(p, c.starts), 0)
                   /\ Sure(TaskOf(p, c.starts), 0, l)

-----------------------------------------------------------------------------
(* What the dialogs and forms of the pages promise. *)

\* The dialog that a handler started by the control belongs to.
DialogOf(c) == IF c.opens = NoDialog THEN c.within ELSE c.opens

\* The dialogs that a handler closes.
Closed(t) ==
    (t.quits \cup UNION {t.steps[k].on : k \in {j \in Steps(t) : t.steps[j].op = "close"}})
        \ {NoDialog}

\* The dialogs that open by themselves, with an answer or as a handler goes on.
RaisedBy(t) == UNION {t.steps[k].on : k \in {j \in Steps(t) : t.steps[j].op = "raise"}}
Raised(p) == UNION ({Pages[p].loads[l].raises : l \in DOMAIN Pages[p].loads}
                      \cup {RaisedBy(TaskOf(p, n)) : n \in Tasks(p)})

\* The controls of dialogs that open others.
Inner(p) == {c \in Pages[p].controls : c.opens # NoDialog /\ c.within # OnPage}

\* A dialog opens from the page, when none is open; or by itself, unless it is
\* open already; or in a dialog that only the user closes.  A handler closes
\* the dialog it belongs to, if any.
ASSUME DialogAssumption ==
    \A p \in DOMAIN Pages :
        /\ {OnPage, NoDialog} \cap Raised(p) = {}
        /\ \A c \in Pages[p].controls :
             /\ c.opens # OnPage
             /\ c.closes => c.starts = NoTask /\ ~ c.beside
             /\ c.opens # NoDialog => ~ c.beside
             /\ c.starts # NoTask => \A d \in Closed(TaskOf(p, c.starts)) :
                                       DialogOf(c) = d /\ ~ c.beside
        /\ \A c \in Inner(p) :
             /\ c.opens \notin Raised(p)
             /\ \A b \in Pages[p].controls : b.opens = c.opens => b.within = c.within
             /\ \A n \in Tasks(p) : c.within \notin Closed(TaskOf(p, n))

CallsOf(t) == {k \in Steps(t) : t.steps[k].op = "call"}

\* The awaits at which a handler has still to close the dialog.
ToClose(t, d) ==
    {k \in Steps(t) : /\ IsAwait(t.steps[k])
                      /\ \E m \in Steps(t) :
                           /\ k <= m /\ IsAwait(t.steps[m])
                           /\ d \in Named(t, "close", m, NextAwait(t, m, TRUE))}

\* It makes one call, and nothing fails between the answer and the closing.
CallsOnce(t, d) ==
    \E call \in ToClose(t, d) :
        /\ CallsOf(t) = {call}
        /\ \A k \in ToClose(t, d) :
             t.steps[k].op \in (IF k > call THEN {"try", "pause"}
                                ELSE {"call", "try", "get", "pause"})

\* Only this handler sets the flag, and no load clears it.
Owns(p, n, f) ==
    /\ \A l \in DOMAIN Pages[p].loads : f \notin Pages[p].loads[l].clears
    /\ \A u \in DOMAIN Pages[p].tasks :
         LET t == Pages[p].tasks[u]
         IN /\ f \notin t.drops
            /\ u # n => /\ f \notin t.sets \cup t.frees
                        /\ \A k \in Steps(t) : t.steps[k].op = "free" => f \notin t.steps[k].on

\* The handler has a locked flag to itself until it pauses, and this one from
\* then until it goes on.
OwnedAtPause(p, n, k, f) ==
    LET t == Pages[p].tasks[n]
    IN /\ Owns(p, n, f) /\ f \notin t.sets \cup t.frees
       /\ t.steps[k].op = "pause" /\ f \in t.steps[k].sets
       /\ \A m \in Steps(t) : t.steps[m].op = "free" /\ f \in t.steps[m].on
                              => k < m /\ m < NextAwait(t, k, TRUE)
       /\ \A c \in Pages[p].controls : c.starts = n => f \in c.waits
       /\ \E g \in t.sets \cap t.frees :
            /\ Locked(p, g)
            /\ \A j \in 1..(k - 1) : IsAwait(t.steps[j]) => j < Unawaited(t)

\* While the handler, started in the dialog, is at step k the flag is set.
Bars(p, d, n, k, f) ==
    LET t == Pages[p].tasks[n]
    IN \/ Locked(p, f) /\ Keeps(t, f) /\ k < Unawaited(t)
       \/ OwnedAtPause(p, n, k, f)

\* The controls of a dialog that start handlers with a call: they submit it.
Submits(p, d) == {c \in Pages[p].controls : /\ c.starts # NoTask /\ ~ c.beside
                                            /\ DialogOf(c) = d
                                            /\ CallsOf(TaskOf(p, c.starts)) # {}}

\* What is submitted in a dialog is one call, and until the dialog is closed
\* all that submit it are disabled.
ASSUME SubmitAssumption ==
    \A p \in DOMAIN Pages : \A d \in {DialogOf(c) : c \in Pages[p].controls} \ {OnPage} :
        \A c \in Submits(p, d) : <<p, d>> \notin Repeatable =>
            LET t == TaskOf(p, c.starts)
            IN /\ c.opens = NoDialog
               /\ CallsOnce(t, d)
               /\ \A k \in ToClose(t, d) : \A b \in Submits(p, d) :
                    \E f \in b.waits : Bars(p, d, c.starts, k, f)

-----------------------------------------------------------------------------
(* What cannot close the dialog of another record. *)

Closers(p, d) == {n \in Tasks(p) : d \in Closed(TaskOf(p, n))}

\* A flag that every handler which closes the dialog keeps until it has, and
\* that disables the ways to put the dialog aside.
StaysUnder(p, d, f) ==
    /\ Locked(p, f)
    /\ \A n \in Closers(p, d) :
         LET t == TaskOf(p, n)
         IN /\ Keeps(t, f) /\ d \notin t.quits
            /\ \A k \in ToClose(t, d) : k < Unawaited(t)
            /\ \A k \in Steps(t), fine \in BOOLEAN :
                 IsAwait(t.steps[k]) /\ d \in Named(t, "close", k, NextAwait(t, k, fine))
                 => NextAwait(t, k, fine) \notin ToClose(t, d)
    /\ \A c \in Pages[p].controls :
         /\ c.closes /\ c.within = d => f \in c.waits
         /\ c.starts \in Closers(p, d) => /\ c.opens = NoDialog /\ ~ c.beside
                                          /\ c.within = d

ASSUME ModalAssumption ==
    \A m \in Modal : m[1] \in DOMAIN Pages =>
        \E f \in Flags[m[1]] : StaysUnder(m[1], m[2], f)

-----------------------------------------------------------------------------
(* Dialogs. *)

Front == IF dialogs = {} THEN 0 ELSE CHOOSE n \in dialogs : \A m \in dialogs : m <= n

InFront(c) == \/ c.beside
              \/ c.within = (IF Front = 0 THEN OnPage ELSE opened[Front])

\* Mutant: what closes a dialog closes the one in front.
Without_Front(names) ==
    IF names = {} THEN dialogs ELSE dialogs \ {Front}

Without(names) == {n \in dialogs : opened[n] \notin names}

\* The flags that are state of the dialogs with these names.
LocalFlags(names) ==
    UNION {Here.tasks[c.starts].sets : c \in LocalIn(page, names)}

\* A handler that comes to step k has a skeleton take the place of the page.
Hides(t, k) == Here.skeleton \cap SetAt(page, t, k) # {}

\* The dialogs whose state that loses: all of them.
Replaced(t, k) == IF Hides(t, k) THEN {c.within : c \in Here.controls} ELSE {}

\* The handlers that run meanwhile set the state of dialogs that are no more.
Unmounts(t, k) ==
    unmounted' = IF Hides(t, k)
                 THEN {i \in Slots : running[i] # Idle /\ Task(running[i].task).local}
                 ELSE unmounted

\* A handler whose dialog has gone, for ever or for a while, has no state left
\* to clear.
Freed(i, flags) ==
    LET r == running[i]
    IN IF Task(r.task).local /\ (r.from \notin dialogs \/ i \in unmounted) THEN {} ELSE flags

-----------------------------------------------------------------------------
(* Failed reads. *)

\* These loads brought nothing; in those that were put the answer to a call is.
Fails(missing, put) ==
    LET keeping == {l \in missing : Here.loads[l].keeps}
    IN /\ blank' = (blank \cup (missing \ keeping)) \ put
       /\ kept' = (kept \cup (keeping \ blank)) \ put

\* These loads show an answer.
Succeeds(ls) == blank' = blank \ ls /\ kept' = kept \ ls

-----------------------------------------------------------------------------
\* got: the version that the last call the handler has an answer of made.
Begin(name, k, asks, from, got) ==
    [task |-> name, step |-> k, asks |-> asks, from |-> from,
     served |-> FALSE, at |-> 0, got |-> got]

Init ==
    /\ page \in DOMAIN Pages
    /\ busy = Pages[page].initially
    /\ asked = [l \in Loads |-> 0]
    /\ running = [i \in Slots |-> IF i = 1 /\ Pages[page].mounts # {}
                                  THEN Begin(Mount, 1, asked, 0, 0) ELSE Idle]
    /\ opened = <<>>
    /\ dialogs = {}
    /\ shown = [l \in Loads |-> [question |-> 0, at |-> 0]]
    /\ blank = {}
    /\ kept = {}
    /\ due = [l \in Loads |-> 0]
    /\ raced = {}
    /\ version = 0
    /\ done = [n \in Openings |-> 0]
    /\ lost = [n \in Openings |-> 0]
    /\ unmounted = {}
    /\ clicks = 0

-----------------------------------------------------------------------------
\* Mutant: no control is disabled.
Usable_Enabled(c) == InFront(c)

\* A control that is disabled, or behind a dialog, cannot be used.
Usable(c) == InFront(c) /\ c.waits \cap busy = {}

Opening(c) ==
    IF c.closes THEN dialogs' = Without({c.within}) /\ UNCHANGED opened
    ELSE IF c.opens = NoDialog THEN UNCHANGED <<dialogs, opened>>
    ELSE /\ Len(opened) < MaxOpens
         /\ opened' = Append(opened, c.opens)
         /\ dialogs' = dialogs \cup {Len(opened) + 1}

\* A control changes the question of loads, and may take the answer to the
\* last one away, or show in its place what a list has.
Asking(c) ==
    /\ asked' = [l \in Loads |-> asked[l] + (IF l \in c.asks THEN 1 ELSE 0)]
    /\ blank' = c.blanks \cup (IF c.copies = NoList THEN blank ELSE blank \ c.asks)
    /\ kept' = (IF c.copies = NoList THEN kept ELSE kept \ c.asks) \ c.blanks
    /\ shown' = IF c.copies = NoList THEN shown
                ELSE [l \in Loads |-> IF l \in c.asks
                        THEN [question |-> asked'[l], at |-> shown[c.copies].at]
                        ELSE shown[l]]
    /\ due' = IF c.copies = NoList THEN due
              ELSE [l \in Loads |-> IF l \in c.asks THEN 0 ELSE due[l]]

\* What a control asks for, or starts to read, may be answered out of order.
Racing(c) ==
    LET touched == c.asks \cup (IF c.starts = NoTask THEN {}
                                ELSE Shows(Task(c.starts), 0))
        awaited == UNION {Shows(Task(running[i].task), running[i].step) :
                            i \in {j \in Slots : running[j] # Idle}}
    IN raced' = raced \cup (touched \cap awaited)

\* The slot a handler takes: the first that is free.
Free(i) == /\ running[i] = Idle
           /\ \A j \in Slots : j < i => running[j] # Idle

\* Mutant: the handler sees the questions of before the control was used.
Starting_StaleClosure(c) ==
    LET t == Task(c.starts)
        k == NextAwait(t, 0, TRUE)
        from == IF c.opens = NoDialog THEN Front ELSE Len(opened) + 1
    IN \E i \in Slots :
         /\ Free(i)
         /\ running' = [running EXCEPT ![i] =
                            Begin(c.starts, k, asked, IF c.beside THEN 0 ELSE from, 0)]
         /\ busy' = ((busy \ (t.drops \cup LocalFlags(Replaced(t, k))))
                       \cup t.sets \cup SetAt(page, t, k)) \ FreedAt(t, 0, k)
         /\ unmounted' =
              (IF Hides(t, k)
               THEN {j \in Slots : running[j] # Idle /\ Task(running[j].task).local}
               ELSE unmounted) \ {i}

\* A handler runs to its first await.  It sees the questions of the moment it
\* starts in, at all of its reads; it belongs to the dialog it was started
\* from, or opens.
Starting(c) ==
    LET t == Task(c.starts)
        k == NextAwait(t, 0, TRUE)
        from == IF c.opens = NoDialog THEN Front ELSE Len(opened) + 1
    IN \E i \in Slots :
         /\ Free(i)
         /\ running' = [running EXCEPT ![i] =
                            Begin(c.starts, k, asked', IF c.beside THEN 0 ELSE from, 0)]
         /\ busy' = ((busy \ (t.drops \cup LocalFlags(Replaced(t, k))))
                       \cup t.sets \cup SetAt(page, t, k)) \ FreedAt(t, 0, k)
         /\ unmounted' =
              (IF Hides(t, k)
               THEN {j \in Slots : running[j] # Idle /\ Task(running[j].task).local}
               ELSE unmounted) \ {i}

Click(c) ==
    /\ Usable(c)
    /\ ~ c.closes => clicks < MaxClicks
    /\ clicks' = clicks + (IF c.closes THEN 0 ELSE 1)
    /\ Opening(c)
    /\ Asking(c)
    /\ Racing(c)
    /\ IF c.starts # NoTask THEN Starting(c)
       ELSE /\ busy' = busy \ (IF c.closes THEN LocalFlags({c.within}) ELSE {})
            /\ UNCHANGED <<running, unmounted>>
    /\ UNCHANGED <<page, version, done, lost>>

-----------------------------------------------------------------------------
\* The step a handler is suspended at.
At(i) == Task(running[i].task).steps[running[i].step]

Suspended(i, ops) == running[i] # Idle /\ At(i).op \in ops

\* A handler whose call or read has been served, at a version of the server.
Served(r, v) ==
    [task |-> r.task, step |-> r.step, asks |-> r.asks, from |-> r.from,
     served |-> TRUE, at |-> v, got |-> r.got]

\* Mutant: the page counts a change that the server has not made.
Serve_Optimistic(i) ==
    /\ Suspended(i, {"call", "try", "await", "then"})
    /\ ~ running[i].served
    /\ running' = [running EXCEPT ![i] =
                     Served(@, version + (IF At(i).op = "call" THEN 1 ELSE 0))]
    /\ UNCHANGED <<page, busy, opened, dialogs, asked, shown, blank, kept, due,
                   raced, version, done, lost, unmounted, clicks>>

\* The server serves the call or the read in flight.
Serve(i) ==
    /\ Suspended(i, {"call", "try", "await", "then"})
    /\ ~ running[i].served
    /\ version' = version + (IF At(i).op \in {"call", "try"} THEN 1 ELSE 0)
    /\ running' = [running EXCEPT ![i] = Served(@, version')]
    /\ done' = IF At(i).op = "call" /\ running[i].from \in Openings
               THEN [done EXCEPT ![running[i].from] = @ + 1] ELSE done
    /\ UNCHANGED <<page, busy, opened, dialogs, asked, shown, blank, kept, due,
                   raced, lost, unmounted, clicks>>

\* What the handler knows of its calls when it goes on.
Got(i) == IF At(i).op = "call" THEN running[i].at ELSE running[i].got

\* What it shows, between this await and the next, of the answer to its call.
Puts(i, fine) ==
    LET t == Task(running[i].task)
    IN Named(t, "put", running[i].step, NextAwait(t, running[i].step, fine))

\* The handler goes on, after what it awaited went fine or not, to its next
\* await or to its end; the flags in cleared are cleared by what it awaited,
\* and the loads in answers show its answer.
Continue(i, cleared, answers, fine) ==
    LET r == running[i]
        t == Task(r.task)
        k == NextAwait(t, r.step, fine)
        closed == Named(t, "close", r.step, k)
        answered == IF fine THEN ReadAt(t, r.step) ELSE {}
        raised == {d \in Named(t, "raise", r.step, k)
                            \cup UNION {Here.loads[l].raises : l \in answered} :
                     /\ Len(opened) < MaxOpens
                     /\ \A n \in dialogs : opened[n] # d}
    IN /\ \/ raised = {} /\ dialogs' = Without(closed) /\ UNCHANGED opened
          \/ \E d \in raised : /\ opened' = Append(opened, d)
                               /\ dialogs' = Without(closed) \cup {Len(opened')}
       /\ busy' = ((busy \ (cleared \cup LocalFlags(closed \cup Replaced(t, k))
                                    \cup Named(t, "free", r.step, k)))
                      \cup SetAt(page, t, k)) \ Freed(i, FreedAt(t, r.step, k))
       /\ Unmounts(t, k)
       /\ running' = [running EXCEPT ![i] =
                        IF k > Len(t.steps) THEN Idle
                        ELSE Begin(r.task, k, r.asks, r.from, Got(i))]
       /\ shown' = [l \in Loads |->
                      CASE l \in Puts(i, fine) -> [question |-> r.asks[l], at |-> Got(i)]
                        [] l \in answers \ Puts(i, fine) ->
                               [question |-> r.asks[l], at |-> r.at]
                        [] OTHER -> shown[l]]

\* Mutant: there is no finally.
Abort_NoFinally(i, cleared) ==
    /\ dialogs' = Without(Task(running[i].task).quits) /\ UNCHANGED opened
    /\ busy' = busy \ cleared
    /\ running' = [running EXCEPT ![i] = Idle]
    /\ UNCHANGED <<shown, unmounted>>

\* The handler's catch and finally: its flags are cleared.
Abort(i, cleared) ==
    LET r == running[i]
        t == Task(r.task)
    IN /\ dialogs' = Without(t.quits) /\ UNCHANGED opened
       /\ busy' = (busy \ cleared) \ Freed(i, FreedAt(t, r.step, Len(t.steps) + 1))
       /\ running' = [running EXCEPT ![i] = Idle]
       /\ UNCHANGED <<shown, unmounted>>

\* The answer to a call, or to a read that only the handler uses.  The loads
\* it reads next, or puts the answer in, are due to show what it changed.
CallAnswered(i) ==
    LET r == running[i]
        t == Task(r.task)
    IN /\ Suspended(i, {"call", "try", "get"})
       /\ At(i).op # "get" => r.served
       /\ due' = [l \in Loads |-> IF /\ At(i).op = "call"
                                     /\ l \in ReadAfter(t, r.step)
                                     /\ r.at > due[l]
                                  THEN r.at ELSE due[l]]
       /\ Succeeds(Puts(i, TRUE))
       /\ Continue(i, {}, {}, TRUE)
       /\ UNCHANGED <<page, asked, raced, version, done, lost, clicks>>

Recovers(i) == IF At(i).op = "try" THEN Continue(i, {}, {}, TRUE) ELSE Abort(i, {})

\* The call is refused, or it fails before it reaches the server.
CallRefused(i) ==
    /\ Suspended(i, {"call", "try", "get"})
    /\ ~ running[i].served
    /\ Recovers(i)
    /\ UNCHANGED <<page, asked, blank, kept, due, raced, version, done, lost,
                   clicks>>

\* The call is served, and its answer does not come within the time limit.
CallLost(i) ==
    /\ Suspended(i, {"call", "try"})
    /\ running[i].served
    /\ lost' = IF At(i).op = "call" /\ running[i].from \in Openings
               THEN [lost EXCEPT ![running[i].from] = @ + 1] ELSE lost
    /\ Recovers(i)
    /\ UNCHANGED <<page, asked, blank, kept, due, raced, version, done, clicks>>

\* The timer a handler set fires.
TimerFires(i) ==
    /\ Suspended(i, {"pause"})
    /\ Continue(i, {}, {}, TRUE)
    /\ UNCHANGED <<page, asked, blank, kept, due, raced, version, done, lost,
                   clicks>>

\* The loads read that show their answer, or their error: not those that drop
\* what answers an earlier question.
Showing(i) == {l \in At(i).on : \/ ~ Here.loads[l].guarded
                                \/ running[i].asks[l] = asked[l]}

\* Loads that show their answer show it in what the page derives from it too.
Answers(i) == Showing(i) \cup UNION {Here.loads[l].also : l \in Showing(i)}

ReadAnswered(i) ==
    /\ Suspended(i, {"await", "then"})
    /\ running[i].served
    /\ Succeeds(Answers(i) \cup Puts(i, TRUE))
    /\ Continue(i, Clears(page, Showing(i)), Answers(i), TRUE)
    /\ UNCHANGED <<page, asked, due, raced, version, done, lost, clicks>>

\* Mutant: what shows its error in the place of the answer only logs it.
ReadFailed_Silent(i) ==
    LET goesOn == \A l \in At(i).on : Here.loads[l].catches
    IN /\ Suspended(i, {"await", "then"})
       /\ ~ running[i].served
       /\ kept' = kept \cup {l \in Showing(i) : Here.loads[l].keeps}
       /\ IF goesOn THEN Continue(i, Clears(page, Showing(i)), {}, FALSE)
                    ELSE Abort(i, Clears(page, Showing(i)))
       /\ UNCHANGED <<page, asked, blank, due, raced, version, done, lost, clicks>>

\* A read fails.  The handler goes on when the load catches its own errors;
\* what it would have read next is not read.
ReadFailed(i) ==
    LET t == Task(running[i].task)
        step == running[i].step
        unread == Named(t, "then", step, NextAwait(t, step, FALSE))
        goesOn == \A l \in At(i).on : Here.loads[l].catches
    IN /\ Suspended(i, {"await", "then"})
       /\ ~ running[i].served
       /\ IF goesOn THEN /\ Fails(Showing(i) \cup unread, Puts(i, FALSE))
                         /\ Continue(i, Clears(page, Showing(i)), {}, FALSE)
                    ELSE /\ Fails(Showing(i) \cup ReadAfter(t, step), {})
                         /\ Abort(i, Clears(page, Showing(i)))
       /\ UNCHANGED <<page, asked, due, raced, version, done, lost, clicks>>

Goes(i) == \/ Serve(i)
           \/ CallAnswered(i)
           \/ CallRefused(i)
           \/ CallLost(i)
           \/ TimerFires(i)
           \/ ReadAnswered(i)
           \/ ReadFailed(i)

Next == \/ \E c \in Here.controls : Click(c)
        \/ \E i \in Slots : Goes(i)

Spec == Init /\ [][Next]_vars

-----------------------------------------------------------------------------
(* The types of the variables. *)
\* Running handlers are handlers of the page at awaits of theirs, open dialogs
\* were opened, no list shows or owes more than the server has, and rows are kept
\* after a failed read only where the page does so.
TypeOK ==
    /\ page \in DOMAIN Pages
    /\ busy \subseteq Flags[page]
    /\ \A i \in Slots : running[i] # Idle =>
         /\ running[i].task \in Tasks(page)
         /\ running[i].step \in 1..Len(Task(running[i].task).steps)
         /\ IsAwait(At(i))
         /\ running[i].at <= version
    /\ dialogs \subseteq 1..Len(opened)
    /\ \A l \in Loads : shown[l].question <= asked[l] /\ shown[l].at <= version
    /\ \A l \in Loads : due[l] <= version
    /\ \A l \in kept : Here.loads[l].keeps

Quiet == \A i \in Slots : running[i] = Idle

\* A handler that sets a flag and clears it at its end has the flag to
\* itself: two of them never run at the same time.
OneAtATime ==
    \A f \in busy : <<page, f>> \notin Unlocked =>
        \A i, j \in Slots : Holds(i, f) /\ Holds(j, f) => i = j

\* What is submitted from an open dialog is done once, however often its
\* button is used and however late the answer is; only a lost answer leads
\* the user to submit it again.
SubmittedOnce ==
    \A n \in 1..Len(opened) : <<page, opened[n]>> \notin Repeatable =>
        done[n] <= 1 + lost[n]

\* A handler closes the dialog it was started from, and no other: one that the
\* user opened since, with the first put aside, stays.  A late answer closes no
\* dialog of another kind; but only Modal ones cannot be put aside while they
\* are submitted, and of the others the next of the same kind is closed.
LeavesOthersOpen ==
    [][\A n \in dialogs \ dialogs' :
         \/ n = Front /\ running' = running
         \/ \E i \in Slots :
              /\ running[i] # running'[i]
              /\ running[i] # Idle
              /\ \/ running[i].from = n
                 \/ /\ <<page, opened[n]>> \notin Modal
                    /\ running[i].from # 0 /\ opened[running[i].from] = opened[n]]_vars

\* At rest, a list shows the changes it was read again for.  An older state can
\* be left in it by reads that overlapped, or by a read that failed on a page
\* that keeps its rows then; everywhere else a failed read shows no answer.
OwnWritesShown ==
    Quiet => \A l \in Loads \ (blank \cup kept \cup raced) : shown[l].at >= due[l]

\* At rest, what is shown answers what is asked.  Reads that overlapped can
\* leave the answer to an earlier filter or record in its place, those with an
\* active flag not even then; so can a failed read where the rows are kept.
AnswersTheQuestion ==
    Quiet => \A l \in Loads \ (blank \cup kept) :
                 (l \in raced => Here.loads[l].guarded) => shown[l].question = asked[l]

\* No handler leaves a flag set behind it: at rest nothing is disabled.
NothingLeftBusy == Quiet => busy = {}
=============================================================================
