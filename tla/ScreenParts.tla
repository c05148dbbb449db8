------------------------------ MODULE ScreenParts ------------------------------
(***************************************************************************)
(* The vocabulary in which the pages of the web client (src/nexora-isp)    *)
(* are described as data.  A page is a React component that keeps busy     *)
(* flags, lists it has read, and dialogs; its handlers are asynchronous    *)
(* functions whose awaits divide them into atomic segments.  A description *)
(* keeps that control: what a handler awaits, in which order, which flags  *)
(* it sets before and clears after, what it closes, what it reads again,   *)
(* which flags disable the control that starts it, and which catch takes   *)
(* an error.  It leaves out what the texts and figures on the page are.    *)
(* Module Screens gives the descriptions their behaviour.                  *)
(***************************************************************************)
EXTENDS Sequences

NoTask   == "no task"
NoDialog == "no dialog"
NoList   == "no list"
OnPage   == "page"        \* where a control is that no dialog contains

-----------------------------------------------------------------------------
(* Steps of a handler, in the order of the code. *)

\* await service.operation(...), which changes the server
Call(operation) == [op |-> "call", on |-> {operation}, sets |-> {}]

\* the same within a try of its own: the handler goes on whatever happens
Try(operation) == [op |-> "try", on |-> {operation}, sets |-> {}]

\* await service.operation(...), which only reads what the handler goes on with
Get(operation) == [op |-> "get", on |-> {operation}, sets |-> {}]

\* a timer the handler sets: what follows runs when it fires
Pause == [op |-> "pause", on |-> {}, sets |-> {}]

\* the same, with these flags set until the handler clears them
PauseUnder(flags) == [Pause EXCEPT !.sets = flags]
Frees(flags) == [op |-> "free", on |-> flags, sets |-> {}]

\* await load(): the answers are shown; several loads are one Promise.all
Await(loads) == [op |-> "await", on |-> loads, sets |-> {}]

\* the same, of a load told to set these flags
AwaitUnder(flags, loads) == [op |-> "await", on |-> loads, sets |-> flags]

\* a read that follows a load, and only when that load succeeded
Then(loads) == [op |-> "then", on |-> loads, sets |-> {}]

\* setDialog(null), which closes the dialog whoever opened it
Close(dialog) == [op |-> "close", on |-> {dialog}, sets |-> {}]

\* setDialog(record), which opens the dialog unless it is open
Raise(dialog) == [op |-> "raise", on |-> {dialog}, sets |-> {}]

\* setItem(updated): the load shows what the last call answered
Put(loads) == [op |-> "put", on |-> loads, sets |-> {}]

-----------------------------------------------------------------------------
(* A read whose answer the page shows.                                     *)
(* sets, clears: flags set before and cleared after it.                    *)
(* catches: its own catch takes its errors, so its caller goes on.         *)
(* guarded: an answer to an earlier question is dropped (active flag).     *)
(* keeps: when the read fails, what was shown before stays on the page,    *)
(* under a notice or none; elsewhere the error takes its place.            *)
(* raises: dialogs that show the answer, and open when it comes.           *)
(* also: other lists that the answer is put in.                            *)

Load(sets, clears) ==
    [sets |-> sets, clears |-> clears, catches |-> TRUE, guarded |-> FALSE,
     keeps |-> FALSE, raises |-> {}, also |-> {}]

Guarded(load)  == [load EXCEPT !.guarded = TRUE]
Throwing(load) == [load EXCEPT !.catches = FALSE]
Keeping(load)  == [load EXCEPT !.keeps = TRUE]
Raising(load, names) == [load EXCEPT !.raises = names]
Also(load, loads)    == [load EXCEPT !.also = loads]

-----------------------------------------------------------------------------
(* A handler.  sets: flags set before its first await.  frees: flags       *)
(* cleared in its finally.  drops: flags that setting its own clears.      *)
(* detached: it does not await its last read or timer (void load()), so    *)
(* its finally runs before it.  quits: dialogs its catch closes.  local:   *)
(* its flags are state of the dialog component it is in, and go when the   *)
(* dialog is closed.                                                       *)

Handler(flags, steps) ==
    [sets |-> flags, frees |-> flags, drops |-> {}, steps |-> steps,
     detached |-> FALSE, quits |-> {}, local |-> FALSE]

\* reads that a control, an effect or a timer starts by themselves
Reads(flags, loads) == [Handler(flags, <<Await(loads)>>) EXCEPT !.frees = {}]

Detached(handler)       == [handler EXCEPT !.detached = TRUE]
Local(handler)          == [handler EXCEPT !.local = TRUE]
Quits(handler, names)   == [handler EXCEPT !.quits = names]

\* A form that is a page of its own is left by router.push, which the handler
\* does not wait for: its finally runs while the form is still there.
Leaving(flag, operation, form) ==
    Detached(Handler({flag}, <<Call(operation), Pause, Close(form)>>))

\* A state variable that names the record acted on (actionId) is one flag for
\* each record: setting one clears the others, and the end clears them all.
Replacing(handler, flags) ==
    [handler EXCEPT !.drops = flags \ handler.sets, !.frees = flags]

\* the usual handler of a form: save, close the dialog, read again; most do
\* not await the read
Saving(flag, operation, dialog, loads) ==
    Handler({flag}, <<Call(operation), Close(dialog), Await(loads)>>)
Saves(flag, operation, dialog, loads) ==
    Detached(Saving(flag, operation, dialog, loads))

-----------------------------------------------------------------------------
(* A control.  starts: the handler it starts.  opens: a dialog it opens.   *)
(* asks: the loads whose question it changes (a filter, a page number, the *)
(* record a drawer is about); the handler it starts reads the new one.     *)
(* blanks: loads whose answer it takes away; copies: a list that has what  *)
(* is shown of them instead.                                               *)
(* waits: the flags that disable or hide it.  within: the dialog it is in. *)

Button(starts, waits) ==
    [starts |-> starts, waits |-> waits, opens |-> NoDialog, asks |-> {},
     blanks |-> {}, copies |-> NoList, closes |-> FALSE, within |-> OnPage,
     beside |-> FALSE]

Opens(dialog, waits)       == [Button(NoTask, waits) EXCEPT !.opens = dialog]
Cancel(waits)              == [Button(NoTask, waits) EXCEPT !.closes = TRUE]
Asks(loads, starts, waits) == [Button(starts, waits) EXCEPT !.asks = loads]
Blanks(control)            == [control EXCEPT !.blanks = control.asks]

\* controls of the page that no dialog covers, and what a timer starts
Beside(control) == [control EXCEPT !.beside = TRUE]
Timer(starts)   == Beside(Button(starts, {}))

\* an opening that also starts a read of what the dialog is about
OpensWith(dialog, loads, starts, waits) ==
    [Asks(loads, starts, waits) EXCEPT !.opens = dialog]

\* a row of a list: opens a dialog about the record as the list has it
Picks(dialog, load, list, waits) ==
    [OpensWith(dialog, {load}, NoTask, waits) EXCEPT !.copies = list]

\* the controls of a dialog
In(dialog, controls) == {[c EXCEPT !.within = dialog] : c \in controls}

\* a dialog with a form: one control submits it, others put it aside
Form(dialog, submit, waits, cancelWaits) ==
    In(dialog, {Button(submit, waits), Cancel(cancelWaits)})

-----------------------------------------------------------------------------
(* A page.  initially: flags whose initial state is set.  mounts: loads    *)
(* that its mount effects start.  skeleton: flags under which a skeleton   *)
(* is returned in place of the page, which takes its dialogs away and      *)
(* brings them back anew, without the state of their own.                  *)

Screen(initially, mounts, loads, tasks, controls) ==
    [initially |-> initially, mounts |-> mounts, loads |-> loads,
     tasks |-> tasks, controls |-> controls, skeleton |-> {}]

UnderSkeleton(screen, flags) == [screen EXCEPT !.skeleton = flags]

=============================================================================
