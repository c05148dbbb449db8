-------------------------------- MODULE Service --------------------------------
(***************************************************************************)
(* What the provisioning of a service promises to staff and collections:   *)
(* one order at a time is open for the service; while it is, the line to   *)
(* the subscriber may be made what the order asks for; the order is        *)
(* settled, and the service changed, only when that is known to have been  *)
(* done, or it is given up and the service stays as it was.  Who executes  *)
(* an order, how often it is delivered, and what crashes, is left open.    *)
(* Module Provisioning implements this.                                    *)
(***************************************************************************)
CONSTANT Packages

VARIABLES
    status,   \* ServiceAccount.status
    package,  \* ServiceAccount.internet_package
    line,     \* the package the subscriber is served, or Off
    order,    \* the order that is open, or None
    known,    \* the line is known to be what the open order asks for
    failed    \* the last order was given up

vars == <<status, package, line, order, known, failed>>

Off  == "off"
None == [action |-> "none"]
Order(action, target) == [action |-> action, target |-> target]

\* What an order makes of the line.
Asked == CASE order.action = "SUSPEND" -> Off
           [] order.action = "CHANGE_PACKAGE" -> order.target
           [] OTHER -> package

Init ==
    /\ package \in Packages
    /\ known = FALSE /\ failed = FALSE
    /\ \/ /\ status \in {"ACTIVE", "SUSPENDED_NON_PAYMENT"}
          /\ order = Order("ACTIVATE", package) /\ line = Off
       \/ status = "ACTIVE" /\ order = None /\ line = package

\* An order is opened, of a kind the status allows; an activation only again.
Place(action, target) ==
    /\ order = None
    /\ order' = Order(action, target)
    /\ CASE action = "SUSPEND" -> /\ status \in {"ACTIVE", "GRACE_PERIOD"}
                                  /\ status' = "SUSPENSION_PENDING"
         [] action = "RESTORE" -> /\ status = "SUSPENDED_NON_PAYMENT"
                                  /\ status' = "RESTORE_PENDING"
         [] action = "CHANGE_PACKAGE" -> status = "ACTIVE" /\ UNCHANGED status
         [] action = "ACTIVATE" -> failed /\ UNCHANGED status
    /\ failed' = FALSE
    /\ UNCHANGED <<package, line, known>>

\* The line is changed; whether it was may not be learnt.
Serve ==
    /\ order # None
    /\ ~ known
    /\ line' = Asked
    /\ known' \in BOOLEAN
    /\ UNCHANGED <<status, package, order, failed>>

\* What was known is lost with the one who knew it.
Forget ==
    /\ known
    /\ known' = FALSE
    /\ UNCHANGED <<status, package, line, order, failed>>

Settle ==
    /\ known
    /\ order' = None /\ known' = FALSE
    /\ CASE order.action = "CHANGE_PACKAGE" -> package' = order.target /\ UNCHANGED status
         [] order.action = "SUSPEND" -> status' = "SUSPENDED_NON_PAYMENT" /\ UNCHANGED package
         [] OTHER -> status' = "ACTIVE" /\ UNCHANGED package
    /\ UNCHANGED <<line, failed>>

GiveUp ==
    /\ order # None
    /\ order' = None /\ known' = FALSE /\ failed' = TRUE
    /\ status' = CASE order.action = "SUSPEND" -> "ACTIVE"
                   [] order.action = "RESTORE" -> "SUSPENDED_NON_PAYMENT"
                   [] OTHER -> status
    /\ UNCHANGED <<package, line>>

Next ==
    \/ \E target \in Packages :
         \E action \in {"ACTIVATE", "SUSPEND", "RESTORE", "CHANGE_PACKAGE"} :
            Place(action, target)
    \/ Serve \/ Forget \/ Settle \/ GiveUp

Spec == Init /\ [][Next]_vars
=============================================================================
