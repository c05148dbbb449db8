------------------------------ MODULE Billing ------------------------------
(***************************************************************************)
(* The money of one service account: invoices, payments, the allocations   *)
(* between them, customer advance, bad debt, and the receivable and bad    *)
(* debt accounts the journal entries add up to (backend/billing/services.py *)
(* with the posting hooks of backend/accounting/services.py).              *)
(*                                                                         *)
(* Every operation is one transaction that locks the rows it reads and     *)
(* changes (the organization row, the service, the invoices, the           *)
(* payments), so each is one action.  Invoices are numbered in the order   *)
(* of due_date and payments in the order of paid_at; both may be entered   *)
(* in any order, because either date may be given.                         *)
(***************************************************************************)
EXTENDS Integers, FiniteSets, Functions

CONSTANTS
    Invoices,    \* 1 .. n: invoices the service may get
    Payments,    \* 1 .. n: payments it may make
    MaxAmount,   \* largest amount of an invoice or a payment
    SplitLines,  \* may a payment list the same invoice twice?
    MaxFailures  \* bound: journal entries that could not be made

ASSUME InvoicesAssumption == Invoices \subseteq Nat /\ IsFiniteSet(Invoices)
ASSUME PaymentsAssumption == Payments \subseteq Nat /\ IsFiniteSet(Payments)
ASSUME MaxAmountAssumption == MaxAmount \in Nat \ {0}
ASSUME SplitLinesAssumption == SplitLines \in BOOLEAN
ASSUME MaxFailuresAssumption == MaxFailures \in Nat

VARIABLES
    invoice,     \* Invoice rows
    payment,     \* Payment rows
    allocated,   \* allocated[p][i]: the PaymentAllocation rows of p to i, summed
    repeated,    \* repeated[p][i]: what of it is not in the first such row
    paid,        \* Invoice.paid_amount: the allocations to an invoice, summed
    receivable,  \* balance of account 1200
    badDebt,     \* balance of account 5070
    unbooked,    \* what entries that were never made would have added (history)
    failures     \* entries the hooks failed to make (history, bounded)

books == <<receivable, badDebt, unbooked, failures>>
vars == <<invoice, payment, allocated, repeated, paid, books>>

Amount == 1 .. MaxAmount
Money == 0 .. MaxAmount
Open == {"UNPAID", "PARTIALLY_PAID"}
InvoiceStatus == Open \cup {"PAID", "CANCELLED", "WRITTEN_OFF"}

\* "defaulted" is written_off_at IS NOT NULL.  A row that does not exist yet has
\* status NONE, a payment that does not exist yet amount 0.
Invoice == [status : InvoiceStatus \cup {"NONE"}, total : Nat, written_off : Int,
            recovered : Int, defaulted : BOOLEAN]
NoInvoice == [status |-> "NONE", total |-> 0, written_off |-> 0, recovered |-> 0,
              defaulted |-> FALSE]
Issued(total) == [status |-> "UNPAID", total |-> total, written_off |-> 0, recovered |-> 0,
                  defaulted |-> FALSE]
Payment == [amount : Nat, reversed : BOOLEAN]
NoPayment == [amount |-> 0, reversed |-> FALSE]
Nothing(S) == [x \in S |-> 0]

\* What a journal entry adds to the two accounts.
Entry(ar, bd) == [receivable |-> ar, badDebt |-> bd]
NoEntry == Entry(0, 0)
Plus(e, f) == Entry(e.receivable + f.receivable, e.badDebt + f.badDebt)

Recorded(p) == payment[p].amount > 0
Active(p) == Recorded(p) /\ ~payment[p].reversed
Outstanding(i) == invoice[i].total - paid[i] - invoice[i].written_off
Payable(i) == invoice[i].status \notin {"NONE", "CANCELLED"}
MinOf(a, b) == IF a < b THEN a ELSE b

\* Payment.unallocated_amount; a reversed payment has no advance left.
Unallocated(p) == IF Active(p) THEN payment[p].amount - SumFunction(allocated[p]) ELSE 0

\* Mutant: a status of its own for an invoice that is settled by bad debt.
Refreshed_Settled(v, paidAmount) ==
    IF v.status = "CANCELLED" THEN v
    ELSE [v EXCEPT !.status =
            CASE v.written_off > 0 -> "SETTLED"
              [] v.written_off <= 0 /\ paidAmount <= 0 -> "UNPAID"
              [] v.written_off <= 0 /\ paidAmount > 0 /\ paidAmount < v.total -> "PARTIALLY_PAID"
              [] OTHER -> "PAID"]

\* _refresh_invoice_status on invoice v when paidAmount of it is paid.
Refreshed(v, paidAmount) ==
    IF v.status = "CANCELLED" THEN v
    ELSE [v EXCEPT !.status =
            CASE v.written_off > 0 -> "WRITTEN_OFF"
              [] v.written_off <= 0 /\ paidAmount <= 0 -> "UNPAID"
              [] v.written_off <= 0 /\ paidAmount > 0 /\ paidAmount < v.total -> "PARTIALLY_PAID"
              [] OTHER -> "PAID"]

\* "share" hands out an amount in order, to each what there is room for.
InOrder(share, room, amount) ==
    /\ \A x \in DOMAIN room :
         /\ share[x] <= room[x]
         /\ share[x] > 0 => \A y \in DOMAIN room : y < x => share[y] = room[y]
    /\ SumFunction(share) \in 0 .. amount
    /\ share = room \/ SumFunction(share) = amount

-----------------------------------------------------------------------------
(* The posting hooks.  They run in the transaction of the operation and     *)
(* swallow what create_journal_entry raises (a locked period, an inactive   *)
(* account), so any entry may be missing; "due" is all that was to be made. *)

Book(made, due) ==
    /\ receivable' = receivable + made.receivable
    /\ badDebt' = badDebt + made.badDebt
    /\ unbooked' = Entry(unbooked.receivable + due.receivable - made.receivable,
                         unbooked.badDebt + due.badDebt - made.badDebt)

Fail(n) == failures + n <= MaxFailures /\ failures' = failures + n

Post(e) ==
    \/ Fail(0) /\ Book(e, e)
    \/ Fail(1) /\ Book(NoEntry, e)

PostBoth(e, f, due) ==
    \/ Fail(0) /\ Book(Plus(e, f), due)
    \/ Fail(1) /\ Book(e, due)
    \/ Fail(1) /\ Book(f, due)
    \/ Fail(2) /\ Book(NoEntry, due)

-----------------------------------------------------------------------------
Init ==
    /\ invoice = [i \in Invoices |-> NoInvoice]
    /\ payment = [p \in Payments |-> NoPayment]
    /\ allocated = [p \in Payments |-> Nothing(Invoices)]
    /\ repeated = [p \in Payments |-> Nothing(Invoices)]
    /\ paid = Nothing(Invoices)
    /\ receivable = 0
    /\ badDebt = 0
    /\ unbooked = NoEntry
    /\ failures = 0

\* Mutant: the advance of a payment is its whole amount.
AdvanceRoom_Whole == [p \in Payments |-> IF Active(p) THEN payment[p].amount ELSE 0]

\* What each payment has left for a new invoice.
AdvanceRoom == [p \in Payments |-> Unallocated(p)]

\* generate_service_invoice, generate_custom_invoice: a new invoice is settled
\* from the advance at once, oldest payment first.
GenerateInvoice(i, total) ==
    /\ invoice[i].status = "NONE"
    /\ \E share \in [Payments -> Money] :
         /\ InOrder(share, AdvanceRoom, total)
         /\ allocated' = [p \in Payments |-> [allocated[p] EXCEPT ![i] = share[p]]]
         /\ paid' = [paid EXCEPT ![i] = SumFunction(share)]
         /\ invoice' = [invoice EXCEPT ![i] =
                Refreshed(Issued(total), SumFunction(share))]
    /\ Post(Entry(total, 0))
    /\ UNCHANGED <<payment, repeated>>

\* Mutant: the status is refreshed before the allocations exist.
RecordPayment_EarlyRefresh(p, amount, rows, share, extra) ==
    /\ ~Recorded(p)
    /\ payment' = [payment EXCEPT ![p].amount = amount]
    /\ allocated' = [allocated EXCEPT ![p] = share]
    /\ repeated' = [repeated EXCEPT ![p] = extra]
    /\ paid' = [i \in Invoices |-> paid[i] + share[i]]
    /\ invoice' = [i \in Invoices |->
            IF share[i] > 0 THEN Refreshed(rows[i], paid[i]) ELSE rows[i]]

\* A payment row, its allocations and the refreshed invoices.  "rows" are the invoices as the
\* caller leaves them, "extra" what is listed again for the same invoice.
RecordPayment(p, amount, rows, share, extra) ==
    /\ ~Recorded(p)
    /\ payment' = [payment EXCEPT ![p].amount = amount]
    /\ allocated' = [allocated EXCEPT ![p] = share]
    /\ repeated' = [repeated EXCEPT ![p] = extra]
    /\ paid' = [i \in Invoices |-> paid[i] + share[i]]
    /\ invoice' = [i \in Invoices |->
            IF share[i] > 0 THEN Refreshed(rows[i], paid[i] + share[i]) ELSE rows[i]]

To(i, amount) == [Nothing(Invoices) EXCEPT ![i] = amount]

\* Mutant: the amount is not compared with what is outstanding.
RecordInvoicePayment_Unbounded(p, i, amount) ==
    /\ invoice[i].status # "NONE"
    /\ Outstanding(i) > 0
    /\ RecordPayment(p, amount, invoice, To(i, amount), Nothing(Invoices))
    /\ Post(Entry(-amount, 0))

\* record_invoice_payment: a payment of one invoice.
RecordInvoicePayment(p, i, amount) ==
    /\ invoice[i].status # "NONE"
    /\ Outstanding(i) > 0
    /\ amount <= Outstanding(i)
    /\ RecordPayment(p, amount, invoice, To(i, amount), Nothing(Invoices))
    /\ Post(Entry(-amount, 0))

\* record_payment_with_allocations with a list of allocations; what they leave
\* of the payment is advance.
RecordListedPayment(p, amount) ==
    \E share \in [Invoices -> Money] :
        /\ \A i \in Invoices : share[i] > 0 => Payable(i) /\ share[i] <= Outstanding(i)
        /\ SumFunction(share) \in 1 .. amount
        /\ \E extra \in [Invoices -> IF SplitLines THEN Money ELSE {0}] :
             /\ \A i \in Invoices : extra[i] > 0 => extra[i] < share[i]
             /\ RecordPayment(p, amount, invoice, share, extra)
        /\ Post(Entry(-amount, 0))

\* record_payment_with_allocations without a list: oldest due invoice first.
RecordAutoPayment(p, amount) ==
    \E share \in [Invoices -> Money] :
        /\ InOrder(share, [i \in Invoices |-> IF invoice[i].status \in Open THEN Outstanding(i)
                                              ELSE 0], amount)
        /\ RecordPayment(p, amount, invoice, share, Nothing(Invoices))
        /\ Post(Entry(-amount, 0))

\* Mutant: a written-off invoice is treated like any other.
Unsettled_Reopens(p, i) == invoice[i]

\* Mutant: a reversal leaves the recovered amount alone.
Unsettled_KeepsRecovered(p, i) ==
    IF invoice[i].defaulted
    THEN [invoice[i] EXCEPT !.written_off = @ + allocated[p][i]]
    ELSE invoice[i]

\* The invoice row of an allocation that is taken back: what was paid on a
\* written-off invoice goes back to bad debt.
Unsettled(p, i) ==
    IF invoice[i].defaulted
    THEN [invoice[i] EXCEPT !.written_off = @ + allocated[p][i],
                            !.recovered = @ - MinOf(allocated[p][i], @)]
    ELSE invoice[i]

\* What the reversal of p puts back to bad debt, and what of it is posted: the
\* entries are referenced by invoice and payment, so a second row of the same
\* pair finds the first's entry.  They fail together, having one date and one
\* pair of accounts.
WrittenBack(p) ==
    SumFunction([i \in Invoices |-> IF invoice[i].defaulted THEN allocated[p][i] ELSE 0])
Merged(p) ==
    SumFunction([i \in Invoices |-> IF invoice[i].defaulted THEN repeated[p][i] ELSE 0])

ReversePayment(p) ==
    /\ Active(p)
    /\ payment' = [payment EXCEPT ![p].reversed = TRUE]
    /\ paid' = [i \in Invoices |-> paid[i] - allocated[p][i]]
    /\ invoice' = [i \in Invoices |->
            IF allocated[p][i] > 0 THEN Refreshed(Unsettled(p, i), paid[i] - allocated[p][i])
            ELSE invoice[i]]
    /\ allocated' = [allocated EXCEPT ![p] = Nothing(Invoices)]
    /\ repeated' = [repeated EXCEPT ![p] = Nothing(Invoices)]
    /\ LET back == Entry(payment[p].amount, 0)
           posted == WrittenBack(p) - Merged(p)
       IN  PostBoth(back, Entry(-posted, posted),
                    Plus(back, Entry(-WrittenBack(p), WrittenBack(p))))

CancelInvoice(i) ==
    /\ Payable(i)
    /\ ~invoice[i].defaulted
    /\ \A p \in Payments : allocated[p][i] = 0
    /\ invoice' = [invoice EXCEPT ![i].status = "CANCELLED"]
    /\ Post(Entry(-invoice[i].total, 0))
    /\ UNCHANGED <<payment, allocated, repeated, paid>>

WriteOffInvoice(i) ==
    /\ invoice[i].status \in Open
    /\ Outstanding(i) > 0
    /\ invoice' = [invoice EXCEPT ![i].written_off = Outstanding(i),
                                  ![i].defaulted = TRUE, ![i].status = "WRITTEN_OFF"]
    /\ Post(Entry(-Outstanding(i), Outstanding(i)))
    /\ UNCHANGED <<payment, allocated, repeated, paid>>

\* Mutant: the recovery is booked as a payment only.
RecoverBadDebt_PaymentOnly(p, i, amount) ==
    /\ invoice[i].status = "WRITTEN_OFF"
    /\ amount <= invoice[i].written_off
    /\ RecordPayment(p, amount,
           [invoice EXCEPT ![i].written_off = @ - amount, ![i].recovered = @ + amount],
           To(i, amount), Nothing(Invoices))
    /\ Post(Entry(-amount, 0))

\* recover_bad_debt: the recovered part is receivable again, and paid.  Of the
\* two entries the one for the recovery is posted in a hook of its own.
RecoverBadDebt(p, i, amount) ==
    /\ invoice[i].status = "WRITTEN_OFF"
    /\ amount <= invoice[i].written_off
    /\ RecordPayment(p, amount,
           [invoice EXCEPT ![i].written_off = @ - amount, ![i].recovered = @ + amount],
           To(i, amount), Nothing(Invoices))
    /\ PostBoth(Entry(amount, -amount), Entry(-amount, 0), Entry(0, -amount))

Next ==
    \/ \E i \in Invoices :
         \/ CancelInvoice(i) \/ WriteOffInvoice(i)
         \/ \E amount \in Amount : GenerateInvoice(i, amount)
    \/ \E p \in Payments :
         \/ ReversePayment(p)
         \/ \E amount \in Amount :
              \/ RecordListedPayment(p, amount) \/ RecordAutoPayment(p, amount)
              \/ \E i \in Invoices :
                   RecordInvoicePayment(p, i, amount) \/ RecoverBadDebt(p, i, amount)

Spec == Init /\ [][Next]_vars

-----------------------------------------------------------------------------
\* Rows are well typed and the aggregates are those of the rows.
TypeOK ==
    /\ invoice \in [Invoices -> Invoice]
    /\ payment \in [Payments -> Payment]
    /\ allocated \in [Payments -> [Invoices -> Nat]]
    /\ repeated \in [Payments -> [Invoices -> Nat]]
    /\ paid \in [Invoices -> Int]
    /\ receivable \in Int
    /\ badDebt \in Int
    /\ unbooked \in [receivable : Int, badDebt : Int]
    /\ failures \in 0 .. MaxFailures

\* No invoice is ever paid beyond what it asks for, through whichever of the
\* four ways money reaches it (the check constraint of no table says so).
NeverOverpaid == \A i \in Invoices : Outstanding(i) >= 0

\* A written-off invoice stays fully settled: payments, recoveries and their
\* reversals, in any order, leave nothing outstanding on it, and it is PAID
\* exactly when all of the bad debt has come in (comment in reverse_payment).
WrittenOffIsSettled ==
    \A i \in Invoices : invoice[i].defaulted =>
        /\ Outstanding(i) = 0
        /\ invoice[i].written_off >= 0
        /\ invoice[i].status = IF invoice[i].written_off > 0 THEN "WRITTEN_OFF" ELSE "PAID"

\* The stored status of an invoice is the one its amounts ask for, after every
\* operation that changes either.
StatusFollowsMoney ==
    \A i \in Invoices : Payable(i) => Refreshed(invoice[i], paid[i]) = invoice[i]

\* A payment never settles more than its amount, and a reversed one nothing.
PaymentsAreNotOverspent ==
    \A p \in Payments :
        SumFunction(allocated[p]) <= IF Active(p) THEN payment[p].amount ELSE 0

\* What the reports count as recovered bad debt was really paid.
RecoveredWasPaid ==
    \A i \in Invoices : invoice[i].recovered >= 0 /\ invoice[i].recovered <= paid[i]

\* What the rows say the two accounts should show: the receivable is what
\* invoices are still owed less the advances (and what was paid on cancelled
\* invoices), bad debt is what is written off.
ReceivableOfRows ==
    SumFunction([i \in Invoices |-> IF Payable(i) THEN Outstanding(i)
                                    ELSE IF invoice[i].status = "CANCELLED" THEN 0 - paid[i]
                                    ELSE 0])
    - SumFunction(AdvanceRoom)
BadDebtOfRows == SumFunction([i \in Invoices |-> invoice[i].written_off])

\* The books agree with the rows, reversals included: "whatever this reversal
\* un-pays goes back to bad debt" (comment in reverse_payment).
BooksAgree == receivable = ReceivableOfRows /\ badDebt = BadDebtOfRows

\* They differ by exactly the entries that were not made, because a hook failed
\* or because the reference was taken for one already posted: every other step
\* of every history posts what it did to the rows.
BooksMissOnlyTheUnbooked ==
    /\ receivable + unbooked.receivable = ReceivableOfRows
    /\ badDebt + unbooked.badDebt = BadDebtOfRows
=============================================================================
