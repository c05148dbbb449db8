--------------------------- MODULE BillingProofs ---------------------------
(***************************************************************************)
(* What holds of Billing for any number of invoices and payments and any   *)
(* amounts.  Books relates the amounts and the status of each invoice;     *)
(* Accounts adds the sums of the allocations, over an invoice and over a   *)
(* payment, and what is recovered; Ledger adds the balances of the two     *)
(* accounts, sums over all rows.                                           *)
(***************************************************************************)
EXTENDS Billing, Sums, TLAPS

(***************************************************************************)
(* The invariant is about one invoice at a time.  Sound says of a row v of *)
(* which n is paid: nothing is overpaid, a defaulted invoice has nothing   *)
(* outstanding and was not cancelled, one that is not has no bad debt, and *)
(* the status is the refreshed one.                                        *)
(***************************************************************************)
Left(v, n) == v.total - n - v.written_off

Sound(v, n) ==
    /\ Left(v, n) >= 0
    /\ v.written_off >= 0
    /\ v.defaulted => Left(v, n) = 0 /\ v.status # "CANCELLED"
    /\ ~v.defaulted => v.written_off = 0
    /\ v.status # "NONE" => v.total > 0
    /\ v.status \notin {"NONE", "CANCELLED"} =>
         /\ v.written_off > 0 => v.status = "WRITTEN_OFF"
         /\ v.written_off = 0 /\ n <= 0 => v.status = "UNPAID"
         /\ v.written_off = 0 /\ n > 0 /\ n < v.total => v.status = "PARTIALLY_PAID"
         /\ v.written_off = 0 /\ n > 0 /\ n >= v.total => v.status = "PAID"
    /\ v.status = "NONE" => n = 0 /\ v.total = 0 /\ ~v.defaulted

RowsOK ==
    /\ invoice \in [Invoices -> Invoice]
    /\ payment \in [Payments -> Payment]
    /\ allocated \in [Payments -> [Invoices -> Nat]]
    /\ paid \in [Invoices -> Int]

NothingBeforeIssue ==
    \A i \in Invoices : invoice[i].status = "NONE" => \A p \in Payments : allocated[p][i] = 0

Books ==
    /\ RowsOK
    /\ NothingBeforeIssue
    /\ \A i \in Invoices : Sound(invoice[i], paid[i])

-----------------------------------------------------------------------------
\* _refresh_invoice_status changes the status only, and to the right one.
LEMMA RefreshedRow ==
    ASSUME NEW v \in Invoice, NEW n \in Int
    PROVE  /\ Refreshed(v, n) \in Invoice
           /\ Refreshed(v, n).total = v.total
           /\ Refreshed(v, n).written_off = v.written_off
           /\ Refreshed(v, n).recovered = v.recovered
           /\ Refreshed(v, n).defaulted = v.defaulted
           /\ v.status = "CANCELLED" => Refreshed(v, n).status = "CANCELLED"
           /\ v.status # "CANCELLED" =>
                /\ v.written_off > 0 => Refreshed(v, n).status = "WRITTEN_OFF"
                /\ v.written_off <= 0 /\ n <= 0 => Refreshed(v, n).status = "UNPAID"
                /\ v.written_off <= 0 /\ n > 0 /\ n < v.total =>
                     Refreshed(v, n).status = "PARTIALLY_PAID"
                /\ v.written_off <= 0 /\ n > 0 /\ n >= v.total => Refreshed(v, n).status = "PAID"
  <1>1. v.total \in Int /\ v.written_off \in Int
    BY DEF Invoice
  <1>2. CASE v.status = "CANCELLED"
    BY <1>2 DEF Refreshed
  <1>3. CASE v.status # "CANCELLED"
    <2> DEFINE st == CASE v.written_off > 0 -> "WRITTEN_OFF"
                       [] v.written_off <= 0 /\ n <= 0 -> "UNPAID"
                       [] v.written_off <= 0 /\ n > 0 /\ n < v.total -> "PARTIALLY_PAID"
                       [] OTHER -> "PAID"
    <2>1. /\ v.written_off > 0 => st = "WRITTEN_OFF"
          /\ v.written_off <= 0 /\ n <= 0 => st = "UNPAID"
          /\ v.written_off <= 0 /\ n > 0 /\ n < v.total => st = "PARTIALLY_PAID"
          /\ v.written_off <= 0 /\ n > 0 /\ n >= v.total => st = "PAID"
      BY <1>1
    <2>2. st \in InvoiceStatus
      BY <2>1, <1>1 DEF InvoiceStatus, Open
    <2>3. Refreshed(v, n) = [v EXCEPT !.status = st]
      BY <1>3 DEF Refreshed
    <2> HIDE DEF st
    <2> QED
      BY <1>3, <2>1, <2>2, <2>3 DEF Invoice
  <1> QED
    BY <1>2, <1>3

\* A refreshed row is sound if its amounts are.
LEMMA RefreshedIsSound ==
    ASSUME NEW v \in Invoice, NEW n \in Int,
           v.status # "NONE", v.total > 0,
           Left(v, n) >= 0, v.written_off >= 0,
           v.defaulted => Left(v, n) = 0 /\ v.status # "CANCELLED",
           ~v.defaulted => v.written_off = 0
    PROVE  Refreshed(v, n) \in Invoice /\ Sound(Refreshed(v, n), n)
           /\ Refreshed(v, n).status # "NONE"
  <1> DEFINE w == Refreshed(v, n)
  <1>1. v.total \in Int /\ v.written_off \in Int /\ v.defaulted \in BOOLEAN
    BY DEF Invoice
  <1>2. /\ w \in Invoice
        /\ w.total = v.total
        /\ w.written_off = v.written_off
        /\ w.defaulted = v.defaulted
        /\ v.status = "CANCELLED" => w.status = "CANCELLED"
        /\ v.status # "CANCELLED" =>
             /\ v.written_off > 0 => w.status = "WRITTEN_OFF"
             /\ v.written_off <= 0 /\ n <= 0 => w.status = "UNPAID"
             /\ v.written_off <= 0 /\ n > 0 /\ n < v.total => w.status = "PARTIALLY_PAID"
             /\ v.written_off <= 0 /\ n > 0 /\ n >= v.total => w.status = "PAID"
    BY RefreshedRow
  <1> HIDE DEF w
  <1>3. w.status # "NONE" /\ (w.status = "CANCELLED" => v.status = "CANCELLED")
    BY <1>1, <1>2
  <1>4. Left(w, n) = Left(v, n)
    BY <1>2 DEF Left
  <1>5. Sound(w, n)
    BY <1>1, <1>2, <1>3, <1>4 DEF Sound
  <1> QED
    BY <1>2, <1>3, <1>5 DEF w

-----------------------------------------------------------------------------
LEMMA InitBooks == Init => Books
  <1> SUFFICES ASSUME Init PROVE Books
    OBVIOUS
  <1> USE DEF Init, Nothing
  <1>1. NoInvoice \in Invoice /\ NoPayment \in Payment
    BY DEF NoInvoice, NoPayment, Invoice, Payment
  <1>2. RowsOK
    BY <1>1 DEF RowsOK
  <1>3. Sound(NoInvoice, 0)
    BY DEF Sound, Left, NoInvoice
  <1>4. NothingBeforeIssue
    BY DEF NothingBeforeIssue
  <1> QED
    BY <1>2, <1>3, <1>4 DEF Books

\* _refresh_invoice_status with the allocation rows, for every way money comes in:
\* the caller leaves rows that are sound once the share of the payment is paid.
LEMMA RecordKeepsBooks ==
    ASSUME Books,
           NEW p \in Payments, NEW amount \in Nat, NEW rows \in [Invoices -> Invoice],
           NEW share \in [Invoices -> Nat], NEW extra,
           \A i \in Invoices :
             IF share[i] > 0
             THEN /\ rows[i].status # "NONE"
                  /\ rows[i].total > 0
                  /\ Left(rows[i], paid[i] + share[i]) >= 0
                  /\ rows[i].written_off >= 0
                  /\ rows[i].defaulted =>
                       Left(rows[i], paid[i] + share[i]) = 0 /\ rows[i].status # "CANCELLED"
                  /\ ~rows[i].defaulted => rows[i].written_off = 0
             ELSE rows[i] = invoice[i],
           RecordPayment(p, amount, rows, share, extra)
    PROVE  Books'
  <1> USE DEF RecordPayment
  <1>1. \A i \in Invoices : paid[i] \in Int /\ share[i] \in Nat /\ rows[i] \in Invoice
    BY DEF Books, RowsOK
  <1>2. payment' \in [Payments -> Payment]
    BY DEF Books, RowsOK, Payment
  <1>3. allocated' \in [Payments -> [Invoices -> Nat]]
    BY DEF Books, RowsOK
  <1>4. paid' \in [Invoices -> Int]
    BY <1>1
  <1>5. ASSUME NEW i \in Invoices
        PROVE  /\ invoice'[i] \in Invoice
               /\ Sound(invoice'[i], paid'[i])
               /\ invoice'[i].status = "NONE" => share[i] = 0 /\ invoice[i].status = "NONE"
    <2>1. CASE share[i] > 0
      <3>1. invoice'[i] = Refreshed(rows[i], paid[i] + share[i]) /\ paid'[i] = paid[i] + share[i]
        BY <2>1
      <3>2. paid[i] + share[i] \in Int
        BY <1>1
      <3> QED
        BY <2>1, <1>1, <3>1, <3>2, RefreshedIsSound
    <2>2. CASE ~(share[i] > 0)
      <3>1. share[i] = 0
        BY <2>2, <1>1
      <3>2. invoice'[i] = invoice[i] /\ paid'[i] = paid[i]
        BY <2>2, <3>1, <1>1
      <3> QED
        BY <3>1, <3>2 DEF Books, RowsOK
    <2> QED
      BY <2>1, <2>2
  <1>6. invoice' \in [Invoices -> Invoice]
    BY <1>5
  <1>7. NothingBeforeIssue'
    <2> SUFFICES ASSUME NEW i \in Invoices, invoice'[i].status = "NONE", NEW q \in Payments
                 PROVE  allocated'[q][i] = 0
      BY DEF NothingBeforeIssue
    <2>1. allocated[q][i] = 0 /\ share[i] = 0
      BY <1>5 DEF Books, NothingBeforeIssue
    <2>2. allocated'[q] = IF q = p THEN share ELSE allocated[q]
      BY DEF Books, RowsOK
    <2> QED
      BY <2>1, <2>2
  <1> QED
    BY <1>2, <1>3, <1>4, <1>5, <1>6, <1>7 DEF Books, RowsOK

-----------------------------------------------------------------------------
\* What is known of each invoice before a step.
LEMMA SoundRow ==
    ASSUME Books, NEW i \in Invoices
    PROVE  /\ invoice[i] \in Invoice /\ paid[i] \in Int
           /\ invoice[i].total \in Nat /\ invoice[i].written_off \in Int
           /\ invoice[i].defaulted \in BOOLEAN
           /\ Sound(invoice[i], paid[i])
           /\ Outstanding(i) = Left(invoice[i], paid[i])
  <1>1. invoice[i] \in Invoice /\ paid[i] \in Int /\ Sound(invoice[i], paid[i])
    BY DEF Books, RowsOK
  <1> QED
    BY <1>1 DEF Invoice, Outstanding, Left

LEMMA GenerateKeepsBooks ==
    ASSUME Books, NEW i \in Invoices, NEW total \in Amount, GenerateInvoice(i, total)
    PROVE  Books'
  <1> DEFINE v == Issued(total)
  <1>1. total \in Nat /\ total > 0 /\ Money \subseteq Nat
    BY MaxAmountAssumption DEF Amount, Money
  <1>2. /\ v \in Invoice
        /\ v.status = "UNPAID" /\ v.total = total /\ v.written_off = 0 /\ v.defaulted = FALSE
    BY <1>1 DEF Issued, Invoice, InvoiceStatus, Open
  <1> HIDE DEF v
  <1>3. PICK share \in [Payments -> Money] :
          /\ InOrder(share, AdvanceRoom, total)
          /\ allocated' = [p \in Payments |-> [allocated[p] EXCEPT ![i] = share[p]]]
          /\ paid' = [paid EXCEPT ![i] = SumFunction(share)]
          /\ invoice' = [invoice EXCEPT ![i] = Refreshed(v, SumFunction(share))]
    BY DEF GenerateInvoice, v
  <1> DEFINE n == SumFunction(share)
  <1>4. n \in 0 .. total
    BY <1>3 DEF InOrder
  <1> HIDE DEF n
  <1>5. n \in Int /\ Left(v, n) >= 0
    BY <1>1, <1>2, <1>4 DEF Left
  <1>6. Refreshed(v, n) \in Invoice /\ Sound(Refreshed(v, n), n) /\ Refreshed(v, n).status # "NONE"
    BY <1>1, <1>2, <1>5, RefreshedIsSound
  <1>7. /\ paid' = [paid EXCEPT ![i] = n]
        /\ invoice' = [invoice EXCEPT ![i] = Refreshed(v, n)]
    BY <1>3 DEF n
  <1>8. /\ allocated' \in [Payments -> [Invoices -> Nat]]
        /\ \A p \in Payments, j \in Invoices : j # i => allocated'[p][j] = allocated[p][j]
    BY <1>1, <1>3 DEF Books, RowsOK
  <1>9. RowsOK'
    BY <1>5, <1>6, <1>7, <1>8 DEF Books, RowsOK, GenerateInvoice
  <1>10. NothingBeforeIssue'
    BY <1>6, <1>7, <1>8 DEF Books, RowsOK, NothingBeforeIssue
  <1>11. \A j \in Invoices : Sound(invoice[j], paid[j])'
    BY <1>6, <1>7 DEF Books, RowsOK
  <1> QED
    BY <1>9, <1>10, <1>11 DEF Books

LEMMA PaymentsKeepBooks ==
    ASSUME Books, NEW p \in Payments, NEW amount \in Amount,
           \/ RecordListedPayment(p, amount)
           \/ RecordAutoPayment(p, amount)
           \/ \E i \in Invoices : RecordInvoicePayment(p, i, amount)
    PROVE  Books'
  <1>1. amount \in Nat /\ Money \subseteq Nat
    BY MaxAmountAssumption DEF Amount, Money
  <1>2. ASSUME NEW share \in [Invoices -> Nat], NEW extra,
               \A i \in Invoices :
                 share[i] > 0 => invoice[i].status # "NONE" /\ share[i] <= Outstanding(i),
               RecordPayment(p, amount, invoice, share, extra)
        PROVE  Books'
    <2>1. invoice \in [Invoices -> Invoice]
      BY DEF Books, RowsOK
    <2>2. ASSUME NEW i \in Invoices, share[i] > 0
          PROVE  /\ invoice[i].status # "NONE"
                 /\ invoice[i].total > 0
                 /\ Left(invoice[i], paid[i] + share[i]) >= 0
                 /\ invoice[i].written_off >= 0
                 /\ invoice[i].defaulted =>
                      Left(invoice[i], paid[i] + share[i]) = 0 /\ invoice[i].status # "CANCELLED"
                 /\ ~invoice[i].defaulted => invoice[i].written_off = 0
      <3>1. share[i] \in Nat /\ share[i] <= Left(invoice[i], paid[i])
        BY <1>2, <2>2, SoundRow
      <3>2. Left(invoice[i], paid[i] + share[i]) = Left(invoice[i], paid[i]) - share[i]
        BY <3>1, SoundRow DEF Left
      <3>3. Left(invoice[i], paid[i]) \in Int
        BY SoundRow DEF Left
      <3>4. ~invoice[i].defaulted
        BY <3>1, <3>3, <2>2, SoundRow DEF Sound
      <3>5. invoice[i].status # "NONE"
        BY <1>2, <2>2
      <3> QED
        BY <3>1, <3>2, <3>3, <3>4, <3>5, SoundRow DEF Sound
    <2>3. \A i \in Invoices :
             IF share[i] > 0
             THEN /\ invoice[i].status # "NONE"
                  /\ invoice[i].total > 0
                  /\ Left(invoice[i], paid[i] + share[i]) >= 0
                  /\ invoice[i].written_off >= 0
                  /\ invoice[i].defaulted =>
                       Left(invoice[i], paid[i] + share[i]) = 0 /\ invoice[i].status # "CANCELLED"
                  /\ ~invoice[i].defaulted => invoice[i].written_off = 0
             ELSE invoice[i] = invoice[i]
      BY <2>2
    <2> QED
      BY <1>1, <1>2, <2>1, <2>3, RecordKeepsBooks
  <1>3. CASE RecordListedPayment(p, amount)
    <2>1. PICK share \in [Invoices -> Money], extra \in [Invoices -> IF SplitLines THEN Money ELSE {0}] :
            /\ \A i \in Invoices : share[i] > 0 => Payable(i) /\ share[i] <= Outstanding(i)
            /\ RecordPayment(p, amount, invoice, share, extra)
      BY <1>3 DEF RecordListedPayment
    <2>2. share \in [Invoices -> Nat]
      BY <1>1
    <2> QED
      BY <1>2, <2>1, <2>2 DEF Payable
  <1>4. CASE RecordAutoPayment(p, amount)
    <2> DEFINE room == [i \in Invoices |-> IF invoice[i].status \in Open THEN Outstanding(i) ELSE 0]
    <2>1. PICK share \in [Invoices -> Money] :
            /\ InOrder(share, room, amount)
            /\ RecordPayment(p, amount, invoice, share, Nothing(Invoices))
      BY <1>4 DEF RecordAutoPayment
    <2>2. share \in [Invoices -> Nat]
      BY <1>1
    <2>3. \A i \in Invoices : share[i] <= room[i]
      BY <2>1 DEF InOrder
    <2>4. \A i \in Invoices : share[i] > 0 => invoice[i].status # "NONE" /\ share[i] <= Outstanding(i)
      BY <2>2, <2>3 DEF Open
    <2> QED
      BY <1>2, <2>1, <2>2, <2>4
  <1>5. ASSUME NEW i \in Invoices, RecordInvoicePayment(p, i, amount)
        PROVE  Books'
    <2>1. /\ To(i, amount) \in [Invoices -> Nat]
          /\ \A j \in Invoices : To(i, amount)[j] = IF j = i THEN amount ELSE 0
      BY <1>1 DEF To, Nothing
    <2>2. \A j \in Invoices :
            To(i, amount)[j] > 0 => invoice[j].status # "NONE" /\ To(i, amount)[j] <= Outstanding(j)
      BY <1>5, <2>1 DEF RecordInvoicePayment
    <2>3. RecordPayment(p, amount, invoice, To(i, amount), Nothing(Invoices))
      BY <1>5 DEF RecordInvoicePayment
    <2> QED
      BY <1>2, <2>1, <2>2, <2>3
  <1> QED
    BY <1>3, <1>4, <1>5

\* recover_bad_debt moves the amount from bad debt to what is paid.
LEMMA RecoverKeepsBooks ==
    ASSUME Books, NEW p \in Payments, NEW i \in Invoices, NEW amount \in Amount,
           RecoverBadDebt(p, i, amount)
    PROVE  Books'
  <1> DEFINE v == [invoice[i] EXCEPT !.written_off = @ - amount, !.recovered = @ + amount]
             rows == [invoice EXCEPT ![i] = v]
             share == To(i, amount)
  <1>1. amount \in Nat /\ amount > 0
    BY MaxAmountAssumption DEF Amount
  <1>2. invoice[i].recovered \in Int /\ invoice[i].written_off \in Int /\ invoice[i].total \in Nat
    BY SoundRow DEF Invoice
  <1>3. /\ v.written_off = invoice[i].written_off - amount
        /\ v.status = invoice[i].status /\ v.total = invoice[i].total
        /\ v.defaulted = invoice[i].defaulted
    BY SoundRow DEF Invoice
  <1>4. v \in Invoice
    <2>1. invoice[i].written_off - amount \in Int /\ invoice[i].recovered + amount \in Int
      BY <1>1, <1>2
    <2> QED
      BY <2>1, SoundRow DEF Invoice
  <1>5. RecordPayment(p, amount, rows, share, Nothing(Invoices))
    BY DEF RecoverBadDebt
  <1>6. /\ share \in [Invoices -> Nat]
        /\ \A j \in Invoices : share[j] = IF j = i THEN amount ELSE 0
    BY <1>1 DEF To, Nothing
  <1> HIDE DEF v, share
  <1>7. /\ invoice[i].status = "WRITTEN_OFF" /\ amount <= invoice[i].written_off
    BY DEF RecoverBadDebt
  <1>8. invoice[i].defaulted
    BY <1>1, <1>2, <1>7, SoundRow DEF Sound
  <1>9. Left(v, paid[i] + amount) = Left(invoice[i], paid[i])
    BY <1>1, <1>2, <1>3, SoundRow DEF Left
  <1>10. /\ v.status = "WRITTEN_OFF" /\ v.total > 0 /\ v.written_off >= 0 /\ v.defaulted
         /\ Left(v, paid[i] + amount) = 0
    BY <1>1, <1>2, <1>3, <1>7, <1>8, <1>9, SoundRow DEF Sound
  <1>11. /\ rows \in [Invoices -> Invoice]
         /\ \A j \in Invoices : rows[j] = IF j = i THEN v ELSE invoice[j]
    BY <1>4 DEF Books, RowsOK
  <1> HIDE DEF rows
  <1>12. \A j \in Invoices :
           IF share[j] > 0
           THEN /\ rows[j].status # "NONE"
                /\ rows[j].total > 0
                /\ Left(rows[j], paid[j] + share[j]) >= 0
                /\ rows[j].written_off >= 0
                /\ rows[j].defaulted =>
                     Left(rows[j], paid[j] + share[j]) = 0 /\ rows[j].status # "CANCELLED"
                /\ ~rows[j].defaulted => rows[j].written_off = 0
           ELSE rows[j] = invoice[j]
    BY <1>1, <1>6, <1>10, <1>11
  <1> QED
    BY <1>1, <1>5, <1>6, <1>11, <1>12, RecordKeepsBooks

\* The row a reversal leaves: what was paid on a defaulted invoice is bad debt again.
LEMMA UnsettledRow ==
    ASSUME Books, NEW p \in Payments, NEW i \in Invoices
    PROVE  /\ Unsettled(p, i) \in Invoice
           /\ Unsettled(p, i).status = invoice[i].status
           /\ Unsettled(p, i).total = invoice[i].total
           /\ Unsettled(p, i).defaulted = invoice[i].defaulted
           /\ Unsettled(p, i).written_off =
                IF invoice[i].defaulted THEN invoice[i].written_off + allocated[p][i]
                ELSE invoice[i].written_off
  <1> DEFINE r == invoice[i].recovered - MinOf(allocated[p][i], invoice[i].recovered)
             w == invoice[i].written_off + allocated[p][i]
             v == [invoice[i] EXCEPT !.written_off = w, !.recovered = r]
  <1>1. allocated[p][i] \in Nat
    BY DEF Books, RowsOK
  <1>2. invoice[i].recovered \in Int /\ invoice[i].written_off \in Int
    BY SoundRow DEF Invoice
  <1>3. r \in Int /\ w \in Int
    BY <1>1, <1>2 DEF MinOf
  <1>4. CASE invoice[i].defaulted
    <2>1. Unsettled(p, i) = v
      BY <1>4 DEF Unsettled
    <2> HIDE DEF r
    <2>2. /\ v \in Invoice
          /\ v.status = invoice[i].status /\ v.total = invoice[i].total
          /\ v.defaulted = invoice[i].defaulted /\ v.written_off = w
      BY <1>3, SoundRow DEF Invoice
    <2> QED
      BY <1>4, <2>1, <2>2
  <1>5. CASE ~invoice[i].defaulted
    BY <1>5, SoundRow DEF Unsettled
  <1> QED
    BY <1>4, <1>5

LEMMA ReverseKeepsBooks ==
    ASSUME Books, NEW p \in Payments, ReversePayment(p)
    PROVE  Books'
  <1> USE DEF ReversePayment
  <1>1. \A i \in Invoices : allocated[p][i] \in Nat
    BY DEF Books, RowsOK
  <1>2. payment' \in [Payments -> Payment]
    BY DEF Books, RowsOK, Payment
  <1>3. /\ allocated' \in [Payments -> [Invoices -> Nat]]
        /\ \A q \in Payments, i \in Invoices :
             allocated'[q][i] = IF q = p THEN 0 ELSE allocated[q][i]
    BY DEF Books, RowsOK, Nothing
  <1>4. paid' \in [Invoices -> Int]
    BY <1>1 DEF Books, RowsOK
  <1>5. ASSUME NEW i \in Invoices
        PROVE  /\ invoice'[i] \in Invoice
               /\ Sound(invoice'[i], paid'[i])
               /\ invoice'[i].status = "NONE" => invoice[i].status = "NONE"
    <2>1. CASE allocated[p][i] > 0
      <3> DEFINE v == Unsettled(p, i)
                 n == paid[i] - allocated[p][i]
      <3>1. invoice'[i] = Refreshed(v, n) /\ paid'[i] = n
        BY <2>1
      <3>2. n \in Int /\ v \in Invoice
        BY <1>1, SoundRow, UnsettledRow
      <3>3. invoice[i].status # "NONE"
        BY <2>1, <1>1 DEF Books, NothingBeforeIssue
      <3>4. Left(v, n) = IF invoice[i].defaulted THEN Left(invoice[i], paid[i])
                         ELSE Left(invoice[i], paid[i]) + allocated[p][i]
        BY <1>1, SoundRow, UnsettledRow DEF Left
      <3>5. Left(invoice[i], paid[i]) \in Int
        BY SoundRow DEF Left
      <3>6. /\ v.status # "NONE" /\ v.total > 0 /\ Left(v, n) >= 0 /\ v.written_off >= 0
            /\ v.defaulted => Left(v, n) = 0 /\ v.status # "CANCELLED"
            /\ ~v.defaulted => v.written_off = 0
        BY <1>1, <3>3, <3>4, <3>5, SoundRow, UnsettledRow DEF Sound
      <3> HIDE DEF v, n
      <3> QED
        BY <3>1, <3>2, <3>6, RefreshedIsSound
    <2>2. CASE ~(allocated[p][i] > 0)
      <3>1. allocated[p][i] = 0
        BY <2>2, <1>1
      <3>2. invoice'[i] = invoice[i] /\ paid'[i] = paid[i]
        BY <2>2, <3>1, SoundRow
      <3> QED
        BY <3>2, SoundRow
    <2> QED
      BY <2>1, <2>2
  <1>6. invoice' \in [Invoices -> Invoice]
    BY <1>5
  <1>7. NothingBeforeIssue'
    BY <1>3, <1>5 DEF Books, NothingBeforeIssue
  <1> QED
    BY <1>2, <1>3, <1>4, <1>5, <1>6, <1>7 DEF Books, RowsOK

LEMMA CancelKeepsBooks ==
    ASSUME Books, NEW i \in Invoices, CancelInvoice(i)
    PROVE  Books'
  <1> DEFINE v == [invoice[i] EXCEPT !.status = "CANCELLED"]
  <1>1. /\ v \in Invoice /\ v.status = "CANCELLED" /\ v.total = invoice[i].total
        /\ v.written_off = invoice[i].written_off /\ v.defaulted = invoice[i].defaulted
    BY SoundRow DEF Invoice, InvoiceStatus
  <1>2. invoice' = [invoice EXCEPT ![i] = v]
    BY DEF CancelInvoice
  <1> HIDE DEF v
  <1>3. Sound(v, paid[i])
    <2>1. invoice[i].status # "NONE" /\ ~invoice[i].defaulted
      BY DEF CancelInvoice, Payable
    <2>2. Left(v, paid[i]) = Left(invoice[i], paid[i])
      BY <1>1 DEF Left
    <2> QED
      BY <1>1, <2>1, <2>2, SoundRow DEF Sound
  <1>4. RowsOK'
    BY <1>1, <1>2 DEF Books, RowsOK, CancelInvoice
  <1>5. NothingBeforeIssue'
    BY <1>1, <1>2 DEF Books, RowsOK, NothingBeforeIssue, CancelInvoice
  <1>6. \A j \in Invoices : Sound(invoice[j], paid[j])'
    BY <1>2, <1>3 DEF Books, RowsOK, CancelInvoice
  <1> QED
    BY <1>4, <1>5, <1>6 DEF Books

\* What is outstanding when an invoice is written off becomes bad debt, all of it.
LEMMA WriteOffKeepsBooks ==
    ASSUME Books, NEW i \in Invoices, WriteOffInvoice(i)
    PROVE  Books'
  <1> DEFINE o == Outstanding(i)
             v == [invoice[i] EXCEPT !.written_off = o, !.defaulted = TRUE,
                                     !.status = "WRITTEN_OFF"]
  <1>1. o \in Int /\ o > 0 /\ o = Left(invoice[i], paid[i])
    BY SoundRow DEF WriteOffInvoice, Left
  <1>2. invoice' = [invoice EXCEPT ![i] = v]
    BY DEF WriteOffInvoice
  <1> HIDE DEF o
  <1>3. /\ v \in Invoice /\ v.status = "WRITTEN_OFF" /\ v.total = invoice[i].total
        /\ v.written_off = o /\ v.defaulted = TRUE
    BY <1>1, SoundRow DEF Invoice, InvoiceStatus
  <1> HIDE DEF v
  <1>4. invoice[i].status # "NONE" /\ invoice[i].written_off = 0
    <2>1. ~invoice[i].defaulted
      BY <1>1, SoundRow DEF Sound
    <2> QED
      BY <2>1, SoundRow DEF Sound, WriteOffInvoice, Open
  <1>5. Left(v, paid[i]) = 0
    BY <1>1, <1>3, <1>4, SoundRow DEF Left
  <1>6. Sound(v, paid[i])
    BY <1>1, <1>3, <1>4, <1>5, SoundRow DEF Sound
  <1>7. RowsOK'
    BY <1>2, <1>3 DEF Books, RowsOK, WriteOffInvoice
  <1>8. NothingBeforeIssue'
    BY <1>2, <1>3 DEF Books, RowsOK, NothingBeforeIssue, WriteOffInvoice
  <1>9. \A j \in Invoices : Sound(invoice[j], paid[j])'
    BY <1>2, <1>6 DEF Books, RowsOK, WriteOffInvoice
  <1> QED
    BY <1>7, <1>8, <1>9 DEF Books

LEMMA NextBooks == Books /\ [Next]_vars => Books'
  <1> SUFFICES ASSUME Books, [Next]_vars PROVE Books'
    OBVIOUS
  <1>1. ASSUME NEW i \in Invoices, CancelInvoice(i) PROVE Books'
    BY <1>1, CancelKeepsBooks
  <1>2. ASSUME NEW i \in Invoices, WriteOffInvoice(i) PROVE Books'
    BY <1>2, WriteOffKeepsBooks
  <1>3. ASSUME NEW i \in Invoices, NEW amount \in Amount, GenerateInvoice(i, amount) PROVE Books'
    BY <1>3, GenerateKeepsBooks
  <1>4. ASSUME NEW p \in Payments, ReversePayment(p) PROVE Books'
    BY <1>4, ReverseKeepsBooks
  <1>5. ASSUME NEW p \in Payments, NEW amount \in Amount,
               \/ RecordListedPayment(p, amount)
               \/ RecordAutoPayment(p, amount)
               \/ \E i \in Invoices : RecordInvoicePayment(p, i, amount)
        PROVE Books'
    BY <1>5, PaymentsKeepBooks
  <1>6. ASSUME NEW p \in Payments, NEW amount \in Amount, NEW i \in Invoices,
               RecoverBadDebt(p, i, amount)
        PROVE Books'
    BY <1>6, RecoverKeepsBooks
  <1>7. CASE UNCHANGED vars
    BY <1>7 DEF vars, Books, RowsOK, NothingBeforeIssue
  <1> QED
    BY <1>1, <1>2, <1>3, <1>4, <1>5, <1>6, <1>7 DEF Next

-----------------------------------------------------------------------------
LEMMA BooksHold == Spec => []Books
  <1>1. Init => Books
    BY InitBooks
  <1>2. Books /\ [Next]_vars => Books'
    BY NextBooks
  <1> QED
    BY <1>1, <1>2, PTL DEF Spec

\* No order of issuing, paying, reversing, cancelling, writing off and
\* recovering makes the payments of an invoice exceed what it asks for
\* (record_invoice_payment, record_payment_with_allocations, recover_bad_debt
\* and _apply_advance_to_invoice each bound the amount for themselves).
THEOREM InvoicesAreNeverOverpaid == Spec => []NeverOverpaid
  <1>1. Books => NeverOverpaid
    BY SoundRow DEF NeverOverpaid, Sound
  <1> QED
    BY <1>1, BooksHold, PTL

\* Once written off, an invoice has nothing outstanding ever after, and it is
\* PAID again exactly when all the bad debt has come in (write_off_invoice,
\* recover_bad_debt, reverse_payment).
THEOREM WriteOffsStaySettled == Spec => []WrittenOffIsSettled
  <1>1. ASSUME Books, NEW i \in Invoices, invoice[i].defaulted
        PROVE  /\ Outstanding(i) = 0
               /\ invoice[i].written_off >= 0
               /\ invoice[i].status = IF invoice[i].written_off > 0 THEN "WRITTEN_OFF" ELSE "PAID"
    <2>1. /\ Left(invoice[i], paid[i]) = 0 /\ invoice[i].status \notin {"NONE", "CANCELLED"}
          /\ invoice[i].written_off >= 0 /\ invoice[i].total > 0
      BY <1>1, SoundRow DEF Sound
    <2>2. /\ Outstanding(i) = Left(invoice[i], paid[i]) /\ Sound(invoice[i], paid[i])
          /\ invoice[i].total \in Nat /\ invoice[i].written_off \in Int /\ paid[i] \in Int
      BY <1>1, SoundRow
    <2>3. CASE invoice[i].written_off > 0
      BY <2>1, <2>2, <2>3 DEF Sound
    <2>4. CASE invoice[i].written_off = 0
      <3>1. paid[i] = invoice[i].total
        <4>1. invoice[i].total - paid[i] - invoice[i].written_off = 0
          BY <2>1 DEF Left
        <4>2. \A t, n, w \in Int : t - n - w = 0 /\ w = 0 => n = t
          OBVIOUS
        <4>3. invoice[i].total \in Int
          BY <2>2
        <4> QED
          BY <4>1, <4>2, <4>3, <2>2, <2>4
      <3>2. invoice[i].status = "PAID"
        BY <2>1, <2>2, <2>4, <3>1 DEF Sound
      <3> QED
        BY <2>1, <2>2, <2>4, <3>2
    <2> QED
      BY <2>1, <2>2, <2>3, <2>4
  <1>2. Books => WrittenOffIsSettled
    BY <1>1 DEF WrittenOffIsSettled
  <1> QED
    BY <1>2, BooksHold, PTL

\* The stored status is the one the amounts ask for after every operation: none
\* of them forgets to call _refresh_invoice_status, or calls it too early.
THEOREM StatusIsNeverStale == Spec => []StatusFollowsMoney
  <1>1. ASSUME Books, NEW i \in Invoices, Payable(i)
        PROVE  Refreshed(invoice[i], paid[i]) = invoice[i]
    <2> DEFINE v == invoice[i]
    <2>1. /\ v.status \notin {"NONE", "CANCELLED"} /\ v.written_off \in Int /\ v.written_off >= 0
          /\ v.total \in Nat /\ v.total > 0 /\ paid[i] \in Int /\ Sound(v, paid[i]) /\ v \in Invoice
      BY <1>1, SoundRow DEF Payable, Sound
    <2> DEFINE n == paid[i]
    <2>2. /\ v.written_off > 0 => v.status = "WRITTEN_OFF"
          /\ v.written_off = 0 /\ n <= 0 => v.status = "UNPAID"
          /\ v.written_off = 0 /\ n > 0 /\ n < v.total => v.status = "PARTIALLY_PAID"
          /\ v.written_off = 0 /\ n > 0 /\ n >= v.total => v.status = "PAID"
      BY <2>1 DEF Sound
    <2>3. /\ v.written_off > 0 => Refreshed(v, n).status = "WRITTEN_OFF"
          /\ v.written_off <= 0 /\ n <= 0 => Refreshed(v, n).status = "UNPAID"
          /\ v.written_off <= 0 /\ n > 0 /\ n < v.total =>
               Refreshed(v, n).status = "PARTIALLY_PAID"
          /\ v.written_off <= 0 /\ n > 0 /\ n >= v.total => Refreshed(v, n).status = "PAID"
      BY <2>1, RefreshedRow
    <2>4. Refreshed(v, paid[i]).status = v.status
      <3> HIDE DEF v, n
      <3>1. Refreshed(v, n).status = v.status
        <4>1. v.written_off \in Int /\ v.total \in Nat /\ n \in Int /\ v.written_off >= 0
          BY <2>1 DEF v, n
        <4> QED
          BY <4>1, <2>2, <2>3
      <3> QED
        BY <3>1 DEF n
    <2>5. Refreshed(v, paid[i]) = [v EXCEPT !.status = Refreshed(v, paid[i]).status]
      BY <2>1, RefreshedRow DEF Refreshed, Invoice
    <2> HIDE DEF v
    <2>6. [v EXCEPT !.status = v.status] = v
      BY <2>1 DEF Invoice
    <2> QED
      BY <2>4, <2>5, <2>6 DEF v
  <1>2. Books => StatusFollowsMoney
    BY <1>1 DEF StatusFollowsMoney
  <1> QED
    BY <1>2, BooksHold, PTL

-----------------------------------------------------------------------------
(* The sums of the allocations. *)

\* What each payment has allocated to an invoice.
PaidBy(i) == [p \in Payments |-> allocated[p][i]]

Allocations ==
    /\ PaymentsAreNotOverspent
    /\ \A p \in Payments : ~Recorded(p) => ~payment[p].reversed
    /\ \A i \in Invoices : paid[i] = SumFunction(PaidBy(i))

\* What is recovered was paid; nothing is recovered of what was not written off.
Recoveries ==
    \A i \in Invoices : /\ 0 <= invoice[i].recovered /\ invoice[i].recovered <= paid[i]
                        /\ ~invoice[i].defaulted => invoice[i].recovered = 0

\* What is known of one allocation.
LEMMA AllocationRow ==
    ASSUME Books, Allocations, NEW p \in Payments, NEW i \in Invoices
    PROVE  /\ allocated[p] \in [Invoices -> Nat] /\ allocated[p][i] \in Nat
           /\ payment[p].amount \in Nat /\ payment[p].reversed \in BOOLEAN
           /\ SumFunction(allocated[p]) \in Nat /\ allocated[p][i] <= SumFunction(allocated[p])
           /\ SumFunction(allocated[p]) <= IF Active(p) THEN payment[p].amount ELSE 0
           /\ ~Active(p) => allocated[p][i] = 0
           /\ PaidBy(i) \in [Payments -> Nat] /\ PaidBy(i)[p] = allocated[p][i]
           /\ paid[i] = SumFunction(PaidBy(i)) /\ paid[i] \in Nat /\ allocated[p][i] <= paid[i]
  <1>1. /\ allocated \in [Payments -> [Invoices -> Nat]]
        /\ payment[p].amount \in Nat /\ payment[p].reversed \in BOOLEAN
    BY DEF Books, RowsOK, Payment
  <1>2. SumFunction(allocated[p]) \in Nat /\ allocated[p][i] <= SumFunction(allocated[p])
    BY <1>1, InvoicesAssumption, SumOfAmounts
  <1>3. SumFunction(allocated[p]) <= IF Active(p) THEN payment[p].amount ELSE 0
    BY DEF Allocations, PaymentsAreNotOverspent
  <1>4. PaidBy(i) \in [Payments -> Nat] /\ PaidBy(i)[p] = allocated[p][i]
    BY <1>1 DEF PaidBy
  <1>5. SumFunction(PaidBy(i)) \in Nat /\ PaidBy(i)[p] <= SumFunction(PaidBy(i))
    BY <1>4, PaymentsAssumption, SumOfAmounts
  <1>6. paid[i] = SumFunction(PaidBy(i))
    BY DEF Allocations
  <1>7. allocated[p] \in [Invoices -> Nat] /\ allocated[p][i] \in Nat
    BY <1>1
  <1>8. ~Active(p) => allocated[p][i] = 0
    BY <1>2, <1>3, <1>7
  <1> QED
    BY <1>1, <1>2, <1>3, <1>4, <1>5, <1>6, <1>7, <1>8

\* One payment more or less, or its allocations: the sums follow.
LEMMA OnePaymentChanges ==
    ASSUME Books, Allocations, Books', NEW p \in Payments,
           \A q \in Payments : q # p => allocated'[q] = allocated[q] /\ payment'[q] = payment[q],
           SumFunction(allocated'[p]) <= IF Active(p)' THEN payment'[p].amount ELSE 0,
           ~Recorded(p)' => ~payment'[p].reversed,
           \A i \in Invoices : paid'[i] = paid[i] + (allocated'[p][i] - allocated[p][i])
    PROVE  Allocations'
  <1>1. PaymentsAreNotOverspent'
    <2>1. ASSUME NEW q \in Payments
          PROVE  SumFunction(allocated'[q]) <= IF Active(q)' THEN payment'[q].amount ELSE 0
      <3>1. CASE q = p
        BY <3>1
      <3>2. CASE q # p
        BY <3>2 DEF Allocations, PaymentsAreNotOverspent, Active, Recorded
      <3> QED
        BY <3>1, <3>2
    <2> QED
      BY <2>1 DEF PaymentsAreNotOverspent
  <1>2. \A q \in Payments : ~Recorded(q)' => ~payment'[q].reversed
    BY DEF Allocations, Recorded
  <1>3. ASSUME NEW i \in Invoices PROVE paid'[i] = SumFunction(PaidBy(i)')
    <2>1. PICK f, g : f = PaidBy(i) /\ g = PaidBy(i)'
      OBVIOUS
    <2>2. f \in [Payments -> Nat] /\ g \in [Payments -> Nat]
      BY <2>1 DEF PaidBy, Books, RowsOK
    <2>3. /\ f[p] = allocated[p][i] /\ g[p] = allocated'[p][i]
          /\ \A q \in Payments : q # p => g[q] = f[q]
      BY <2>1 DEF PaidBy
    <2>4. f \in [Payments -> Int] /\ g \in [Payments -> Int]
      BY <2>2
    <2>5. IsFiniteSet(Payments) /\ \A q \in Payments : q # p => g[q] = f[q]
      BY <2>3, PaymentsAssumption
    <2>6. SumFunction(g) = SumFunction(f) + (g[p] - f[p])
      BY <2>4, <2>5, SumChanges
    <2> QED
      BY <2>1, <2>3, <2>6 DEF Allocations
  <1> QED
    BY <1>1, <1>2, <1>3 DEF Allocations

\* A new payment allocates its share and no more than its amount.
LEMMA RecordKeepsAllocations ==
    ASSUME Books, Allocations, Books',
           NEW p \in Payments, NEW amount \in Nat, NEW rows,
           NEW share \in [Invoices -> Nat], NEW extra,
           SumFunction(share) <= amount, amount > 0,
           RecordPayment(p, amount, rows, share, extra)
    PROVE  Allocations'
  <1> USE DEF RecordPayment
  <1>1. /\ allocated' = [allocated EXCEPT ![p] = share]
        /\ payment' = [payment EXCEPT ![p].amount = amount]
    OBVIOUS
  <1>2. /\ allocated'[p] = share /\ payment'[p].amount = amount
        /\ payment'[p].reversed = payment[p].reversed
        /\ \A q \in Payments : q # p => allocated'[q] = allocated[q] /\ payment'[q] = payment[q]
    BY <1>1 DEF Books, RowsOK, Payment
  <1>3. ~Recorded(p) /\ ~payment[p].reversed /\ ~Active(p)
    BY DEF Allocations, Active
  <1>4. Active(p)' /\ Recorded(p)'
    BY <1>2, <1>3 DEF Active, Recorded
  <1>5. SumFunction(allocated'[p]) <= IF Active(p)' THEN payment'[p].amount ELSE 0
    BY <1>2, <1>4
  <1>6. \A i \in Invoices : paid'[i] = paid[i] + (allocated'[p][i] - allocated[p][i])
    <2>1. ASSUME NEW i \in Invoices
          PROVE  paid'[i] = paid[i] + (allocated'[p][i] - allocated[p][i])
      <3>1. allocated[p][i] = 0
        BY <1>3, AllocationRow
      <3>2. paid'[i] = paid[i] + share[i] /\ share[i] \in Nat /\ allocated'[p][i] = share[i]
        BY <1>2
      <3> QED
        BY <3>1, <3>2
    <2> QED
      BY <2>1
  <1>7. ~Recorded(p)' => ~payment'[p].reversed
    BY <1>4
  <1> QED
    BY <1>2, <1>5, <1>6, <1>7, OnePaymentChanges, Zenon

\* A reversal takes all allocations of its payment back.
LEMMA ReverseKeepsAllocations ==
    ASSUME Books, Allocations, Books', NEW p \in Payments, ReversePayment(p)
    PROVE  Allocations'
  <1> USE DEF ReversePayment
  <1>1. PICK none : none = Nothing(Invoices)
    OBVIOUS
  <1>2. /\ allocated'[p] = none /\ payment'[p].amount = payment[p].amount
        /\ payment'[p].reversed = TRUE
        /\ \A q \in Payments : q # p => allocated'[q] = allocated[q] /\ payment'[q] = payment[q]
    BY <1>1 DEF Books, RowsOK, Payment
  <1>3. none \in [Invoices -> Int] /\ \A i \in Invoices : none[i] = 0
    BY <1>1 DEF Nothing
  <1>4. IsFiniteSet(Invoices)
    BY InvoicesAssumption
  <1>5. SumFunction(none) = 0
    BY <1>3, <1>4, SumOfNone
  <1>6. Recorded(p)' /\ ~Active(p)'
    BY <1>2 DEF Active, Recorded
  <1>7. SumFunction(allocated'[p]) <= IF Active(p)' THEN payment'[p].amount ELSE 0
    BY <1>2, <1>5, <1>6
  <1>8. \A i \in Invoices : paid'[i] = paid[i] + (allocated'[p][i] - allocated[p][i])
    <2>1. ASSUME NEW i \in Invoices
          PROVE  paid'[i] = paid[i] + (allocated'[p][i] - allocated[p][i])
      <3>1. allocated[p][i] \in Nat /\ paid[i] \in Nat
        BY AllocationRow
      <3>2. paid'[i] = paid[i] - allocated[p][i] /\ allocated'[p][i] = 0
        BY <1>2, <1>3
      <3> QED
        BY <3>1, <3>2
    <2> QED
      BY <2>1
  <1>9. ~Recorded(p)' => ~payment'[p].reversed
    BY <1>6
  <1> QED
    BY <1>2, <1>7, <1>8, <1>9, OnePaymentChanges, Zenon

\* What a new invoice takes of the advance of each payment.
Takes(i, total, share) ==
    /\ invoice[i].status = "NONE"
    /\ share \in [Payments -> Money]
    /\ InOrder(share, AdvanceRoom, total)
    /\ allocated' = [p \in Payments |-> [allocated[p] EXCEPT ![i] = share[p]]]
    /\ paid' = [paid EXCEPT ![i] = SumFunction(share)]
    /\ invoice' = [invoice EXCEPT ![i] = Refreshed(Issued(total), SumFunction(share))]
    /\ payment' = payment

LEMMA GenerateRows ==
    ASSUME Books, Allocations, NEW i \in Invoices, NEW total, NEW share,
           Takes(i, total, share), NEW q \in Payments
    PROVE  /\ allocated[q][i] = 0 /\ allocated'[q][i] = share[q] /\ share[q] \in Nat
           /\ \A j \in Invoices : j # i => allocated'[q][j] = allocated[q][j]
           /\ SumFunction(allocated'[q]) = SumFunction(allocated[q]) + share[q]
           /\ share[q] <= Unallocated(q)
           /\ ~Active(q) => share[q] = 0
  <1> USE DEF Takes
  <1>1. allocated[q] \in [Invoices -> Nat] /\ allocated[q][i] = 0 /\ share[q] \in Nat
    BY MaxAmountAssumption DEF Books, RowsOK, NothingBeforeIssue, Money
  <1>2. PICK f, g : f = allocated[q] /\ g = allocated'[q]
    OBVIOUS
  <1>3. g = [f EXCEPT ![i] = share[q]]
    BY <1>2
  <1>4. /\ f \in [Invoices -> Int] /\ g \in [Invoices -> Int]
        /\ \A j \in Invoices : j # i => g[j] = f[j]
        /\ f[i] = 0 /\ g[i] = share[q]
    BY <1>1, <1>2, <1>3
  <1>5. IsFiniteSet(Invoices)
    BY InvoicesAssumption
  <1>6. SumFunction(g) = SumFunction(f) + (g[i] - f[i])
    BY <1>4, <1>5, SumChanges, Zenon
  <1>7. share[q] <= Unallocated(q)
    BY DEF InOrder, AdvanceRoom
  <1>8. ~Active(q) => share[q] = 0
    BY <1>1, <1>7 DEF Unallocated
  <1> QED
    BY <1>1, <1>2, <1>4, <1>6, <1>7, <1>8

\* A new invoice is paid what it takes of the advances.
LEMMA GenerateKeepsAllocations ==
    ASSUME Books, Allocations, Books', NEW i \in Invoices, NEW total \in Amount,
           GenerateInvoice(i, total)
    PROVE  Allocations'
  <1>1. PICK share : Takes(i, total, share)
    BY DEF GenerateInvoice, Takes
  <1>2. /\ allocated' = [p \in Payments |-> [allocated[p] EXCEPT ![i] = share[p]]]
        /\ paid' = [paid EXCEPT ![i] = SumFunction(share)]
        /\ share \in [Payments -> Money]
    BY <1>1 DEF Takes
  <1>3. payment' = payment
    BY <1>1 DEF Takes
  <1>4. ASSUME NEW q \in Payments
        PROVE  SumFunction(allocated'[q]) <= IF Active(q)' THEN payment'[q].amount ELSE 0
    <2>1. /\ SumFunction(allocated'[q]) = SumFunction(allocated[q]) + share[q]
          /\ share[q] <= Unallocated(q) /\ share[q] \in Nat
          /\ ~Active(q) => share[q] = 0
      BY <1>1, GenerateRows
    <2>2. SumFunction(allocated[q]) \in Nat /\ payment[q].amount \in Nat
          /\ SumFunction(allocated[q]) <= IF Active(q) THEN payment[q].amount ELSE 0
      BY AllocationRow
    <2>3. Active(q)' <=> Active(q)
      BY <1>3 DEF Active, Recorded
    <2>4. PICK s : s = SumFunction(allocated[q])
      OBVIOUS
    <2>5. Active(q) => share[q] <= payment[q].amount - s
      BY <2>1, <2>4 DEF Unallocated
    <2> QED
      BY <1>3, <2>1, <2>2, <2>3, <2>4, <2>5
  <1>5. ASSUME NEW j \in Invoices PROVE paid'[j] = SumFunction(PaidBy(j)')
    <2>1. CASE j = i
      <3>1. PICK f : f = PaidBy(i)'
        OBVIOUS
      <3>2. f = [q \in Payments |-> share[q]]
        BY <1>2, <3>1 DEF PaidBy, Books, RowsOK
      <3>3. f = share
        BY <1>2, <3>2
      <3> QED
        BY <1>2, <2>1, <3>1, <3>3 DEF Books, RowsOK
    <2>2. CASE j # i
      <3>1. PaidBy(j)' = PaidBy(j)
        BY <1>2, <2>2 DEF PaidBy, Books, RowsOK
      <3> QED
        BY <1>2, <2>2, <3>1 DEF Allocations, Books, RowsOK
    <2> QED
      BY <2>1, <2>2
  <1>6. \A q \in Payments : ~Recorded(q)' => ~payment'[q].reversed
    BY <1>3 DEF Allocations, Recorded
  <1> QED
    BY <1>4, <1>5, <1>6 DEF Allocations, PaymentsAreNotOverspent

-----------------------------------------------------------------------------
(* The rows that are only read, the accounts, and what is recovered. *)

\* Whatever records a payment: the rows the caller leaves say what was recovered.
LEMMA RecordKeepsRecoveries ==
    ASSUME Books, Allocations, Recoveries,
           NEW p \in Payments, NEW amount, NEW rows \in [Invoices -> Invoice],
           NEW share \in [Invoices -> Nat], NEW extra,
           \A i \in Invoices : /\ 0 <= rows[i].recovered /\ rows[i].recovered <= paid[i] + share[i]
                               /\ ~rows[i].defaulted => rows[i].recovered = 0,
           RecordPayment(p, amount, rows, share, extra)
    PROVE  Recoveries'
  <1>1. ASSUME NEW i \in Invoices
        PROVE  /\ 0 <= invoice'[i].recovered /\ invoice'[i].recovered <= paid'[i]
               /\ ~invoice'[i].defaulted => invoice'[i].recovered = 0
    <2>1. /\ rows[i] \in Invoice /\ paid[i] + share[i] \in Int
          /\ paid'[i] = paid[i] + share[i]
          /\ invoice'[i] = IF share[i] > 0 THEN Refreshed(rows[i], paid[i] + share[i]) ELSE rows[i]
      BY AllocationRow DEF RecordPayment
    <2>2. invoice'[i].recovered = rows[i].recovered /\ invoice'[i].defaulted = rows[i].defaulted
      BY <2>1, RefreshedRow
    <2> QED
      BY <2>1, <2>2
  <1> QED
    BY <1>1 DEF Recoveries

\* A reversal takes no more from what is recovered than it takes from what is paid.
LEMMA ReverseKeepsRecoveries ==
    ASSUME Books, Allocations, Recoveries, NEW p \in Payments, ReversePayment(p)
    PROVE  Recoveries'
  <1>1. ASSUME NEW i \in Invoices
        PROVE  /\ 0 <= invoice'[i].recovered /\ invoice'[i].recovered <= paid'[i]
               /\ ~invoice'[i].defaulted => invoice'[i].recovered = 0
    <2>1. /\ allocated[p][i] \in Nat /\ paid[i] \in Nat /\ allocated[p][i] <= paid[i]
          /\ invoice[i] \in Invoice /\ invoice[i].recovered \in Int
      BY AllocationRow, SoundRow DEF Invoice
    <2>2. /\ 0 <= invoice[i].recovered /\ invoice[i].recovered <= paid[i]
          /\ ~invoice[i].defaulted => invoice[i].recovered = 0
      BY DEF Recoveries
    <2>3. /\ paid'[i] = paid[i] - allocated[p][i]
          /\ invoice'[i] = IF allocated[p][i] > 0
                           THEN Refreshed(Unsettled(p, i), paid[i] - allocated[p][i])
                           ELSE invoice[i]
      BY DEF ReversePayment
    <2>4. PICK a, r : a = allocated[p][i] /\ r = invoice[i].recovered
      OBVIOUS
    <2>5. Unsettled(p, i).recovered = IF invoice[i].defaulted THEN r - MinOf(a, r) ELSE r
      BY <2>1, <2>4 DEF Unsettled, Invoice
    <2>6. Unsettled(p, i) \in Invoice /\ Unsettled(p, i).defaulted = invoice[i].defaulted
      BY UnsettledRow
    <2>7. paid[i] - allocated[p][i] \in Int
      BY <2>1
    <2>8. CASE a > 0
      <3>1. /\ invoice'[i].recovered = Unsettled(p, i).recovered
            /\ invoice'[i].defaulted = invoice[i].defaulted
        BY <2>3, <2>4, <2>6, <2>7, <2>8, RefreshedRow
      <3> QED
        BY <2>1, <2>2, <2>3, <2>4, <2>5, <3>1 DEF MinOf
    <2>9. CASE ~(a > 0)
      BY <2>1, <2>2, <2>3, <2>4, <2>9
    <2> QED
      BY <2>8, <2>9
  <1> QED
    BY <1>1 DEF Recoveries

Balances ==
    /\ receivable \in Int
    /\ badDebt \in Int
    /\ unbooked \in [receivable : Int, badDebt : Int]
    /\ failures \in 0 .. MaxFailures

\* The rows that say what is listed again, and the accounts.
Entries == (repeated \in [Payments -> [Invoices -> Nat]]) /\ Balances

\* What the accounts would show had every entry been made.
Receivable == receivable + unbooked.receivable
BadDebt == badDebt + unbooked.badDebt

\* A step that was to add ar and bd to the two accounts.
Grows(ar, bd) ==
    /\ Balances'
    /\ Receivable' = Receivable + ar
    /\ BadDebt' = BadDebt + bd

LEMMA BookGrows ==
    ASSUME Balances, NEW a \in Int, NEW b \in Int, NEW ar \in Int, NEW bd \in Int, NEW n \in Nat,
           Fail(n), Book(Entry(a, b), Entry(ar, bd))
    PROVE  Grows(ar, bd)
  <1>1. /\ receivable' = receivable + a /\ badDebt' = badDebt + b
        /\ unbooked'.receivable = unbooked.receivable + ar - a
        /\ unbooked'.badDebt = unbooked.badDebt + bd - b
        /\ unbooked' = Entry(unbooked.receivable + ar - a, unbooked.badDebt + bd - b)
    BY DEF Book, Entry
  <1>2. /\ receivable \in Int /\ badDebt \in Int
        /\ unbooked.receivable \in Int /\ unbooked.badDebt \in Int
    BY DEF Balances
  <1>3. failures' \in 0 .. MaxFailures
    BY MaxFailuresAssumption DEF Fail, Balances
  <1>4. Balances'
    BY <1>1, <1>2, <1>3 DEF Balances, Entry
  <1> QED
    BY <1>1, <1>2, <1>4 DEF Grows, Receivable, BadDebt

\* Whether the hook makes its entry or fails, the step is accounted for.
LEMMA PostGrows ==
    ASSUME Balances, NEW ar \in Int, NEW bd \in Int, Post(Entry(ar, bd))
    PROVE  Grows(ar, bd)
  <1>1. CASE Fail(0) /\ Book(Entry(ar, bd), Entry(ar, bd))
    BY <1>1, BookGrows
  <1>2. CASE Fail(1) /\ Book(Entry(0, 0), Entry(ar, bd))
    BY <1>2, BookGrows
  <1> QED
    BY <1>1, <1>2 DEF Post, NoEntry

LEMMA PostBothGrows ==
    ASSUME Balances, NEW a \in Int, NEW b \in Int, NEW c \in Int, NEW d \in Int,
           NEW ar \in Int, NEW bd \in Int,
           PostBoth(Entry(a, b), Entry(c, d), Entry(ar, bd))
    PROVE  Grows(ar, bd)
  <1>1. CASE Fail(0) /\ Book(Plus(Entry(a, b), Entry(c, d)), Entry(ar, bd))
    <2>1. Plus(Entry(a, b), Entry(c, d)) = Entry(a + c, b + d)
      BY DEF Plus, Entry
    <2>2. a + c \in Int /\ b + d \in Int
      OBVIOUS
    <2>3. Book(Entry(a + c, b + d), Entry(ar, bd))
      BY <1>1, <2>1
    <2> QED
      BY <1>1, <2>2, <2>3, BookGrows
  <1>2. CASE Fail(1) /\ Book(Entry(a, b), Entry(ar, bd))
    BY <1>2, BookGrows
  <1>3. CASE Fail(1) /\ Book(Entry(c, d), Entry(ar, bd))
    BY <1>3, BookGrows
  <1>4. CASE Fail(2) /\ Book(Entry(0, 0), Entry(ar, bd))
    BY <1>4, BookGrows
  <1> QED
    BY <1>1, <1>2, <1>3, <1>4 DEF PostBoth, NoEntry

\* What the reversal of p puts back to bad debt, and what of it is posted.
LEMMA WrittenBackIsInt ==
    ASSUME Books, Entries, NEW p \in Payments
    PROVE  WrittenBack(p) \in Int /\ Merged(p) \in Int
  <1>1. PICK f, g :
          /\ f = [i \in Invoices |-> IF invoice[i].defaulted THEN allocated[p][i] ELSE 0]
          /\ g = [i \in Invoices |-> IF invoice[i].defaulted THEN repeated[p][i] ELSE 0]
    OBVIOUS
  <1>2. f \in [Invoices -> Int] /\ g \in [Invoices -> Int] /\ IsFiniteSet(Invoices)
    BY <1>1, InvoicesAssumption DEF Books, RowsOK, Entries
  <1>3. SumFunction(f) \in Int /\ SumFunction(g) \in Int
    BY <1>2, SumIsInt
  <1> QED
    BY <1>1, <1>3 DEF WrittenBack, Merged

LEMMA ReverseGrows ==
    ASSUME Books, Entries, NEW p \in Payments, ReversePayment(p)
    PROVE  Grows(payment[p].amount - WrittenBack(p), WrittenBack(p))
  <1>1. PICK m, w, z : m = payment[p].amount /\ w = WrittenBack(p) /\ z = Merged(p)
    OBVIOUS
  <1>2. m \in Int /\ w \in Int /\ z \in Int
    BY <1>1, WrittenBackIsInt DEF Books, RowsOK, Payment
  <1>3. Plus(Entry(m, 0), Entry(-w, w)) = Entry(m - w, w)
    BY <1>2 DEF Plus, Entry
  <1>4. PostBoth(Entry(m, 0), Entry(-(w - z), w - z), Entry(m - w, w))
    BY <1>1, <1>3 DEF ReversePayment
  <1>5. /\ -(w - z) \in Int /\ w - z \in Int /\ m - w \in Int /\ 0 \in Int
        /\ Balances
    BY <1>2 DEF Entries
  <1>6. Grows(m - w, w)
    BY <1>2, <1>4, <1>5, PostBothGrows
  <1> QED
    BY <1>1, <1>6

Accounts == Books /\ Entries /\ Allocations /\ Recoveries

LEMMA InitAccounts == Init => Accounts
  <1> SUFFICES ASSUME Init PROVE Accounts
    OBVIOUS
  <1>1. Books
    BY InitBooks
  <1>2. /\ \A p \in Payments : payment[p] = NoPayment /\ allocated[p] = Nothing(Invoices)
        /\ \A i \in Invoices : invoice[i] = NoInvoice /\ paid[i] = 0
    BY DEF Init, Nothing
  <1>3. Entries
    BY MaxFailuresAssumption DEF Init, Entries, Balances, NoEntry, Entry, Nothing
  <1>4. Recoveries
    BY <1>2 DEF Recoveries, NoInvoice
  <1>5. \A p \in Payments : ~Recorded(p) /\ ~Active(p) /\ ~payment[p].reversed
    BY <1>2 DEF Recorded, Active, NoPayment
  <1>6. PICK none : none = Nothing(Invoices)
    OBVIOUS
  <1>7. SumFunction(none) = 0
    <2>1. none \in [Invoices -> Int] /\ \A i \in Invoices : none[i] = 0
      BY <1>6 DEF Nothing
    <2>2. IsFiniteSet(Invoices)
      BY InvoicesAssumption
    <2> QED
      BY <2>1, <2>2, SumOfNone
  <1>8. PaymentsAreNotOverspent
    BY <1>2, <1>5, <1>6, <1>7 DEF PaymentsAreNotOverspent
  <1>9. ASSUME NEW i \in Invoices PROVE paid[i] = SumFunction(PaidBy(i))
    <2>1. PICK f : f = PaidBy(i)
      OBVIOUS
    <2>2. f \in [Payments -> Int] /\ \A p \in Payments : f[p] = 0
      BY <1>2, <2>1 DEF PaidBy, Nothing
    <2>3. IsFiniteSet(Payments)
      BY PaymentsAssumption
    <2>4. SumFunction(f) = 0
      BY <2>2, <2>3, SumOfNone
    <2> QED
      BY <1>2, <2>1, <2>4
  <1> QED
    BY <1>1, <1>3, <1>4, <1>5, <1>8, <1>9 DEF Accounts, Allocations

LEMMA GenerateKeepsAccounts ==
    ASSUME Accounts, NEW i \in Invoices, NEW total \in Amount, GenerateInvoice(i, total)
    PROVE  Accounts'
  <1>1. Books'
    BY GenerateKeepsBooks DEF Accounts
  <1>2. Allocations'
    BY <1>1, GenerateKeepsAllocations DEF Accounts
  <1>3. total \in Int
    BY DEF Amount
  <1>4. Entries'
    <2>1. Balances /\ Post(Entry(total, 0)) /\ 0 \in Int
      BY DEF Accounts, Entries, GenerateInvoice
    <2>2. Grows(total, 0)
      BY <1>3, <2>1, PostGrows
    <2> QED
      BY <2>2 DEF Accounts, Entries, GenerateInvoice, Grows
  <1>5. PICK share : Takes(i, total, share)
    BY DEF GenerateInvoice, Takes
  <1>6. SumFunction(share) \in 0 .. total
    BY <1>5 DEF Takes, InOrder
  <1>7. PICK n : n = SumFunction(share)
    OBVIOUS
  <1>8. /\ invoice' = [invoice EXCEPT ![i] = Refreshed(Issued(total), n)]
        /\ paid' = [paid EXCEPT ![i] = n]
    BY <1>5, <1>7 DEF Takes
  <1>9. /\ Issued(total) \in Invoice /\ Issued(total).recovered = 0
        /\ Issued(total).defaulted = FALSE
    BY MaxAmountAssumption DEF Amount, Issued, Invoice, InvoiceStatus, Open
  <1>10. n \in Int /\ n >= 0
    BY <1>3, <1>6, <1>7
  <1>11. /\ Refreshed(Issued(total), n).recovered = 0
         /\ Refreshed(Issued(total), n).defaulted = FALSE
    BY <1>9, <1>10, RefreshedRow
  <1>12. Recoveries'
    BY <1>8, <1>10, <1>11 DEF Accounts, Recoveries, Books, RowsOK
  <1> QED
    BY <1>1, <1>2, <1>4, <1>12 DEF Accounts

\* The three ways to pay what is outstanding: of the amount a share goes to
\* invoices that exist, and all of it is to be taken off the receivable.
Pays(p, amount, share, extra) ==
    /\ share \in [Invoices -> Nat]
    /\ extra \in [Invoices -> Nat]
    /\ SumFunction(share) <= amount
    /\ \A i \in Invoices : share[i] > 0 => invoice[i].status # "NONE"
    /\ RecordPayment(p, amount, invoice, share, extra)
    /\ Post(Entry(-amount, 0))

\* All of the amount goes to one invoice.
LEMMA ToOne ==
    ASSUME NEW i \in Invoices, NEW amount \in Nat
    PROVE  /\ To(i, amount) \in [Invoices -> Nat]
           /\ \A j \in Invoices : To(i, amount)[j] = IF j = i THEN amount ELSE 0
           /\ SumFunction(To(i, amount)) = amount
  <1>1. PICK f : f = To(i, amount)
    OBVIOUS
  <1>2. f \in [Invoices -> Nat] /\ \A j \in Invoices : f[j] = IF j = i THEN amount ELSE 0
    BY <1>1 DEF To, Nothing
  <1>3. f \in [Invoices -> Int] /\ (\A j \in Invoices : j # i => f[j] = 0) /\ IsFiniteSet(Invoices)
    BY <1>2, InvoicesAssumption
  <1>4. SumFunction(f) = f[i]
    BY <1>3, SumOfOne
  <1> QED
    BY <1>1, <1>2, <1>4

LEMMA PaymentRows ==
    ASSUME NEW p \in Payments, NEW amount \in Amount,
           \/ RecordListedPayment(p, amount)
           \/ RecordAutoPayment(p, amount)
           \/ \E i \in Invoices : RecordInvoicePayment(p, i, amount)
    PROVE  \E share, extra : Pays(p, amount, share, extra)
  <1>1. amount \in Nat /\ Money \subseteq Nat
    BY MaxAmountAssumption DEF Amount, Money
  <1>2. /\ Nothing(Invoices) \in [Invoices -> Nat]
        /\ \A i \in Invoices : Nothing(Invoices)[i] = 0
    BY DEF Nothing
  <1>3. CASE RecordListedPayment(p, amount)
    <2>1. PICK share \in [Invoices -> Money], extra \in [Invoices -> IF SplitLines THEN Money ELSE {0}] :
            /\ \A i \in Invoices : share[i] > 0 => Payable(i) /\ share[i] <= Outstanding(i)
            /\ SumFunction(share) \in 1 .. amount
            /\ RecordPayment(p, amount, invoice, share, extra)
            /\ Post(Entry(-amount, 0))
      BY <1>3 DEF RecordListedPayment
    <2>2. share \in [Invoices -> Nat]
      BY <1>1
    <2>3. extra \in [Invoices -> Nat]
      <3>1. (IF SplitLines THEN Money ELSE {0}) \subseteq Nat
        BY <1>1
      <3> QED
        BY <3>1
    <2>4. SumFunction(share) <= amount
      BY <1>1, <2>1
    <2>5. Pays(p, amount, share, extra)
      BY <2>1, <2>2, <2>3, <2>4 DEF Pays, Payable
    <2> QED
      BY <2>5
  <1>4. CASE RecordAutoPayment(p, amount)
    <2> DEFINE room == [i \in Invoices |-> IF invoice[i].status \in Open THEN Outstanding(i) ELSE 0]
    <2>1. PICK share \in [Invoices -> Money] :
            /\ InOrder(share, room, amount)
            /\ RecordPayment(p, amount, invoice, share, Nothing(Invoices))
            /\ Post(Entry(-amount, 0))
      BY <1>4 DEF RecordAutoPayment
    <2>2. share \in [Invoices -> Nat]
      BY <1>1
    <2>3. (\A i \in Invoices : share[i] <= room[i]) /\ SumFunction(share) \in 0 .. amount
      BY <2>1 DEF InOrder
    <2>4. \A i \in Invoices : share[i] > 0 => invoice[i].status # "NONE"
      BY <2>2, <2>3 DEF Open
    <2>5. SumFunction(share) <= amount
      BY <1>1, <2>3
    <2>6. Pays(p, amount, share, Nothing(Invoices))
      BY <1>2, <2>1, <2>2, <2>4, <2>5 DEF Pays
    <2> QED
      BY <2>6
  <1>5. ASSUME NEW i \in Invoices, RecordInvoicePayment(p, i, amount)
        PROVE  \E share, extra : Pays(p, amount, share, extra)
    <2>1. /\ To(i, amount) \in [Invoices -> Nat]
          /\ \A j \in Invoices : To(i, amount)[j] = IF j = i THEN amount ELSE 0
          /\ SumFunction(To(i, amount)) <= amount
      BY <1>1, ToOne
    <2>2. \A j \in Invoices : To(i, amount)[j] > 0 => invoice[j].status # "NONE"
      BY <1>5, <2>1 DEF RecordInvoicePayment
    <2>3. Pays(p, amount, To(i, amount), Nothing(Invoices))
      BY <1>2, <1>5, <2>1, <2>2 DEF Pays, RecordInvoicePayment
    <2> QED
      BY <2>3
  <1> QED
    BY <1>3, <1>4, <1>5

LEMMA PaysGrows ==
    ASSUME Entries, NEW p, NEW amount \in Amount, NEW share, NEW extra,
           Pays(p, amount, share, extra)
    PROVE  Grows(-amount, 0)
  <1>1. -amount \in Int /\ 0 \in Int
    BY DEF Amount
  <1>2. Balances /\ Post(Entry(-amount, 0))
    BY DEF Entries, Pays
  <1> QED
    BY <1>1, <1>2, PostGrows

LEMMA PaymentsKeepAccounts ==
    ASSUME Accounts, Books', NEW p \in Payments, NEW amount \in Amount, NEW share, NEW extra,
           Pays(p, amount, share, extra)
    PROVE  Accounts'
  <1> USE DEF Pays
  <1>1. amount \in Nat /\ amount > 0
    BY MaxAmountAssumption DEF Amount
  <1>2. Allocations'
    BY <1>1, RecordKeepsAllocations DEF Accounts
  <1>3. Entries'
    <2>1. Grows(-amount, 0)
      BY PaysGrows DEF Accounts
    <2> QED
      BY <2>1 DEF Accounts, Entries, RecordPayment, Grows
  <1>4. invoice \in [Invoices -> Invoice]
    BY DEF Accounts, Books, RowsOK
  <1>5. ASSUME NEW i \in Invoices
        PROVE  /\ 0 <= invoice[i].recovered /\ invoice[i].recovered <= paid[i] + share[i]
               /\ ~invoice[i].defaulted => invoice[i].recovered = 0
    <2>1. invoice[i].recovered \in Int /\ paid[i] \in Int /\ share[i] \in Nat
      BY SoundRow DEF Accounts, Invoice
    <2> QED
      BY <2>1 DEF Accounts, Recoveries
  <1>6. Recoveries'
    BY <1>4, <1>5, RecordKeepsRecoveries DEF Accounts
  <1> QED
    BY <1>2, <1>3, <1>6 DEF Accounts

\* The row of a written-off invoice when an amount of it is recovered.
RecoveredRow(i, amount) ==
    [invoice[i] EXCEPT !.written_off = @ - amount, !.recovered = @ + amount]

\* A recovery leaves the other rows alone.
Recovered(p, i, amount, rows) ==
    /\ amount \in Nat /\ amount > 0
    /\ invoice[i].defaulted /\ invoice[i].status = "WRITTEN_OFF"
    /\ RecordPayment(p, amount, rows, To(i, amount), Nothing(Invoices))
    /\ rows \in [Invoices -> Invoice]
    /\ \A j \in Invoices : j # i => rows[j] = invoice[j]
    /\ rows[i].written_off = invoice[i].written_off - amount
    /\ rows[i].recovered = invoice[i].recovered + amount
    /\ rows[i].defaulted = invoice[i].defaulted /\ rows[i].status = invoice[i].status
    /\ rows[i].total = invoice[i].total

LEMMA RecoverRows ==
    ASSUME Accounts, NEW p \in Payments, NEW i \in Invoices, NEW amount \in Amount,
           RecoverBadDebt(p, i, amount)
    PROVE  \E rows : Recovered(p, i, amount, rows)
  <1>1. amount \in Nat /\ amount > 0
    BY MaxAmountAssumption DEF Amount
  <1>2. /\ invoice[i].written_off \in Int /\ invoice[i].recovered \in Int
        /\ invoice[i] \in Invoice /\ Sound(invoice[i], paid[i])
    BY SoundRow DEF Accounts, Invoice
  <1>3. invoice[i].status = "WRITTEN_OFF" /\ amount <= invoice[i].written_off
    BY DEF RecoverBadDebt
  <1>4. invoice[i].defaulted
    BY <1>1, <1>2, <1>3 DEF Sound
  <1>5. PICK v : v = RecoveredRow(i, amount)
    OBVIOUS
  <1>6. invoice[i].written_off - amount \in Int /\ invoice[i].recovered + amount \in Int
    BY <1>1, <1>2
  <1>7. /\ v \in Invoice
        /\ v.written_off = invoice[i].written_off - amount
        /\ v.recovered = invoice[i].recovered + amount
        /\ v.defaulted = invoice[i].defaulted /\ v.status = invoice[i].status
        /\ v.total = invoice[i].total
    BY <1>2, <1>5, <1>6 DEF RecoveredRow, Invoice
  <1>8. PICK rows : rows = [invoice EXCEPT ![i] = v]
    OBVIOUS
  <1>9. /\ rows \in [Invoices -> Invoice] /\ rows[i] = v
        /\ \A j \in Invoices : j # i => rows[j] = invoice[j]
    BY <1>7, <1>8 DEF Accounts, Books, RowsOK
  <1>10. RecordPayment(p, amount, rows, To(i, amount), Nothing(Invoices))
    BY <1>5, <1>8 DEF RecoverBadDebt, RecoveredRow
  <1>11. Recovered(p, i, amount, rows)
    BY <1>1, <1>3, <1>4, <1>7, <1>9, <1>10 DEF Recovered
  <1> QED
    BY <1>11

LEMMA RecoverGrows ==
    ASSUME Entries, NEW p, NEW i, NEW amount \in Amount, RecoverBadDebt(p, i, amount)
    PROVE  Grows(0, -amount)
  <1>1. amount \in Int /\ -amount \in Int /\ 0 \in Int
    BY DEF Amount
  <1>2. Balances /\ PostBoth(Entry(amount, -amount), Entry(-amount, 0), Entry(0, -amount))
    BY DEF Entries, RecoverBadDebt
  <1> QED
    BY <1>1, <1>2, PostBothGrows

LEMMA RecoverKeepsAccounts ==
    ASSUME Accounts, NEW p \in Payments, NEW i \in Invoices, NEW amount \in Amount,
           RecoverBadDebt(p, i, amount)
    PROVE  Accounts'
  <1>1. Books'
    BY RecoverKeepsBooks DEF Accounts
  <1>2. PICK rows : Recovered(p, i, amount, rows)
    BY RecoverRows
  <1>3. /\ amount \in Nat /\ amount > 0 /\ invoice[i].defaulted
        /\ RecordPayment(p, amount, rows, To(i, amount), Nothing(Invoices))
        /\ rows \in [Invoices -> Invoice]
        /\ \A j \in Invoices : j # i => rows[j] = invoice[j]
        /\ rows[i].recovered = invoice[i].recovered + amount
        /\ rows[i].defaulted = invoice[i].defaulted
    BY <1>2 DEF Recovered
  <1>4. PICK share : share = To(i, amount)
    OBVIOUS
  <1>5. /\ share \in [Invoices -> Nat] /\ SumFunction(share) = amount
        /\ \A j \in Invoices : share[j] = IF j = i THEN amount ELSE 0
    BY <1>3, <1>4, ToOne
  <1>6. RecordPayment(p, amount, rows, share, Nothing(Invoices))
    BY <1>3, <1>4
  <1>7. Allocations'
    <2>1. SumFunction(share) <= amount
      BY <1>3, <1>5
    <2> QED
      BY <1>1, <1>3, <1>5, <1>6, <2>1, RecordKeepsAllocations DEF Accounts
  <1>8. Entries'
    <2>1. Grows(0, -amount)
      BY RecoverGrows DEF Accounts
    <2>2. repeated' \in [Payments -> [Invoices -> Nat]]
      BY <1>6 DEF Accounts, Entries, RecordPayment, Nothing
    <2> QED
      BY <2>1, <2>2 DEF Entries, Grows
  <1>9. ASSUME NEW j \in Invoices
        PROVE  /\ 0 <= rows[j].recovered /\ rows[j].recovered <= paid[j] + share[j]
               /\ ~rows[j].defaulted => rows[j].recovered = 0
    <2>1. invoice[j].recovered \in Int /\ paid[j] \in Int /\ share[j] \in Nat
      BY <1>5, SoundRow DEF Accounts, Invoice
    <2>2. /\ 0 <= invoice[j].recovered /\ invoice[j].recovered <= paid[j]
          /\ ~invoice[j].defaulted => invoice[j].recovered = 0
      BY DEF Accounts, Recoveries
    <2>3. CASE j = i
      <3>1. /\ rows[j].recovered = invoice[j].recovered + share[j] /\ rows[j].defaulted
        BY <1>3, <1>5, <2>3
      <3> QED
        BY <2>1, <2>2, <3>1
    <2>4. CASE j # i
      BY <1>3, <1>5, <2>1, <2>2, <2>4
    <2> QED
      BY <2>3, <2>4
  <1>10. Recoveries'
    BY <1>3, <1>5, <1>6, <1>9, RecordKeepsRecoveries DEF Accounts
  <1> QED
    BY <1>1, <1>7, <1>8, <1>10 DEF Accounts

LEMMA ReverseKeepsAccounts ==
    ASSUME Accounts, NEW p \in Payments, ReversePayment(p)
    PROVE  Accounts'
  <1>1. Books'
    BY ReverseKeepsBooks DEF Accounts
  <1>2. Allocations' /\ Recoveries'
    BY <1>1, ReverseKeepsAllocations, ReverseKeepsRecoveries DEF Accounts
  <1>3. Grows(payment[p].amount - WrittenBack(p), WrittenBack(p))
    BY ReverseGrows DEF Accounts
  <1>4. repeated' \in [Payments -> [Invoices -> Nat]]
    BY DEF Accounts, Entries, ReversePayment, Nothing
  <1>5. Entries'
    BY <1>3, <1>4 DEF Entries, Grows
  <1> QED
    BY <1>1, <1>2, <1>5 DEF Accounts

LEMMA CancelGrows ==
    ASSUME Books, Entries, NEW i \in Invoices, CancelInvoice(i)
    PROVE  Grows(-invoice[i].total, 0)
  <1>1. -invoice[i].total \in Int /\ 0 \in Int
    BY SoundRow
  <1>2. Balances /\ Post(Entry(-invoice[i].total, 0))
    BY DEF Entries, CancelInvoice
  <1> QED
    BY <1>1, <1>2, PostGrows

LEMMA WriteOffGrows ==
    ASSUME Books, Entries, NEW i \in Invoices, WriteOffInvoice(i)
    PROVE  Grows(-Outstanding(i), Outstanding(i))
  <1>1. -Outstanding(i) \in Int /\ Outstanding(i) \in Int
    BY SoundRow DEF Left
  <1>2. Balances /\ Post(Entry(-Outstanding(i), Outstanding(i)))
    BY DEF Entries, WriteOffInvoice
  <1> QED
    BY <1>1, <1>2, PostGrows

\* Neither cancelling nor writing off touches payments or what is recovered.
LEMMA ClosingKeepsAccounts ==
    ASSUME Accounts, NEW i \in Invoices, CancelInvoice(i) \/ WriteOffInvoice(i)
    PROVE  Accounts'
  <1>1. Books'
    BY CancelKeepsBooks, WriteOffKeepsBooks DEF Accounts
  <1>2. /\ payment' = payment /\ allocated' = allocated /\ repeated' = repeated /\ paid' = paid
    BY DEF CancelInvoice, WriteOffInvoice
  <1>3. Allocations'
    BY <1>2 DEF Accounts, Allocations, PaymentsAreNotOverspent, PaidBy, Active, Recorded
  <1>4. Balances'
    BY CancelGrows, WriteOffGrows DEF Accounts, Grows
  <1>5. Entries'
    BY <1>2, <1>4 DEF Accounts, Entries
  <1>6. ASSUME NEW j \in Invoices
        PROVE  /\ invoice'[j].recovered = invoice[j].recovered
               /\ invoice'[j].defaulted \/ invoice'[j].defaulted = invoice[j].defaulted
    <2>1. CASE CancelInvoice(i)
      BY <2>1 DEF CancelInvoice, Accounts, Books, RowsOK, Invoice
    <2>2. CASE WriteOffInvoice(i)
      <3>1. PICK o, v : /\ o = Outstanding(i)
                        /\ v = [invoice[i] EXCEPT !.written_off = o, !.defaulted = TRUE,
                                                  !.status = "WRITTEN_OFF"]
        OBVIOUS
      <3>2. invoice' = [invoice EXCEPT ![i] = v]
        BY <2>2, <3>1 DEF WriteOffInvoice
      <3>3. v.recovered = invoice[i].recovered /\ v.defaulted = TRUE
        BY <3>1, SoundRow DEF Accounts, Invoice
      <3> QED
        BY <3>2, <3>3 DEF Accounts, Books, RowsOK
    <2> QED
      BY <2>1, <2>2
  <1>7. Recoveries'
    BY <1>2, <1>6 DEF Accounts, Recoveries
  <1> QED
    BY <1>1, <1>3, <1>5, <1>7 DEF Accounts

LEMMA NextAccounts == Accounts /\ [Next]_vars => Accounts'
  <1> SUFFICES ASSUME Accounts, [Next]_vars PROVE Accounts'
    OBVIOUS
  <1>1. ASSUME NEW i \in Invoices, CancelInvoice(i) \/ WriteOffInvoice(i) PROVE Accounts'
    BY <1>1, ClosingKeepsAccounts
  <1>2. ASSUME NEW i \in Invoices, NEW total \in Amount, GenerateInvoice(i, total)
        PROVE  Accounts'
    BY <1>2, GenerateKeepsAccounts
  <1>3. ASSUME NEW p \in Payments, ReversePayment(p) PROVE Accounts'
    BY <1>3, ReverseKeepsAccounts
  <1>4. ASSUME NEW p \in Payments, NEW amount \in Amount,
               \/ RecordListedPayment(p, amount)
               \/ RecordAutoPayment(p, amount)
               \/ \E i \in Invoices : RecordInvoicePayment(p, i, amount)
        PROVE  Accounts'
    <2>1. Books'
      BY <1>4, PaymentsKeepBooks DEF Accounts
    <2>2. PICK share, extra : Pays(p, amount, share, extra)
      BY <1>4, PaymentRows
    <2> QED
      BY <2>1, <2>2, PaymentsKeepAccounts
  <1>5. ASSUME NEW p \in Payments, NEW amount \in Amount, NEW i \in Invoices,
               RecoverBadDebt(p, i, amount)
        PROVE  Accounts'
    BY <1>5, RecoverKeepsAccounts
  <1>6. CASE UNCHANGED vars
    BY <1>6 DEF vars, books, Accounts, Books, RowsOK, NothingBeforeIssue, Entries, Balances,
                Allocations, PaymentsAreNotOverspent, PaidBy, Active, Recorded, Recoveries
  <1> QED
    BY <1>1, <1>2, <1>3, <1>4, <1>5, <1>6 DEF Next

LEMMA AccountsHold == Spec => []Accounts
  <1>1. Init => Accounts
    BY InitAccounts
  <1>2. Accounts /\ [Next]_vars => Accounts'
    BY NextAccounts
  <1> QED
    BY <1>1, <1>2, PTL DEF Spec

\* No history makes an amount of a payment or an allocation negative, or a row
\* or a balance ill-typed.
THEOREM BillingTypeCorrect == Spec => []TypeOK
  <1>1. Accounts => TypeOK
    BY DEF Accounts, Books, RowsOK, Entries, Balances, TypeOK
  <1> QED
    BY <1>1, AccountsHold, PTL

\* However a payment is used, at once by a list or automatically, or later from
\* its advance for any number of new invoices (_apply_advance_to_invoice), it
\* never settles more than its amount, and a reversed one settles nothing.
THEOREM NoPaymentIsOverspent == Spec => []PaymentsAreNotOverspent
  <1>1. Accounts => PaymentsAreNotOverspent
    BY DEF Accounts, Allocations
  <1> QED
    BY <1>1, AccountsHold, PTL

\* The recovered amount of an invoice is covered by what is paid on it: a
\* reversal that takes back payments takes back what it recovered as well
\* (recover_bad_debt, reverse_payment).
THEOREM OnlyPaidIsRecovered == Spec => []RecoveredWasPaid
  <1>1. Accounts => RecoveredWasPaid
    BY DEF Accounts, Recoveries, RecoveredWasPaid
  <1> QED
    BY <1>1, AccountsHold, PTL

-----------------------------------------------------------------------------
(* The books. *)

\* What the receivable account should show of an invoice v of which n is paid.
Due(v, n) == IF v.status \notin {"NONE", "CANCELLED"} THEN Left(v, n)
             ELSE IF v.status = "CANCELLED" THEN 0 - n ELSE 0

Dues == [i \in Invoices |-> Due(invoice[i], paid[i])]
BadDebts == [i \in Invoices |-> invoice[i].written_off]

Ledger ==
    /\ Receivable = SumFunction(Dues) - SumFunction(AdvanceRoom)
    /\ BadDebt = SumFunction(BadDebts)

LEMMA LedgerIsOfTheRows == Accounts /\ Ledger => BooksMissOnlyTheUnbooked
  <1> SUFFICES ASSUME Accounts, Ledger PROVE BooksMissOnlyTheUnbooked
    OBVIOUS
  <1>1. ASSUME NEW i \in Invoices
        PROVE  Due(invoice[i], paid[i]) = IF Payable(i) THEN Outstanding(i)
                                          ELSE IF invoice[i].status = "CANCELLED" THEN 0 - paid[i]
                                          ELSE 0
    BY DEF Due, Left, Payable, Outstanding
  <1>2. Dues = [i \in Invoices |-> IF Payable(i) THEN Outstanding(i)
                                   ELSE IF invoice[i].status = "CANCELLED" THEN 0 - paid[i]
                                   ELSE 0]
    BY <1>1 DEF Dues
  <1> QED
    BY <1>2 DEF Ledger, Receivable, BadDebt, BooksMissOnlyTheUnbooked, ReceivableOfRows,
                BadDebtOfRows, BadDebts

\* The rows the sums are taken over.
LEMMA Summands ==
    ASSUME Accounts
    PROVE  /\ IsFiniteSet(Invoices) /\ IsFiniteSet(Payments)
           /\ Dues \in [Invoices -> Int] /\ BadDebts \in [Invoices -> Int]
           /\ AdvanceRoom \in [Payments -> Int]
           /\ SumFunction(Dues) \in Int /\ SumFunction(BadDebts) \in Int
           /\ SumFunction(AdvanceRoom) \in Int
  <1>1. IsFiniteSet(Invoices) /\ IsFiniteSet(Payments)
    BY InvoicesAssumption, PaymentsAssumption
  <1>2. ASSUME NEW i \in Invoices
        PROVE  Due(invoice[i], paid[i]) \in Int /\ invoice[i].written_off \in Int
    BY SoundRow DEF Accounts, Due, Left
  <1>3. ASSUME NEW p \in Payments PROVE Unallocated(p) \in Int
    <2>1. /\ allocated[p] \in [Invoices -> Int]
          /\ payment[p].amount \in Int
      BY DEF Accounts, Books, RowsOK, Payment
    <2>2. SumFunction(allocated[p]) \in Int
      BY <1>1, <2>1, SumIsInt
    <2> QED
      BY <2>1, <2>2 DEF Unallocated
  <1>4. PICK f, g, h : f = Dues /\ g = BadDebts /\ h = AdvanceRoom
    OBVIOUS
  <1>5. f \in [Invoices -> Int] /\ g \in [Invoices -> Int] /\ h \in [Payments -> Int]
    BY <1>2, <1>3, <1>4 DEF Dues, BadDebts, AdvanceRoom
  <1>6. SumFunction(f) \in Int /\ SumFunction(g) \in Int /\ SumFunction(h) \in Int
    BY <1>1, <1>5, SumIsInt
  <1> QED
    BY <1>1, <1>4, <1>5, <1>6

\* The sums after a step, when what each row loses is known.
LEMMA DuesChange ==
    ASSUME Accounts, NEW less \in [Invoices -> Int],
           \A i \in Invoices :
             Due(invoice'[i], paid'[i]) = Due(invoice[i], paid[i]) - less[i]
    PROVE  SumFunction(Dues') = SumFunction(Dues) - SumFunction(less)
  <1>1. PICK f, g : f = Dues /\ g = Dues'
    OBVIOUS
  <1>2. IsFiniteSet(Invoices) /\ f \in [Invoices -> Int]
    BY <1>1, Summands
  <1>3. g = [i \in Invoices |-> f[i] - less[i]]
    BY <1>1 DEF Dues
  <1>4. SumFunction(g) = SumFunction(f) - SumFunction(less)
    BY <1>2, <1>3, SumLess
  <1> QED
    BY <1>1, <1>4

LEMMA BadDebtsChange ==
    ASSUME Accounts, NEW less \in [Invoices -> Int],
           \A i \in Invoices : invoice'[i].written_off = invoice[i].written_off - less[i]
    PROVE  SumFunction(BadDebts') = SumFunction(BadDebts) - SumFunction(less)
  <1>1. PICK f, g : f = BadDebts /\ g = BadDebts'
    OBVIOUS
  <1>2. IsFiniteSet(Invoices) /\ f \in [Invoices -> Int]
    BY <1>1, Summands
  <1>3. g = [i \in Invoices |-> f[i] - less[i]]
    BY <1>1 DEF BadDebts
  <1>4. SumFunction(g) = SumFunction(f) - SumFunction(less)
    BY <1>2, <1>3, SumLess
  <1> QED
    BY <1>1, <1>4

LEMMA AdvanceChange ==
    ASSUME Accounts, NEW less \in [Payments -> Int],
           \A p \in Payments : Unallocated(p)' = Unallocated(p) - less[p]
    PROVE  SumFunction(AdvanceRoom') = SumFunction(AdvanceRoom) - SumFunction(less)
  <1>1. PICK f, g : f = AdvanceRoom /\ g = AdvanceRoom'
    OBVIOUS
  <1>2. IsFiniteSet(Payments) /\ f \in [Payments -> Int]
    BY <1>1, Summands
  <1>3. g = [p \in Payments |-> f[p] - less[p]]
    BY <1>1 DEF AdvanceRoom
  <1>4. SumFunction(g) = SumFunction(f) - SumFunction(less)
    BY <1>2, <1>3, SumLess
  <1> QED
    BY <1>1, <1>4

\* One payment gets an advance or loses it.
LEMMA OneAdvanceChanges ==
    ASSUME Accounts, NEW p \in Payments, NEW less \in Int,
           Unallocated(p)' = Unallocated(p) - less,
           \A q \in Payments : q # p => Unallocated(q)' = Unallocated(q)
    PROVE  SumFunction(AdvanceRoom') = SumFunction(AdvanceRoom) - less
  <1>1. PICK one : one = [q \in Payments |-> IF q = p THEN less ELSE 0]
    OBVIOUS
  <1>2. one \in [Payments -> Int] /\ one[p] = less /\ \A q \in Payments : q # p => one[q] = 0
    BY <1>1
  <1>3. IsFiniteSet(Payments)
    BY PaymentsAssumption
  <1>4. SumFunction(one) = less
    BY <1>2, <1>3, SumOfOne
  <1>5. ASSUME NEW q \in Payments PROVE Unallocated(q)' = Unallocated(q) - one[q]
    <2>1. Unallocated(q) \in Int
      <3>1. AdvanceRoom \in [Payments -> Int] /\ AdvanceRoom[q] = Unallocated(q)
        BY Summands DEF AdvanceRoom
      <3> QED
        BY <3>1
    <2> QED
      BY <1>2, <2>1
  <1> QED
    BY <1>2, <1>4, <1>5, AdvanceChange

\* One invoice is owed less, or more of it is written off.
LEMMA OneDueChanges ==
    ASSUME Accounts, NEW i \in Invoices, NEW less \in Int,
           Due(invoice'[i], paid'[i]) = Due(invoice[i], paid[i]) - less,
           \A j \in Invoices : j # i => invoice'[j] = invoice[j] /\ paid'[j] = paid[j]
    PROVE  SumFunction(Dues') = SumFunction(Dues) - less
  <1>1. PICK one : one = [j \in Invoices |-> IF j = i THEN less ELSE 0]
    OBVIOUS
  <1>2. one \in [Invoices -> Int] /\ one[i] = less /\ \A j \in Invoices : j # i => one[j] = 0
    BY <1>1
  <1>3. IsFiniteSet(Invoices)
    BY InvoicesAssumption
  <1>4. SumFunction(one) = less
    BY <1>2, <1>3, SumOfOne
  <1>5. ASSUME NEW j \in Invoices
        PROVE  Due(invoice'[j], paid'[j]) = Due(invoice[j], paid[j]) - one[j]
    <2>1. Due(invoice[j], paid[j]) \in Int
      <3>1. Dues \in [Invoices -> Int] /\ Dues[j] = Due(invoice[j], paid[j])
        BY Summands DEF Dues
      <3> QED
        BY <3>1
    <2> QED
      BY <1>2, <2>1
  <1> QED
    BY <1>2, <1>4, <1>5, DuesChange

LEMMA OneBadDebtChanges ==
    ASSUME Accounts, NEW i \in Invoices, NEW less \in Int,
           invoice'[i].written_off = invoice[i].written_off - less,
           \A j \in Invoices : j # i => invoice'[j].written_off = invoice[j].written_off
    PROVE  SumFunction(BadDebts') = SumFunction(BadDebts) - less
  <1>1. PICK one : one = [j \in Invoices |-> IF j = i THEN less ELSE 0]
    OBVIOUS
  <1>2. one \in [Invoices -> Int] /\ one[i] = less /\ \A j \in Invoices : j # i => one[j] = 0
    BY <1>1
  <1>3. IsFiniteSet(Invoices)
    BY InvoicesAssumption
  <1>4. SumFunction(one) = less
    BY <1>2, <1>3, SumOfOne
  <1>5. ASSUME NEW j \in Invoices
        PROVE  invoice'[j].written_off = invoice[j].written_off - one[j]
    BY <1>2, SoundRow DEF Accounts
  <1> QED
    BY <1>2, <1>4, <1>5, BadDebtsChange

\* A new payment adds what it does not allocate to the advances.
LEMMA RecordAdvance ==
    ASSUME Accounts, NEW p \in Payments, NEW amount \in Nat, amount > 0, NEW rows,
           NEW share \in [Invoices -> Nat], NEW extra,
           RecordPayment(p, amount, rows, share, extra)
    PROVE  /\ SumFunction(share) \in Int
           /\ SumFunction(AdvanceRoom') = SumFunction(AdvanceRoom) - (SumFunction(share) - amount)
  <1>1. /\ allocated' = [allocated EXCEPT ![p] = share]
        /\ payment' = [payment EXCEPT ![p].amount = amount]
        /\ ~Recorded(p)
    BY DEF RecordPayment
  <1>2. /\ allocated'[p] = share /\ payment'[p].amount = amount
        /\ payment'[p].reversed = payment[p].reversed
        /\ \A q \in Payments : q # p => allocated'[q] = allocated[q] /\ payment'[q] = payment[q]
    BY <1>1 DEF Accounts, Books, RowsOK, Payment
  <1>3. ~payment[p].reversed
    BY <1>1 DEF Accounts, Allocations
  <1>4. PICK s : s = SumFunction(share)
    OBVIOUS
  <1>5. s \in Int
    <2>1. share \in [Invoices -> Int] /\ IsFiniteSet(Invoices)
      BY InvoicesAssumption
    <2> QED
      BY <1>4, <2>1, SumIsInt
  <1>6. Unallocated(p)' = amount - s /\ Unallocated(p) = 0
    BY <1>1, <1>2, <1>3, <1>4 DEF Unallocated, Active, Recorded
  <1>7. \A q \in Payments : q # p => Unallocated(q)' = Unallocated(q)
    BY <1>2 DEF Unallocated, Active, Recorded
  <1>8. s - amount \in Int /\ Unallocated(p)' = Unallocated(p) - (s - amount)
    BY <1>5, <1>6
  <1>9. SumFunction(AdvanceRoom') = SumFunction(AdvanceRoom) - (s - amount)
    BY <1>7, <1>8, OneAdvanceChanges
  <1> QED
    BY <1>4, <1>5, <1>9

LEMMA PaymentsKeepLedger ==
    ASSUME Accounts, Ledger, NEW p \in Payments, NEW amount \in Amount, NEW share, NEW extra,
           Pays(p, amount, share, extra)
    PROVE  Ledger'
  <1> USE DEF Pays
  <1>1. amount \in Nat /\ amount > 0
    BY MaxAmountAssumption DEF Amount
  <1>2. SumFunction(share) \in Int
        /\ SumFunction(AdvanceRoom') = SumFunction(AdvanceRoom) - (SumFunction(share) - amount)
    BY <1>1, RecordAdvance
  <1>3. ASSUME NEW i \in Invoices
        PROVE  /\ Due(invoice'[i], paid'[i]) = Due(invoice[i], paid[i]) - share[i]
               /\ invoice'[i].written_off = invoice[i].written_off
    <2>1. /\ paid'[i] = paid[i] + share[i]
          /\ invoice'[i] = IF share[i] > 0 THEN Refreshed(invoice[i], paid[i] + share[i])
                           ELSE invoice[i]
      BY DEF RecordPayment
    <2>2. PICK v, n, m : v = invoice[i] /\ n = paid[i] /\ m = share[i]
      OBVIOUS
    <2>3. /\ v \in Invoice /\ n \in Int /\ m \in Nat /\ n + m \in Int
          /\ v.total \in Int /\ v.written_off \in Int
      BY <2>2, SoundRow DEF Accounts
    <2>4. CASE m > 0
      <3>1. v.status # "NONE" /\ v.status \in InvoiceStatus
        BY <2>2, <2>3, <2>4 DEF Invoice
      <3>2. PICK w : w = Refreshed(v, n + m)
        OBVIOUS
      <3>3. /\ w.total = v.total /\ w.written_off = v.written_off
            /\ v.status = "CANCELLED" => w.status = "CANCELLED"
            /\ v.status # "CANCELLED" =>
                 /\ v.written_off > 0 => w.status = "WRITTEN_OFF"
                 /\ v.written_off <= 0 /\ n + m <= 0 => w.status = "UNPAID"
                 /\ v.written_off <= 0 /\ n + m > 0 /\ n + m < v.total =>
                      w.status = "PARTIALLY_PAID"
                 /\ v.written_off <= 0 /\ n + m > 0 /\ n + m >= v.total => w.status = "PAID"
        BY <2>3, <3>2, RefreshedRow
      <3>4. w.status # "NONE" /\ (w.status = "CANCELLED" <=> v.status = "CANCELLED")
        BY <2>3, <3>3
      <3>5. Left(w, n + m) = Left(v, n) - m
        BY <2>3, <3>3 DEF Left
      <3>6. Due(w, n + m) = Due(v, n) - m
        BY <2>3, <3>1, <3>4, <3>5 DEF Due
      <3> QED
        BY <2>1, <2>2, <2>4, <3>2, <3>3, <3>6
    <2>5. CASE ~(m > 0)
      <3>1. m = 0 /\ n + m = n /\ Due(v, n) \in Int
        BY <2>3, <2>5 DEF Due, Left
      <3>2. Due(v, n) = Due(v, n) - m
        BY <3>1
      <3> QED
        BY <2>1, <2>2, <2>5, <3>1, <3>2
    <2> QED
      BY <2>4, <2>5
  <1>4. share \in [Invoices -> Int] /\ IsFiniteSet(Invoices)
    BY InvoicesAssumption
  <1>5. SumFunction(Dues') = SumFunction(Dues) - SumFunction(share)
    BY <1>3, <1>4, DuesChange
  <1>6. BadDebts' = BadDebts
    BY <1>3 DEF BadDebts
  <1>7. Receivable' = Receivable + -amount /\ BadDebt' = BadDebt + 0
    BY PaysGrows DEF Accounts, Grows
  <1>8. Receivable' = SumFunction(Dues') - SumFunction(AdvanceRoom')
    <2>1. PICK d, a, s : d = SumFunction(Dues) /\ a = SumFunction(AdvanceRoom) /\ s = SumFunction(share)
      OBVIOUS
    <2>2. d \in Int /\ a \in Int /\ s \in Int
      BY <1>2, <2>1, Summands
    <2>3. Receivable' = (d - a) + -amount
      BY <1>7, <2>1 DEF Ledger
    <2>4. (d - a) + -amount = (d - s) - (a - (s - amount))
      BY <1>1, <2>2
    <2> QED
      BY <1>2, <1>5, <2>1, <2>3, <2>4
  <1>9. BadDebt' = SumFunction(BadDebts')
    BY <1>6, <1>7, Summands DEF Ledger
  <1> QED
    BY <1>8, <1>9 DEF Ledger

LEMMA RecoverKeepsLedger ==
    ASSUME Accounts, Ledger, NEW p \in Payments, NEW i \in Invoices, NEW amount \in Amount,
           RecoverBadDebt(p, i, amount)
    PROVE  Ledger'
  <1>1. PICK rows : Recovered(p, i, amount, rows)
    BY RecoverRows
  <1>2. PICK share : share = To(i, amount)
    OBVIOUS
  <1>3. /\ amount \in Nat /\ amount > 0 /\ amount \in Int
        /\ RecordPayment(p, amount, rows, share, Nothing(Invoices))
        /\ rows \in [Invoices -> Invoice]
        /\ \A j \in Invoices : j # i => rows[j] = invoice[j]
    BY <1>1, <1>2 DEF Recovered
  <1>4. /\ share \in [Invoices -> Nat] /\ SumFunction(share) = amount
        /\ \A j \in Invoices : share[j] = IF j = i THEN amount ELSE 0
    BY <1>2, <1>3, ToOne
  <1>5. SumFunction(AdvanceRoom') = SumFunction(AdvanceRoom) - (SumFunction(share) - amount)
    BY <1>3, <1>4, RecordAdvance
  <1>6. SumFunction(AdvanceRoom') = SumFunction(AdvanceRoom)
    BY <1>3, <1>4, <1>5, Summands
  <1>7. \A j \in Invoices : j # i => invoice'[j] = invoice[j] /\ paid'[j] = paid[j]
    BY <1>3, <1>4, SoundRow DEF RecordPayment, Accounts
  <1>8. PICK v, n : v = invoice[i] /\ n = paid[i]
    OBVIOUS
  <1>9. /\ v \in Invoice /\ n \in Int /\ v.total \in Int /\ v.written_off \in Int
        /\ n + amount \in Int /\ v.status = "WRITTEN_OFF"
    BY <1>1, <1>3, <1>8, SoundRow DEF Accounts, Recovered
  <1>10. PICK r, w : r = rows[i] /\ w = Refreshed(r, n + amount)
    OBVIOUS
  <1>11. /\ r \in Invoice /\ r.status = "WRITTEN_OFF" /\ r.total = v.total
         /\ r.written_off = v.written_off - amount
    BY <1>1, <1>3, <1>8, <1>10 DEF Recovered
  <1>12. /\ w.total = r.total /\ w.written_off = r.written_off
         /\ r.written_off > 0 => w.status = "WRITTEN_OFF"
         /\ r.written_off <= 0 /\ n + amount <= 0 => w.status = "UNPAID"
         /\ r.written_off <= 0 /\ n + amount > 0 /\ n + amount < r.total =>
              w.status = "PARTIALLY_PAID"
         /\ r.written_off <= 0 /\ n + amount > 0 /\ n + amount >= r.total => w.status = "PAID"
    BY <1>9, <1>10, <1>11, RefreshedRow
  <1>13. w.status # "NONE" /\ w.status # "CANCELLED"
    BY <1>3, <1>9, <1>11, <1>12
  <1>14. invoice'[i] = w /\ paid'[i] = n + amount
    BY <1>3, <1>4, <1>8, <1>10 DEF RecordPayment
  <1>15. Due(w, n + amount) = Due(v, n) - 0
    BY <1>3, <1>9, <1>11, <1>12, <1>13 DEF Due, Left
  <1>16. SumFunction(Dues') = SumFunction(Dues) - 0
    <2>1. Due(invoice'[i], paid'[i]) = Due(invoice[i], paid[i]) - 0
      BY <1>8, <1>14, <1>15
    <2> QED
      BY <1>7, <2>1, OneDueChanges
  <1>17. SumFunction(BadDebts') = SumFunction(BadDebts) - amount
    <2>1. invoice'[i].written_off = invoice[i].written_off - amount
      BY <1>8, <1>11, <1>12, <1>14
    <2>2. \A j \in Invoices : j # i => invoice'[j].written_off = invoice[j].written_off
      BY <1>7
    <2> QED
      BY <1>3, <2>1, <2>2, OneBadDebtChanges
  <1>18. Receivable' = Receivable + 0 /\ BadDebt' = BadDebt + -amount
    BY RecoverGrows DEF Accounts, Grows
  <1>19. SumFunction(Dues') = SumFunction(Dues)
    BY <1>16, Summands
  <1>20. PICK d, a, e : /\ d = SumFunction(Dues) /\ a = SumFunction(AdvanceRoom)
                        /\ e = SumFunction(BadDebts)
    OBVIOUS
  <1>21. d \in Int /\ a \in Int /\ e \in Int
    BY <1>20, Summands
  <1>22. Receivable' = (d - a) + 0 /\ BadDebt' = e + -amount
    BY <1>18, <1>20 DEF Ledger
  <1>23. Receivable' = d - a /\ BadDebt' = e - amount
    BY <1>3, <1>21, <1>22
  <1> QED
    BY <1>6, <1>17, <1>19, <1>20, <1>23 DEF Ledger

LEMMA GenerateKeepsLedger ==
    ASSUME Accounts, Ledger, NEW i \in Invoices, NEW total \in Amount, GenerateInvoice(i, total)
    PROVE  Ledger'
  <1>1. total \in Nat /\ total > 0
    BY MaxAmountAssumption DEF Amount
  <1>2. PICK share : Takes(i, total, share)
    BY DEF GenerateInvoice, Takes
  <1>3. PICK n : n = SumFunction(share)
    OBVIOUS
  <1>4. n \in Int /\ 0 <= n /\ n <= total
    BY <1>1, <1>2, <1>3 DEF Takes, InOrder
  <1>5. PICK v, w : v = Issued(total) /\ w = Refreshed(v, n)
    OBVIOUS
  <1>6. /\ invoice' = [invoice EXCEPT ![i] = w] /\ paid' = [paid EXCEPT ![i] = n]
        /\ invoice[i].status = "NONE"
    BY <1>2, <1>3, <1>5 DEF Takes
  <1>7. /\ v \in Invoice /\ v.status = "UNPAID" /\ v.total = total /\ v.written_off = 0
    BY <1>1, <1>5 DEF Issued, Invoice, InvoiceStatus, Open
  <1>8. /\ w.total = v.total /\ w.written_off = v.written_off
        /\ v.status # "CANCELLED" =>
             /\ v.written_off > 0 => w.status = "WRITTEN_OFF"
             /\ v.written_off <= 0 /\ n <= 0 => w.status = "UNPAID"
             /\ v.written_off <= 0 /\ n > 0 /\ n < v.total => w.status = "PARTIALLY_PAID"
             /\ v.written_off <= 0 /\ n > 0 /\ n >= v.total => w.status = "PAID"
    BY <1>4, <1>5, <1>7, RefreshedRow
  <1>9. w.status # "NONE" /\ w.status # "CANCELLED"
    BY <1>1, <1>4, <1>7, <1>8
  <1>10. Due(w, n) = total - n
    BY <1>1, <1>4, <1>7, <1>8, <1>9 DEF Due, Left
  <1>11. Due(invoice[i], paid[i]) = 0 /\ invoice[i].written_off = 0
    BY <1>6, SoundRow DEF Accounts, Due, Sound
  <1>12. /\ invoice'[i] = w /\ paid'[i] = n
         /\ \A j \in Invoices : j # i => invoice'[j] = invoice[j] /\ paid'[j] = paid[j]
    BY <1>6 DEF Accounts, Books, RowsOK
  <1>13. SumFunction(Dues') = SumFunction(Dues) - (n - total)
    <2>1. n - total \in Int /\ Due(invoice'[i], paid'[i]) = Due(invoice[i], paid[i]) - (n - total)
      BY <1>1, <1>4, <1>10, <1>11, <1>12
    <2> QED
      BY <1>12, <2>1, OneDueChanges
  <1>14. BadDebts' = BadDebts
    BY <1>7, <1>8, <1>11, <1>12 DEF BadDebts
  <1>15. SumFunction(AdvanceRoom') = SumFunction(AdvanceRoom) - n
    <2>1. ASSUME NEW q \in Payments
          PROVE  share[q] \in Int /\ Unallocated(q)' = Unallocated(q) - share[q]
      <3>1. /\ share[q] \in Nat
            /\ SumFunction(allocated'[q]) = SumFunction(allocated[q]) + share[q]
            /\ ~Active(q) => share[q] = 0
        BY <1>2, GenerateRows DEF Accounts
      <3>2. SumFunction(allocated[q]) \in Int /\ payment[q].amount \in Int
        BY AllocationRow DEF Accounts
      <3>3. payment' = payment
        BY <1>2 DEF Takes
      <3>4. (Active(q)' <=> Active(q)) /\ payment'[q].amount = payment[q].amount
        BY <3>3 DEF Active, Recorded
      <3>5. PICK s, t, a : /\ s = SumFunction(allocated[q]) /\ t = SumFunction(allocated'[q])
                           /\ a = payment[q].amount
        OBVIOUS
      <3>6. CASE Active(q)
        <4>1. Unallocated(q) = a - s /\ Unallocated(q)' = a - t
          BY <3>4, <3>5, <3>6 DEF Unallocated
        <4> QED
          BY <3>1, <3>2, <3>5, <4>1
      <3>7. CASE ~Active(q)
        BY <3>1, <3>4, <3>7 DEF Unallocated
      <3> QED
        BY <3>6, <3>7
    <2>2. share \in [Payments -> Int]
      BY <1>2, <2>1 DEF Takes
    <2> QED
      BY <1>3, <2>1, <2>2, AdvanceChange
  <1>16. Receivable' = Receivable + total /\ BadDebt' = BadDebt + 0
    <2>1. Balances /\ Post(Entry(total, 0)) /\ 0 \in Int /\ total \in Int
      BY <1>1 DEF Accounts, Entries, GenerateInvoice
    <2> QED
      BY <2>1, PostGrows DEF Grows
  <1>17. Receivable' = SumFunction(Dues') - SumFunction(AdvanceRoom')
    <2>1. PICK d, a : d = SumFunction(Dues) /\ a = SumFunction(AdvanceRoom)
      OBVIOUS
    <2>2. d \in Int /\ a \in Int
      BY <2>1, Summands
    <2>3. Receivable' = (d - a) + total
      BY <1>16, <2>1 DEF Ledger
    <2>4. (d - a) + total = (d - (n - total)) - (a - n)
      BY <1>1, <1>4, <2>2
    <2> QED
      BY <1>13, <1>15, <2>1, <2>3, <2>4
  <1>18. BadDebt' = SumFunction(BadDebts')
    BY <1>14, <1>16, Summands DEF Ledger
  <1> QED
    BY <1>17, <1>18 DEF Ledger

\* What a reversal takes back from each invoice is owed again, or bad debt again.
LEMMA ReverseKeepsLedger ==
    ASSUME Accounts, Ledger, NEW p \in Payments, ReversePayment(p)
    PROVE  Ledger'
  <1>1. PICK a : a = allocated[p]
    OBVIOUS
  <1>2. a \in [Invoices -> Nat] /\ a \in [Invoices -> Int] /\ IsFiniteSet(Invoices)
    BY <1>1, InvoicesAssumption DEF Accounts, Books, RowsOK
  <1>3. PICK b : b = [i \in Invoices |-> IF invoice[i].defaulted THEN allocated[p][i] ELSE 0]
    OBVIOUS
  <1>4. \A i \in Invoices : b[i] = IF invoice[i].defaulted THEN a[i] ELSE 0
    BY <1>1, <1>3
  <1>5. b \in [Invoices -> Int] /\ SumFunction(b) = WrittenBack(p)
    BY <1>2, <1>3, <1>4 DEF WrittenBack
  <1>6. PICK back : back = [i \in Invoices |-> a[i] - b[i]]
    OBVIOUS
  <1>7. back \in [Invoices -> Int] /\ SumFunction(back) = SumFunction(a) - SumFunction(b)
    BY <1>2, <1>5, <1>6, SumLess
  <1>8. PICK less, more : /\ less = [i \in Invoices |-> 0 - back[i]]
                          /\ more = [i \in Invoices |-> 0 - b[i]]
    OBVIOUS
  <1>9. /\ less \in [Invoices -> Int] /\ SumFunction(less) = 0 - SumFunction(back)
        /\ more \in [Invoices -> Int] /\ SumFunction(more) = 0 - SumFunction(b)
    <2>1. PICK none : none = Nothing(Invoices)
      OBVIOUS
    <2>2. none \in [Invoices -> Int] /\ \A i \in Invoices : none[i] = 0
      BY <2>1 DEF Nothing
    <2>3. SumFunction(none) = 0
      BY <1>2, <2>2, SumOfNone
    <2>4. less = [i \in Invoices |-> none[i] - back[i]] /\ more = [i \in Invoices |-> none[i] - b[i]]
      BY <1>8, <2>2
    <2>5. SumFunction(less) = SumFunction(none) - SumFunction(back)
      BY <1>2, <1>7, <2>2, <2>4, SumLess
    <2>6. SumFunction(more) = SumFunction(none) - SumFunction(b)
      BY <1>2, <1>5, <2>2, <2>4, SumLess
    <2>7. less \in [Invoices -> Int] /\ more \in [Invoices -> Int]
      BY <1>5, <1>7, <1>8
    <2> QED
      BY <2>3, <2>5, <2>6, <2>7
  <1>10. ASSUME NEW i \in Invoices
         PROVE  /\ Due(invoice'[i], paid'[i]) = Due(invoice[i], paid[i]) - less[i]
                /\ invoice'[i].written_off = invoice[i].written_off - more[i]
    <2>1. PICK v, n, m : v = invoice[i] /\ n = paid[i] /\ m = a[i]
      OBVIOUS
    <2>2. /\ v \in Invoice /\ n \in Int /\ m \in Nat /\ n - m \in Int
          /\ v.total \in Int /\ v.written_off \in Int /\ Sound(v, n)
      BY <1>2, <2>1, SoundRow DEF Accounts
    <2>3. /\ less[i] = IF v.defaulted THEN 0 ELSE 0 - m
          /\ more[i] = IF v.defaulted THEN 0 - m ELSE 0
      BY <1>4, <1>6, <1>8, <2>1, <2>2
    <2>4. /\ paid'[i] = n - m
          /\ invoice'[i] = IF m > 0 THEN Refreshed(Unsettled(p, i), n - m) ELSE v
      BY <1>1, <2>1 DEF ReversePayment
    <2>5. CASE m > 0
      <3>1. PICK u, w : u = Unsettled(p, i) /\ w = Refreshed(u, n - m)
        OBVIOUS
      <3>2. /\ u \in Invoice /\ u.status = v.status /\ u.total = v.total
            /\ u.defaulted = v.defaulted
            /\ u.written_off = IF v.defaulted THEN v.written_off + m ELSE v.written_off
        BY <1>1, <2>1, <3>1, UnsettledRow DEF Accounts
      <3>3. v.status # "NONE"
        BY <1>1, <2>1, <2>5 DEF Accounts, Books, NothingBeforeIssue
      <3>4. /\ w.total = u.total /\ w.written_off = u.written_off
            /\ u.status = "CANCELLED" => w.status = "CANCELLED"
            /\ u.status # "CANCELLED" =>
                 /\ u.written_off > 0 => w.status = "WRITTEN_OFF"
                 /\ u.written_off <= 0 /\ n - m <= 0 => w.status = "UNPAID"
                 /\ u.written_off <= 0 /\ n - m > 0 /\ n - m < u.total =>
                      w.status = "PARTIALLY_PAID"
                 /\ u.written_off <= 0 /\ n - m > 0 /\ n - m >= u.total => w.status = "PAID"
        BY <2>2, <3>1, <3>2, RefreshedRow
      <3>5. u.written_off \in Int /\ u.total \in Int
        BY <2>2, <3>2
      <3>6. w.status # "NONE" /\ (w.status = "CANCELLED" <=> v.status = "CANCELLED")
        BY <2>2, <3>2, <3>4, <3>5
      <3>7. CASE v.defaulted
        <4>1. v.status # "CANCELLED"
          BY <2>2, <3>7 DEF Sound
        <4>2. Left(w, n - m) = Left(v, n) - 0
          BY <2>2, <3>2, <3>4, <3>7 DEF Left
        <4> QED
          BY <2>1, <2>2, <2>3, <2>4, <2>5, <3>1, <3>2, <3>3, <3>4, <3>6, <3>7, <4>1, <4>2 DEF Due
      <3>8. CASE ~v.defaulted
        <4>1. Left(w, n - m) = Left(v, n) - (0 - m)
          BY <2>2, <3>2, <3>4, <3>8 DEF Left
        <4>2. Due(w, n - m) = Due(v, n) - (0 - m)
          BY <2>2, <3>3, <3>6, <4>1 DEF Due
        <4> QED
          BY <2>1, <2>2, <2>3, <2>4, <2>5, <3>1, <3>2, <3>4, <3>8, <4>2
      <3> QED
        BY <3>7, <3>8
    <2>6. CASE ~(m > 0)
      <3>1. m = 0 /\ n - m = n /\ Due(v, n) \in Int
        BY <2>2, <2>6 DEF Due, Left
      <3>2. less[i] = 0 /\ more[i] = 0
        BY <2>3, <3>1
      <3> QED
        BY <2>1, <2>2, <2>4, <2>6, <3>1, <3>2
    <2> QED
      BY <2>5, <2>6
  <1>11. SumFunction(Dues') = SumFunction(Dues) - SumFunction(less)
    BY <1>9, <1>10, DuesChange
  <1>12. SumFunction(BadDebts') = SumFunction(BadDebts) - SumFunction(more)
    BY <1>9, <1>10, BadDebtsChange
  <1>13. PICK d, e, f, s, t : /\ d = SumFunction(Dues) /\ e = SumFunction(BadDebts)
                              /\ f = SumFunction(AdvanceRoom)
                              /\ s = SumFunction(a) /\ t = SumFunction(b)
    OBVIOUS
  <1>14. d \in Int /\ e \in Int /\ f \in Int /\ s \in Int /\ t \in Int
    BY <1>2, <1>5, <1>13, Summands, SumIsInt
  <1>15. PICK m : m = payment[p].amount
    OBVIOUS
  <1>16. m \in Int
    BY <1>15, AllocationRow DEF Accounts, Books, RowsOK, Payment
  <1>17. SumFunction(AdvanceRoom') = f - (m - s)
    <2>1. Unallocated(p) = m - s
      BY <1>1, <1>13, <1>15 DEF ReversePayment, Unallocated
    <2>2. payment'[p].reversed /\ \A q \in Payments : q # p => payment'[q] = payment[q]
                                                              /\ allocated'[q] = allocated[q]
      BY DEF ReversePayment, Accounts, Books, RowsOK, Payment
    <2>3. Unallocated(p)' = 0
      BY <2>2 DEF Unallocated, Active
    <2>4. \A q \in Payments : q # p => Unallocated(q)' = Unallocated(q)
      BY <2>2 DEF Unallocated, Active, Recorded
    <2>5. m - s \in Int /\ Unallocated(p)' = Unallocated(p) - (m - s)
      BY <1>14, <1>16, <2>1, <2>3
    <2> QED
      BY <1>13, <2>4, <2>5, OneAdvanceChanges
  <1>18. SumFunction(Dues') = d - (0 - (s - t)) /\ SumFunction(BadDebts') = e - (0 - t)
    BY <1>7, <1>9, <1>11, <1>12, <1>13
  <1>19. Receivable' = (d - f) + (m - t) /\ BadDebt' = e + t
    <2>1. /\ Receivable' = Receivable + (payment[p].amount - WrittenBack(p))
          /\ BadDebt' = BadDebt + WrittenBack(p)
      BY ReverseGrows DEF Accounts, Grows
    <2> QED
      BY <1>5, <1>13, <1>15, <2>1 DEF Ledger
  <1>20. Receivable' = SumFunction(Dues') - SumFunction(AdvanceRoom')
    <2>1. (d - f) + (m - t) = (d - (0 - (s - t))) - (f - (m - s))
      BY <1>14, <1>16
    <2> QED
      BY <1>17, <1>18, <1>19, <2>1
  <1>21. BadDebt' = SumFunction(BadDebts')
    BY <1>14, <1>18, <1>19
  <1> QED
    BY <1>20, <1>21 DEF Ledger

\* Nothing was ever paid on a cancelled invoice that is not due any more.
LEMMA CancelKeepsLedger ==
    ASSUME Accounts, Ledger, NEW i \in Invoices, CancelInvoice(i)
    PROVE  Ledger'
  <1>1. paid[i] = 0
    <2>1. PICK f : f = PaidBy(i)
      OBVIOUS
    <2>2. f \in [Payments -> Int] /\ (\A p \in Payments : f[p] = 0) /\ IsFiniteSet(Payments)
      BY <2>1, PaymentsAssumption DEF CancelInvoice, PaidBy
    <2>3. SumFunction(f) = 0
      BY <2>2, SumOfNone
    <2> QED
      BY <2>1, <2>3 DEF Accounts, Allocations
  <1>2. PICK v : v = invoice[i]
    OBVIOUS
  <1>3. /\ v.total \in Int /\ v \in Invoice /\ v.written_off = 0
        /\ v.status \notin {"NONE", "CANCELLED"}
    BY <1>2, SoundRow DEF Accounts, CancelInvoice, Payable, Sound
  <1>4. /\ invoice'[i].status = "CANCELLED" /\ invoice'[i].written_off = v.written_off
        /\ paid' = paid
        /\ \A j \in Invoices : j # i => invoice'[j] = invoice[j]
    BY <1>2, <1>3 DEF CancelInvoice, Accounts, Books, RowsOK, Invoice
  <1>5. Due(invoice'[i], paid'[i]) = 0 /\ Due(invoice[i], paid[i]) = v.total
    BY <1>1, <1>2, <1>3, <1>4 DEF Due, Left
  <1>6. SumFunction(Dues') = SumFunction(Dues) - v.total
    <2>1. Due(invoice'[i], paid'[i]) = Due(invoice[i], paid[i]) - v.total
      BY <1>3, <1>5
    <2> QED
      BY <1>3, <1>4, <2>1, OneDueChanges
  <1>7. BadDebts' = BadDebts
    BY <1>2, <1>4 DEF BadDebts
  <1>8. AdvanceRoom' = AdvanceRoom
    BY DEF CancelInvoice, AdvanceRoom, Unallocated, Active, Recorded
  <1>9. Receivable' = Receivable + -v.total /\ BadDebt' = BadDebt + 0
    BY <1>2, CancelGrows DEF Accounts, Grows
  <1>10. Receivable' = SumFunction(Dues') - SumFunction(AdvanceRoom')
    <2>1. PICK d, a, t : d = SumFunction(Dues) /\ a = SumFunction(AdvanceRoom) /\ t = v.total
      OBVIOUS
    <2>2. d \in Int /\ a \in Int /\ t \in Int
      BY <1>3, <2>1, Summands
    <2>3. (d - a) + -t = (d - t) - a
      BY <2>2
    <2> QED
      BY <1>6, <1>8, <1>9, <2>1, <2>3 DEF Ledger
  <1>11. BadDebt' = SumFunction(BadDebts')
    BY <1>7, <1>9, Summands DEF Ledger
  <1> QED
    BY <1>10, <1>11 DEF Ledger

LEMMA WriteOffKeepsLedger ==
    ASSUME Accounts, Ledger, NEW i \in Invoices, WriteOffInvoice(i)
    PROVE  Ledger'
  <1>1. PICK v, n, o : v = invoice[i] /\ n = paid[i] /\ o = Outstanding(i)
    OBVIOUS
  <1>2. /\ v \in Invoice /\ n \in Int /\ v.total \in Int /\ v.written_off \in Int
        /\ Sound(v, n) /\ o = Left(v, n) /\ o > 0
        /\ v.status \in Open
    BY <1>1, SoundRow DEF Accounts, WriteOffInvoice
  <1>3. o \in Int
    BY <1>2 DEF Left
  <1>4. v.written_off = 0
    BY <1>2, <1>3 DEF Sound, Invoice
  <1>5. PICK w : w = [v EXCEPT !.written_off = o, !.defaulted = TRUE, !.status = "WRITTEN_OFF"]
    OBVIOUS
  <1>6. w.written_off = o /\ w.status = "WRITTEN_OFF" /\ w.total = v.total
    BY <1>2, <1>5 DEF Invoice
  <1>7. invoice' = [invoice EXCEPT ![i] = w] /\ paid' = paid
    BY <1>1, <1>5 DEF WriteOffInvoice
  <1>8. /\ invoice'[i] = w
        /\ \A j \in Invoices : j # i => invoice'[j] = invoice[j] /\ paid'[j] = paid[j]
    BY <1>7 DEF Accounts, Books, RowsOK
  <1>9. Due(w, n) = 0 /\ Due(v, n) = o
    BY <1>2, <1>3, <1>4, <1>6 DEF Due, Left, Open
  <1>10. SumFunction(Dues') = SumFunction(Dues) - o
    <2>1. Due(invoice'[i], paid'[i]) = Due(invoice[i], paid[i]) - o
      BY <1>1, <1>3, <1>7, <1>8, <1>9
    <2> QED
      BY <1>3, <1>8, <2>1, OneDueChanges
  <1>11. SumFunction(BadDebts') = SumFunction(BadDebts) - (0 - o)
    <2>1. 0 - o \in Int /\ invoice'[i].written_off = invoice[i].written_off - (0 - o)
      BY <1>1, <1>3, <1>4, <1>6, <1>8
    <2>2. \A j \in Invoices : j # i => invoice'[j].written_off = invoice[j].written_off
      BY <1>8
    <2> QED
      BY <2>1, <2>2, OneBadDebtChanges
  <1>12. AdvanceRoom' = AdvanceRoom
    BY DEF WriteOffInvoice, AdvanceRoom, Unallocated, Active, Recorded
  <1>13. Receivable' = Receivable + -o /\ BadDebt' = BadDebt + o
    BY <1>1, WriteOffGrows DEF Accounts, Grows
  <1>14. PICK d, a, e : /\ d = SumFunction(Dues) /\ a = SumFunction(AdvanceRoom)
                        /\ e = SumFunction(BadDebts)
    OBVIOUS
  <1>15. /\ (d - a) + -o = (d - o) - a
         /\ e + o = e - (0 - o)
    BY <1>3, <1>14, Summands
  <1>16. Receivable' = SumFunction(Dues') - SumFunction(AdvanceRoom')
    BY <1>10, <1>12, <1>13, <1>14, <1>15 DEF Ledger
  <1>17. BadDebt' = SumFunction(BadDebts')
    BY <1>11, <1>13, <1>14, <1>15 DEF Ledger
  <1> QED
    BY <1>16, <1>17 DEF Ledger

LEMMA InitLedger == Init => Ledger
  <1> SUFFICES ASSUME Init PROVE Ledger
    OBVIOUS
  <1>1. Accounts
    BY InitAccounts
  <1>2. PICK f, g, h : f = Dues /\ g = BadDebts /\ h = AdvanceRoom
    OBVIOUS
  <1>3. /\ \A i \in Invoices : invoice[i] = NoInvoice /\ paid[i] = 0
        /\ \A p \in Payments : payment[p] = NoPayment
    BY DEF Init, Nothing
  <1>4. /\ f \in [Invoices -> Int] /\ g \in [Invoices -> Int] /\ h \in [Payments -> Int]
        /\ IsFiniteSet(Invoices) /\ IsFiniteSet(Payments)
    BY <1>1, <1>2, Summands
  <1>5. \A i \in Invoices : f[i] = 0 /\ g[i] = 0
    BY <1>2, <1>3 DEF Dues, Due, BadDebts, NoInvoice
  <1>6. \A p \in Payments : h[p] = 0
    BY <1>2, <1>3 DEF AdvanceRoom, Unallocated, Active, Recorded, NoPayment
  <1>7. SumFunction(f) = 0 /\ SumFunction(g) = 0
    BY <1>4, <1>5, SumOfNone
  <1>8. SumFunction(h) = 0
    BY <1>4, <1>6, SumOfNone
  <1> QED
    BY <1>2, <1>7, <1>8 DEF Ledger, Init, Receivable, BadDebt, NoEntry, Entry

LEMMA NextLedger ==
    ASSUME Accounts, Ledger, [Next]_vars
    PROVE  Ledger'
  <1>1. ASSUME NEW i \in Invoices, CancelInvoice(i) PROVE Ledger'
    BY <1>1, CancelKeepsLedger
  <1>2. ASSUME NEW i \in Invoices, WriteOffInvoice(i) PROVE Ledger'
    BY <1>2, WriteOffKeepsLedger
  <1>3. ASSUME NEW i \in Invoices, NEW total \in Amount, GenerateInvoice(i, total) PROVE Ledger'
    BY <1>3, GenerateKeepsLedger
  <1>4. ASSUME NEW p \in Payments, ReversePayment(p) PROVE Ledger'
    BY <1>4, ReverseKeepsLedger
  <1>5. ASSUME NEW p \in Payments, NEW amount \in Amount,
               \/ RecordListedPayment(p, amount)
               \/ RecordAutoPayment(p, amount)
               \/ \E i \in Invoices : RecordInvoicePayment(p, i, amount)
        PROVE  Ledger'
    <2>1. PICK share, extra : Pays(p, amount, share, extra)
      BY <1>5, PaymentRows
    <2> QED
      BY <2>1, PaymentsKeepLedger
  <1>6. ASSUME NEW p \in Payments, NEW amount \in Amount, NEW i \in Invoices,
               RecoverBadDebt(p, i, amount)
        PROVE  Ledger'
    BY <1>6, RecoverKeepsLedger
  <1>7. CASE UNCHANGED vars
    BY <1>7 DEF vars, books, Ledger, Receivable, BadDebt, Dues, BadDebts, AdvanceRoom, Unallocated, Active, Recorded
  <1> QED
    BY <1>1, <1>2, <1>3, <1>4, <1>5, <1>6, <1>7 DEF Next

\* After any history the receivable is what invoices are owed less the advances,
\* and the bad debt what is written off, but for the entries the hooks failed to
\* make and the ones taken for repeated: payments that list an invoice twice and
\* hooks that swallow errors at any step included, no operation ever posts
\* anything but what it did to the rows.
THEOREM OnlyUnbookedEntriesAreMissing == Spec => []BooksMissOnlyTheUnbooked
  <1>1. Init => Ledger
    BY InitLedger
  <1>2. Accounts /\ Ledger /\ [Next]_vars => Ledger'
    BY NextLedger
  <1>3. Accounts /\ Ledger => BooksMissOnlyTheUnbooked
    BY LedgerIsOfTheRows
  <1> QED
    BY <1>1, <1>2, <1>3, AccountsHold, PTL DEF Spec
=============================================================================
