\* Payments may list an invoice twice; any two journal entries may fail to be made.
SPECIFICATION Spec
CONSTANTS
    Invoices = {1, 2}
    Payments = {1, 2}
    MaxAmount = 3
    SplitLines = TRUE
    MaxFailures = 2
CHECK_DEADLOCK FALSE
INVARIANTS
    TypeOK
    NeverOverpaid
    WrittenOffIsSettled
    StatusFollowsMoney
    PaymentsAreNotOverspent
    RecoveredWasPaid
    BooksMissOnlyTheUnbooked
