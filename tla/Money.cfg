SPECIFICATION MCSpec
CONSTANTS
    None = None
    p1 = p1
    Payments = {p1}
    Refunds = {f1}
    Transfers = {t1}
    PaymentOf <- OfP1
    Calls = {u1}
    MaxFaults = 1
    MaxEvents = 1
INVARIANTS Truthful RefundsWhatWasPaid OrderedOnce
PROPERTY PaymentsSettle
CHECK_DEADLOCK FALSE
