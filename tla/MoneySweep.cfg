SPECIFICATION MCSpec
CONSTANTS
    None = None
    p1 = p1
    Payments = {}
    Refunds = {}
    Transfers = {t1}
    PaymentOf <- OfP1
    Calls = {u1}
    MaxFaults = 1
    MaxEvents = 1
PROPERTY TransfersSettle
CHECK_DEADLOCK FALSE
