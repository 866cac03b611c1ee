SPECIFICATION MCSpec
CONSTANTS
    None = None
    i1 = i1
    i2 = i2
    d1 = d1
    Invoices = {i1, i2}
    Vouchers = {v1, v2}
    Batches = {b1}
    Deductions = {d1}
    VendorOf <- TwoVendors
    Total <- TwoCents
    Lists <- AnyList
    Users = {u1, u2}
    Requests = {r1, r2}
    MayFail = TRUE
    MaxPosted = 2
SYMMETRY Symmetry
INVARIANT NotOverpaid
CHECK_DEADLOCK FALSE
