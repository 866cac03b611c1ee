SPECIFICATION MCSpec
CONSTANTS
    None = None
    ann = ann ben = ben b1 = b1 l1 = l1 l2 = l2 k1 = k1 k2 = k2 w1 = w1 w2 = w2
    d1 = d1 d2 = d2 d3 = d3 d4 = d4 r1 = r1 o1 = o1 o2 = o2 g1 = g1 g2 = g2 i1 = i1 i2 = i2
    f1 = f1 n1 = n1 p1 = p1 p2 = p2 p3 = p3 s1 = s1 e1 = e1 e2 = e2 j1 = j1 j2 = j2
    x1 = x1 q1 = q1 v1 = v1 v2 = v2 t1 = t1 t2 = t2 t3 = t3 m1 = m1
    b2 = b2 b3 = b3 b4 = b4 q2 = q2 v3 = v3 v4 = v4 a1 = a1
    Calls = {c1, c2}
    Users = {ann, ben}
    Budgets = {b1}
    Lines = {l1, l2}
    BudgetOf <- OneBudget
    Commitments = {k1, k2}
    Amounts = {1, 2}
    MaxRevised = 2
    MaxPosted = 1
    Warehouses = {w1, w2}
    StockDocs = {d1, d2, d3, d4}
    Kind <- Kinds
    Quantity <- Quantities
    From <- Origins
    To <- Destinations
    Requisitions = {r1}
    Orders = {o1, o2}
    RequestOf <- RequestOfO1
    LineOf <- OneLine
    Ordered <- TwoEach
    Receipts = {g1, g2}
    Invoices = {i1, i2}
    OrderOf <- FirstOrder
    Delivered <- ByOne
    UnitCosts = {0, 1, 2}
    Shelf = w1
    Assets = {f1}
    Months = {1, 2, 3}
    Residuals = {0, 1}
    Depreciable = 3
    Monthly = 2
    MostPosted = 5
    Loans = {n1}
    Facility = 2
    Sums = {1, 2}
    MostInstallments = 3
    MostDrawn = 3
    Placements = {p1, p2, p3}
    Sessions = {s1}
    Items = {e1, e2}
    Booked = {j1}
    Fits <- ByHand
    MostMatches = 2
    Deals = {x1}
    Packages = {q1}
    Valuations = {v1, v2}
    PackageOf <- InQ1
    Retained <- OneEach
    Parts = {1}
    MostReleased = 2
    Networks = {m1}
    Tasks = {t1, t2, t3}
    Duration <- Durations
    Lags <- LagAndLead
    Bookings = {b2, b3, b4}
    Crew <- CrewOf
    Span <- SpanOf
    Capacity = 2
    Risks = {q2}
    Issues = {v3, v4}
    RiskOf <- OfQ2
    Feeds = {a1}
    Busy = {0, 2}
    Lookback = 2
    Horizon = 4
    MostImported = 2
INVARIANTS BudgetSound StockSound OrdersSound AssetsSound BankingSound DealsSound
    ProjectsSound
SYMMETRY Sym
PROPERTY EnvelopeKept
CHECK_DEADLOCK FALSE
