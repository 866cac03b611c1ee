SPECIFICATION MCSpec
CONSTANTS
    None = None
    i1 = i1 i2 = i2 y1 = y1 y2 = y2 x1 = x1 x2 = x2 s1 = s1 s2 = s2 s3 = s3
    h1 = h1 h2 = h2 l1 = l1 a1 = a1 a2 = a2 t1 = t1 t2 = t2 p1 = p1
    v1 = v1 v2 = v2 k1 = k1 k2 = k2 k3 = k3 f1 = f1 n1 = n1 n2 = n2 n3 = n3 g1 = g1 g2 = g2 e1 = e1
    b1 = b1 b2 = b2 b3 = b3 b4 = b4 b5 = b5 o2 = o2 z1 = z1 z2 = z2 u1 = u1 q2 = q2 q3 = q3
    f2 = f2 r2 = r2 r3 = r3 c3 = c3 c4 = c4 i3 = i3
    d2 = d2 d3 = d3 p2 = p2 p3 = p3 r4 = r4 r5 = r5 y3 = y3 n4 = n4 n5 = n5 n6 = n6 n7 = n7
    Calls = {c1, c2}
    Users = {ann, ben}
    Bills = {i1, i2}
    Total <- TwoEach
    Settlements = {y1, y2}
    BillOf <- ForFirst
    Amount <- Halves
    MaxEntries = 1
    Units = {x1, x2}
    Reservations = {v1, v2}
    UnitOf <- AllFirstUnit
    Sales = {s1, s2, s3}
    Handovers = {h1, h2}
    SaleOf <- FirstTwoSales
    Snags = {n1}
    RecordOf <- FirstRecord
    MaxRevenue = 2
    Installments = {l1}
    Due <- TwoDue
    Mortgages = {m1}
    Lendable = {1, 2}
    Payments = {1, 2}
    MaxCash = 3
    Agents = {a1, a2}
    Assignments = {t1, t2}
    Plans = {p1}
    AgentOf <- OneEach
    MaxBasis = 3
    Terms <- TermsAsked
    Calculations = {k1, k2, k3}
    MaxAccrued = 2
    LeadRows = {d1}
    MostCustomers = 2
    Flats = {f1}
    Tenants = {n2, n3}
    Leases = {g1, g2}
    FlatOf <- OneFlat
    TenantOf <- Hers
    MostRents = 2
    Plots = {q1}
    Projects = {j1, j2}
    Estates = {e1}
    MasterPlans = {m2, m3}
    EstateOf <- OneEstate
    Candidates = {o1}
    Versions = {1, 2}
    MostCopies = 2
    Openings = {b1}
    Vacancies = {b2}
    OpeningOf <- ForB1
    Applications = {b3}
    VacancyOf <- ForB2
    Interviews = {b4, b5}
    ApplicationOf <- ForB3
    CopyOf <- EachCopy
    Panel = {ann, ben}
    OfferTo <- OfferToB3
    JobOffers = {o2}
    MostSent = 2
    Payrolls = {r1}
    Staff = {z1, z2}
    Gross <- PayOf
    Earnings <- YearlyEarnings
    MostCharged = 2
    Balances = {u1}
    Requests = {q2, q3}
    BalanceOf <- OneBalance
    LeaveDays <- DaysAsked
    Yearly = 2
    Carried = {0, 1}
    Exits = {w1}
    Clearances = {"desk", "asset"}
    AssetItem = "asset"
    Facilities = {f2}
    Repairs = {r2, r3}
    FacilityOf <- AllOfF2
    MostBilled = 2
    Incidents = {i3}
    Corrections = {c3, c4}
    IncidentOf <- AllOfI3
    Checklists = {k4}
    Checks = {1, 2}
    Open = 1
    Completed = 2
    WorkDays = {d2, d3}
    Times = {1, 2}
    Punches = {p2, p3}
    DayOf <- OnDays
    Cycles = {y3}
    Reviews = {r4, r5}
    CycleOf <- OneCycle
    Notices = {n4, n5, n6, n7}
    ChannelOf <- Channels
    Phoneless = {n7}
    Attempts = 2
    MostJobs = 2
    MostMessages = 2
SYMMETRY Sym
INVARIANTS ReceivablesSound SalesSound HandoverSound CustomerPaymentsSound CommissionsSound
    PropertySound OutreachSound PeopleSound
PROPERTY NoSnagLeft
CHECK_DEADLOCK FALSE
