SPECIFICATION Spec
CONSTANTS
    None = None
    entity1 = entity1
    cash = cash
    sales = sales
    jan = jan
    feb = feb
    Entities <- MCEntities
    Accounts <- MCAccounts
    HeaderAccounts = {}
    Retirable = {}
    Entries = {e1, e2}
    Periods <- OnePeriod
    EntityOf <- AllOfEntity1
    YearOf <- SameYear
    Users = {u1, u2}
    Dtos <- CentDto
    Requests = {r1, r2}
SYMMETRY Symmetry
INVARIANTS TypeOK AuditTrail MakerChecker ReversalSound
PROPERTIES ImplementsRegister
CHECK_DEADLOCK FALSE
