SPECIFICATION Spec
CONSTANTS
    None = None
    entity1 = entity1
    cash = cash
    sales = sales
    jan = jan
    feb = feb
    Entities <- MCEntities
    Accounts <- MCAccounts
    HeaderAccounts = {}
    Retirable <- CashAndEntity
    Entries = {e1, e2}
    Periods <- TwoPeriods
    EntityOf <- AllOfEntity1
    YearOf <- TwoYears
    Users = {u1, u2}
    Dtos <- MixedDtos
    Requests = {r1}
SYMMETRY Symmetry
CONSTRAINT OneRetired
INVARIANTS GapFree ManualBalanced NothingTrapped
PROPERTIES LedgerOnlyGrows
CHECK_DEADLOCK FALSE
