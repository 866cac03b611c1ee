SPECIFICATION MCSpec
CONSTANTS
    None = None
    clerk = clerk
    cfo = cfo
    Users = {clerk, cfo}
    HoldersOf <- MCHolders
    Instances = {i1}
    Sequences <- ThreeStages
    Conditional <- ThreeStages
    StageType <- Type3
    MinApprovals <- Min3
    RolesFor <- MixedRoles3
    Requests = {r1, r2}
    MayFail = TRUE
    MaxRecorded = 5
    RaceRecorded = 3
SYMMETRY Symmetry
INVARIANTS WorkflowTypeOK ApprovalsAreRecorded EnoughApprovals SerialStages
PROPERTIES SerialEndedForGood
CHECK_DEADLOCK FALSE
