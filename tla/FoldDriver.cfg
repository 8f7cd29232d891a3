\* Every combination of flags over the lists of MCSmokeDrivers.
CONSTANTS
    None = None
    NEEDED_R_LEN = 26
    M = 3
    M_IN = 1
    BoundaryOffset <- MCBoundaryOffset
    WtnsLists  <- MCWtnsLists
    StepCounts <- MCStepCounts
    RLens      <- MCRLens
SPECIFICATION DriversSpec
INVARIANTS PassMeansWholeChain CheckedBeforeFolded AutoPlanFits  MirrorsRfpSmoke
