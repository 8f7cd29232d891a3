\* What rfp_smoke_full.rs says of --close.
CONSTANTS
    None = None
    NEEDED_R_LEN = 26
    M = 3
    M_IN = 1
    BoundaryOffset <- MCBoundaryOffset
    WtnsLists  <- MCWtnsLists
    StepCounts <- MCStepCounts
    RLens      <- MCRLens
SPECIFICATION Spec
INVARIANT CloseAlsoVerifiesUncompressed
