SPECIFICATION FairSpec
CONSTANTS
    BYTE = 2
    P = 241
    HALF_FULL = 1
    PARTIAL = 2
    ROUND_CONSTANTS <- MCRoundConstants
    Calls <- MCCalls
    MaxCalls = 2
INVARIANTS
    AlwaysCanonical
    ReduceIsPaddedTree
    SameFrameSameCall
PROPERTIES
    CallsReturn
