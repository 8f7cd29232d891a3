\* Three processes over two layer files, two at once, killed or failing anywhere.
CONSTANTS
    D = 2
    None = None
    Empty = Empty
    Torn = Torn
    MAX_SAFE = 7
    MaxRuns = 3
    MaxAtOnce = 2
    s1 = s1
    s2 = s2
    unverified = unverified
    unlinked = unlinked
    rootless = rootless
    Seeds    <- MCSeeds
    Outs     <- MCOuts
    Witness  <- MCWitness
    Root     <- MCRoot
    Verifies <- MCVerifies
SYMMETRY Sound
SPECIFICATION Spec
INVARIANTS OkMeansOneChain InterruptedLeavesPrefix
