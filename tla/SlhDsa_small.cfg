\* Three layers of height 2: 64 (tree, leaf) pairs, a concrete hash all the way down.
CONSTANTS
    D = 3
    K_FORS = 2
    HPRIME = 2
    Seeds <- MCSeeds
    Msgs = {1, 2, 3, 4}
    Rands = {1, 2}
    Places = {"first", "last"}
    MaxSigs = 2
    None = None
    Digest        <- MCDigest
    ForsSign      <- MCForsSign
    ForsPk        <- MCForsPk
    ForsPkFromSig <- MCForsPkFromSig
    XmssRoot      <- MCXmssRoot
    XmssSign      <- MCXmssSign
    XmssPkFromSig <- MCXmssPkFromSig
    Damage        <- MCDamage
SPECIFICATION Spec
INVARIANTS TypeOK IndexAgreement OneMessagePerWotsKey HonestAccepted AlteredRejected WitnessesChain PanicOnlyAfterReject
