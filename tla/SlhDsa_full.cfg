\* The source parameters; indices at word ends and across layer boundaries.
CONSTANTS
    D = 7
    K_FORS = 14
    HPRIME = 9
    Seeds <- MCSeeds
    Msgs <- MCMsgs
    Rands = {1}
    Places = {1}
    MaxSigs = 2
    None = None
    Digest        <- MCDigest
    ForsSign      <- MCForsSign
    ForsPk        <- MCForsPk
    ForsPkFromSig <- MCForsPkFromSig
    XmssRoot      <- MCXmssRoot
    XmssSign      <- MCXmssSign
    XmssPkFromSig <- MCXmssPkFromSig
    Damage        <- MCDamage
SPECIFICATION Spec
INVARIANT IndexAgreement
