\* Two trees of eight leaves; every index pair, every order of the leaves.  A
\* forest of one tree is an XMSS tree: it is the first half of these behaviours.
CONSTANTS
    K = 2
    H = 3
    None = None
    Secret   <- MCSecret
    LeafHash <- MCLeafHash
    NodeHash <- MCNodeHash
SPECIFICATION FairSpec
INVARIANTS TypeOK RootsAgree NoMissingNode PathIsOfLeaf AddressesDistinct
PROPERTIES Terminates ImplementsContract
