\* The system with a wire twice in one linear combination.
CONSTANTS
    None = None
    BASE = 256
    Inputs <- MCTwiceInputs
SPECIFICATION Spec
INVARIANT SparseSameAsDense
