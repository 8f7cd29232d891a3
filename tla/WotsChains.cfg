\* Three chains of four positions, every combination of chunks.
CONSTANTS
    LEN = 3
    WOTS_MAX = 3
    None = None
    Start <- MCStart
    F     <- MCF
SPECIFICATION Spec
INVARIANTS TypeOK EndsAgree StepsPartition
