\* Six constraint systems and a witness, whole, cut and malformed.
CONSTANTS
    None = None
    BASE = 256
    Inputs <- MCInputs
SPECIFICATION Spec
INVARIANTS ParsesWhatWasWritten CompleteFilesParse LiftsAgree LiftsWhatWasWritten
