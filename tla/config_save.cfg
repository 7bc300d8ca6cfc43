SPECIFICATION Spec
CONSTANTS
    Fields <- BothFields
    OldFields <- FirstField
    Levels = {0, 1}
    Factory <- BoardStart
    Defaults <- HeaderDefaults
    MaxSeq = 6
INVARIANTS AckedIsStored
PROPERTIES AtomicSpec
