SPECIFICATION Spec
CONSTANTS
    Fields <- BothFields
    OldFields <- FirstField
    Levels = {0, 1}
    Factory <- BoardStart
    Defaults <- HeaderDefaults
    MaxSeq = 4
PROPERTY NeverAnOlderRecord
