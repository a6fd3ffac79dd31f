SPECIFICATION FairSpec
CONSTANTS
    Redacted <- ThreeNodes
    MaxHeight = 1
INVARIANTS
    DriftConsistent
PROPERTIES
    DriftNeverOverstates
    ComesBack
    OutageShown
