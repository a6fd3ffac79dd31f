SPECIFICATION FairSpec
CONSTANTS
    Endpoints <- TwoEndpoints
    Denoms = {"utia", "other"}
    Amounts = {1, 2}
INVARIANTS
    TypeOK
PROPERTIES
    FailoverReaches
