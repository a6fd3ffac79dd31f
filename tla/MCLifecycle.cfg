SPECIFICATION HealthFairSpec
CONSTANTS
    Pollers = {"drift", "balance"}
    HasDuration = TRUE
    MaxHeaderAge = 1
    Horizon = 2
INVARIANTS
    FailureIsReported
    ReadyIsTrue
    UnreadyIsTrue
PROPERTIES
    EverythingStops
