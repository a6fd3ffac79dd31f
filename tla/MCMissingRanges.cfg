SPECIFICATION ScrapeSpec
CONSTANTS
    BlobTypes = {header}
    MaxHeight = 4
    MaxOverlaps = 1
    header = header
INVARIANTS
    TypeOK
    RangesCanonical
    PublishedMatchesRanges
    TotalMatchesRanges
    GaugesSettled
    NoDoubleCount
    ScrapeIsOfItsTime
PROPERTY
    ImplementsMissingSet
