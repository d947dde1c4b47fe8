SPECIFICATION Spec
CONSTANTS
    Record = {1, 2, 3, 4, 5}
    NetboxContents <- MCContents
    PageSize = 2
    MaxConcurrency = 2
    RetryCount = 2
    MaxChanges = 2
INVARIANTS TypeOK QuietIsExact LossBounded
PROPERTIES Returns RidesOutOutage
