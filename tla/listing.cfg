SPECIFICATION LiveSpec
CONSTANTS
    Certs <- Rows
    Completed <- CompletedAt
    Submitted <- SubmittedAt
    DnsPreferred <- Preferred
    Unreadable = {5}
    Columns <- SortColumns
    Filters <- AnyFilter
    QueuedAfter = 1
    Limits <- SomeLimits
    MaxLimit = 3
    DefaultLimit = 2
    Null = Null
    None = None
INVARIANTS TypeOK WalkMissesNothing RepeatsOnlyAfterArrivals
PROPERTIES WalkEnds
