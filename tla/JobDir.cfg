\* Requests to the Workload Manager: distinct names, old/ requeued.
SPECIFICATION FairSpec
CONSTANTS
    p1 = p1
    p2 = p2
    Producers = {p1, p2}
    Id <- DistinctIds
    Requests = {r1, r2}
    MaxStamp = 2
    MaxRead = 2
    SkipFailed = FALSE
    Requeue = TRUE
    MaxFaults = 1
    MaxCrashes = 2
INVARIANTS NoneLost
PROPERTIES ReadInOrder ImplementsRequestQueue ServedDespiteCrashes
