\* Cancels of the Workload Manager's workers, which share one JobDir, to ICE.
SPECIFICATION Spec
CONSTANTS
    p1 = p1
    p2 = p2
    Producers = {p1, p2}
    Id <- SharedId
    Requests = {r1, r2, r3}
    MaxStamp = 2
    MaxRead = 3
    SkipFailed = TRUE
    Requeue = FALSE
    MaxFaults = 1
    MaxCrashes = 1
SYMMETRY MCSymmetry
INVARIANTS  LostOnlyByCollision
