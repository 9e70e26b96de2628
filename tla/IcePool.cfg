\* The requests pool with two jobs, and a pool whose ids are times.
SPECIFICATION FairSpec
CONSTANTS
    MaxIceThreads = 1
    ReqNum = 2
    MaxTimesFull = 1
    Workers = {w1, w2}
    Jobs = {"a", "b", "timed"}
    Timed = "timed"
    Pools <- MCPools
    MaxCommands = 4
    MaxTime = 1
INVARIANTS NoIdleWorker
PROPERTIES JobOrder CommandsServed
