CONSTANTS
    Job = {j1}
    Poller = {p1, p2}
    Logger = {l1}
    None = None
    MaxSubmissions = 2
    Scenarios <- MCScenarios
SPECIFICATION Spec
CHECK_DEADLOCK FALSE
INVARIANTS   ResubmittedOnce
PROPERTIES Drained
