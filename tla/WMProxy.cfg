CONSTANTS
    Proc = {p1, p2}
    None = None
    MaxCalls = 3
    MaxFaults = 1
SPECIFICATION Spec
CHECK_DEADLOCK FALSE
 
PROPERTIES AbortWins CancelSparesStart CallsEnd
