\* One crash.
SPECIFICATION Spec
CONSTANTS
    Procs = {1, 2}
    Copies = {1, 2, 3}
    MaxToken = 0
    MaxReplans = 0
    ShallowLimit = 0
    DeepLimit = 0
    Bounds <- OneCrash
INVARIANT NoDoubleSubmission
