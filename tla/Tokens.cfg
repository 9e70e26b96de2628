\* Failures; or a replan and a cancel; or a crash.
SPECIFICATION FairSpec
CONSTANTS
    Procs = {1, 2, 3}
    Copies = {1, 2, 3, 4, 5, 6}
    MaxToken = 1
    MaxReplans = 1
    ShallowLimit = 1
    DeepLimit = 1
    Bounds <- AllBounds
INVARIANTS PayloadsAccounted RetriesBounded SubmissionsAccounted
 
