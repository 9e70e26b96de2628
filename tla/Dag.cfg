\* Three nodes: a transient LB error, or every other fault.
SPECIFICATION FairSpec
CONSTANTS
    Order <- MCOrder
    Parents <- MCParents
    Copies = {1, 2}
    MaxQueued = 2
    Prompt = TRUE
    Bounds <- AllBounds
INVARIANTS DoneMeansAllDone 
PROPERTIES ParentsFirst DagEndsUnlessLost
