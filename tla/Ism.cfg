\* Any number of matches at once (three here).
SPECIFICATION FairSpec
CONSTANTS
    Matchers = {m1, m2, m3}
    MaxFailures = 2
INVARIANTS ActiveSideComplete CountedMatchUndisturbed
PROPERTIES PurchaserNotStarved
