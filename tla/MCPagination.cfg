SPECIFICATION FairSpec
CONSTANTS
    Cursors = {p1, p2, p3}
    First = First
    Last = Last
    MaxPages = 3
INVARIANTS NoPageTwice CompleteListing CycleIsReal LimitIsReal
PROPERTY ListingEnds
CHECK_DEADLOCK FALSE
