SPECIFICATION FairSpec
CONSTANTS
    a = a
    b = b
    c = c
    x = x
    FirstCards <- TwoCards
    File <- NewFile
    Batches <- OneBatch
    Seeds = {s1}
    Appends = {b1, b2}
    Requests = {r1, r2}
    DailyCount = 1
    Score <- SomeScore
    Serves <- OneFeeds
    Answerable = {2}
    MaxRuns = 2
    Fails = TRUE
INVARIANT SharedFresh
INVARIANT SameDailyForAll
INVARIANT AppendsWhole
PROPERTY EventuallyCurrent
