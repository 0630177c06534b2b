SPECIFICATION FairSpec
CONSTANTS
    Slots = {s1, s2}
    Cards = {c1}
    BatchViews = {"seen_cards"}
    ProgressViews = {}
    InitVersion = 1
    MaxAnswers = 1
    RedisFails = TRUE
    DbFails = TRUE
    VersionExpires = FALSE
    Crashes = TRUE
    Serves <- OneReader
INVARIANT BatchInv
INVARIANT BatchesFresh
INVARIANT CleanRepliesFresh
PROPERTY EventuallyFresh
