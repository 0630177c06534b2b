SPECIFICATION Spec
CONSTANTS
    Slots = {s1}
    Cards = {c1}
    BatchViews = {"seen_cards"}
    ProgressViews = {}
    InitVersion = 0
    MaxAnswers = 2
    RedisFails = FALSE
    DbFails = FALSE
    VersionExpires = FALSE
    Crashes = FALSE
    Serves <- FeedOnly
INVARIANT NoRepeats
