SPECIFICATION Spec
CONSTANTS
    Slots = {s1, s2}
    Cards = {c1}
    BatchViews = {"seen_cards"}
    ProgressViews = {"progress"}
    InitVersion = 0
    MaxAnswers = 2
    RedisFails = TRUE
    DbFails = TRUE
    VersionExpires = TRUE
    Crashes = TRUE
    Serves <- ViewsOnly
SYMMETRY Symmetry
INVARIANT ViewInv
INVARIANT ViewsFresh
