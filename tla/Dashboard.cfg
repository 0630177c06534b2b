SPECIFICATION DashboardSpec
CONSTANTS
    all = all
    authed = authed
    NoKey = NoKey
    Tokens = {t1, t2}
    Controls = {all, authed}
    ServerRows <- SomeRows
    ServerCohorts <- SomeCohorts
    Queries = {"", "q"}
    Matching <- SomeMatching
    PageSizes = {1, 4, 0}
    PageSize = 4
    CohortPage = 2
    FetchUsers = 9
    MaxUsers = 9
    Fetches = {f1, f2}
    MaxRotations = 1
INVARIANT PagesSound
INVARIANT ShownIsAsked
