SPECIFICATION FairSpec
CONSTANTS
    Users = {u1, u2}
    Codes = {k1, k2}
    NoCode = NoCode
    Slots = {s1, s2}
    MaxTries = 2
    DbFails = TRUE
    Deletions = TRUE
INVARIANT IInv
INVARIANT AddedIsThere
INVARIANT SymmetricUnlessRaced
INVARIANT SettledStays
PROPERTY EveryRequestEnds
