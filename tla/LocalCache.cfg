SPECIFICATION MapSpec
CONSTANTS
    k1 = k1
    k2 = k2
    k3 = k3
    k4 = k4
    v1 = v1
    v2 = v2
    Keys <- AllKeys
    Values = {v1, v2}
    NoValue = NoValue
    Ttls = {1, 2}
    Prefixes <- OnePrefix
    MaxEntries = 3
    Times = {0, 1, 2, 3}
SYMMETRY Alike
INVARIANT Bounded
PROPERTY EvictsOldest
PROPERTY KeepsPromise
