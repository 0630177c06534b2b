SPECIFICATION Spec
CONSTANTS
    Events = {e1}
    ClientAts = {0, 9}
    NoTime = NoTime
    MaxBackdate = 1
    Retention = 1
    Deps = {db, redis}
    Slots = {s1, s2}
    Retries = 1
    MaxTime = 2
    MaxFails = 2
    MaxStops = 1
PROPERTY RowsKept
PROPERTY RequestsEnd
PROPERTY OldRowsGo
