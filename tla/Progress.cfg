SPECIFICATION Spec
CONSTANTS
    Accounts = {u1, u2}
    Anons = {a1}
    Cards = {c1}
    Claims = {q1, q2}
    RetryWindow = 1
    MaxTime = 1
    DbFails = TRUE
SYMMETRY Symmetry
INVARIANT IInv
INVARIANT AnswersKept
INVARIANT LateRetryHarmless
PROPERTY SeenGrows
PROPERTY MasteredStays
