SPECIFICATION Spec
CONSTANTS
    Handoffs = {h1, h2}
    Tokens = {t1, t2}
    NoToken = NoToken
    Slots = {s1, s2, s3}
    RedisFails = TRUE
    DbFails = TRUE
    Crashes = TRUE
SYMMETRY Symmetry
INVARIANT IInv
INVARIANT LaterUseFails
INVARIANT Available
