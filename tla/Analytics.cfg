SPECIFICATION Spec
CONSTANTS
    Accounts = {u1}
    Anons = {a1}
    Cards = {c1, c2}
    Milestones = {1, 2, 4}
    Week = 2
    Weeks = 2
    Recently <- Lookback
    Days = 4
    MinAnswers = 1
    MaxBackdate = 1
    Retention = 2
    StreakRows = 2
    MaxDay = 4
    MaxRows = 3
SYMMETRY Symmetry
INVARIANT CountsAgree
INVARIANT RetentionSound
PROPERTY ClosedDaysStay
PROPERTY StreakCounts
