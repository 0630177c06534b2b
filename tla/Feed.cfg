SPECIFICATION Spec
CONSTANTS
    Cards = {1, 2, 3}
    Difficulty <- Tiers
    Category <- Themes
    Hashes <- SomeHashes
    Levels = {9}
    Counts = {1}
    MaxDue = 1
 
 
INVARIANT WeightsOrdered
