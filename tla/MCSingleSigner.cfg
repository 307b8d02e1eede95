CONSTANTS
    MaxChallenges = 3
    h1 = h1
    h2 = h2
    KeyHandle <- Handle3
SPECIFICATION FairSingleSpec
INVARIANTS GnubbyReleased NoneSkipped
PROPERTIES SignerReports
CHECK_DEADLOCK FALSE
