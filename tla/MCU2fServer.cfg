CONSTANTS
    Threads = {t1, t2}
    Accounts = {alice, bob}
    Challenges = {c1234}
    MaxPairs = 2
    MaxSessions = 3
    MaxTokens = 2
    MaxCounter = 2
SPECIFICATION Spec
INVARIANT CountersIncrease
SYMMETRY Symmetric
CHECK_DEADLOCK FALSE
