CONSTANTS
    Clients = {g1, g2}
    NoClient = NoClient
    MaxCommands = 4
SPECIFICATION FairSpec
INVARIANTS NeverThrows OneLockTimer
PROPERTIES ImplementsChannel
CHECK_DEADLOCK FALSE
