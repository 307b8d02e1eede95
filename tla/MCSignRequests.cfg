CONSTANTS
    MaxRequests = 2
    Ports = {port1}
    NoPort = NoPort
    Patience = {"long", "short", "none"}
SPECIFICATION FairSpec
INVARIANTS OneAtWork DeadPortFreesQueue TimeoutIsHonest AtMostOneResponse
PROPERTIES EveryRequestLeavesQueue EveryRequestAnswered
CHECK_DEADLOCK FALSE
