CONSTANTS
    MaxRequests = 3
    Ports = {port1}
    NoPort = NoPort
    Patience = {"long"}
SPECIFICATION Spec
INVARIANT BegunExpiredMeansTimeout
CHECK_DEADLOCK FALSE
