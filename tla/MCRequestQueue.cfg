CONSTANT MaxTokens = 4
SPECIFICATION FairListSpec
INVARIANTS HeadStarted SerialService
PROPERTIES EventuallyServed ImplementsTokenQueue
CHECK_DEADLOCK FALSE
