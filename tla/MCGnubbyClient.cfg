CONSTANTS
    OwnClients = {g1}
    Others = {o1}
    MaxExchanges = 2
    Tries = 2
    MaxBusy = 1
SPECIFICATION FairClientSpec
INVARIANTS OwnReply PromptSyncReportsOnce
PROPERTIES ExchangeAnswered SyncAnswered
CHECK_DEADLOCK FALSE
