CONSTANTS
    Clients = {g1, g2}
    NoClient = NoClient
    MaxFrames = 4
    MaxFragments = 2
SPECIFICATION FairSpec
INVARIANTS SendNeverStalls ListensForClients
PROPERTIES FramesInOrder AbandonedDeviceDestroyed
CHECK_DEADLOCK FALSE
