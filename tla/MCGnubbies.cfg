CONSTANTS
    Clients = {g1, g2}
    Scanner = Scanner
    hid = hid
    usb = usb
    Ids = {hid, usb}
    Namespaces = {hid, usb}
    Namespace <- KeyOfEachDriver
    Retries = 1
SPECIFICATION FairSpec
INVARIANTS OneHandlePerKey OpenClientAttached
PROPERTIES EveryOpenAnswered AbandonedDeviceReleased
CHECK_DEADLOCK FALSE
