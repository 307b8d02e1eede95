CONSTANTS
    AppIds = {origin, facets}
    Helpers = {usb, ble, other}
    Patience = {"long", "short", "none"}
SPECIFICATION FairSpec
INVARIANTS OneEnrollResponse HelpersStopped
PROPERTIES EveryEnrollAnswered AppIdCheckEnds
CHECK_DEADLOCK FALSE
