CONSTANTS
    Names = {1}
    Kinds <- OneDevice
    MaxQueue = 1
SPECIFICATION MCSpec
CHECK_DEADLOCK FALSE
INVARIANT FlowExact
INVARIANT UsbSafe
PROPERTY TakenArrives
PROPERTY GoneIsClosed
