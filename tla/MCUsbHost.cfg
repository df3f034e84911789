CONSTANTS
    Names = {1, 2}
    Kinds <- WritableAndReadOnly
    MaxQueue = 0
SPECIFICATION Spec
CHECK_DEADLOCK FALSE
PROPERTY GoneIsClosed
