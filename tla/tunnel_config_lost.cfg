SPECIFICATION LiveSpec
CONSTANTS
    None = None
    Names = {"n1"}
    Fallbacks = {"f1"}
    RouteSets = {"r1"}
    TunnelIDs = {1, 2}
    Hash <- MCHash
    Bound <- BoundExternal
ACTION_CONSTRAINT InOrder
CHECK_DEADLOCK FALSE
PROPERTY ConfigConverges
