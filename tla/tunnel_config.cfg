SPECIFICATION LiveSpec
CONSTANTS
    None = None
    Names = {"n1"}
    Fallbacks = {"f1", "f2"}
    RouteSets = {"r1", "r2"}
    TunnelIDs = {1}
    Hash <- MCHash
    Bound <- BoundConfig
ACTION_CONSTRAINT InOrder
CHECK_DEADLOCK FALSE
PROPERTY ConfigConverges
