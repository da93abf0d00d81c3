SPECIFICATION LiveSpec
CONSTANTS
    None = None
    Names = {"n1", "n2"}
    Fallbacks = {"f1", "f2"}
    RouteSets = {"r1"}
    TunnelIDs = {1, 2, 3}
    Hash <- MCHash
    Bound <- BoundOne
ACTION_CONSTRAINT InOrder
CHECK_DEADLOCK FALSE
PROPERTIES DeletionCompletes InfraConverges
