SPECIFICATION Spec
CONSTANTS
    None = None
    MaxRecords = 6
    Resources = {"a"}
    Hosts = {"h1"}
    RouteHosts = {"h1"}
    Targets = {"t1"}
    SpecsOf <- One
    ForeignKinds = {"A"}
    Bound <- BoundExternal
CHECK_DEADLOCK FALSE
INVARIANT DuplicateHandled
