SPECIFICATION Spec
CONSTANTS
    None = None
    MaxRecords = 6
    Resources = {"a", "b"}
    Hosts = {"h1", "h2"}
    RouteHosts = {"h1"}
    Targets = {"t1"}
    SpecsOf <- Two
    ForeignKinds = {"CNAME"}
    Bound <- BoundDelete
CHECK_DEADLOCK FALSE
PROPERTY OthersKept
