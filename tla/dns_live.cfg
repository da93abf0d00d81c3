SPECIFICATION LiveSpec
CONSTANTS
    None = None
    MaxRecords = 6
    Resources = {"a", "b"}
    Hosts = {"h1", "h2"}
    RouteHosts = {"h1"}
    Targets = {"t1", "t2"}
    SpecsOf <- Two
    ForeignKinds = {"CNAME"}
    Bound <- BoundOne
CHECK_DEADLOCK FALSE
PROPERTIES DeletionCompletes RecordsConverge
