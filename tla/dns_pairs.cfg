SPECIFICATION StartSpec
CONSTANTS
    None = None
    MaxRecords = 5
    Resources = {"a", "b"}
    Hosts = {"h1", "h2"}
    RouteHosts = {"h1"}
    Targets = {"t1"}
    SpecsOf <- Two
    ForeignKinds = {"CNAME", "A"}
    Bound <- BoundPairs
CHECK_DEADLOCK FALSE
INVARIANTS TypeOK IdsOfTheirHosts NoneForgotten
PROPERTIES ForeignUntouched PolicyRespected NeighboursKept HeldWhileOwned
