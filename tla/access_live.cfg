SPECIFICATION LiveSpec
CONSTANTS
    None = None
    MaxIDs = 8
    Secrets = {1, 2, 3}
    Resources = {"a", "b"}
    AppNames = {"x", "y"}
    Domains = {1, 2}
    PolicyNames = {"p1", "p2"}
    TokenNames = {"t"}
    CertNames = {"m"}
    Targets = {"r1", "r2"}
    Foreign = {"r2"}
    Unsupported = {}
    Linked = {"r1"}
    RouteStates <- Routes
    SpecsOf <- TwoMTLS
    Bound <- BoundOne
CHECK_DEADLOCK FALSE
PROPERTIES DeletionCompletes AccessConverges Settles
