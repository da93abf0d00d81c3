SPECIFICATION StartSpec
CONSTANTS
    None = None
    Classes = {"cfgate", "istio"}
    Ours = {"cfgate"}
    Gateways = {"g", "h"}
    Listeners = {"l"}
    Routes = {"r"}
    Away = {"r"}
    Tunnels = {"t"}
    Services = {"s"}
    Policies = {"p"}
    GatewaySpecsOf <- GatewaySpecsMC
    RouteSpecsOf <- RouteSpecsMC
    Bound <- BoundOne
CHECK_DEADLOCK FALSE
INVARIANTS TypeOK NoneForgotten
PROPERTIES OthersKept ReportsCurrent ClassConverges GatewaysConverge RoutesConverge
