------------------------------ MODULE MCRoutes ------------------------------
(* Small instances of GatewayRoutes for TLC. *)
EXTENDS GatewayRoutes, TLC

BoundOne == [k \in Kinds |-> 1]

\* "g" is a Gateway of cfgate whose annotation and listener may change, "h" one
\* of a service mesh.
G(c, l, t) == [class |-> c, listeners |-> [n \in Listeners |-> l], tunnelRef |-> t]
GatewaySpecsMC == [g \in Gateways |->
    IF g = "g" THEN {G("cfgate", "all", "t"), G("cfgate", "all", None), G("cfgate", "same", "t")}
    ELSE {G("istio", "all", None)}]

\* The route is attached to both, or to another listener of the first only.
R(p, policy) == [refs |-> p, backends |-> Services, policy |-> policy]
RouteSpecsMC == [r \in Routes |->
    {R({[gw |-> "g", section |-> "l"], [gw |-> "h", section |-> None]}, "p"),
     R({[gw |-> "g", section |-> None]}, None)}]

\* The instances start with cfgate's class and Gateway in place, those of the
\* mesh and the route are there or not.
StartInit ==
    /\ Init /\ classes["cfgate"].exists /\ ~classes["istio"].exists
    /\ gateways["g"].exists /\ gateways["g"].spec = G("cfgate", "all", "t")
    /\ \A r \in Routes : /\ gateways["h"].exists # routes[r].exists
                         /\ ~routes[r].exists => routes[r].spec.policy # None
StartSpec == StartInit /\ [][Next]_vars /\ Fairness
=============================================================================
