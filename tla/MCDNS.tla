-------------------------------- MODULE MCDNS --------------------------------
(* Small instances of CloudflareDNS for TLC. *)
EXTENDS CloudflareDNS, TLC

\* Bounds on the faults, the crashes, the changes others make to the zone, of
\* the routes, the tunnel and the specs, the deletions, and all of these.
B(f, c, x, r, t, s, d, any) ==
    [k \in Kinds |-> CASE k = "fault" -> f    [] k = "crash" -> c
                       [] k = "external" -> x [] k = "routes" -> r
                       [] k = "target" -> t   [] k = "spec" -> s
                       [] k = "delete" -> d   [] k = "any" -> any]

\* Any two disturbances of different kinds; any one; a change of the routes, a
\* record somebody adds, a deletion alone.
BoundPairs == B(1, 1, 1, 1, 0, 1, 1, 2)
BoundOne == B(1, 1, 1, 1, 1, 1, 1, 1)
BoundExternal == B(0, 0, 1, 0, 0, 0, 0, 1)
BoundDelete == B(0, 0, 0, 0, 0, 0, 1, 1)

S(p, e, r, t) == [policy |-> p, explicit |-> e, routes |-> r, txt |-> t, cleanup |-> TRUE]

\* "a" follows the routes, "b" has a hostname of its own, which it may lose.
Two == [o \in Resources |->
    IF o = "a" THEN {S("sync", {}, TRUE, TRUE), S("create-only", {"h1"}, FALSE, TRUE)}
    ELSE {S("sync", {"h2"}, FALSE, FALSE), S("sync", {}, FALSE, TRUE)}]
One == [o \in Resources |-> {S("sync", {}, TRUE, TRUE)}]

\* The instances start with the routes and b's hostname there.
StartInit == Init /\ routes = RouteHosts /\ \A o \in Resources \ {"a"} : crs[o].spec.explicit # {}
StartSpec == StartInit /\ [][Next]_vars
LiveInit == StartInit /\ target = "t1" /\ crs["a"].spec.policy = "sync"
LiveSpec == LiveInit /\ [][Next]_vars /\ Fairness
=============================================================================
