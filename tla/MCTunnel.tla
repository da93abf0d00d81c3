------------------------------ MODULE MCTunnel ------------------------------
(* Small instances of CloudflareTunnel for TLC. *)
EXTENDS CloudflareTunnel, TLC

Symmetry == {i @@ n @@ r : i \in Permutations(TunnelIDs),
                           n \in Permutations(Names),
                           r \in Permutations(RouteSets)}

\* Configurations with different rules have different digests.
MCHash(c) == <<"sha256", c>>

\* Bounds on the faults and crashes, the tunnels deleted from the dashboard,
\* the changes of routes, of replica counts and of the spec, the deletion of
\* the resource, and all of these together.
B(f, c, x, r, p, s, d, any) ==
    [k \in Kinds |-> CASE k = "fault" -> f    [] k = "crash" -> c
                       [] k = "external" -> x [] k = "routes" -> r
                       [] k = "replicas" -> p [] k = "spec" -> s
                       [] k = "delete" -> d   [] k = "any" -> any]

\* Any two of the disturbances, in any order and at any moment.
BoundPairs == B(2, 1, 1, 2, 1, 1, 1, 2)
\* Any one of them, then quiet.
BoundOne == B(1, 1, 1, 1, 1, 1, 1, 1)
\* Routes and the spec change, nothing fails.
BoundConfig == B(0, 0, 0, 2, 1, 1, 1, 2)
\* A tunnel is deleted from the dashboard.
BoundExternal == B(0, 0, 1, 0, 0, 0, 0, 1)

\* Liveness is checked without symmetry.  Instead the instance starts with a
\* fixed spec and Cloudflare hands out the identifiers 1, 2, ... in order:
\* other choices only rename the constants.
LiveInit ==
    /\ Init
    /\ obj.spec = [name |-> "n1", fallback |-> "f1"]
    /\ cf \in {[i \in TunnelIDs |-> IF i \in pre THEN Fresh(n) ELSE Unused] :
                 pre \in {{}, {1}}, n \in Names}
LiveSpec == LiveInit /\ [][Next]_vars /\ Fairness

InOrder ==
    \A i \in created' \ created, j \in TunnelIDs : j < i => cf[j] # Unused
=============================================================================
