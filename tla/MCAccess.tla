------------------------------ MODULE MCAccess ------------------------------
(* Small instances of CloudflareAccess for TLC. *)
EXTENDS CloudflareAccess, TLC

\* Bounds on the faults, the crashes, the losses of a secret, the changes others
\* make to the account, expiries, changes of routes, grants and the CA, of the
\* specs, deletions, and all of these.
B(f, c, l, x, e, r, s, d, any) ==
    [k \in Kinds |-> CASE k = "fault" -> f    [] k = "crash" -> c
                       [] k = "lost" -> l
                       [] k = "external" -> x [] k = "expire" -> e
                       [] k = "routes" -> r   [] k = "spec" -> s
                       [] k = "delete" -> d   [] k = "any" -> any]

BoundPairs == B(1, 1, 1, 1, 1, 0, 1, 1, 2)
BoundOne == B(1, 1, 1, 1, 1, 1, 1, 1, 1)
BoundFault == B(1, 0, 1, 0, 0, 0, 0, 0, 1)

P(r, k) == [rules |-> r, groups |-> FALSE, precedence |-> k]

\* Two policies of an application, one of which goes when the spec changes.
Before == [n \in PolicyNames |-> IF n = "p1" THEN P({"email"}, 1) ELSE None]
After  == [n \in PolicyNames |-> IF n = "p2" THEN P({"country"}, 1) ELSE None]

\* "a" uses every feature, inherits its credentials from its targets and may
\* lose its policy, its token and its domain; "b" is plain,
\* for the same domain, and leaves everything behind when it goes.
A(p, t, m, d) ==
    [name |-> "x", domain |-> d, cors |-> "set", policies |-> p, tokens |-> t,
     mtls |-> m, targets |-> {"r1", "r2"}, inherit |-> TRUE, orphan |-> FALSE]
Plain ==
    [name |-> "y", domain |-> 1, cors |-> "none", policies |-> NoPolicies, tokens |-> {},
     mtls |-> None, targets |-> {}, inherit |-> FALSE, orphan |-> TRUE]
Two(m) == [o \in Resources |->
    IF o = "a" THEN {A(Before, {"t"}, m, None), A(After, {}, m, 2)} ELSE {Plain}]
TwoPlain == Two(None)
TwoMTLS == Two("m")

\* The hostnames of the targets; one of them goes.
Routes == {[t \in Targets |-> [there |-> h # "r1" \/ t # "r1",
                                hosts |-> IF t = "r1" THEN {1, 2} ELSE {2}]] : h \in {"r1", "all"}}

\* The instances start with everything in place.
StartInit ==
    /\ Init /\ granted /\ ca /\ routes["r1"].there
    /\ \A o \in Resources : o = "a" => crs[o].spec.tokens # {}
StartSpec == StartInit /\ [][Next]_vars
LiveSpec == StartSpec /\ Fairness
=============================================================================
