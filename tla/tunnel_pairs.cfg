SPECIFICATION Spec
CONSTANTS
    None = None
    Names = {n1, n2}
    Fallbacks = {f1}
    RouteSets = {r1, r2}
    TunnelIDs = {t1, t2}
    Hash <- MCHash
    Bound <- BoundPairs
SYMMETRY Symmetry
CHECK_DEADLOCK FALSE
INVARIANTS TypeOK HashNeverAhead ConnectorBeforeReady UniqueLiveTunnel
           CleanupGuaranteed CleanupBeforeRemoval NoneForgotten
PROPERTIES OrphanRespected HeldWhileOwned
