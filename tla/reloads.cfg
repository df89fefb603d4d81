CONSTANTS
    s1 = s1  s2 = s2  grpc = grpc  redis = redis
    Sites <- TwoSites
    Aliases <- TwoAliases
    Strict <- OneStrict
    Configs <- AllConfigs
    MaxReloads = 2
CHECK_DEADLOCK FALSE
SPECIFICATION Spec
SYMMETRY SymmetryOfSites
INVARIANTS TypeOK ServesItsOwn OpenOnesAreKnown
PROPERTY RefusedForAReason
