SPECIFICATION Spec
CONSTANTS
    Callers = {c1, c2, c3}
    Parts = {"bin", "etc", "usr"}
    Verify = TRUE
    Archives <- TestArchives
SYMMETRY CallerSymmetry
INVARIANTS
    TypeOK
    CachedComplete
    CachedGenuine
    CacheKept
    NoLitter
