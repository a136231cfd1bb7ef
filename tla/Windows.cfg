CONSTANTS
    Thread = {t1, t2, t3}
    NoThread = NoThread
    Other = Other
    NHandle = 6
    MaxOps = 2
SPECIFICATION Spec
SYMMETRY ThreadSymmetry
INVARIANTS TypeOK IoOnDevice MutexReturned GuardMeansOwner CloseReleases
