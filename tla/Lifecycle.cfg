CONSTANTS
    Thread = {t1, t2, t3}
    NoThread = NoThread
    NFd = 8
    MaxOps = 2
SPECIFICATION Spec
SYMMETRY ThreadSymmetry
INVARIANTS TypeOK RightDevice CloseReleases GuardKept
