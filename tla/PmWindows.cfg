CONSTANTS
    Thread = {t1, t2}
    Version = {1, 2}
    Size <- MCSize
    Default = 4
    MaxOps = 2
SPECIFICATION Spec
INVARIANTS TypeOK ReadIsSound CacheAgrees
