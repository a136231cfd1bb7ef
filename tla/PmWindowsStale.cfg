CONSTANTS
    Thread = {t1}
    Version = {1, 2}
    Size <- MCSize
    Default = 4
    MaxOps = 1
SPECIFICATION Spec
INVARIANT FreshData
