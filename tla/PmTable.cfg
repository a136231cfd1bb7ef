CONSTANTS
    Thread = {t1, t2}
    Kinds = {"pci", "ryzen_smu", "directhw", "iopci"}
    MaxOps = 2
SPECIFICATION FairSpec
INVARIANTS TypeOK FreshData
PROPERTIES ReadIsReturned EveryReadReturns
