CONSTANTS
    t1 = t1
    t2 = t2
    t3 = t3
    Thread = {t1, t2}
    NoThread = NoThread
    Mailbox = {"RSMU"}
    MsgAt <- MCMsgAt
    RspAt <- MCRspAt
    ArgsAt <- MCArgsAt
    Word = {71}
    ProbeWord = 71
    NARGS = 1
    Process = {"zenmaster"}
    ProcOf <- MCProcOf
    Backend = "pci"
    Kinds = {"send", "probe"}
    MaxCalls = 1
    Faults = {"raise", "crash", "giveup", "fallback", "nofile", "slow"}
SPECIFICATION FairSpec
INVARIANTS LocksReturned SharedOnlyUnguarded
PROPERTY EveryCallReturns
