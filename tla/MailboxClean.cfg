CONSTANTS
    t1 = t1
    t2 = t2
    t3 = t3
    Thread = {t1, t2, t3}
    NoThread = NoThread
    Mailbox = {"MP1", "RSMU"}
    MsgAt <- MCMsgAt
    RspAt <- MCRspAt
    ArgsAt <- MCArgsAt
    Word = {71}
    ProbeWord = 71
    NARGS = 3
    Process = {"zenmaster", "other"}
    ProcOf <- MCProcOf
    Backend = "pci"
    Kinds = {"send", "query", "read", "write", "probe"}
    MaxCalls = 1
    Faults = {}
SPECIFICATION Spec
INVARIANTS TypeOK BusExclusion AddressIntegrity OwnAnswer CommandsIntact
PROPERTY ImplementsService
