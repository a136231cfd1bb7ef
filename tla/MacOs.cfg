CONSTANTS
    t1 = t1
    t2 = t2
    Thread = {t1, t2}
    NoThread = NoThread
    Mailbox = {"MP1", "RSMU"}
    MsgAt <- MCMsgAt
    RspAt <- MCRspAt
    ArgsAt <- MCArgsAt
    Word = {71}
    ProbeWord = 71
    NARGS = 1
    Process = {"zenmaster", "other"}
    ProcOf <- MCProcOf
    Backend = "ryzen_smu"
    Kinds = {"send", "query", "read", "write"}
    POLL_N = 2
    MaxCalls = 1
    MaxMishaps = 1
SPECIFICATION Spec
INVARIANT TypeOK
PROPERTIES OnlyMeantWrites ImplementsService
