CONSTANTS
    CommandLine <- MCCommandLine
    Cpu <- MCCpu
    MaxPass = 2
SPECIFICATION Spec
INVARIANTS TypeOK EveryMailboxAsked AppliedMeansAll EveryTokenReported PassesRepeat SentMeansAsked
CHECK_DEADLOCK FALSE
