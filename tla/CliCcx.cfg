CONSTANTS
    CommandLine <- MCCommandLine
    Cpu <- MCCpu
    MaxPass = 1
SPECIFICATION Spec
INVARIANT CcxReachesWord
CHECK_DEADLOCK FALSE
