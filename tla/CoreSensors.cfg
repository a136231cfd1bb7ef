CONSTANTS
    MCDies = {}
    MCVersions <- MCSuspects
    Jobs <- MCCores
    MaxCloses = 0
SPECIFICATION Spec
INVARIANT RunningCoresListed
