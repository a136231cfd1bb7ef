CONSTANTS
    MCDies = {0, 1, 2, 7}
    MCVersions <- MCAllVersions
    Jobs <- MCJobs
    MaxCloses = 2
SPECIFICATION Spec
INVARIANTS ProcessorServed RaisedForCause SentIsReported CcdExact VersionIsFirmwares SensorsAreOwn
