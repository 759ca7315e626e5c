CONSTANTS
    Transports = {"ucx"}
    Threads = {t1, t2}
    MainThread = t1
    NoThread = none
    MaxCtx = 3
    StxCounts = {0, 1, 2}
    Allocators = {"roundrobin", "random"}
    Threshold = 1
    GrowSize = 2
    MaxFailures = 1
    Builds <- MCBuilds
    UcxBuilds <- MCUcxBuilds
    MaxRemote = 1
    Elems = 2
    MaxUpdates = 4
SPECIFICATION Spec
INVARIANT PutCopiedOut
