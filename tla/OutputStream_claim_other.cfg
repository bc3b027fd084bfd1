\* Two jobs that share WatcherLock.
SPECIFICATION Spec
CONSTANTS
    Jobs = {j1, j2}
    Readers = {r1}
    Chunk = 2
    MaxLen = 1
INVARIANTS
    StreamOutlivesOtherJobs
\* Jobs end and every call returns: the server may come to rest.
CHECK_DEADLOCK FALSE
