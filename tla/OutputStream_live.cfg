\* Wakeups and the end of the watch, under fair scheduling.
SPECIFICATION FairSpec
CONSTANTS
    Jobs = {j1}
    Readers = {r1, r2}
    Chunk = 1
    MaxLen = 1
PROPERTIES
    PendingEventWakes
    CloseEndsWatch
\* Jobs end and every call returns: the server may come to rest.
CHECK_DEADLOCK FALSE
