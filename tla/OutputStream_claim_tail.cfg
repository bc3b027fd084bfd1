\* A stream that was live when its job ended.
SPECIFICATION Spec
CONSTANTS
    Jobs = {j1}
    Readers = {r1}
    Chunk = 2
    MaxLen = 2
INVARIANTS
    LiveTailSent
\* Jobs end and every call returns: the server may come to rest.
CHECK_DEADLOCK FALSE
