\* A job that ends before it is watched.
SPECIFICATION FairSpec
CONSTANTS
    Jobs = {j1}
    Readers = {r1}
    Chunk = 2
    MaxLen = 1
PROPERTIES
    CancelEndsWatch
\* Jobs end and every call returns: the server may come to rest.
CHECK_DEADLOCK FALSE
