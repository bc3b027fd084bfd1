\* A job whose output fills a read buffer.
SPECIFICATION Spec
CONSTANTS
    Jobs = {j1}
    Readers = {r1}
    Chunk = 2
    MaxLen = 2
INVARIANTS
    FullChunksAreLooped
\* Jobs end and every call returns: the server may come to rest.
CHECK_DEADLOCK FALSE
