\* A reader that falls asleep as the Watcher leaves.
SPECIFICATION Spec
CONSTANTS
    Jobs = {j1}
    Readers = {r1}
    Chunk = 2
    MaxLen = 2
INVARIANTS
    FinalWakeup
\* Jobs end and every call returns: the server may come to rest.
CHECK_DEADLOCK FALSE
