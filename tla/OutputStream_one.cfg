\* One job: its Watcher and two readers.
SPECIFICATION Spec
CONSTANTS
    Jobs = {j1}
    Readers = {r1, r2}
    Chunk = 2
    MaxLen = 3
SYMMETRY ReaderSymmetry
INVARIANTS
    TypeOK
    
    NoEarlyEnd
    LocksMatchLabels
PROPERTY
    KeepsOutputPromise
\* Jobs end and every call returns: the server may come to rest.
CHECK_DEADLOCK FALSE
