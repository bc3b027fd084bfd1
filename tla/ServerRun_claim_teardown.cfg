\* A server that stops while jobs run.
SPECIFICATION Spec
CONSTANTS
    Clients = {c1, c2}
    Jobs = {j1, j2}
    MaxRuns = 1
SYMMETRY JobClientSymmetry
INVARIANTS
    TeardownRemovesAll
\* The server is not started for ever.
CHECK_DEADLOCK FALSE
