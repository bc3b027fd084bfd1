\* Three runs in a row, with crashes, good and bad configurations, with and without
\* failing system calls.
SPECIFICATION Spec
CONSTANTS
    Clients = {c1, c2}
    Jobs = {j1, j2}
    MaxRuns = 3
SYMMETRY JobClientSymmetry
INVARIANTS
    TypeOK
    ServingIsReady
    CleanExit
    NoRunaways
    LeftoversSurviveSetup
PROPERTY
    OnlyJobsBlockTeardown
\* The server is not started for ever.
CHECK_DEADLOCK FALSE
