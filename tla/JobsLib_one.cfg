\* One job: every race of three calls, the wait goroutine and the kernel, and
\* termination under fair scheduling.  client2 has no cgroup directory.
SPECIFICATION FairSpec
CONSTANTS
    Clients = {"client1", "client2", "superuser"}
    Admins = {"superuser"}
    ClientDirs = {"client1", "superuser"}
    Jobs = {j1}
    Calls = {c1, c2, c3}
    ExitCodes = {1}
INVARIANTS
    TypeOK
    EndedMeansReaped
    NoLostProcess
    NoSurvivors
    LeakIsReported
    ExitStatusSettles
    StoppedByEntitled
    ReportedEndIsTrue
    StopCopyIsCurrent
    OwnStopIsServed
    StopOkMeansOver
    OnlyOwnerKills
    CgroupsAccountedFor
PROPERTY
    TerminalIsFinal
    ImplementsLifecycle
    OwnStopReturns
    ExitIsReported
