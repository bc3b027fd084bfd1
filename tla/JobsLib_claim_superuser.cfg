\* Refuted: an administrator stops somebody else's job.
SPECIFICATION FairSpec
CONSTANTS
    Clients = {"client1", "superuser"}
    Admins = {"superuser"}
    ClientDirs = {"client1", "superuser"}
    Jobs = {j1}
    Calls = {c1, c2, c3}
    ExitCodes = {0}
PROPERTY
    AcceptedStopReturns
