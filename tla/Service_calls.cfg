\* Three client programs, from the command line to the end of the server.
SPECIFICATION FairSpec
CONSTANTS
    Names = {"client1", "CLIENT1", "superuser", "ca"}
    ToLower <- MCToLower
    authorizedClients <- MCAuthorizedClients
    Chains <- MCChains
    Jobs = {j1}
    Calls = {1, 2, 3}
    CommandLines <- MCCommandLines
INVARIANTS
    TypeOK
    HandlersKnowTheCaller
    JobsAreTheirOwners
    OwnersAreListed
    ToldIsUsable
    StoppedIsSettled
    PendingCanEnd
PROPERTY
    ShutdownCompletes
