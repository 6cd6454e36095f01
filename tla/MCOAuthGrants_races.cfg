SPECIFICATION MCSpec
CONSTANTS
    Users = {"ann", "bob"}
    NoUser = NoUser
    Clients = {"dev1"}
    SharedClients = {}
    Public <- MCPublic
    DeviceName <- MCDeviceName
    Sessions = {"s1"}
    ClientOf <- MCClientOf
    Procs = {"p1", "p2"}
    Scenarios = {
        {"ann1", "bob1", "token1", "token2", "early1"},
        {"ann1", "bob1", "early1", "earlyNew"},
        {"ann1", "token1", "forget", "drop"},
        {"ann1", "early1", "earlyNew", "drop"}}
    Requests = {"ann1", "bob1", "token1", "token2", "early1", "earlyNew", "forget", "drop"}
    NoRequest = NoRequest
    Kind <- MCKind
    SessionOf <- MCSessionOf
    UserOf <- MCUserOf
    Presents <- MCPresents
    Early <- MCEarly
    Genuine <- MCGenuine
    MaxFaults = 1
INVARIANTS TypeOK CodeRedeemedOnce TokensFollowConsent
PROPERTY ConsentSpec
\* The workload is finite: a run ends when every request is answered.
CHECK_DEADLOCK FALSE
