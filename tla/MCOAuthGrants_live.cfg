SPECIFICATION FairSpec
CONSTANTS
    Users = {"ann", "bob"}
    NoUser = NoUser
    Clients = {"dev1"}
    Scenarios = {}
    SharedClients = {"dev1"}
    Public <- MCPublic
    DeviceName <- MCDeviceName
    Sessions = {"s1"}
    ClientOf <- MCClientOf
    Procs = {p1, p2}
    Requests = {"ann1", "token1", "early1", "fresh1", "inspect", "revoke"}
    NoRequest = NoRequest
    Kind <- MCKind
    SessionOf <- MCSessionOf
    UserOf <- MCUserOf
    Presents <- MCPresents
    Early <- MCEarly
    Genuine <- MCGenuine
    MaxFaults = 0
INVARIANT TokensFollowConsent
PROPERTY RevocationLands
\* The workload is finite: a run ends when every request is answered.
CHECK_DEADLOCK FALSE
