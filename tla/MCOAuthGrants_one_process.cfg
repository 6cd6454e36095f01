SPECIFICATION Spec
CONSTANTS
    Users = {"ann", "bob"}
    NoUser = NoUser
    Clients = {"dev1", "dev2"}
    Scenarios = {}
    SharedClients = {}
    Public <- MCPublic
    DeviceName <- MCDeviceName
    Sessions = {"s1", "s2"}
    ClientOf <- MCClientOf
    Procs = {p1}
    Requests = {"ann1", "ann2", "annOther", "token1", "fresh1", "fresh2", "portal", "panel", "drop"}
    NoRequest = NoRequest
    Kind <- MCKind
    SessionOf <- MCSessionOf
    UserOf <- MCUserOf
    Presents <- MCPresents
    Early <- MCEarly
    Genuine <- MCGenuine
    MaxFaults = 1
INVARIANTS OneLiveRefresh RevokedDeviceIsDead CacheFollowsRows OneActiveDevice ConsentHandedOut
\* The workload is finite: a run ends when every request is answered.
CHECK_DEADLOCK FALSE
