SPECIFICATION MCSpec
CONSTANTS
    Scenarios = {
        {"save", "call", "rest"}, {"save", "tools", "tools2"}, {"edit", "tools", "save"},
        {"teardown", "call", "provision"}, {"teardown", "rest", "save"},
        {"teardown", "link", "tools"},
        {"token", "token2", "token3"}, {"token", "token2", "connect"},
        {"token", "token2", "leave"}, {"token", "leave", "connect"},
        {"mint", "use", "use2", "revoke"}, {"mint", "use", "device", "delete"}}
    Requests <- MCRequests
    Kind <- MCKind
    Gives <- MCGives
    Keys = {"old", "new"}
    Accounts = {"home", "work"}
    Tokens = {"laptop"}
    Nothing = Nothing
    NoLock = NoLock
    NoRequest = NoRequest
    Procs = {"p1", "p2"}
    MaxFaults = 1
INVARIANTS TypeOK SettingsFollow RefreshesLatest OneAgentClient
PROPERTIES TornDownStaysDown AccountKept
\* The workload is finite: a run ends when every request is answered.
CHECK_DEADLOCK FALSE
