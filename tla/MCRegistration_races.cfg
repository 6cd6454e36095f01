SPECIFICATION MCSpec
CONSTANTS
    Users = {"ann", "bob"}
    NoUser = NoUser
    Fingers = {"claude", "claude at home", "blank"}
    Generic = Generic
    Names = {"Claude", "claude", "MCP Client"}
    Unnamed = Unnamed
    NoClient = NoClient
    Scenarios = {
        {"reg1", "reg2", "reg3", "ann1", "revoke"},
        {"reg1", "reg2", "ann1", "bob2", "delete"},
        {"reg1", "ann1", "tab1", "bob1", "cleanup"},
        {"reg1", "alt", "ann1", "annAlt"},
        {"reg1", "made", "ann1", "annMade"},
        {"reg1", "low", "ann1", "annLow"},
        {"bare1", "bare2", "annBare", "annBare2"},
        {"blank", "blank2", "annBlank", "annBlank2"},
        {"shared", "bobAll", "reg1", "ann1", "ann2", "reg2"}}
    Requests <- MCRequests
    Kind <- MCKind
    FingerOf <- MCFingerOf
    NameOf <- MCNameOf
    UserOf <- MCUserOf
    For <- MCFor
    Procs = {"p1", "p2"}
    NoRequest = NoRequest
    MaxFaults = 1
INVARIANTS TypeOK FailsOnlyByRace RefusedOnlyByOther
PROPERTY DevicesSpec
\* The workload is finite: a run ends when every request is answered.
CHECK_DEADLOCK FALSE
