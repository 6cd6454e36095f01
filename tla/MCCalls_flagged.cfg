SPECIFICATION MCSpec
CONSTANTS
    Scenarios = {{"text"}, {"widget"}}
    Requests <- MCRequests
    Kind <- MCKind
    Suffix <- MCSuffix
    Tokens <- MCTokens
    Stateful = {"code"}
    MaxAttempts = 2
    Nothing = Nothing
    Procs = {"p1", "p2"}
    NoRequest = NoRequest
    MaxFaults = 0
INVARIANT ErrorsAreFree
\* The workload is finite: a run ends when every request is answered.
CHECK_DEADLOCK FALSE
