SPECIFICATION MCSpec
CONSTANTS
    Scenarios = {
        {"lost"}, {"lostUi"}, {"code"}, {"uis"}, {"tools", "ui"},
        {"text", "config"}, {"widget", "drop"},
        {"plugin", "model", "drop"}, {"plugin", "profiles"},
        {"preview", "config", "rate"}, {"preview", "refresh", "profiles"}}
    Requests <- MCRequests
    Kind <- MCKind
    Suffix <- MCSuffix
    Tokens <- MCTokens
    Stateful = {"code"}
    MaxAttempts = 2
    Nothing = Nothing
    Procs = {"p1", "p2"}
    NoRequest = NoRequest
    MaxFaults = 1
INVARIANTS TypeOK BilledAsAnswered PriceIsCurrent
PROPERTIES DeliverySpec
\* The workload is finite: a run ends when every request is answered.
CHECK_DEADLOCK FALSE
