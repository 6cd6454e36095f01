SPECIFICATION MCSpec
CONSTANTS
    Users = {"ann", "bob"}
    Procs = {p1}
    Events = {"grant", "add", "paid", "refund", "topup", "signup", "signup2", "call1"}
    Bobs = {}
    Repeated = {"grant", "topup", "paid"}
    Scenarios = {
        {"grant", "paid", "refund", "topup", "signup", "signup2"},
        {"grant", "add", "topup", "signup", "call1"}}
    Kind <- MCKind
    Owner <- MCOwner
    Amount <- MCAmount
    SessionOf <- MCSessionOf
    Requests <- MCRequests
    EventOf <- MCEventOf
    NoRequest = NoRequest
    InitialBalance = 2
    MinBalance = 1
    MaxFaults = 0
INVARIANTS TypeOK AppliedOnce
PROPERTIES LedgerSpec RejectedIsFinal
\* The workload is finite: a run ends when every request is answered.
CHECK_DEADLOCK FALSE
