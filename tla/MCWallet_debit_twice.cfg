SPECIFICATION MCSpec
CONSTANTS
    Users = {"ann", "bob"}
    Procs = {p1}
    Events = {"debit1"}
    Scenarios = {{"debit1"}}
    Bobs = {}
    Repeated = {"debit1"}
    Kind <- MCKind
    Owner <- MCOwner
    Amount <- MCAmount
    SessionOf <- MCSessionOf
    Requests <- MCRequests
    EventOf <- MCEventOf
    NoRequest = NoRequest
    InitialBalance = 2
    MinBalance = 1
    MaxFaults = 0
INVARIANT DebitBilledOnce
\* The workload is finite: a run ends when every request is answered.
CHECK_DEADLOCK FALSE
