SPECIFICATION MCFairSpec
CONSTANTS
    Users = {"ann", "bob"}
    Procs = {p1, p2}
    Events = {"debit1", "paid", "topup", "grant", "call1"}
    Bobs = {"debit1", "paid", "call1"}
    Repeated = {"paid"}
    Scenarios = {{"debit1", "paid", "topup"}, {"paid", "grant", "call1"}}
    Kind <- MCKind
    Owner <- MCOwner
    Amount <- MCAmount
    SessionOf <- MCSessionOf
    Requests <- MCRequests
    EventOf <- MCEventOf
    NoRequest = NoRequest
    InitialBalance = 2
    MinBalance = 1
    MaxFaults = 1
INVARIANT RecordsBacked
PROPERTIES LedgerSpec CheckoutCredited
\* The workload is finite: a run ends when every request is answered.
CHECK_DEADLOCK FALSE
