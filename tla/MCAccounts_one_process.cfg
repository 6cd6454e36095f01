SPECIFICATION MCSpec
CONSTANTS
    Emails = {"ann@", "bob@", "cat@"}
    Identities = {"s1", "s2"}
    Subs = {"g1"}
    Placeholder = Placeholder
    None = None
    Scenarios = {
        {"jwt1", "jwt2", "jwtBare", "social", "reg1", "delete"},
        {"bff", "other", "invite", "social3", "social2", "delete3"},
        {"reg1", "reg2", "setup1", "again1", "setup2", "login", "newPass"},
        {"reg1", "setup1", "forgot", "reset1", "reset2", "plugin1", "plugin2"},
        {"typed", "approve1", "approve2", "reject", "social2"},
        {"reg1", "setup1", "login", "rename", "approve1"}}
    Requests <- MCRequests
    Kind <- MCKind
    EmailOf <- MCEmailOf
    Mixed <- MCMixed
    IdentityOf <- MCIdentityOf
    SubOf <- MCSubOf
    Presents <- MCPresents
    Pending = {"bob@"}
    Procs = {p1}
    NoRequest = NoRequest
    MaxFaults = 1
INVARIANTS TypeOK IdentityKeepsAccount LinkUsedOnce
PROPERTY SetupNeverResets
\* The workload is finite: a run ends when every request is answered.
CHECK_DEADLOCK FALSE
