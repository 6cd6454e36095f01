------------------------------ MODULE MCCalls ------------------------------
(* A small workload for Calls: what each request asks for, how the URL of   *)
(* its MCP ends, and whether its usage names a model.  A behaviour takes    *)
(* one of the scenarios; the other requests count as answered.              *)
EXTENDS Calls

CONSTANT Scenarios

Table == [
    text     |-> <<"invoke", "mcp", FALSE>>,
    lost     |-> <<"invoke", "other", FALSE>>,
    code     |-> <<"invoke", "mcp", FALSE>>,
    widget   |-> <<"promoted", "sse", TRUE>>,
    lostUi   |-> <<"promoted", "other", FALSE>>,
    tools    |-> <<"tools", "other", FALSE>>,
    uis      |-> <<"resources", "mcp", FALSE>>,
    ui       |-> <<"read", "other", FALSE>>,
    plugin   |-> <<"debit", "mcp", TRUE>>,
    preview  |-> <<"preview", "mcp", TRUE>>,
    config   |-> <<"config", "mcp", FALSE>>,
    rate     |-> <<"rate", "mcp", FALSE>>,
    model    |-> <<"model", "mcp", FALSE>>,
    drop     |-> <<"drop", "mcp", FALSE>>,
    refresh  |-> <<"refresh", "mcp", FALSE>>,
    profiles |-> <<"profiles", "mcp", FALSE>>]

MCRequests == DOMAIN Table
MCKind == [r \in Requests |-> Table[r][1]]
MCSuffix == [r \in Requests |-> Table[r][2]]
MCTokens == {r \in Requests : Table[r][3]}

MCInit ==
    \E W \in Scenarios : \E f \in [W -> Procs] :
        /\ f[CHOOSE q \in W : TRUE] = CHOOSE p \in Procs : TRUE
        /\ Start
        /\ at = [r \in Requests |-> IF r \in W THEN f[r] ELSE f[CHOOSE q \in W : TRUE]]
        /\ pc = [r \in Requests |-> IF r \in W THEN Idle ELSE "ignored"]
        /\ loop = [p \in Procs |-> NoRequest]
MCSpec == MCInit /\ [][Next]_vars
=============================================================================
