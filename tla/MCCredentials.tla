--------------------------- MODULE MCCredentials ---------------------------
(* A small workload for Credentials: what each request asks for, and the    *)
(* keys, the account or the agent token it brings.  A behaviour takes one   *)
(* of the scenarios; the other requests count as answered.                  *)
EXTENDS Credentials

CONSTANT Scenarios

Table == [
    save      |-> <<"save", "new">>,
    call      |-> <<"call", Nothing>>,
    rest      |-> <<"rest", Nothing>>,
    tools     |-> <<"tools", Nothing>>,
    tools2    |-> <<"tools", Nothing>>,
    edit      |-> <<"edit", Nothing>>,
    provision |-> <<"provision", Nothing>>,
    link      |-> <<"link", Nothing>>,
    teardown  |-> <<"teardown", Nothing>>,
    connect   |-> <<"connect", "work">>,
    token     |-> <<"token", Nothing>>,
    token2    |-> <<"token", Nothing>>,
    token3    |-> <<"token", Nothing>>,
    leave     |-> <<"disconnect", Nothing>>,
    mint      |-> <<"mint", "laptop">>,
    use       |-> <<"use", "laptop">>,
    use2      |-> <<"use", "laptop">>,
    revoke    |-> <<"revoke", "laptop">>,
    delete    |-> <<"delete", "laptop">>,
    device    |-> <<"deleteDevice", Nothing>>]

MCRequests == DOMAIN Table
MCKind == [r \in Requests |-> Table[r][1]]
MCGives == [r \in Requests |-> Table[r][2]]

MCInit ==
    \E W \in Scenarios : \E f \in [W -> Procs] :
        /\ f[CHOOSE q \in W : TRUE] = CHOOSE p \in Procs : TRUE
        /\ Start
        /\ at = [r \in Requests |-> IF r \in W THEN f[r] ELSE f[CHOOSE q \in W : TRUE]]
        /\ pc = [r \in Requests |-> IF r \in W THEN Idle ELSE "ignored"]
        /\ loop = [p \in Procs |-> NoRequest]
MCSpec == MCInit /\ [][Next]_vars
=============================================================================
