----------------------------- MODULE MCAccounts -----------------------------
(* Small workloads for Accounts.  The requests are strings of the table:    *)
(* kind, address, Supabase subject or social sub, and whose link or session *)
(* they present.  A behaviour takes one of the scenarios; the requests that *)
(* are not part of it count as answered.                                    *)
EXTENDS Accounts

CONSTANT Scenarios

Table == [
    jwt1     |-> <<"jwt", "ann@", "s1", "jwt1">>,
    jwt2     |-> <<"jwt", "ann@", "s1", "jwt2">>,
    jwtBare  |-> <<"jwt", "", "s1", "jwtBare">>,
    bff      |-> <<"bff", "cat@", "s1", "bff">>,
    other    |-> <<"bff", "cat@", "s2", "other">>,
    social   |-> <<"social", "ann@", "g1", "social">>,
    social2  |-> <<"social", "bob@", "g1", "social2">>,
    social3  |-> <<"social", "cat@", "g1", "social3">>,
    reg1     |-> <<"register", "ann@", "-", "reg1">>,
    reg2     |-> <<"register", "ann@", "-", "reg2">>,
    typed    |-> <<"register", "ann@", "-", "typed">>,
    invite   |-> <<"invite", "cat@", "-", "invite">>,
    approve1 |-> <<"approve", "bob@", "-", "approve1">>,
    approve2 |-> <<"approve", "bob@", "-", "approve2">>,
    reject   |-> <<"reject", "bob@", "-", "reject">>,
    setup1   |-> <<"setup", "-", "-", "reg1">>,
    again1   |-> <<"setup", "-", "-", "reg1">>,
    setup2   |-> <<"setup", "-", "-", "reg2">>,
    forgot   |-> <<"forgot", "ann@", "-", "forgot">>,
    reset1   |-> <<"reset", "-", "-", "forgot">>,
    reset2   |-> <<"reset", "-", "-", "forgot">>,
    login    |-> <<"login", "ann@", "-", "login">>,
    plugin1  |-> <<"plugin", "ann@", "-", "plugin1">>,
    plugin2  |-> <<"plugin", "ann@", "-", "plugin2">>,
    rename   |-> <<"rename", "bob@", "-", "login">>,
    newPass  |-> <<"newPassword", "-", "-", "login">>,
    delete   |-> <<"delete", "ann@", "-", "delete">>,
    delete3  |-> <<"delete", "cat@", "-", "delete3">>]

MCRequests == UNION Scenarios
MCKind == [r \in Requests |-> Table[r][1]]
MCEmailOf == [r \in Requests |->
    CASE Table[r][2] = ""  -> Placeholder
      [] Table[r][2] = "-" -> "ann@"
      [] OTHER             -> Table[r][2]]
MCIdentityOf == [r \in Requests |->
    IF Table[r][3] \in Identities THEN Table[r][3] ELSE "s1"]
MCSubOf == [r \in Requests |-> IF Table[r][3] \in Subs THEN Table[r][3] ELSE "g1"]
MCPresents == [r \in Requests |->
    IF Table[r][4] \in Requests THEN Table[r][4] ELSE r]

MCMixed == {"typed"} \cap Requests

\* What IdentityKeepsAccount needs of the workload.
ASSUME WorkloadAssumption == SubjectsApart

MCInit ==
    \E W \in Scenarios :
        /\ InitRows
        /\ at \in [Requests -> Procs]
        /\ pc = [r \in Requests |-> IF r \in W THEN Idle ELSE "ignored"]
        /\ loop = [p \in Procs |-> NoRequest]
MCSpec == MCInit /\ [][Next]_vars
=============================================================================
