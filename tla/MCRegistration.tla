--------------------------- MODULE MCRegistration ---------------------------
(* A small workload for Registration: sessions of one program, one of its   *)
(* name with other redirect URIs, one whose name differs only in letters'   *)
(* case, programs of the default and of the empty name, two users and the   *)
(* panel.  A behaviour takes one of the scenarios; the other requests count *)
(* as answered without effect.  The second column is the fingerprint, the   *)
(* third the name.                                                          *)
EXTENDS Registration

CONSTANT Scenarios

Table == [
    reg1      |-> <<"dcr", "claude", "Claude", "ann", "reg1">>,
    reg2      |-> <<"dcr", "claude", "Claude", "ann", "reg2">>,
    reg3      |-> <<"dcr", "claude", "Claude", "bob", "reg3">>,
    alt       |-> <<"dcr", "claude at home", "Claude", "ann", "alt">>,
    low       |-> <<"dcr", "claude", "claude", "ann", "low">>,
    bare1     |-> <<"dcr", "generic", "MCP Client", "ann", "bare1">>,
    bare2     |-> <<"dcr", "generic", "MCP Client", "bob", "bare2">>,
    blank     |-> <<"dcr", "blank", "", "ann", "blank">>,
    blank2    |-> <<"dcr", "blank", "", "ann", "blank2">>,
    made      |-> <<"create", "generic", "Claude", "ann", "made">>,
    shared    |-> <<"public", "generic", "Claude", "ann", "shared">>,
    ann1      |-> <<"claim", "generic", "", "ann", "reg1">>,
    tab1      |-> <<"claim", "generic", "", "ann", "reg1">>,
    bob1      |-> <<"claim", "generic", "", "bob", "reg1">>,
    ann2      |-> <<"claim", "generic", "", "ann", "reg2">>,
    bob2      |-> <<"claim", "generic", "", "bob", "reg2">>,
    annAlt    |-> <<"claim", "generic", "", "ann", "alt">>,
    annLow    |-> <<"claim", "generic", "", "ann", "low">>,
    annBare   |-> <<"claim", "generic", "", "ann", "bare1">>,
    annBare2  |-> <<"claim", "generic", "", "ann", "bare2">>,
    annBlank  |-> <<"claim", "generic", "", "ann", "blank">>,
    annBlank2 |-> <<"claim", "generic", "", "ann", "blank2">>,
    annMade   |-> <<"claim", "generic", "", "ann", "made">>,
    bobAll    |-> <<"claim", "generic", "", "bob", "shared">>,
    revoke    |-> <<"revoke", "generic", "", "ann", "reg1">>,
    delete    |-> <<"delete", "generic", "", "ann", "reg1">>,
    cleanup   |-> <<"cleanup", "generic", "", "ann", "cleanup">>]

MCRequests == DOMAIN Table
MCKind == [r \in Requests |-> Table[r][1]]
MCFingerOf == [r \in Requests |-> IF Table[r][2] = "generic" THEN Generic ELSE Table[r][2]]
MCNameOf == [r \in Requests |-> IF Table[r][3] = "" THEN Unnamed ELSE Table[r][3]]
MCUserOf == [r \in Requests |-> Table[r][4]]
MCFor == [r \in Requests |-> Table[r][5]]

MCInit ==
    \E W \in Scenarios : \E f \in [W -> Procs] :
        /\ rows = {} /\ on = {} /\ old = {} /\ faults = 0
        /\ owner = [r \in Requests |-> NoUser]
        /\ given = [r \in Requests |-> NoClient]
        /\ at = [r \in Requests |-> IF r \in W THEN f[r] ELSE CHOOSE p \in Procs : TRUE]
        /\ pc = [r \in Requests |-> IF r \in W THEN Idle ELSE "ignored"]
        /\ loop = [p \in Procs |-> NoRequest]
MCSpec == MCInit /\ [][Next]_vars
=============================================================================
