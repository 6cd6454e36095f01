--------------------------- MODULE MCOAuthGrants ---------------------------
(* Small workloads for OAuthGrants.  The requests of a run are strings of   *)
(* the table below: kind, session, user, and whose result they present.  A  *)
(* behaviour under MCSpec takes one of the scenarios; the other requests    *)
(* count as answered without effect.                                        *)
EXTENDS OAuthGrants

CONSTANTS SharedClients, Scenarios

Table == [
    ann1     |-> <<"consent", "s1", "ann", "ann1">>,
    ann2     |-> <<"consent", "s1", "ann", "ann2">>,
    bob1     |-> <<"consent", "s1", "bob", "bob1">>,
    annOther |-> <<"consent", "s2", "ann", "annOther">>,
    token1   |-> <<"exchange", "s1", "ann", "ann1">>,
    token2   |-> <<"exchange", "s1", "ann", "ann1">>,
    bobToken |-> <<"exchange", "s1", "bob", "bob1">>,
    early1   |-> <<"exchange", "s1", "bob", "early1">>,
    earlyNew |-> <<"refresh", "s1", "bob", "early1">>,
    fresh1   |-> <<"refresh", "s1", "ann", "token1">>,
    fresh2   |-> <<"refresh", "s1", "ann", "token1">>,
    fresh3   |-> <<"refresh", "s1", "ann", "fresh1">>,
    revoke   |-> <<"revoke", "s1", "ann", "token1">>,
    forget   |-> <<"revokeRefresh", "s1", "ann", "token1">>,
    inspect  |-> <<"inspectorRevoke", "s1", "ann", "token1">>,
    portal   |-> <<"portalRevoke", "s1", "ann", "ann1">>,
    panel    |-> <<"adminRevoke", "s1", "ann", "ann1">>,
    drop     |-> <<"delete", "s1", "ann", "ann1">>,
    forged   |-> <<"exchange", "s1", "ann", "ann1">>]

\* Two devices of the same name, one session each.
MCClientOf == [s \in Sessions |-> IF s = "s1" THEN "dev1" ELSE "dev2"]
MCDeviceName == [c \in Clients |-> "Claude"]
MCPublic == SharedClients
MCKind == [r \in Requests |-> Table[r][1]]
MCSessionOf == [r \in Requests |-> Table[r][2]]
MCUserOf == [r \in Requests |-> Table[r][3]]
MCPresents == [r \in Requests |-> Table[r][4]]
MCEarly == Requests \cap {"early1"}
MCGenuine == Requests \ {"forged"}

MCInit ==
    \E W \in Scenarios : \E f \in [W -> Procs] :
        /\ status = [c \in Clients |-> "active"]
        /\ owner = [c \in Clients |-> NoUser]
        /\ code = [s \in Sessions |-> "none"]
        /\ expired = {}
        /\ access = NoRows /\ refresh = NoRows
        /\ holder = [r \in Requests |-> NoUser]
        /\ cache = [p \in Procs |-> NoRows]
        /\ faults = 0
        /\ consented = [s \in Sessions |-> NoRequest]
        /\ at = [r \in Requests |-> IF r \in W THEN f[r] ELSE CHOOSE p \in Procs : TRUE]
        /\ pc = [r \in Requests |-> IF r \in W THEN Idle ELSE "ignored"]
        /\ loop = [p \in Procs |-> NoRequest]
MCSpec == MCInit /\ [][Next]_vars
=============================================================================
