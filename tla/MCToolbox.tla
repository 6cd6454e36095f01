----------------------------- MODULE MCToolbox -----------------------------
(* A small workload for Toolbox: three MCPs, one of which Railway knows.  A *)
(* behaviour takes one of the scenarios; the other requests count as        *)
(* answered without effect.                                                 *)
EXTENDS Toolbox

CONSTANT Scenarios

Table == [
    addWeb     |-> <<"add", {"web"}, "cost">>,
    addMaps    |-> <<"add", {"maps"}, "cost">>,
    rmScholar  |-> <<"remove", {"scholar"}, "cost">>,
    browse     |-> <<"browse", {}, "cost">>,
    view       |-> <<"view", {}, "cost">>,
    pickWeb    |-> <<"catalogAdd", {"web"}, "cost">>,
    save       |-> <<"save", {"web", "maps"}, "cost">>,
    enable     |-> <<"autoAdd", {"scholar"}, "cost">>,
    disable    |-> <<"autoRemove", {"scholar"}, "cost">>,
    keys       |-> <<"credentials", {"web"}, "cost">>,
    toggleMaps |-> <<"toggle", {"maps"}, "cost">>,
    twiceMaps  |-> <<"toggle", {"maps"}, "cost">>,
    toggleWeb  |-> <<"toggle", {"web"}, "cost">>,
    hide       |-> <<"bulk", {"web", "maps"}, "unpublish">>,
    show       |-> <<"bulk", {"web", "maps"}, "publish">>,
    raise      |-> <<"bulk", {"web"}, "super">>,
    visit      |-> <<"visit", {}, "cost">>,
    create     |-> <<"create", {"maps"}, "super">>,
    edit       |-> <<"edit", {"maps"}, "standard">>,
    delete     |-> <<"delete", {"maps"}, "cost">>,
    promote    |-> <<"setTier", {}, "super">>,
    demote     |-> <<"setTier", {}, "standard">>]

MCRequests == DOMAIN Table
MCKind == [r \in Requests |-> Table[r][1]]
MCSlugsOf == [r \in Requests |-> Table[r][2]]
MCChange == [r \in Requests |-> Table[r][3]]

MCInit ==
    \E W \in Scenarios : \E f \in [W -> Procs] :
        /\ f[CHOOSE q \in W : TRUE] = CHOOSE p \in Procs : TRUE
        /\ toolbox = {"scholar"} /\ tier = "standard" /\ credential = {}
        /\ listed = {"scholar", "web"} /\ published = listed /\ premium = {}
        /\ shelfCache = [p \in Procs |-> [t \in Tiers |-> NoShelf]]
        /\ tierCache = [p \in Procs |-> Unread]
        /\ seen = [r \in Requests |-> {}] /\ blind = [r \in Requests |-> {}]
        /\ faults = 0
        /\ at = [r \in Requests |-> IF r \in W THEN f[r] ELSE f[CHOOSE q \in W : TRUE]]
        /\ pc = [r \in Requests |-> IF r \in W THEN Idle ELSE "ignored"]
        /\ loop = [p \in Procs |-> NoRequest]
MCSpec == MCInit /\ [][Next]_vars
=============================================================================
