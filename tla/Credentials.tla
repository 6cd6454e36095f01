---------------------------- MODULE Credentials ----------------------------
(***************************************************************************)
(* What a user's calls carry to the upstream servers: the settings he has   *)
(* saved for mcp-scholar, which every process caches with the tools that    *)
(* they brought up, and the Microsoft Graph token of his connection, which  *)
(* is renewed when it has run out.  And the agent tokens that let the calls *)
(* in.                                                                      *)
(*                                                                          *)
(* The upstream of Scholar sets its tenant up for whoever calls with        *)
(* credentials, so a teardown has to take the saved ones away as well.      *)
(***************************************************************************)
EXTENDS Naturals, EventLoop

CONSTANTS
    Keys,         \* credentials that a user may save
    Accounts,     \* Microsoft accounts
    Tokens,       \* agent tokens
    Kind,         \* Kind[r]: what r asks for
    Gives,        \* Gives[r]: the keys, the account or the token of r
    Nothing,      \* no row, no entry in a cache, nothing read
    NoLock,
    MaxFaults     \* bound: crashes and failed database calls in a behaviour

ConfigKinds == {"save", "call", "rest", "tools", "edit", "provision", "link", "teardown"}
GraphKinds == {"connect", "token", "disconnect"}
TokenKinds == {"mint", "revoke", "delete", "use", "deleteDevice"}

\* What a process knows of the settings: {} if there are none or the read failed.
Known == Keys \cup {"empty"}
Rows == [account : Accounts, serial : Nat, fresh : BOOLEAN]

ASSUME CredentialsAssumption ==
    /\ "empty" \notin Keys
    /\ Nothing \notin Keys \cup Rows \cup {"empty"}
    /\ NoLock \notin Requests /\ NoRequest \notin Requests
    /\ Kind \in [Requests -> ConfigKinds \cup GraphKinds \cup TokenKinds]
    /\ \A r \in Requests : /\ Kind[r] = "save" => Gives[r] \in Keys
                           /\ Kind[r] = "connect" => Gives[r] \in Accounts
                           /\ Kind[r] \in TokenKinds \ {"deleteDevice"} => Gives[r] \in Tokens
    /\ MaxFaults \in Nat

VARIABLES
    config,       \* the row of user_mcp_configs
    configCache,  \* per process, _user_config_cache
    toolCache,    \* per process, _tool_cache: the settings the tools came with
    tenant,       \* external: whether Scholar has a tenant for the user
    torn,         \* history: the last to change the settings was a teardown
    graph,        \* the row of user_ms_graph_tokens
    issued,       \* external: how many refresh tokens Microsoft has issued
    spent,        \* external: the refresh tokens that it has replaced
    stranded,     \* history: what replaced the row's refresh token will not come
    lock,         \* per process, the user's lock in _user_locks
    status,       \* the rows of user_agent_tokens
    agentClients, \* the user's "dsmoz agent" rows in oauth_clients
    carry,        \* the settings that a request has read
    held,         \* the row of user_ms_graph_tokens that a request has read or got
    lagging,      \* history: requests whose reading has been replaced since
    behind,       \* history: processes that cached settings or tools too late
    faults

settings == <<config, configCache, toolCache, tenant, torn, carry, behind>>
connection == <<graph, issued, spent, stranded, lock, held>>
agents == <<status, agentClients>>
vars == <<settings, connection, agents, lagging, at, pc, loop, faults>>

Status == {"none", "active", "revoked"}
Stage == {"body", "status", "wire", "answer", "forget", "listing", "drop",
          "queue", "recheck", "refresh", "me", "upsert", "touch", "client", "enrol"}

TypeOK ==
    /\ config \in Keys \cup {Nothing}
    /\ configCache \in [Procs -> Known \cup {Nothing}]
    /\ toolCache \in [Procs -> Known \cup {Nothing}]
    /\ tenant \in BOOLEAN /\ torn \in BOOLEAN
    /\ graph \in Rows \cup {Nothing}
    /\ issued \in Nat /\ spent \subseteq Nat /\ stranded \in BOOLEAN
    /\ lock \in [Procs -> Requests \cup {NoLock}]
    /\ status \in [Tokens -> Status]
    /\ agentClients \in Nat
    /\ carry \in [Requests -> Known \cup {Nothing}]
    /\ held \in [Requests -> Rows \cup {Nothing}]
    /\ lagging \subseteq Requests
    /\ behind \subseteq Procs \X {"config", "tools"}
    /\ at \in [Requests -> Procs]
    /\ pc \in [Requests -> {Idle} \cup Stage \cup Outcome]
    /\ loop \in [Procs -> Requests \cup {NoRequest}]
    /\ \A p \in Procs : lock[p] # NoLock =>
          at[lock[p]] = p /\ pc[lock[p]] \in {"recheck", "refresh", "upsert"}
    /\ faults \in 0 .. MaxFaults

Start ==
    /\ config \in Keys \cup {Nothing}
    /\ configCache = [p \in Procs |-> Nothing]
    /\ toolCache = [p \in Procs |-> Nothing]
    /\ tenant = (config # Nothing) /\ torn = FALSE
    /\ graph \in {Nothing} \cup
          {[account |-> a, serial |-> 0, fresh |-> FALSE] : a \in Accounts}
    /\ issued = 0 /\ spent = {} /\ stranded = FALSE
    /\ lock = [p \in Procs |-> NoLock]
    /\ status = [t \in Tokens |-> "none"]
    /\ agentClients = 0
    /\ carry = [r \in Requests |-> Nothing]
    /\ held = [r \in Requests |-> Nothing]
    /\ lagging = {}
    /\ behind = {}
    /\ faults = 0

Init == Start /\ EventLoopInit

OfConfig == UNCHANGED <<connection, agents>>
OfGraph == UNCHANGED <<settings, agents>>
OfTokens == UNCHANGED <<settings, connection, lagging>>

-----------------------------------------------------------------------------
(* The saved settings.                                                      *)

Stored == IF config = Nothing THEN "empty" ELSE config
Configured(p) == IF configCache[p] = Nothing THEN Stored ELSE configCache[p]

\* _load_user_mcp_config: a failed read counts, and is cached, as no settings.
Loads(r, c, late) ==
    /\ carry' = [carry EXCEPT ![r] = c]
    /\ configCache' = [configCache EXCEPT ![at[r]] = c]
    /\ behind' = IF late THEN behind \cup {<<at[r], "config">>}
                         ELSE behind \ {<<at[r], "config">>}
    /\ lagging' = IF late THEN lagging \cup {r} ELSE lagging \ {r}

LoadConfig(r) ==
    \/ /\ Loads(r, Configured(at[r]),
               configCache[at[r]] # Nothing /\ <<at[r], "config">> \in behind)
       /\ UNCHANGED faults
    \/ /\ configCache[at[r]] = Nothing
       /\ faults < MaxFaults
       /\ Loads(r, "empty", TRUE)
       /\ faults' = faults + 1

\* The proxy to Scholar waits for the body after it has read the settings; a tool
\* call goes to the upstream with them.
ProxyLoad(r) ==
    /\ \/ Kind[r] = "rest" /\ Awaits(r, Idle, "body")
       \/ Kind[r] = "call" /\ Awaits(r, Idle, "wire")
    /\ LoadConfig(r)
    /\ UNCHANGED <<config, toolCache, tenant, torn>> /\ OfConfig

ProxySend(r) ==
    /\ Kind[r] = "rest"
    /\ Awaits(r, "body", "wire")
    /\ UNCHANGED <<settings, lagging, faults>> /\ OfConfig

\* The upstream provisions whoever calls with credentials, and the answer may get
\* lost all the same.
Reached(r) ==
    /\ Kind[r] \in {"call", "rest", "provision", "link"}
    /\ \/ Resumes(r, "wire", "ok") /\ tenant' = (tenant \/ carry[r] \in Keys)
       \/ Resumes(r, "wire", "failed") /\ tenant' \in {tenant, tenant \/ carry[r] \in Keys}
    /\ lagging' = lagging \ {r}
    /\ UNCHANGED <<config, configCache, toolCache, torn, behind, carry, faults>> /\ OfConfig

ToolsCached(r) ==
    /\ Kind[r] = "tools"
    /\ toolCache[at[r]] # Nothing
    /\ Starts(r, "ok")
    /\ UNCHANGED <<settings, lagging, faults>> /\ OfConfig

FetchTools(r) ==
    /\ Kind[r] = "tools"
    /\ toolCache[at[r]] = Nothing
    /\ Awaits(r, Idle, "listing")
    /\ LoadConfig(r)
    /\ UNCHANGED <<config, toolCache, tenant, torn>> /\ OfConfig

\* Failures are not cached; a task of list_tools is cancelled when its time is up.
ToolsFetched(r) ==
    /\ Kind[r] = "tools"
    /\ \/ /\ Resumes(r, "listing", "ok")
          /\ toolCache' = [toolCache EXCEPT ![at[r]] = carry[r]]
          /\ behind' = IF r \in lagging THEN behind \cup {<<at[r], "tools">>}
                                        ELSE behind \ {<<at[r], "tools">>}
       \/ Resumes(r, "listing", "failed") /\ UNCHANGED <<toolCache, behind>>
    /\ lagging' = lagging \ {r}
    /\ tenant' \in {tenant, tenant \/ carry[r] \in Keys}
    /\ UNCHANGED <<config, configCache, torn, carry, faults>> /\ OfConfig

\* add_mcp and remove_mcp drop the user's lists of tools.
EditToolbox(r) ==
    /\ Kind[r] = "edit"
    /\ Starts(r, "ok")
    /\ toolCache' = [toolCache EXCEPT ![at[r]] = Nothing]
    /\ behind' = behind \ {<<at[r], "tools">>}
    /\ UNCHANGED <<config, configCache, tenant, torn, carry, lagging, faults>> /\ OfConfig

ReceiveBody(r) ==
    /\ Kind[r] \in {"save", "link"}
    /\ Awaits(r, Idle, "body")
    /\ UNCHANGED <<settings, lagging, faults>> /\ OfConfig

\* Whoever has read the settings, and the caches of other processes, are behind.
Carrying == {q \in Requests : pc[q] \in {"body", "status", "wire", "listing"}
                               /\ carry[q] # Nothing}
Replaces(r, c) ==
    /\ config' = c
    /\ lagging' = lagging \cup {q \in Carrying : carry[q] # c}
    /\ behind' = behind \cup ((Procs \ {at[r]}) \X {"config", "tools"})

SaveConfig(r) ==
    /\ Kind[r] = "save"
    /\ Resumes(r, "body", "forget")
    /\ Replaces(r, Gives[r])
    /\ torn' = FALSE
    /\ UNCHANGED <<configCache, toolCache, tenant, carry, faults>> /\ OfConfig

\* Mutant: the list of tools is kept.
ForgetsSettingsOnly(p) ==
    /\ configCache' = [configCache EXCEPT ![p] = Nothing]
    /\ behind' = behind \ {<<p, "config">>}
    /\ UNCHANGED toolCache

InvalidateUserConfig(p) ==
    /\ configCache' = [configCache EXCEPT ![p] = Nothing]
    /\ toolCache' = [toolCache EXCEPT ![p] = Nothing]
    /\ behind' = behind \ ({p} \X {"config", "tools"})

Forget(r) ==
    /\ Runs(r, "forget", "ok")
    /\ InvalidateUserConfig(at[r])
    /\ UNCHANGED <<config, tenant, torn, carry, lagging, faults>> /\ OfConfig

-----------------------------------------------------------------------------
(* Scholar's tenant: set-up, automatic link, teardown.                      *)

\* These read the row itself.
ReadsRow(r) ==
    /\ carry' = [carry EXCEPT ![r] = Stored]
    /\ lagging' = lagging \ {r}
    /\ UNCHANGED <<config, configCache, toolCache, tenant, torn, behind, faults>>

Provision(r) ==
    /\ Kind[r] = "provision"
    /\ IF config = Nothing THEN Starts(r, "refused") ELSE Awaits(r, Idle, "wire")
    /\ ReadsRow(r) /\ OfConfig

\* The body is followed by the rows of the user and of his settings.
LinkLoad(r) ==
    /\ Kind[r] = "link"
    /\ IF config = Nothing THEN Resumes(r, "body", "refused")
                           ELSE Awaits(r, "body", "status")
    /\ ReadsRow(r) /\ OfConfig

\* If the tenant is there its credentials are replaced, which needs it to be there
\* still; if it is not, or the question fails, it is provisioned.
LinkStatus(r) ==
    /\ Kind[r] = "link"
    /\ \/ Awaits(r, "status", "wire") /\ UNCHANGED lagging
       \/ /\ tenant
          /\ \E out \in {"ok", "failed"} : Resumes(r, "status", out)
          /\ lagging' = lagging \ {r}
    /\ UNCHANGED <<settings, faults>> /\ OfConfig

Teardown(r) ==
    /\ Kind[r] = "teardown"
    /\ Awaits(r, Idle, "wire")
    /\ UNCHANGED <<settings, lagging, faults>> /\ OfConfig

\* Scholar deletes while the process waits, and calls that reach it before its answer
\* is back may set the tenant up again.
ScholarDeletes(r) ==
    /\ Kind[r] = "teardown"
    /\ Awaits(r, "wire", "answer")
    /\ tenant' = FALSE
    /\ UNCHANGED <<config, configCache, toolCache, torn, behind, carry, lagging, faults>> /\ OfConfig

TornDown(r) ==
    /\ Kind[r] = "teardown"
    /\ \/ Resumes(r, "answer", "drop")
       \/ \E from \in {"wire", "answer"} : Resumes(r, from, "failed")
    /\ UNCHANGED <<settings, lagging, faults>> /\ OfConfig

\* Mutant: only the caches are cleared.
DropsNothing(r) ==
    /\ Kind[r] = "teardown"
    /\ Runs(r, "drop", "forget")
    /\ torn' = TRUE
    /\ UNCHANGED <<config, configCache, toolCache, tenant, carry, behind, lagging, faults>>
    /\ OfConfig

DropConfig(r) ==
    /\ Kind[r] = "teardown"
    /\ Runs(r, "drop", "forget")
    /\ Replaces(r, Nothing)
    /\ torn' = TRUE
    /\ UNCHANGED <<configCache, toolCache, tenant, carry, faults>> /\ OfConfig

\* A cleanup that fails is reported as a success.
DropFails(r) ==
    /\ faults < MaxFaults
    /\ Kind[r] = "teardown"
    /\ Runs(r, "drop", "ok")
    /\ \/ /\ config' = Nothing
          /\ lagging' = lagging \cup Carrying
          /\ behind' = Procs \X {"config", "tools"}
       \/ UNCHANGED <<config, lagging, behind>>
    /\ faults' = faults + 1
    /\ UNCHANGED <<configCache, toolCache, tenant, torn, carry>> /\ OfConfig

-----------------------------------------------------------------------------
(* The Microsoft connection.                                                *)

Fresh(row) == row.fresh

\* A token that is good is handed out; the others queue up for the user's lock.  A
\* lock that is free is taken without an await.
GetGraphToken(r) ==
    /\ Kind[r] = "token"
    /\ IF graph = Nothing \/ (graph # Nothing /\ Fresh(graph))
         THEN Starts(r, "ok") /\ UNCHANGED lock
         ELSE IF lock[at[r]] = NoLock
                /\ \A q \in Requests : at[q] = at[r] => pc[q] # "queue"
         THEN Starts(r, "recheck") /\ lock' = [lock EXCEPT ![at[r]] = r]
         ELSE Awaits(r, Idle, "queue") /\ UNCHANGED lock
    /\ held' = [held EXCEPT ![r] = graph]
    /\ UNCHANGED <<graph, issued, spent, stranded, lagging, faults>> /\ OfGraph

\* Which of those that wait gets the lock is left open.
TakeLock(r) ==
    /\ Kind[r] = "token"
    /\ lock[at[r]] = NoLock
    /\ Resumes(r, "queue", "recheck")
    /\ lock' = [lock EXCEPT ![at[r]] = r]
    /\ UNCHANGED <<graph, issued, spent, stranded, held, lagging, faults>> /\ OfGraph

\* list_tools cancels a task whose time is up.
Cancelled(r) ==
    /\ Kind[r] = "token"
    /\ Resumes(r, "queue", "failed")
    /\ UNCHANGED <<connection, lagging, faults>> /\ OfGraph

\* Mutant: whoever fails, or finds the token fresh, keeps the lock.
KeepsLock(r) == UNCHANGED lock

Unlock(r) == lock' = [lock EXCEPT ![at[r]] = NoLock]

\* Mutant: whoever gets the lock refreshes with the row that it read before.
RecheckOld(r) == held[r]

\* The row is read again; if it is gone, the one read before is used.
Recheck(r) == IF graph = Nothing THEN held[r] ELSE graph

RereadRow(r) ==
    /\ Kind[r] = "token"
    /\ pc[r] = "recheck"
    /\ held' = [held EXCEPT ![r] = Recheck(r)]
    /\ lagging' = IF graph = Nothing THEN lagging \cup {r} ELSE lagging \ {r}
    /\ IF Fresh(Recheck(r))
         THEN Runs(r, "recheck", "ok") /\ Unlock(r)
         ELSE Awaits(r, "recheck", "refresh") /\ UNCHANGED lock
    /\ UNCHANGED <<graph, issued, spent, stranded, faults>> /\ OfGraph

Renewed(r, n) == held' = [held EXCEPT ![r] = [@ EXCEPT !.serial = n, !.fresh = TRUE]]

\* Microsoft may answer with a new refresh token, or leave the one it was sent.
Rotates(r) == issued' = issued + 1 /\ spent' = spent \cup {held[r].serial}

Renews(r) == \/ Rotates(r) /\ Renewed(r, issued + 1)
             \/ Renewed(r, held[r].serial) /\ UNCHANGED <<issued, spent>>

Replaced(row, tokens) == row # Nothing /\ row.serial \in tokens

\* It has answered, and its answer is lost: a timeout, a cancelled task, a crash.
AnswerLost(r) ==
    /\ Rotates(r)
    /\ stranded' = (stranded \/ Replaced(graph, spent'))

Refreshed(r) ==
    /\ Kind[r] = "token"
    /\ \/ Resumes(r, "refresh", "upsert") /\ Renews(r) /\ UNCHANGED <<lock, stranded>>
       \/ /\ Resumes(r, "refresh", "failed") /\ Unlock(r)
          /\ AnswerLost(r) \/ UNCHANGED <<issued, spent, stranded>>
          /\ UNCHANGED held
    /\ UNCHANGED <<graph, lagging, faults>> /\ OfGraph

\* The code is exchanged, and then Microsoft is asked who has signed in.
Connect(r) ==
    /\ Kind[r] = "connect"
    /\ \/ Awaits(r, Idle, "wire") /\ UNCHANGED <<issued, held>>
       \/ Resumes(r, "wire", "failed") /\ UNCHANGED <<issued, held>>
       \/ /\ Awaits(r, "wire", "me")
          /\ issued' = issued + 1
          /\ held' = [held EXCEPT ![r] =
                 [account |-> Gives[r], serial |-> issued + 1, fresh |-> TRUE]]
       \/ Resumes(r, "me", "upsert") /\ UNCHANGED <<issued, held>>
    /\ UNCHANGED <<graph, spent, stranded, lock, lagging, faults>> /\ OfGraph

Refreshing == {q \in Requests : Kind[q] = "token" /\ pc[q] \in {"recheck", "refresh", "upsert"}}

\* Refreshes whose row r replaces: a connection does not queue up for the lock, nor
\* does another process.
Overtaken(r) == {q \in Refreshing : Kind[r] = "connect" \/ at[q] # at[r]}

\* A refresh that was answered without a new refresh token, and that is overtaken,
\* may put back one that has been replaced.
WritesRow(r) ==
    /\ graph' = held[r]
    /\ stranded' = (held[r].serial \in spent /\ (r \in lagging \/ stranded))
    /\ lagging' = (lagging \cup Overtaken(r)) \ {r}

UpsertRow(r) ==
    /\ Kind[r] \in {"connect", "token"}
    /\ Runs(r, "upsert", "ok")
    /\ WritesRow(r)
    /\ IF Kind[r] = "token" THEN Unlock(r) ELSE UNCHANGED lock
    /\ UNCHANGED <<issued, spent, held, faults>> /\ OfGraph

UpsertFails(r) ==
    /\ faults < MaxFaults
    /\ Kind[r] \in {"connect", "token"}
    /\ Runs(r, "upsert", "failed")
    /\ \/ /\ stranded' = (stranded \/ (Kind[r] = "token" /\ Replaced(graph, spent)))
          /\ UNCHANGED <<graph, lagging>>
       \/ WritesRow(r)
    /\ IF Kind[r] = "token" THEN Unlock(r) ELSE UNCHANGED lock
    /\ faults' = faults + 1
    /\ UNCHANGED <<issued, spent, held>> /\ OfGraph

Disconnect(r) ==
    /\ Kind[r] = "disconnect"
    /\ Starts(r, "ok")
    /\ graph' = Nothing
    /\ stranded' = FALSE
    /\ lagging' = lagging \cup Refreshing
    /\ UNCHANGED <<issued, spent, lock, held, faults>> /\ OfGraph

-----------------------------------------------------------------------------
(* Agent tokens.                                                            *)

SetStatus(r, kind, from, to) ==
    /\ Kind[r] = kind
    /\ Starts(r, "ok")
    /\ status' = [status EXCEPT ![Gives[r]] = IF @ \in from THEN to ELSE @]
    /\ UNCHANGED <<agentClients, faults>> /\ OfTokens

\* A revoked row stays for the audit; a deleted one does not.
ManageToken(r) ==
    \/ SetStatus(r, "mint", {"none"}, "active")
    \/ SetStatus(r, "revoke", {"active", "revoked"}, "revoked")
    \/ SetStatus(r, "delete", Status, "none")

Authenticate(r) ==
    /\ Kind[r] = "use"
    /\ Starts(r, IF status[Gives[r]] = "active" THEN "touch" ELSE "refused")
    /\ UNCHANGED <<agents, faults>> /\ OfTokens

\* last_used_at is set if it can be.
TouchLastUsed(r) ==
    /\ Runs(r, "touch", "client")
    /\ faults' \in {faults} \cup ({faults + 1} \cap 0 .. MaxFaults)
    /\ UNCHANGED agents /\ OfTokens

\* Mutant: an await between the look for the client and its insert.
FindClientAwaits(r) ==
    /\ IF agentClients > 0 THEN Runs(r, "client", "ok") ELSE Awaits(r, "client", "enrol")
    /\ UNCHANGED <<agents, faults>> /\ OfTokens

FindClient(r) ==
    /\ Runs(r, "client", IF agentClients > 0 THEN "ok" ELSE "enrol")
    /\ UNCHANGED <<agents, faults>> /\ OfTokens

Enrol(r) ==
    /\ \/ /\ Runs(r, "enrol", "ok")
          /\ agentClients' = agentClients + 1
          /\ UNCHANGED faults
       \/ /\ faults < MaxFaults
          /\ Runs(r, "enrol", "failed")
          /\ agentClients' \in {agentClients, agentClients + 1}
          /\ faults' = faults + 1
    /\ UNCHANGED status /\ OfTokens

DeleteDevice(r) ==
    /\ Kind[r] = "deleteDevice"
    /\ Starts(r, "ok")
    /\ agentClients' = IF agentClients = 0 THEN 0 ELSE agentClients - 1
    /\ UNCHANGED <<status, faults>> /\ OfTokens

-----------------------------------------------------------------------------
(* Time and faults.                                                         *)

\* A minute for the settings, five for the tools.
ExpireCache(p) ==
    /\ \/ /\ configCache[p] # Nothing
          /\ configCache' = [configCache EXCEPT ![p] = Nothing]
          /\ behind' = behind \ {<<p, "config">>}
          /\ UNCHANGED toolCache
       \/ /\ toolCache[p] # Nothing
          /\ toolCache' = [toolCache EXCEPT ![p] = Nothing]
          /\ behind' = behind \ {<<p, "tools">>}
          /\ UNCHANGED configCache
    /\ UNCHANGED <<config, tenant, torn, carry, lagging, at, pc, loop, faults>> /\ OfConfig

\* The access token has less than a minute to live.
ExpireAccess ==
    /\ graph # Nothing /\ graph.fresh
    /\ graph' = [graph EXCEPT !.fresh = FALSE]
    /\ UNCHANGED <<issued, spent, stranded, lock, held, lagging, at, pc, loop, faults>> /\ OfGraph

\* A save whose write may have been applied fails and clears no cache.
SaveFails(r) ==
    /\ faults < MaxFaults
    /\ Kind[r] = "save"
    /\ Resumes(r, "body", "failed")
    /\ \/ UNCHANGED <<config, lagging, torn, behind>>
       \/ /\ config' = Gives[r]
          /\ torn' = FALSE
          /\ lagging' = lagging \cup {q \in Carrying : carry[q] # Gives[r]}
          /\ behind' = Procs \X {"config", "tools"}
    /\ faults' = faults + 1
    /\ UNCHANGED <<configCache, toolCache, tenant, carry>> /\ OfConfig

\* A refresh that a crash cuts off may have been answered.
CutOff(p, q, call) == at[q] = p /\ Kind[q] = "token" /\ pc[q] = call

CutsRefresh(p) ==
    \/ \E q \in Requests : CutOff(p, q, "refresh") /\ AnswerLost(q)
    \/ /\ stranded' = (stranded \/ (/\ Replaced(graph, spent)
                                   /\ \E q \in Requests : CutOff(p, q, "upsert")))
       /\ UNCHANGED <<issued, spent>>

\* A process takes its caches and its locks with it.
Crash(p) ==
    /\ faults < MaxFaults
    /\ \E r \in Requests : at[r] = p /\ pc[r] \in Stage
    /\ pc' = [r \in Requests |-> IF at[r] = p /\ pc[r] \in Stage THEN "crashed" ELSE pc[r]]
    /\ loop' = [loop EXCEPT ![p] = NoRequest]
    /\ configCache' = [configCache EXCEPT ![p] = Nothing]
    /\ toolCache' = [toolCache EXCEPT ![p] = Nothing]
    /\ lock' = [lock EXCEPT ![p] = NoLock]
    /\ behind' = behind \ ({p} \X {"config", "tools"})
    /\ lagging' = {r \in lagging : at[r] # p}
    /\ CutsRefresh(p)
    /\ faults' = faults + 1
    /\ UNCHANGED <<config, tenant, torn, graph, agents, carry, held, at>>

Config(r) ==
    \/ ProxyLoad(r) \/ ProxySend(r) \/ Reached(r) \/ ToolsCached(r) \/ FetchTools(r)
    \/ ToolsFetched(r) \/ EditToolbox(r) \/ ReceiveBody(r) \/ SaveConfig(r) \/ SaveFails(r)
    \/ Forget(r) \/ Provision(r) \/ LinkLoad(r) \/ LinkStatus(r) \/ Teardown(r)
    \/ ScholarDeletes(r) \/ TornDown(r) \/ DropConfig(r) \/ DropFails(r)

Graph(r) ==
    \/ GetGraphToken(r) \/ TakeLock(r) \/ Cancelled(r) \/ RereadRow(r) \/ Refreshed(r)
    \/ Connect(r) \/ UpsertRow(r) \/ UpsertFails(r) \/ Disconnect(r)

Agent(r) ==
    \/ ManageToken(r) \/ Authenticate(r) \/ TouchLastUsed(r) \/ FindClient(r) \/ Enrol(r)
    \/ DeleteDevice(r)

Next ==
    \/ \E r \in Requests : pc[r] \notin Outcome /\ (Config(r) \/ Graph(r) \/ Agent(r))
    \/ \E p \in Procs : ExpireCache(p) \/ Crash(p)
    \/ ExpireAccess

Spec == Init /\ [][Next]_vars

-----------------------------------------------------------------------------
(* Properties.                                                              *)

\* Between two coroutines a process has no settings, and no tools that were listed
\* with settings, other than the saved ones: the save and the teardown drop both
\* entries of theirs.  Other processes keep them until they expire; a list of tools
\* that was under way during a save, and a failed read, are cached all the same.
SettingsFollow ==
    \A p \in Procs : loop[p] = NoRequest =>
        /\ configCache[p] \in {Nothing, Stored} \/ <<p, "config">> \in behind
        /\ toolCache[p] \in {Nothing, Stored} \/ <<p, "tools">> \in behind

\* After a teardown Scholar's tenant stays down until settings are saved again
\* (portal/routes.py: "True teardown"), except for a request that was under way or
\* that was served from a cache the teardown does not reach.
TornDownStaysDown ==
    [][torn /\ tenant' => tenant \/ \E r \in lagging : pc[r] # pc'[r]]_vars

\* A process sends Microsoft no refresh token that has been replaced: the waiting
\* coroutines find the row that the first one wrote.  It does so only if the new one
\* will not come to the row (the answer or the write of it was lost, or a late write
\* has taken its place), or if another process is just about to write it.  A row
\* that is replaced while the refresh is under way does not call it back.
RefreshesLatest ==
    \A r \in Requests :
        /\ Kind[r] = "token" /\ pc[r] = "refresh" /\ r \notin lagging
        /\ held[r].serial \in spent
        => stranded \/ \E q \in Requests : at[q] # at[r] /\ Kind[q] = "token" /\ pc[q] = "upsert"

AccountOf(row) == IF row = Nothing THEN Nothing ELSE row.account

\* The Microsoft account behind a user's calls changes only as he connects or
\* disconnects it, and by a refresh that was under way then.
AccountKept ==
    [][AccountOf(graph') # AccountOf(graph)
        => \E r \in Requests : /\ pc[r] # pc'[r]
                               /\ Kind[r] \in {"connect", "disconnect"} \/ r \in lagging]_vars

\* One process never gives a user two rows for his agents' traffic.
OneAgentClient ==
    agentClients > 1 =>
        \E q, r \in Requests : /\ Kind[q] = "use" /\ Kind[r] = "use"
                               /\ pc[q] \in Outcome /\ pc[r] \in Outcome
                               /\ at[q] # at[r]
=============================================================================
