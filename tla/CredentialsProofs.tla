-------------------------- MODULE CredentialsProofs --------------------------
(* Proofs about Credentials for every set of keys, accounts, tokens,        *)
(* requests and processes, and any number of faults.                        *)
EXTENDS Credentials, TLAPS

\* A step of a handler.
Works(r) == pc[r] \notin Outcome /\ (Config(r) \/ Graph(r) \/ Agent(r))

\* Who steps between two awaits holds the loop of its process.
Kept == {"forget", "drop", "recheck", "upsert", "touch", "client", "enrol"}
HoldsLoop == \A r \in Requests : pc[r] \in Kept => loop[at[r]] = r

\* A process refreshes the Microsoft token in one coroutine at a time, with a row that
\* has run out.
Renewing == {"recheck", "refresh", "upsert"}
LockInv ==
    /\ \A r \in Requests : Kind[r] = "token" /\ pc[r] \in Renewing => lock[at[r]] = r
    /\ \A p \in Procs : lock[p] # NoLock => Kind[lock[p]] = "token"
    /\ \A r \in Requests : Kind[r] = "token" /\ pc[r] \in Renewing \cup {"queue"} =>
          held[r] # Nothing
    /\ \A r \in Requests : Kind[r] = "token" /\ pc[r] = "refresh" => ~ held[r].fresh

\* Whose settings are read or sent, and whose agents are let in.
KindInv ==
    \A r \in Requests :
        /\ pc[r] = Idle => carry[r] = Nothing
        /\ Kind[r] \in GraphKinds \cup {"teardown", "save"} => carry[r] = Nothing
        /\ pc[r] = "forget" => Kind[r] \in ConfigKinds
        /\ pc[r] \in {"touch", "client", "enrol"} => Kind[r] = "use"
        /\ pc[r] \in {"listing", "status"} => carry[r] # Nothing
        /\ Kind[r] = "rest" /\ pc[r] = "body" => carry[r] # Nothing
        /\ Kind[r] \in {"call", "rest", "provision", "link"} /\ pc[r] = "wire" =>
              carry[r] # Nothing

TypeInv == TypeOK /\ HoldsLoop /\ LockInv /\ KindInv

-----------------------------------------------------------------------------
(* Where requests are. *)

Positions == {Idle} \cup Stage \cup Outcome

\* Every step is a way of moving that takes the loop, or gives it up, from nobody else.
MovesTo(r, to) ==
    /\ Runs(r, pc[r], to) \/ (Awaits(r, pc[r], to) /\ to \notin Kept)
    /\ to \in Positions \ {Idle}
    /\ loop[at[r]] \in {NoRequest, r}

\* The handlers of settings move so.
LEMMA ConfigMoves ==
    ASSUME TypeInv, NEW r \in Requests, Config(r)
    PROVE  \E to : MovesTo(r, to)
<1> USE DEF MovesTo, Positions, Stage, Outcome, Idle, Kept, Starts, Resumes, Awaits, Runs,
            Moves, TypeInv, HoldsLoop
<1>1. CASE ProxyLoad(r) \/ ProxySend(r) \/ Reached(r) \/ ToolsCached(r) \/ FetchTools(r)
  BY <1>1 DEF ProxyLoad, ProxySend, Reached, ToolsCached, FetchTools
<1>2. CASE ToolsFetched(r) \/ EditToolbox(r) \/ ReceiveBody(r) \/ SaveConfig(r) \/ SaveFails(r)
  BY <1>2 DEF ToolsFetched, EditToolbox, ReceiveBody, SaveConfig, SaveFails
<1>3. CASE Forget(r) \/ Provision(r) \/ LinkLoad(r) \/ LinkStatus(r)
  BY <1>3 DEF Forget, Provision, LinkLoad, LinkStatus
<1>4. CASE Teardown(r) \/ ScholarDeletes(r) \/ TornDown(r) \/ DropConfig(r) \/ DropFails(r)
  <2>1. CASE Teardown(r) \/ TornDown(r)
    <3>1. Awaits(r, Idle, "wire") => MovesTo(r, "wire")
      OBVIOUS
    <3>2. \A from, to : to \in {"drop", "failed"} /\ Resumes(r, from, to) => MovesTo(r, to)
      OBVIOUS
    <3>3. Teardown(r) => Awaits(r, Idle, "wire")
      BY DEF Teardown
    <3>4. TornDown(r) => \E from, to : to \in {"drop", "failed"} /\ Resumes(r, from, to)
      BY DEF TornDown
    <3>5. QED
      BY <2>1, <3>1, <3>2, <3>3, <3>4
  <2>9. CASE ScholarDeletes(r)
    <3>1. Awaits(r, "wire", "answer")
      BY <2>9 DEF ScholarDeletes
    <3>2. MovesTo(r, "answer")
      BY <3>1
    <3>3. QED
      BY <3>2
  <2>2. CASE pc[r] = "drop" /\ \E to \in {"forget", "ok"} : Runs(r, "drop", to)
    BY <2>2
  <2>3. DropConfig(r) \/ DropFails(r) =>
           pc[r] = "drop" /\ \E to \in {"forget", "ok"} : Runs(r, "drop", to)
    BY DEF DropConfig, DropFails
  <2>4. QED
    BY <1>4, <2>1, <2>2, <2>3, <2>9
<1>5. QED
  BY <1>1, <1>2, <1>3, <1>4 DEF Config

\* So do those of the Microsoft connection.
LEMMA GraphMoves ==
    ASSUME TypeInv, NEW r \in Requests, Graph(r)
    PROVE  \E to : MovesTo(r, to)
<1> USE DEF MovesTo, Positions, Stage, Outcome, Idle, Kept, Starts, Resumes, Awaits, Runs,
            Moves, TypeInv, HoldsLoop
<1>1. CASE GetGraphToken(r)
  BY <1>1 DEF GetGraphToken
<1>2. CASE TakeLock(r) \/ Cancelled(r) \/ RereadRow(r) \/ Refreshed(r)
  BY <1>2 DEF TakeLock, Cancelled, RereadRow, Refreshed
<1>3. CASE Connect(r) \/ UpsertRow(r) \/ UpsertFails(r) \/ Disconnect(r)
  BY <1>3 DEF Connect, UpsertRow, WritesRow, UpsertFails, Disconnect
<1>4. QED
  BY <1>1, <1>2, <1>3 DEF Graph

\* So do those of the agents.
LEMMA AgentMoves ==
    ASSUME TypeInv, NEW r \in Requests, Agent(r)
    PROVE  \E to : MovesTo(r, to)
<1> USE DEF MovesTo, Positions, Stage, Outcome, Idle, Kept, Starts, Runs, Moves,
            TypeInv, HoldsLoop
<1>1. CASE ManageToken(r) \/ Authenticate(r) \/ DeleteDevice(r)
  BY <1>1 DEF ManageToken, SetStatus, Authenticate, DeleteDevice
<1>2. CASE TouchLastUsed(r) \/ FindClient(r) \/ Enrol(r)
  BY <1>2 DEF TouchLastUsed, FindClient, Enrol
<1>3. QED
  BY <1>1, <1>2 DEF Agent

\* What a step does to the position of requests and to the loop.
LEMMA LoopMoves ==
    ASSUME TypeInv, NEW r \in Requests, Works(r)
    PROVE  /\ pc[r] \notin Outcome /\ pc'[r] \in Positions \ {Idle}
           /\ pc' = [pc EXCEPT ![r] = pc'[r]]
           /\ at' = at
           /\ loop[at[r]] \in {NoRequest, r}
           /\ loop' = [loop EXCEPT ![at[r]] = loop'[at[r]]]
           /\ loop'[at[r]] \in {NoRequest, r}
           /\ pc'[r] \in Kept => loop'[at[r]] = r
<1>1. PICK to : MovesTo(r, to)
  BY ConfigMoves, GraphMoves, AgentMoves DEF Works
<1>2. /\ pc \in [Requests -> Positions] /\ at \in [Requests -> Procs]
      /\ loop \in [Procs -> Requests \cup {NoRequest}]
  BY DEF TypeInv, TypeOK, Positions
<1>3. pc'[r] = to /\ at' = at /\ pc' = [pc EXCEPT ![r] = to]
  BY <1>1, <1>2 DEF MovesTo, Runs, Awaits, Moves
<1>4. QED
  BY <1>1, <1>2, <1>3 DEF MovesTo, Runs, Awaits, Works, Kept, Outcome

\* The types of where requests are.
LEMMA MoveType ==
    ASSUME TypeInv, NEW r \in Requests, Works(r)
    PROVE  /\ at' \in [Requests -> Procs]
           /\ pc' \in [Requests -> {Idle} \cup Stage \cup Outcome]
           /\ loop' \in [Procs -> Requests \cup {NoRequest}]
<1>1. /\ pc \in [Requests -> Positions] /\ at \in [Requests -> Procs]
      /\ loop \in [Procs -> Requests \cup {NoRequest}]
  BY DEF TypeInv, TypeOK, Positions
<1>2. QED
  BY <1>1, LoopMoves DEF Positions

\* The loop stays with who holds it.
LEMMA LoopStep ==
    ASSUME TypeInv, NEW q \in Requests, Works(q)
    PROVE  HoldsLoop'
<1> SUFFICES ASSUME NEW r \in Requests, pc'[r] \in Kept
             PROVE  loop'[at'[r]] = r
  BY DEF HoldsLoop
<1>0. /\ at \in [Requests -> Procs] /\ NoRequest \notin Requests
      /\ pc \in [Requests -> {Idle} \cup Stage \cup Outcome]
      /\ loop \in [Procs -> Requests \cup {NoRequest}]
  BY CredentialsAssumption DEF TypeInv, TypeOK
<1>1. CASE r = q
  BY <1>0, <1>1, LoopMoves
<1>2. CASE r # q
  <2>1. pc[r] \in Kept /\ at' = at /\ loop[at[r]] = r
    BY <1>0, <1>2, LoopMoves DEF TypeInv, HoldsLoop
  <2>2. QED
    BY <1>0, <1>2, <2>1, LoopMoves
<1>3. QED
  BY <1>1, <1>2

-----------------------------------------------------------------------------
(* Types of the data. *)

SettingsOK ==
    /\ config \in Keys \cup {Nothing}
    /\ configCache \in [Procs -> Known \cup {Nothing}]
    /\ toolCache \in [Procs -> Known \cup {Nothing}]
    /\ tenant \in BOOLEAN /\ torn \in BOOLEAN
    /\ carry \in [Requests -> Known \cup {Nothing}]
    /\ behind \subseteq Procs \X {"config", "tools"}
ConnectionOK ==
    /\ graph \in Rows \cup {Nothing}
    /\ issued \in Nat /\ spent \subseteq Nat /\ stranded \in BOOLEAN
    /\ lock \in [Procs -> Requests \cup {NoLock}]
    /\ held \in [Requests -> Rows \cup {Nothing}]
AgentsOK == status \in [Tokens -> Status] /\ agentClients \in Nat
DataOK ==
    /\ SettingsOK /\ ConnectionOK /\ AgentsOK
    /\ lagging \subseteq Requests
    /\ faults \in 0 .. MaxFaults

\* A row that Microsoft has renewed is a row of the same account.
LEMMA RenewedRow ==
    ASSUME NEW row \in Rows, NEW n \in Nat
    PROVE  LET renewed == [row EXCEPT !.serial = n, !.fresh = TRUE] IN
              renewed \in Rows /\ renewed.account = row.account /\ renewed.serial = n
<1>1. row \in [{"account", "serial", "fresh"} -> Accounts \cup Nat \cup BOOLEAN]
  BY DEF Rows
<1>2. QED
  BY <1>1 DEF Rows

\* What a refresh that is answered does to the row that it has read: the refresh token
\* is left, or replaced by a new one.
LEMMA Renewal ==
    ASSUME TypeInv, NEW r \in Requests, Kind[r] = "token", pc[r] = "refresh", Renews(r)
    PROVE  /\ \A q \in Requests : q # r => held'[q] = held[q]
           /\ held' \in [Requests -> Rows \cup {Nothing}]
           /\ held[r] \in Rows /\ held'[r] \in Rows
           /\ held'[r].account = held[r].account
           /\ \/ Rotates(r) /\ held'[r].serial = issued + 1
              \/ UNCHANGED <<issued, spent>> /\ held'[r].serial = held[r].serial
<1>0. /\ held \in [Requests -> Rows \cup {Nothing}] /\ issued \in Nat
      /\ held[r] \in Rows
  BY DEF TypeInv, TypeOK, LockInv, Renewing
<1>1. PICK n \in Nat :
         /\ held' = [held EXCEPT ![r] = [held[r] EXCEPT !.serial = n, !.fresh = TRUE]]
         /\ \/ Rotates(r) /\ n = issued + 1
            \/ UNCHANGED <<issued, spent>> /\ n = held[r].serial
  <2>1. held[r].serial \in Nat /\ issued + 1 \in Nat
    BY <1>0 DEF Rows
  <2>2. QED
    BY <1>0, <2>1 DEF Renews, Renewed
<1>2. held'[r] = [held[r] EXCEPT !.serial = n, !.fresh = TRUE]
  BY <1>0, <1>1
<1>3. held'[r] \in Rows /\ held'[r].account = held[r].account /\ held'[r].serial = n
  <2>1. /\ [held[r] EXCEPT !.serial = n, !.fresh = TRUE] \in Rows
        /\ [held[r] EXCEPT !.serial = n, !.fresh = TRUE].account = held[r].account
        /\ [held[r] EXCEPT !.serial = n, !.fresh = TRUE].serial = n
    BY <1>0, RenewedRow
  <2>2. QED
    BY <1>2, <2>1
<1>4. held' = [held EXCEPT ![r] = held'[r]]
  BY <1>0, <1>1
<1>5. held' \in [Requests -> Rows \cup {Nothing}]
  BY <1>0, <1>3, <1>4
<1>6. \A q \in Requests : q # r => held'[q] = held[q]
  BY <1>0, <1>4
<1>7. \/ Rotates(r) /\ held'[r].serial = issued + 1
      \/ UNCHANGED <<issued, spent>> /\ held'[r].serial = held[r].serial
  BY <1>1, <1>3
<1>8. QED
  BY <1>0, <1>3, <1>5, <1>6, <1>7

\* What Microsoft has replaced is a refresh token.
LEMMA RotatesType ==
    ASSUME TypeInv, NEW r \in Requests, Kind[r] = "token", pc[r] = "refresh", Rotates(r)
    PROVE  issued' \in Nat /\ spent' \subseteq Nat
<1>1. held[r] \in Rows /\ issued \in Nat /\ spent \subseteq Nat
  BY DEF TypeInv, TypeOK, LockInv, Renewing
<1>2. held[r].serial \in Nat
  BY <1>1 DEF Rows
<1>3. issued' = issued + 1 /\ spent' = spent \cup {held[r].serial}
  BY DEF Rotates
<1>4. issued' \in Nat
  BY <1>1, <1>3
<1>5. QED
  BY <1>1, <1>2, <1>3, <1>4

\* What a request loads is of the type of settings.
LEMMA LoadType ==
    ASSUME TypeInv, NEW r \in Requests, LoadConfig(r)
    PROVE  /\ configCache' \in [Procs -> Known \cup {Nothing}]
           /\ carry' \in [Requests -> Known \cup {Nothing}]
           /\ carry'[r] # Nothing
           /\ behind' \subseteq Procs \X {"config", "tools"}
           /\ lagging' \subseteq Requests
           /\ faults' \in 0 .. MaxFaults
<1>0. /\ config \in Keys \cup {Nothing} /\ configCache \in [Procs -> Known \cup {Nothing}]
      /\ carry \in [Requests -> Known \cup {Nothing}]
      /\ behind \subseteq Procs \X {"config", "tools"} /\ lagging \subseteq Requests
      /\ faults \in 0 .. MaxFaults /\ MaxFaults \in Nat /\ at[r] \in Procs
      /\ Nothing \notin Known
  BY CredentialsAssumption DEF TypeInv, TypeOK, Known
<1>1. Configured(at[r]) \in Known
  BY <1>0 DEF Configured, Stored, Known
<1>2. PICK c \in Known, late \in BOOLEAN :
         Loads(r, c, late) /\ (faults' = faults \/ (faults < MaxFaults /\ faults' = faults + 1))
  <2> DEFINE late == configCache[at[r]] # Nothing /\ <<at[r], "config">> \in behind
  <2>1. CASE Loads(r, Configured(at[r]), late) /\ UNCHANGED faults
    <3>1. late \in BOOLEAN
      OBVIOUS
    <3>2. QED
      BY <1>1, <2>1, <3>1
  <2>2. CASE faults < MaxFaults /\ Loads(r, "empty", TRUE) /\ faults' = faults + 1
    BY <2>2 DEF Known
  <2>3. QED
    BY <2>1, <2>2 DEF LoadConfig
<1>3. behind' \subseteq Procs \X {"config", "tools"} /\ lagging' \subseteq Requests
  BY <1>0, <1>2 DEF Loads
<1>4. QED
  BY <1>0, <1>2, <1>3 DEF Loads

\* The handlers of settings keep the types.
LEMMA ConfigType ==
    ASSUME TypeInv, NEW r \in Requests, pc[r] \notin Outcome, Config(r)
    PROVE  DataOK'
<1> USE DEF DataOK, SettingsOK, ConnectionOK, AgentsOK, OfConfig, settings, connection, agents
<1>0. /\ DataOK /\ at[r] \in Procs /\ MaxFaults \in Nat
      /\ Kind[r] = "save" => Gives[r] \in Keys
      /\ Stored \in Known
  BY CredentialsAssumption DEF TypeInv, TypeOK, Stored, Known
<1>1. CASE ProxyLoad(r)
  BY <1>0, <1>1, LoadType DEF ProxyLoad
<1>2. CASE FetchTools(r)
  BY <1>0, <1>2, LoadType DEF FetchTools
<1>3. CASE ProxySend(r) \/ ToolsCached(r) \/ ReceiveBody(r) \/ Teardown(r)
  BY <1>0, <1>3 DEF ProxySend, ToolsCached, ReceiveBody, Teardown
<1>4. CASE Reached(r)
  <2>1. tenant' \in BOOLEAN
    BY <1>0, <1>4 DEF Reached
  <2>2. QED
    BY <1>0, <1>4, <2>1 DEF Reached
<1>5. CASE ToolsFetched(r)
  <2>1. /\ tenant' \in BOOLEAN /\ lagging' \subseteq Requests
        /\ toolCache' \in [Procs -> Known \cup {Nothing}]
        /\ behind' \subseteq Procs \X {"config", "tools"}
    <3>1. CASE /\ toolCache' = [toolCache EXCEPT ![at[r]] = carry[r]]
               /\ behind' = IF r \in lagging THEN behind \cup {<<at[r], "tools">>}
                                             ELSE behind \ {<<at[r], "tools">>}
      <4>1. carry[r] \in Known \cup {Nothing}
        BY <1>0
      <4>2. toolCache' \in [Procs -> Known \cup {Nothing}]
        BY <1>0, <3>1, <4>1
      <4>3. behind' \subseteq Procs \X {"config", "tools"}
        BY <1>0, <3>1
      <4>4. tenant' \in BOOLEAN /\ lagging' \subseteq Requests
        BY <1>0, <1>5 DEF ToolsFetched
      <4>5. QED
        BY <4>2, <4>3, <4>4
    <3>2. CASE UNCHANGED <<toolCache, behind>>
      BY <1>0, <1>5, <3>2 DEF ToolsFetched
    <3>3. QED
      BY <1>5, <3>1, <3>2 DEF ToolsFetched
  <2>2. QED
    BY <1>0, <1>5, <2>1 DEF ToolsFetched
<1>6. CASE EditToolbox(r)
  BY <1>0, <1>6 DEF EditToolbox
<1>7. CASE SaveConfig(r)
  <2>1. config' \in Keys /\ lagging' \subseteq Requests
        /\ behind' \subseteq Procs \X {"config", "tools"}
    BY <1>0, <1>7 DEF SaveConfig, Replaces, Carrying
  <2>2. QED
    BY <1>0, <1>7, <2>1 DEF SaveConfig
<1>8. CASE SaveFails(r)
  <2>1. /\ config' \in Keys \cup {Nothing} /\ lagging' \subseteq Requests
        /\ torn' \in BOOLEAN /\ behind' \subseteq Procs \X {"config", "tools"}
    BY <1>0, <1>8 DEF SaveFails, Carrying
  <2>2. QED
    BY <1>0, <1>8, <2>1 DEF SaveFails
<1>9. CASE Forget(r)
  BY <1>0, <1>9 DEF Forget, InvalidateUserConfig
<1>10. CASE Provision(r) \/ LinkLoad(r)
  BY <1>0, <1>10 DEF Provision, LinkLoad, ReadsRow
<1>11. CASE LinkStatus(r)
  BY <1>0, <1>11 DEF LinkStatus
<1>12. CASE ScholarDeletes(r) \/ TornDown(r)
  BY <1>0, <1>12 DEF ScholarDeletes, TornDown
<1>13. CASE DropConfig(r)
  <2>1. config' = Nothing /\ lagging' \subseteq Requests
        /\ behind' \subseteq Procs \X {"config", "tools"}
    BY <1>0, <1>13 DEF DropConfig, Replaces, Carrying
  <2>2. QED
    BY <1>0, <1>13, <2>1 DEF DropConfig
<1>14. CASE DropFails(r)
  <2>1. /\ config' \in Keys \cup {Nothing} /\ lagging' \subseteq Requests
        /\ behind' \subseteq Procs \X {"config", "tools"}
    BY <1>0, <1>14 DEF DropFails, Carrying
  <2>2. QED
    BY <1>0, <1>14, <2>1 DEF DropFails
<1>15. QED
  BY <1>1, <1>2, <1>3, <1>4, <1>5, <1>6, <1>7, <1>8, <1>9, <1>10, <1>11, <1>12, <1>13,
     <1>14 DEF Config

\* Those of the Microsoft connection keep the types.
LEMMA GraphType ==
    ASSUME TypeInv, NEW r \in Requests, pc[r] \notin Outcome, Graph(r)
    PROVE  DataOK'
<1> USE DEF DataOK, SettingsOK, ConnectionOK, AgentsOK, OfGraph, settings, agents, Unlock
<1>0. /\ DataOK /\ at[r] \in Procs /\ MaxFaults \in Nat
      /\ Kind[r] = "connect" => Gives[r] \in Accounts
      /\ \A q \in Requests : Overtaken(q) \subseteq Requests
  BY CredentialsAssumption DEF TypeInv, TypeOK, Overtaken, Refreshing
<1>1. CASE GetGraphToken(r)
  <2>1. lock' \in [Procs -> Requests \cup {NoLock}]
    BY <1>0, <1>1 DEF GetGraphToken
  <2>2. QED
    BY <1>0, <1>1, <2>1 DEF GetGraphToken
<1>2. CASE TakeLock(r) \/ Cancelled(r)
  BY <1>0, <1>2 DEF TakeLock, Cancelled, connection
<1>3. CASE RereadRow(r)
  <2>1. lock' \in [Procs -> Requests \cup {NoLock}] /\ lagging' \subseteq Requests
    BY <1>0, <1>3 DEF RereadRow
  <2>2. Recheck(r) \in Rows \cup {Nothing}
    BY <1>0 DEF Recheck
  <2>3. held' \in [Requests -> Rows \cup {Nothing}]
    BY <1>0, <1>3, <2>2 DEF RereadRow
  <2>4. QED
    BY <1>0, <1>3, <2>1, <2>3 DEF RereadRow
<1>4. CASE Refreshed(r)
  <2>1. /\ Kind[r] = "token" /\ pc[r] = "refresh"
        /\ UNCHANGED <<settings, agents, graph, lagging, faults>>
        /\ lock' \in [Procs -> Requests \cup {NoLock}]
    BY <1>0, <1>4 DEF Refreshed, Resumes, Runs, Moves
  <2>2. CASE Renews(r) /\ UNCHANGED stranded
    <3>1. held' \in [Requests -> Rows \cup {Nothing}]
      BY <2>1, <2>2, Renewal
    <3>2. issued' \in Nat /\ spent' \subseteq Nat
      BY <1>0, <2>1, <2>2, Renewal, RotatesType
    <3>3. QED
      BY <1>0, <2>1, <2>2, <3>1, <3>2
  <2>3. CASE AnswerLost(r) /\ UNCHANGED held
    <3>1. issued' \in Nat /\ spent' \subseteq Nat /\ stranded' \in BOOLEAN
      BY <1>0, <2>1, <2>3, RotatesType DEF AnswerLost
    <3>2. QED
      BY <1>0, <2>1, <2>3, <3>1
  <2>4. CASE UNCHANGED <<issued, spent, stranded, held>>
    BY <1>0, <2>1, <2>4
  <2>5. QED
    BY <1>4, <2>2, <2>3, <2>4 DEF Refreshed
<1>5. CASE Connect(r)
  <2>1. [account |-> Gives[r], serial |-> issued + 1, fresh |-> TRUE] \in Rows
    BY <1>0, <1>5 DEF Connect, Rows
  <2>2. held' \in [Requests -> Rows \cup {Nothing}] /\ issued' \in Nat
    <3>1. \/ UNCHANGED <<issued, held>>
          \/ /\ issued' = issued + 1
             /\ held' = [held EXCEPT ![r] =
                    [account |-> Gives[r], serial |-> issued + 1, fresh |-> TRUE]]
      BY <1>5 DEF Connect
    <3>2. issued' \in Nat
      BY <1>0, <3>1
    <3>3. held' \in [Requests -> Rows \cup {Nothing}]
      BY <1>0, <2>1, <3>1
    <3>4. QED
      BY <3>2, <3>3
  <2>3. QED
    BY <1>0, <1>5, <2>2 DEF Connect
<1>6. ASSUME WritesRow(r)
      PROVE  /\ graph' \in Rows \cup {Nothing} /\ stranded' \in BOOLEAN
             /\ lagging' \subseteq Requests
  BY <1>0, <1>6 DEF WritesRow
<1>7. CASE UpsertRow(r) \/ UpsertFails(r)
  <2>1. /\ lock' \in [Procs -> Requests \cup {NoLock}]
        /\ UNCHANGED <<settings, agents, issued, spent, held>>
        /\ faults' \in 0 .. MaxFaults
    BY <1>0, <1>7 DEF UpsertRow, UpsertFails
  <2>2. /\ graph' \in Rows \cup {Nothing} /\ stranded' \in BOOLEAN
        /\ lagging' \subseteq Requests
    <3>1. CASE WritesRow(r)
      BY <1>6, <3>1
    <3>2. CASE UpsertFails(r) /\ UNCHANGED <<graph, lagging>>
      BY <1>0, <3>2 DEF UpsertFails, WritesRow
    <3>3. QED
      BY <1>7, <3>1, <3>2 DEF UpsertRow, UpsertFails
  <2>3. QED
    BY <1>0, <2>1, <2>2
<1>8. CASE Disconnect(r)
  BY <1>0, <1>8 DEF Disconnect, Refreshing
<1>9. QED
  BY <1>1, <1>2, <1>3, <1>4, <1>5, <1>7, <1>8 DEF Graph

\* Those of the agents keep the types.
LEMMA AgentType ==
    ASSUME TypeInv, NEW r \in Requests, pc[r] \notin Outcome, Agent(r)
    PROVE  DataOK'
<1> USE DEF DataOK, SettingsOK, ConnectionOK, AgentsOK, OfTokens, settings, connection, agents
<1>0. DataOK /\ MaxFaults \in Nat
  BY CredentialsAssumption DEF TypeInv, TypeOK
<1>1. CASE ManageToken(r)
  BY <1>0, <1>1 DEF ManageToken, SetStatus, Status
<1>2. CASE Authenticate(r) \/ FindClient(r)
  BY <1>0, <1>2 DEF Authenticate, FindClient
<1>3. CASE TouchLastUsed(r)
  BY <1>0, <1>3 DEF TouchLastUsed
<1>4. CASE Enrol(r)
  BY <1>0, <1>4 DEF Enrol
<1>5. CASE DeleteDevice(r)
  BY <1>0, <1>5 DEF DeleteDevice
<1>6. QED
  BY <1>1, <1>2, <1>3, <1>4, <1>5 DEF Agent

\* Which requests touch the lock, and what they have read of the connection.
LEMMA LockMoves ==
    ASSUME TypeInv, NEW q \in Requests, Works(q)
    PROVE  /\ \A r \in Requests : r # q => held'[r] = held[r]
           /\ \/ lock' = lock
              \/ /\ lock[at[q]] = NoLock /\ Kind[q] = "token" /\ pc'[q] = "recheck"
                 /\ lock' = [lock EXCEPT ![at[q]] = q]
              \/ /\ Kind[q] = "token" /\ pc[q] \in Renewing /\ pc'[q] \notin Renewing
                 /\ lock' = [lock EXCEPT ![at[q]] = NoLock]
           /\ Kind[q] = "token" /\ pc'[q] \in Renewing =>
                 pc[q] \in Renewing \/ lock'[at[q]] = q
           /\ Kind[q] = "token" /\ pc[q] \in Renewing /\ pc'[q] \notin Renewing =>
                 lock'[at[q]] = NoLock
           /\ Kind[q] = "token" /\ pc'[q] \in Renewing \cup {"queue"} => held'[q] # Nothing
           /\ Kind[q] = "token" /\ pc'[q] = "refresh" => ~ held'[q].fresh
<1>0. /\ held \in [Requests -> Rows \cup {Nothing}] /\ at[q] \in Procs
      /\ lock \in [Procs -> Requests \cup {NoLock}]
      /\ pc \in [Requests -> {Idle} \cup Stage \cup Outcome]
      /\ Kind[q] = "token" /\ pc[q] \in Renewing \cup {"queue"} => held[q] # Nothing
      /\ \A row \in Rows : row # Nothing
  BY CredentialsAssumption DEF TypeInv, TypeOK, LockInv
<1> USE DEF Renewing, Outcome, Idle, Starts, Awaits, Resumes, Runs, Moves
<1>1. CASE Config(q)
  <2>1. lock' = lock /\ held' = held
    BY <1>1 DEF Config, ProxyLoad, ProxySend, Reached, ToolsCached, FetchTools, ToolsFetched,
       EditToolbox, ReceiveBody, SaveConfig, SaveFails, Forget, Provision, LinkLoad,
       LinkStatus, Teardown, ScholarDeletes, TornDown, DropConfig, DropFails, OfConfig, connection
  <2>2. Kind[q] # "token"
    <3>1. Forget(q) => Kind[q] # "token"
      BY DEF Forget, TypeInv, KindInv, ConfigKinds
    <3>2. QED
      BY <1>1, <3>1 DEF Config, ProxyLoad, ProxySend, Reached, ToolsCached, FetchTools,
         ToolsFetched, EditToolbox, ReceiveBody, SaveConfig, SaveFails, Provision, LinkLoad,
         LinkStatus, Teardown, ScholarDeletes, TornDown, DropConfig, DropFails
  <2>3. QED
    BY <2>1, <2>2
<1>2. CASE Agent(q)
  <2>1. lock' = lock /\ held' = held
    BY <1>2 DEF Agent, ManageToken, SetStatus, Authenticate, TouchLastUsed, FindClient, Enrol,
       DeleteDevice, OfTokens, connection
  <2>2. Kind[q] # "token"
    BY <1>2 DEF Agent, ManageToken, SetStatus, Authenticate, TouchLastUsed, FindClient, Enrol,
       DeleteDevice, TypeInv, KindInv
  <2>3. QED
    BY <2>1, <2>2
<1>3. CASE GetGraphToken(q)
  <2>1. /\ held' = [held EXCEPT ![q] = graph]
        /\ pc[q] = Idle /\ pc'[q] \in {"ok", "queue", "recheck"}
        /\ pc'[q] # "ok" => graph # Nothing
        /\ IF pc'[q] = "recheck"
             THEN lock[at[q]] = NoLock /\ lock' = [lock EXCEPT ![at[q]] = q]
             ELSE lock' = lock
        /\ Kind[q] = "token"
    BY <1>0, <1>3 DEF GetGraphToken
  <2>2. QED
    BY <1>0, <2>1
<1>4. CASE TakeLock(q) \/ Cancelled(q)
  BY <1>0, <1>4 DEF TakeLock, Cancelled, connection
<1>5. CASE RereadRow(q)
  <2>1. /\ held' = [held EXCEPT ![q] = Recheck(q)]
        /\ pc[q] = "recheck" /\ pc'[q] \in {"ok", "refresh"}
        /\ IF pc'[q] = "ok" THEN lock' = [lock EXCEPT ![at[q]] = NoLock]
                            ELSE lock' = lock /\ ~ Recheck(q).fresh
        /\ Kind[q] = "token"
    BY <1>0, <1>5 DEF RereadRow, Fresh, Unlock
  <2>2. Recheck(q) # Nothing
    BY <1>0, <2>1 DEF Recheck
  <2>3. QED
    BY <1>0, <2>1, <2>2
<1>6. CASE Refreshed(q)
  <2>1. Kind[q] = "token" /\ pc[q] = "refresh"
    BY <1>6 DEF Refreshed
  <2>2. CASE Resumes(q, "refresh", "upsert") /\ Renews(q) /\ UNCHANGED lock
    <3>1. held'[q] # Nothing /\ \A r \in Requests : r # q => held'[r] = held[r]
      BY <1>0, <2>1, <2>2, Renewal
    <3>2. QED
      BY <1>0, <2>1, <2>2, <3>1
  <2>3. CASE Resumes(q, "refresh", "failed") /\ Unlock(q) /\ UNCHANGED held
    BY <1>0, <2>1, <2>3 DEF Unlock
  <2>4. QED
    BY <1>6, <2>2, <2>3 DEF Refreshed
<1>7. CASE Connect(q)
  BY <1>0, <1>7 DEF Connect
<1>8. CASE UpsertRow(q)
  BY <1>0, <1>8 DEF UpsertRow, Unlock
<1>9. CASE UpsertFails(q)
  BY <1>0, <1>9 DEF UpsertFails, Unlock
<1>10. CASE Disconnect(q)
  BY <1>0, <1>10 DEF Disconnect
<1>11. QED
  BY <1>1, <1>2, <1>3, <1>4, <1>5, <1>6, <1>7, <1>8, <1>9, <1>10 DEF Works, Graph

\* A step of a handler keeps the lock with who renews the token.
LEMMA LockStep ==
    ASSUME TypeInv, NEW q \in Requests, Works(q)
    PROVE  /\ LockInv'
           /\ \A p \in Procs : lock'[p] # NoLock =>
                 at'[lock'[p]] = p /\ pc'[lock'[p]] \in Renewing
<1>0. /\ at \in [Requests -> Procs] /\ at' = at /\ NoLock \notin Requests
      /\ pc \in [Requests -> {Idle} \cup Stage \cup Outcome]
      /\ lock \in [Procs -> Requests \cup {NoLock}]
      /\ LockInv
      /\ \A p \in Procs : lock[p] # NoLock =>
            at[lock[p]] = p /\ pc[lock[p]] \in Renewing
      /\ \A r \in Requests : r # q => pc'[r] = pc[r]
  BY CredentialsAssumption, LoopMoves DEF TypeInv, TypeOK, Renewing
<1>1. \A r \in Requests : Kind[r] = "token" /\ pc'[r] \in Renewing => lock'[at'[r]] = r
  <2> SUFFICES ASSUME NEW r \in Requests, Kind[r] = "token", pc'[r] \in Renewing
               PROVE  lock'[at[r]] = r
    BY <1>0
  <2>1. CASE r = q
    <3>1. pc[q] \in Renewing \/ lock'[at[q]] = q
      BY <2>1, LockMoves
    <3>2. pc[q] \in Renewing => lock[at[q]] = q
      BY <1>0, <2>1 DEF LockInv
    <3>3. QED
      BY <1>0, <2>1, <3>1, <3>2, LockMoves
  <2>2. CASE r # q
    <3>1. lock[at[r]] = r
      BY <1>0, <2>2 DEF LockInv
    <3>2. CASE lock[at[q]] = NoLock /\ lock' = [lock EXCEPT ![at[q]] = q]
      BY <1>0, <3>1, <3>2
    <3>3. CASE Kind[q] = "token" /\ pc[q] \in Renewing /\ lock' = [lock EXCEPT ![at[q]] = NoLock]
      <4>1. lock[at[q]] = q
        BY <1>0, <3>3 DEF LockInv
      <4>2. QED
        BY <1>0, <2>2, <3>1, <3>3, <4>1
    <3>4. QED
      BY <3>1, <3>2, <3>3, LockMoves
  <2>3. QED
    BY <2>1, <2>2
<1>2. \A p \in Procs : lock'[p] # NoLock =>
         /\ Kind[lock'[p]] = "token"
         /\ at'[lock'[p]] = p /\ pc'[lock'[p]] \in Renewing
  <2> SUFFICES ASSUME NEW p \in Procs, lock'[p] # NoLock
               PROVE  /\ Kind[lock'[p]] = "token"
                      /\ at[lock'[p]] = p /\ pc'[lock'[p]] \in Renewing
    BY <1>0
  <2>1. CASE lock' = lock
    <3>1. /\ lock[p] \in Requests /\ Kind[lock[p]] = "token"
          /\ at[lock[p]] = p /\ pc[lock[p]] \in Renewing
      BY <1>0, <2>1 DEF LockInv
    <3>2. CASE lock[p] # q
      BY <1>0, <2>1, <3>1, <3>2
    <3>3. CASE lock[p] = q
      <4>1. pc'[q] \in Renewing
        BY <1>0, <2>1, <3>1, <3>3, LockMoves
      <4>2. QED
        BY <2>1, <3>1, <3>3, <4>1
    <3>4. QED
      BY <3>2, <3>3
  <2>2. CASE Kind[q] = "token" /\ pc'[q] = "recheck" /\ lock' = [lock EXCEPT ![at[q]] = q]
    <3>1. CASE p = at[q]
      BY <1>0, <2>2, <3>1 DEF Renewing
    <3>2. CASE p # at[q]
      <4>1. /\ lock'[p] = lock[p] /\ lock[p] \in Requests /\ Kind[lock[p]] = "token"
            /\ at[lock[p]] = p /\ pc[lock[p]] \in Renewing
        BY <1>0, <2>2, <3>2 DEF LockInv
      <4>2. QED
        BY <1>0, <3>2, <4>1
    <3>3. QED
      BY <3>1, <3>2
  <2>3. CASE lock' = [lock EXCEPT ![at[q]] = NoLock]
    <3>1. p # at[q]
      BY <1>0, <2>3
    <3>2. /\ lock'[p] = lock[p] /\ lock[p] \in Requests /\ Kind[lock[p]] = "token"
          /\ at[lock[p]] = p /\ pc[lock[p]] \in Renewing
      BY <1>0, <2>3, <3>1 DEF LockInv
    <3>3. QED
      BY <1>0, <3>1, <3>2
  <2>4. QED
    BY <2>1, <2>2, <2>3, LockMoves
<1>3. \A r \in Requests : Kind[r] = "token" /\ pc'[r] \in Renewing \cup {"queue"} =>
         held'[r] # Nothing
  BY <1>0, LockMoves DEF LockInv
<1>4. \A r \in Requests : Kind[r] = "token" /\ pc'[r] = "refresh" => ~ held'[r].fresh
  BY <1>0, LockMoves DEF LockInv
<1>5. QED
  BY <1>1, <1>2, <1>3, <1>4 DEF LockInv

\* A request's settings are read at its own steps.
LEMMA CarryMoves ==
    ASSUME TypeInv, NEW q \in Requests, Works(q)
    PROVE  \A r \in Requests : r # q => carry'[r] = carry[r]
<1>0. carry \in [Requests -> Known \cup {Nothing}]
  BY DEF TypeInv, TypeOK
<1> USE DEF settings
<1>1. CASE Config(q)
  <2>1. CASE ProxyLoad(q) \/ FetchTools(q)
    BY <1>0, <2>1 DEF ProxyLoad, FetchTools, LoadConfig, Loads
  <2>2. CASE ProxySend(q) \/ Reached(q) \/ ToolsCached(q) \/ ToolsFetched(q) \/ EditToolbox(q)
    BY <2>2 DEF ProxySend, Reached, ToolsCached, ToolsFetched, EditToolbox
  <2>3. CASE ReceiveBody(q) \/ SaveConfig(q) \/ SaveFails(q) \/ Forget(q) \/ LinkStatus(q)
    BY <2>3 DEF ReceiveBody, SaveConfig, SaveFails, Forget, LinkStatus
  <2>4. CASE Provision(q) \/ LinkLoad(q)
    BY <1>0, <2>4 DEF Provision, LinkLoad, ReadsRow
  <2>5. CASE Teardown(q) \/ ScholarDeletes(q) \/ TornDown(q) \/ DropConfig(q) \/ DropFails(q)
    BY <2>5 DEF Teardown, ScholarDeletes, TornDown, DropConfig, DropFails
  <2>6. QED
    BY <1>1, <2>1, <2>2, <2>3, <2>4, <2>5 DEF Config
<1>2. CASE Graph(q)
  BY <1>2 DEF Graph, GetGraphToken, TakeLock, Cancelled, RereadRow, Refreshed, Connect, UpsertRow,
     WritesRow, UpsertFails, Disconnect, OfGraph
<1>3. CASE Agent(q)
  BY <1>3 DEF Agent, ManageToken, SetStatus, Authenticate, TouchLastUsed, FindClient, Enrol,
     DeleteDevice, OfTokens
<1>4. QED
  BY <1>1, <1>2, <1>3 DEF Works

\* A step of a handler keeps requests to the calls of their kind.
LEMMA KindStep ==
    ASSUME TypeInv, NEW q \in Requests, Works(q)
    PROVE  KindInv'
<1>0. /\ pc \in [Requests -> {Idle} \cup Stage \cup Outcome]
      /\ carry \in [Requests -> Known \cup {Nothing}]
      /\ Nothing \notin Known /\ Stored \in Known
      /\ KindInv
      /\ \A r \in Requests : r # q => pc'[r] = pc[r] /\ carry'[r] = carry[r]
      /\ pc'[q] # Idle
  BY CredentialsAssumption, LoopMoves, CarryMoves DEF TypeInv, TypeOK, Known, Stored
<1> USE DEF GraphKinds, Outcome, Idle, Starts, Awaits, Resumes, Runs, Moves
<1>1. /\ pc'[q] = "forget" => Kind[q] \in ConfigKinds
      /\ Kind[q] \in GraphKinds \cup {"teardown", "save"} => carry'[q] = Nothing
      /\ pc'[q] \in {"touch", "client", "enrol"} => Kind[q] = "use"
      /\ pc'[q] \in {"listing", "status"} => carry'[q] # Nothing
      /\ Kind[q] = "rest" /\ pc'[q] = "body" => carry'[q] # Nothing
      /\ Kind[q] \in {"call", "rest", "provision", "link"} /\ pc'[q] = "wire" =>
            carry'[q] # Nothing
  <2>1. CASE Config(q)
    <3>1. CASE ProxyLoad(q) \/ FetchTools(q)
      BY <1>0, <3>1, LoadType DEF ProxyLoad, FetchTools
    <3>2. CASE ProxySend(q)
      <4>1. pc'[q] = "wire" /\ carry'[q] = carry[q] /\ pc[q] = "body" /\ Kind[q] = "rest"
        BY <1>0, <3>2 DEF ProxySend, settings
      <4>2. QED
        BY <1>0, <4>1 DEF KindInv
    <3>3. CASE Reached(q) \/ ToolsCached(q) \/ ToolsFetched(q) \/ EditToolbox(q)
      BY <1>0, <3>3 DEF Reached, ToolsCached, ToolsFetched, EditToolbox,
             settings, KindInv
    <3>4. CASE ReceiveBody(q) \/ SaveConfig(q) \/ SaveFails(q) \/ Forget(q)
      BY <1>0, <3>4 DEF ReceiveBody, SaveConfig, SaveFails, Forget, ConfigKinds,
             settings, KindInv
    <3>5. CASE Provision(q) \/ LinkLoad(q)
      BY <1>0, <3>5 DEF Provision, LinkLoad, ReadsRow
    <3>6. CASE LinkStatus(q)
      <4>1. carry'[q] = carry[q] /\ pc[q] = "status" /\ Kind[q] = "link"
            /\ pc'[q] \in {"wire", "ok", "failed"}
        BY <1>0, <3>6 DEF LinkStatus, settings
      <4>2. QED
        BY <1>0, <4>1 DEF KindInv
    <3>7. CASE Teardown(q) \/ ScholarDeletes(q) \/ TornDown(q) \/ DropConfig(q) \/ DropFails(q)
      BY <1>0, <3>7 DEF Teardown, ScholarDeletes, TornDown, DropConfig, DropFails, ConfigKinds,
             settings, KindInv
    <3>8. QED
      BY <2>1, <3>1, <3>2, <3>3, <3>4, <3>5, <3>6, <3>7 DEF Config
  <2>2. CASE Graph(q)
    <3>1. CASE GetGraphToken(q) \/ TakeLock(q) \/ Cancelled(q) \/ RereadRow(q) \/ Refreshed(q)
      BY <1>0, <3>1 DEF GetGraphToken, TakeLock, Cancelled, RereadRow, Refreshed,
             OfGraph, settings, KindInv
    <3>2. CASE Connect(q) \/ UpsertRow(q) \/ UpsertFails(q) \/ Disconnect(q)
      BY <1>0, <3>2 DEF Connect, UpsertRow, WritesRow, UpsertFails, Disconnect,
             OfGraph, settings, KindInv
    <3>3. QED
      BY <2>2, <3>1, <3>2 DEF Graph
  <2>3. CASE Agent(q)
    <3>1. CASE ManageToken(q) \/ Authenticate(q) \/ DeleteDevice(q)
      BY <1>0, <3>1 DEF ManageToken, SetStatus, Authenticate, DeleteDevice,
             OfTokens, settings, KindInv
    <3>2. CASE TouchLastUsed(q) \/ FindClient(q) \/ Enrol(q)
      BY <1>0, <3>2 DEF TouchLastUsed, FindClient, Enrol,
             OfTokens, settings, KindInv
    <3>3. QED
      BY <2>3, <3>1, <3>2 DEF Agent
  <2>4. QED
    BY <2>1, <2>2, <2>3 DEF Works
<1>2. QED
  BY <1>0, <1>1 DEF KindInv

\* Every step keeps the types, the loop and the lock.
LEMMA NextType == TypeInv /\ [Next]_vars => TypeInv'
<1> SUFFICES ASSUME TypeInv, [Next]_vars PROVE TypeInv'
  OBVIOUS
<1>0. /\ MaxFaults \in Nat /\ TypeOK /\ HoldsLoop /\ LockInv /\ KindInv
      /\ NoRequest \notin Requests /\ NoLock \notin Requests
      /\ \A row \in Rows : row # Nothing
  BY CredentialsAssumption DEF TypeInv
<1> USE DEF settings, connection, agents
<1>1. ASSUME NEW r \in Requests, Works(r) PROVE TypeInv'
  <2>1. DataOK'
    BY <1>1, ConfigType, GraphType, AgentType DEF Works
  <2>2. TypeOK'
    BY <1>1, <2>1, MoveType, LockStep
       DEF TypeOK, DataOK, SettingsOK, ConnectionOK, AgentsOK, Renewing
  <2>3. QED
    BY <1>1, <2>2, LoopStep, LockStep, KindStep DEF TypeInv
<1>2. ASSUME NEW p \in Procs, ExpireCache(p) PROVE TypeInv'
  BY <1>0, <1>2 DEF ExpireCache, OfConfig, TypeInv, TypeOK, HoldsLoop, LockInv, KindInv
<1>3. CASE ExpireAccess
  <2>1. graph \in Rows
    BY <1>0, <1>3 DEF ExpireAccess, TypeOK
  <2>2. [graph EXCEPT !.fresh = FALSE] \in Rows
    <3>1. graph \in [{"account", "serial", "fresh"} -> Accounts \cup Nat \cup BOOLEAN]
      BY <2>1 DEF Rows
    <3>2. QED
      BY <2>1, <3>1 DEF Rows
  <2>3. QED
    BY <1>0, <1>3, <2>2 DEF ExpireAccess, OfGraph, TypeInv, TypeOK, HoldsLoop, LockInv, KindInv
<1>4. ASSUME NEW p \in Procs, Crash(p) PROVE TypeInv'
  <2>0. issued' \in Nat /\ spent' \subseteq Nat /\ stranded' \in BOOLEAN
    <3>1. CASE \E q \in Requests : CutOff(p, q, "refresh") /\ AnswerLost(q)
      BY <1>0, <3>1, RotatesType DEF CutOff, AnswerLost, TypeInv, TypeOK
    <3>2. CASE UNCHANGED <<issued, spent>> /\ stranded' \in BOOLEAN
      BY <1>0, <3>2 DEF TypeOK
    <3>3. QED
      BY <1>0, <1>4, <3>1, <3>2 DEF Crash, CutsRefresh, TypeOK
  <2>1. /\ UNCHANGED <<at, held, carry, config, tenant, torn, graph, status, agentClients>>
        /\ \A r \in Requests : /\ pc'[r] \in Stage \cup {Idle} => pc'[r] = pc[r]
                               /\ at[r] = p => pc'[r] \notin Stage
                               /\ at[r] # p => pc'[r] = pc[r]
        /\ \A s \in Procs : s # p => loop'[s] = loop[s] /\ lock'[s] = lock[s]
        /\ lock'[p] = NoLock
    BY <1>0, <1>4 DEF Crash, TypeOK, Stage, Outcome, Idle
  <2>2. \A s \in Procs : lock'[s] # NoLock =>
          /\ lock'[s] = lock[s] /\ lock[s] \in Requests
          /\ at'[lock'[s]] = s /\ pc'[lock'[s]] \in Renewing
    <3> SUFFICES ASSUME NEW s \in Procs, lock'[s] # NoLock
                 PROVE  /\ lock'[s] = lock[s] /\ lock[s] \in Requests
                        /\ at'[lock'[s]] = s /\ pc'[lock'[s]] \in Renewing
      OBVIOUS
    <3>1. s # p /\ lock'[s] = lock[s]
      BY <2>1
    <3>2. lock[s] \in Requests /\ at[lock[s]] = s /\ pc[lock[s]] \in Renewing
      BY <1>0, <3>1 DEF TypeOK, Renewing
    <3>3. QED
      BY <2>1, <3>1, <3>2
  <2>3. /\ at' \in [Requests -> Procs]
        /\ pc' \in [Requests -> {Idle} \cup Stage \cup Outcome]
        /\ loop' \in [Procs -> Requests \cup {NoRequest}]
        /\ lock' \in [Procs -> Requests \cup {NoLock}]
        /\ configCache' \in [Procs -> Known \cup {Nothing}]
        /\ toolCache' \in [Procs -> Known \cup {Nothing}]
        /\ behind' \subseteq Procs \X {"config", "tools"} /\ lagging' \subseteq Requests
        /\ faults' \in 0 .. MaxFaults
    BY <1>0, <1>4 DEF Crash, TypeOK, Outcome
  <2>4. TypeOK'
    BY <1>0, <2>0, <2>1, <2>2, <2>3 DEF TypeOK, Renewing
  <2>5. HoldsLoop'
    BY <1>0, <2>1 DEF HoldsLoop, Kept, Stage, TypeOK
  <2>6. LockInv'
    BY <1>0, <2>1, <2>2 DEF LockInv, Renewing, Stage, TypeOK
  <2>7. KindInv'
    BY <1>0, <2>1 DEF KindInv, Stage
  <2>8. QED
    BY <2>4, <2>5, <2>6, <2>7 DEF TypeInv
<1>5. CASE UNCHANGED vars
  BY <1>0, <1>5 DEF vars, TypeInv, TypeOK, HoldsLoop, LockInv, KindInv
<1>6. QED
  BY <1>1, <1>2, <1>3, <1>4, <1>5 DEF Next, Works

\* Nobody has read anything at first, and no lock is taken.
LEMMA InitType == Init => TypeInv
<1> SUFFICES ASSUME Init PROVE TypeInv
  OBVIOUS
<1>1. \A a \in Accounts : [account |-> a, serial |-> 0, fresh |-> FALSE] \in Rows
  BY DEF Rows
<1>2. MaxFaults \in Nat
  BY CredentialsAssumption
<1>3. TypeOK
  <2>1. /\ tenant \in BOOLEAN /\ torn \in BOOLEAN
        /\ issued \in Nat /\ spent \subseteq Nat /\ stranded \in BOOLEAN
    BY DEF Init, Start
  <2>2. /\ at \in [Requests -> Procs]
        /\ pc \in [Requests -> {Idle} \cup Stage \cup Outcome]
        /\ loop \in [Procs -> Requests \cup {NoRequest}]
    BY DEF Init, EventLoopInit
  <2>3. graph \in Rows \cup {Nothing}
    BY <1>1 DEF Init, Start
  <2>4. QED
    BY <1>2, <2>1, <2>2, <2>3 DEF Init, Start, TypeOK, Status
<1>4. HoldsLoop /\ LockInv /\ KindInv
  BY DEF Init, Start, EventLoopInit, HoldsLoop, LockInv, KindInv, Kept, Renewing, Idle
<1>5. QED
  BY <1>3, <1>4 DEF TypeInv

\* Every reachable state of the credentials is well typed, and a lock is held by a
\* request of its process that renews the Microsoft token.
THEOREM TypeCorrect == Spec => []TypeOK
<1>1. TypeInv => TypeOK
  BY DEF TypeInv
<1>2. QED
  BY <1>1, InitType, NextType, PTL DEF Spec

-----------------------------------------------------------------------------
(* The settings. *)

\* Settings that a request carries are the saved ones, or it lags.
CarryInv == \A r \in Requests : r \in Carrying /\ r \notin lagging => carry[r] = Stored

\* After a teardown there are no settings.
TornInv == torn => config = Nothing

\* A process has no settings and no tools but the saved ones.
Follows(p) ==
    /\ configCache[p] \in {Nothing, Stored} \/ <<p, "config">> \in behind
    /\ toolCache[p] \in {Nothing, Stored} \/ <<p, "tools">> \in behind

\* Only the coroutine that is about to drop the entries is between two calls otherwise.
FollowInv ==
    \A p \in Procs :
        \/ Follows(p)
        \/ \E r \in Requests : at[r] = p /\ pc[r] = "forget"

ConfigInv == CarryInv /\ TornInv /\ FollowInv

\* A coroutine that is not about to drop the entries finds the saved ones in them.
LEMMA FollowsHere ==
    ASSUME TypeInv, ConfigInv, NEW q \in Requests, Works(q), pc[q] # "forget"
    PROVE  Follows(at[q])
<1>0. /\ at[q] \in Procs /\ NoRequest \notin Requests /\ HoldsLoop
      /\ loop[at[q]] \in {NoRequest, q}
  BY CredentialsAssumption, LoopMoves DEF TypeInv, TypeOK
<1>1. ASSUME NEW r \in Requests, at[r] = at[q], pc[r] = "forget" PROVE FALSE
  BY <1>0, <1>1 DEF HoldsLoop, Kept
<1>2. QED
  BY <1>0, <1>1 DEF ConfigInv, FollowInv

\* What a handler's step does to the settings.
Effect(q) ==
    /\ q \in Carrying' /\ q \notin lagging' => carry'[q] = Stored'
    /\ \A r \in Requests : r # q /\ r \in lagging => r \in lagging'
    /\ \A r \in Requests : r # q /\ r \in Carrying /\ r \notin lagging' =>
          Stored' = Stored \/ carry[r] = Stored'
    /\ TornInv'
    /\ \A p \in Procs : p # at[q] /\ Follows(p) => Follows(p)'
    /\ \A p \in Procs : p = at[q] => Follows(p)' \/ pc'[q] = "forget"

\* Loading settings.
LEMMA LoadEffect ==
    ASSUME TypeInv, ConfigInv, NEW q \in Requests, LoadConfig(q),
           Follows(at[q]), UNCHANGED <<config, toolCache, torn>>
    PROVE  Effect(q)
<1>0. /\ config \in Keys \cup {Nothing} /\ configCache \in [Procs -> Known \cup {Nothing}]
      /\ carry \in [Requests -> Known \cup {Nothing}]
      /\ at \in [Requests -> Procs] /\ Stored' = Stored /\ TornInv'
  BY DEF TypeInv, TypeOK, Stored, ConfigInv, TornInv
<1>1. PICK c \in Known, late \in BOOLEAN :
         /\ Loads(q, c, late)
         /\ ~ late => c = Stored
  <2> DEFINE l == configCache[at[q]] # Nothing /\ <<at[q], "config">> \in behind
  <2>1. CASE Loads(q, Configured(at[q]), l)
    <3>1. ~ l => Configured(at[q]) = Stored
      BY DEF Configured, Follows
    <3>2. l \in BOOLEAN /\ Configured(at[q]) \in Known
      BY <1>0 DEF Configured, Stored, Known
    <3>3. QED
      BY <2>1, <3>1, <3>2
  <2>2. CASE Loads(q, "empty", TRUE)
    BY <2>2 DEF Known
  <2>3. QED
    BY <2>1, <2>2 DEF LoadConfig
<1>2. q \notin lagging' => carry'[q] = Stored'
  BY <1>0, <1>1 DEF Loads
<1>3. ASSUME NEW p \in Procs, Follows(p) PROVE Follows(p)'
  <2>1. <<p, "tools">> \in behind => <<p, "tools">> \in behind'
    BY <1>1 DEF Loads
  <2>2. CASE p = at[q]
    BY <1>0, <1>1, <2>1, <1>3, <2>2 DEF Loads, Follows
  <2>3. CASE p # at[q]
    BY <1>0, <1>1, <2>1, <1>3, <2>3 DEF Loads, Follows
  <2>4. QED
    BY <2>2, <2>3
<1>4. QED
  BY <1>0, <1>1, <1>2, <1>3 DEF Effect, Loads

\* The handlers of settings.
LEMMA ConfigEffect ==
    ASSUME TypeInv, ConfigInv, NEW q \in Requests, Works(q), Config(q)
    PROVE  Effect(q)
<1> USE DEF settings, Outcome, Idle, Starts, Awaits, Resumes, Runs, Moves
<1>0. /\ config \in Keys \cup {Nothing} /\ configCache \in [Procs -> Known \cup {Nothing}]
      /\ toolCache \in [Procs -> Known \cup {Nothing}]
      /\ carry \in [Requests -> Known \cup {Nothing}]
      /\ at \in [Requests -> Procs] /\ pc \in [Requests -> {Idle} \cup Stage \cup Outcome]
      /\ Kind[q] = "save" => Gives[q] \in Keys
      /\ Nothing \notin Known /\ Nothing \notin Keys
      /\ (q \in Carrying /\ q \notin lagging => carry[q] = Stored)
      /\ TornInv
  BY CredentialsAssumption DEF TypeInv, TypeOK, ConfigInv, CarryInv, Known
<1>1. pc[q] # "forget" => Follows(at[q])
  BY FollowsHere
<1>2. CASE ProxyLoad(q) \/ FetchTools(q)
  BY <1>1, <1>2, LoadEffect DEF ProxyLoad, FetchTools
<1>3. ASSUME UNCHANGED <<config, configCache, toolCache, torn, carry, behind>>,
             pc[q] # "forget",
             q \in Carrying' => q \in Carrying,
             \A r \in Requests : (r \in lagging <=> r \in lagging') \/ (r = q /\ q \notin Carrying')
      PROVE  Effect(q)
  BY <1>0, <1>1, <1>3 DEF Effect, Follows, Stored, TornInv
<1>4. CASE ProxySend(q) \/ Reached(q) \/ ToolsCached(q) \/ ReceiveBody(q)
  <2>1. UNCHANGED <<config, configCache, toolCache, torn, carry, behind>> /\ pc[q] # "forget"
    BY <1>4 DEF ProxySend, Reached, ToolsCached, ReceiveBody
  <2>2. q \in Carrying' => q \in Carrying
    BY <1>0, <1>4 DEF ProxySend, Reached, ToolsCached, ReceiveBody, Carrying, TypeInv, KindInv
  <2>3. \A r \in Requests : (r \in lagging <=> r \in lagging') \/ (r = q /\ q \notin Carrying')
    BY <1>0, <1>4 DEF ProxySend, Reached, ToolsCached, ReceiveBody, Carrying
  <2>4. QED
    BY <1>3, <2>1, <2>2, <2>3
<1>5. CASE LinkStatus(q) \/ Teardown(q) \/ ScholarDeletes(q) \/ TornDown(q)
  <2>1. UNCHANGED <<config, configCache, toolCache, torn, carry, behind>> /\ pc[q] # "forget"
    BY <1>5 DEF LinkStatus, Teardown, ScholarDeletes, TornDown
  <2>2. q \in Carrying' => q \in Carrying
    BY <1>0, <1>5 DEF LinkStatus, Teardown, ScholarDeletes, TornDown, Carrying, TypeInv, KindInv
  <2>3. \A r \in Requests : (r \in lagging <=> r \in lagging') \/ (r = q /\ q \notin Carrying')
    BY <1>0, <1>5 DEF LinkStatus, Teardown, ScholarDeletes, TornDown, Carrying
  <2>4. QED
    BY <1>3, <2>1, <2>2, <2>3
<1>6. CASE ToolsFetched(q)
  <2>1. /\ UNCHANGED <<config, configCache, torn, carry>> /\ pc[q] = "listing"
        /\ q \notin Carrying' /\ lagging' = lagging \ {q}
        /\ q \in Carrying
    BY <1>0, <1>6 DEF ToolsFetched, Carrying, TypeInv, KindInv
  <2>2. Follows(at[q]) /\ (q \notin lagging => carry[q] = Stored)
    BY <1>0, <1>1, <2>1
  <2>3. CASE /\ toolCache' = [toolCache EXCEPT ![at[q]] = carry[q]]
             /\ behind' = IF q \in lagging THEN behind \cup {<<at[q], "tools">>}
                                           ELSE behind \ {<<at[q], "tools">>}
    <3>1. ASSUME NEW p \in Procs, Follows(p) PROVE Follows(p)'
      BY <1>0, <2>1, <2>2, <2>3, <3>1 DEF Follows, Stored
    <3>2. QED
      BY <1>0, <2>1, <2>2, <3>1 DEF Effect, Stored, TornInv
  <2>4. CASE UNCHANGED <<toolCache, behind>>
    BY <1>0, <2>1, <2>2, <2>4 DEF Effect, Follows, Stored, TornInv
  <2>5. QED
    BY <1>6, <2>3, <2>4 DEF ToolsFetched
<1>7. CASE EditToolbox(q)
  <2>1. /\ UNCHANGED <<config, configCache, torn, carry, lagging>> /\ pc[q] # "forget"
        /\ q \notin Carrying'
        /\ toolCache' = [toolCache EXCEPT ![at[q]] = Nothing]
        /\ behind' = behind \ {<<at[q], "tools">>}
    BY <1>0, <1>7 DEF EditToolbox, Carrying
  <2>2. ASSUME NEW p \in Procs, Follows(p) PROVE Follows(p)'
    BY <1>0, <2>1, <2>2 DEF Follows, Stored
  <2>3. QED
    BY <1>0, <1>1, <2>1, <2>2 DEF Effect, Stored, TornInv
<1>8. CASE SaveConfig(q) \/ DropConfig(q)
  <2>1. /\ q \notin Carrying' /\ pc'[q] = "forget"
        /\ behind' = behind \cup ((Procs \ {at[q]}) \X {"config", "tools"})
        /\ lagging' = lagging \cup {r \in Carrying : carry[r] # config'}
        /\ torn' => config' = Nothing
        /\ config' \in Keys \cup {Nothing}
    BY <1>0, <1>8 DEF SaveConfig, DropConfig, Replaces, Carrying
  <2>2. \A r \in Carrying : carry[r] # Nothing
    BY DEF Carrying
  <2>3. \A p \in Procs : p # at[q] => Follows(p)'
    BY <2>1 DEF Follows
  <2>4. \A r \in Requests : r \in Carrying /\ r \notin lagging' => carry[r] = Stored'
    BY <2>1, <2>2 DEF Stored
  <2>5. QED
    BY <2>1, <2>3, <2>4 DEF Effect, TornInv
<1>9. CASE SaveFails(q) \/ DropFails(q)
  <2>1. /\ q \notin Carrying' /\ pc[q] # "forget"
        /\ UNCHANGED <<configCache, toolCache>>
        /\ torn' => config' = Nothing
        /\ \/ UNCHANGED <<config, lagging, behind>>
           \/ /\ behind' = Procs \X {"config", "tools"}
              /\ lagging \subseteq lagging' /\ config' \in Keys \cup {Nothing}
              /\ \A r \in Carrying : r \in lagging' \/ carry[r] = config'
    BY <1>0, <1>9 DEF SaveFails, DropFails, Carrying, TornInv
  <2>2. CASE UNCHANGED <<config, lagging, behind>>
    BY <1>0, <1>1, <2>1, <2>2 DEF Effect, Follows, Stored, TornInv
  <2>3. CASE /\ behind' = Procs \X {"config", "tools"}
             /\ lagging \subseteq lagging' /\ config' \in Keys \cup {Nothing}
             /\ \A r \in Carrying : r \in lagging' \/ carry[r] = config'
    <3>1. \A p \in Procs : Follows(p)'
      BY <2>3 DEF Follows
    <3>2. \A r \in Carrying : r \in lagging' \/ carry[r] = Stored'
      BY <1>0, <2>3 DEF Stored, Carrying
    <3>3. QED
      BY <2>1, <2>3, <3>1, <3>2 DEF Effect, TornInv
  <2>4. QED
    BY <2>1, <2>2, <2>3
<1>10. CASE Forget(q)
  <2>1. /\ UNCHANGED <<config, torn, carry, lagging>> /\ q \notin Carrying'
        /\ configCache' = [configCache EXCEPT ![at[q]] = Nothing]
        /\ toolCache' = [toolCache EXCEPT ![at[q]] = Nothing]
        /\ behind' = behind \ ({at[q]} \X {"config", "tools"})
    BY <1>0, <1>10 DEF Forget, InvalidateUserConfig, Carrying
  <2>2. \A p \in Procs : p = at[q] => Follows(p)'
    BY <1>0, <2>1 DEF Follows
  <2>3. ASSUME NEW p \in Procs, p # at[q], Follows(p) PROVE Follows(p)'
    BY <1>0, <2>1, <2>3 DEF Follows, Stored
  <2>4. QED
    BY <1>0, <2>1, <2>2, <2>3 DEF Effect, Stored, TornInv
<1>11. CASE Provision(q) \/ LinkLoad(q)
  <2>1. /\ pc[q] # "forget" /\ carry'[q] = Stored
        /\ lagging' = lagging \ {q}
        /\ UNCHANGED <<config, configCache, toolCache, torn, behind>>
    BY <1>0, <1>11 DEF Provision, LinkLoad, ReadsRow
  <2>2. QED
    BY <1>0, <1>1, <2>1 DEF Effect, Follows, Stored, TornInv
<1>12. QED
  BY <1>2, <1>4, <1>5, <1>6, <1>7, <1>8, <1>9, <1>10, <1>11 DEF Config

\* The others leave the settings alone.
LEMMA OtherEffect ==
    ASSUME TypeInv, ConfigInv, NEW q \in Requests, Works(q), Graph(q) \/ Agent(q)
    PROVE  /\ UNCHANGED settings
           /\ Effect(q)
<1> USE DEF settings, Outcome, Idle, Starts, Awaits, Resumes, Runs, Moves
<1>0. /\ pc \in [Requests -> {Idle} \cup Stage \cup Outcome]
      /\ (q \in Carrying /\ q \notin lagging => carry[q] = Stored)
      /\ TornInv
  BY DEF TypeInv, TypeOK, ConfigInv, CarryInv
<1>1. /\ UNCHANGED settings /\ pc[q] # "forget"
      /\ \A r \in Requests : r # q /\ r \in lagging => r \in lagging'
  <2>1. CASE Graph(q)
    BY <2>1 DEF Graph, GetGraphToken, TakeLock, Cancelled, RereadRow, Refreshed, Connect, UpsertRow,
       WritesRow, UpsertFails, Disconnect, OfGraph
  <2>2. CASE Agent(q)
    BY <2>2 DEF Agent, ManageToken, SetStatus, Authenticate, TouchLastUsed, FindClient, Enrol,
       DeleteDevice, OfTokens, Idle
  <2>3. QED
    BY <2>1, <2>2
<1>2. q \notin Carrying'
  <2>1. CASE Graph(q)
    <3>1. Kind[q] \in GraphKinds
      BY <2>1 DEF Graph, GetGraphToken, TakeLock, Cancelled, RereadRow, Refreshed, Connect, UpsertRow,
         WritesRow, UpsertFails, Disconnect, GraphKinds
    <3>2. QED
      BY <1>1, <3>1 DEF TypeInv, KindInv, Carrying
  <2>2. CASE Agent(q)
    BY <1>0, <2>2 DEF Agent, ManageToken, SetStatus, Authenticate, TouchLastUsed, FindClient,
       Enrol, DeleteDevice, Carrying
  <2>3. QED
    BY <2>1, <2>2
<1>3. Follows(at[q])
  BY <1>1, FollowsHere
<1>4. QED
  BY <1>0, <1>1, <1>2, <1>3 DEF Effect, Follows, Stored, TornInv

\* A step of a handler keeps the settings followed.
LEMMA ConfigStep ==
    ASSUME TypeInv, ConfigInv, NEW q \in Requests, Works(q)
    PROVE  ConfigInv'
<1>0. /\ Effect(q) /\ at' = at
      /\ \A r \in Requests : r # q => pc'[r] = pc[r] /\ carry'[r] = carry[r]
  <2>1. pc \in [Requests -> {Idle} \cup Stage \cup Outcome]
    BY DEF TypeInv, TypeOK
  <2>2. QED
    BY <2>1, ConfigEffect, OtherEffect, LoopMoves, CarryMoves DEF Works
<1>1. CarryInv'
  <2> SUFFICES ASSUME NEW r \in Requests, r \in Carrying', r \notin lagging'
               PROVE  carry'[r] = Stored'
    BY DEF CarryInv
  <2>1. CASE r = q
    BY <1>0, <2>1 DEF Effect
  <2>2. CASE r # q
    <3>1. r \in Carrying /\ r \notin lagging
      BY <1>0, <2>2 DEF Effect, Carrying
    <3>2. carry[r] = Stored
      BY <3>1 DEF ConfigInv, CarryInv
    <3>3. QED
      BY <1>0, <2>2, <3>1, <3>2 DEF Effect
  <2>3. QED
    BY <2>1, <2>2
<1>2. FollowInv'
  <2> SUFFICES ASSUME NEW p \in Procs
               PROVE  Follows(p)' \/ \E r \in Requests : at'[r] = p /\ pc'[r] = "forget"
    BY DEF FollowInv
  <2>1. CASE p = at[q]
    BY <1>0, <2>1 DEF Effect
  <2>2. CASE p # at[q] /\ Follows(p)
    BY <1>0, <2>2 DEF Effect
  <2>3. CASE p # at[q] /\ ~ Follows(p)
    <3>1. PICK r \in Requests : at[r] = p /\ pc[r] = "forget"
      BY <2>3 DEF ConfigInv, FollowInv
    <3>2. QED
      BY <1>0, <2>3, <3>1
  <2>4. QED
    BY <2>1, <2>2, <2>3
<1>3. QED
  BY <1>0, <1>1, <1>2 DEF ConfigInv, Effect

\* So do time, crashes and stuttering.
LEMMA ConfigNext == TypeInv /\ ConfigInv /\ [Next]_vars => ConfigInv'
<1> SUFFICES ASSUME TypeInv, ConfigInv, [Next]_vars PROVE ConfigInv'
  OBVIOUS
<1> USE DEF settings
<1>0. /\ configCache \in [Procs -> Known \cup {Nothing}]
      /\ toolCache \in [Procs -> Known \cup {Nothing}]
      /\ pc \in [Requests -> {Idle} \cup Stage \cup Outcome]
      /\ CarryInv /\ TornInv /\ FollowInv
  BY DEF TypeInv, TypeOK, ConfigInv
<1>1. ASSUME NEW p \in Procs, ExpireCache(p) PROVE ConfigInv'
  <2>1. UNCHANGED <<config, torn, carry, lagging, at, pc>>
    BY <1>1 DEF ExpireCache
  <2>2. ASSUME NEW s \in Procs, Follows(s) PROVE Follows(s)'
    <3>1. CASE /\ configCache' = [configCache EXCEPT ![p] = Nothing]
               /\ behind' = behind \ {<<p, "config">>}
               /\ UNCHANGED toolCache
      BY <1>0, <2>1, <2>2, <3>1 DEF Follows, Stored
    <3>2. CASE /\ toolCache' = [toolCache EXCEPT ![p] = Nothing]
               /\ behind' = behind \ {<<p, "tools">>}
               /\ UNCHANGED configCache
      BY <1>0, <2>1, <2>2, <3>2 DEF Follows, Stored
    <3>3. QED
      BY <1>1, <3>1, <3>2 DEF ExpireCache
  <2>3. CarryInv' /\ TornInv'
    BY <1>0, <2>1 DEF CarryInv, TornInv, Carrying, Stored
  <2>4. QED
    BY <1>0, <2>1, <2>2, <2>3 DEF ConfigInv, FollowInv
<1>2. CASE ExpireAccess \/ UNCHANGED vars
  BY <1>0, <1>2 DEF ExpireAccess, OfGraph, vars, ConfigInv, CarryInv, TornInv, FollowInv,
                   Follows, Carrying, Stored
<1>3. ASSUME NEW p \in Procs, Crash(p) PROVE ConfigInv'
  <2>0. /\ UNCHANGED <<config, carry, at, torn>>
        /\ pc' = [r \in Requests |-> IF at[r] = p /\ pc[r] \in Stage THEN "crashed" ELSE pc[r]]
        /\ lagging' = {r \in lagging : at[r] # p}
        /\ behind' = behind \ ({p} \X {"config", "tools"})
        /\ configCache' = [configCache EXCEPT ![p] = Nothing]
        /\ toolCache' = [toolCache EXCEPT ![p] = Nothing]
    BY <1>3 DEF Crash
  <2>1. /\ UNCHANGED <<config, carry, at, torn>>
        /\ \A r \in Requests : at[r] # p => pc'[r] = pc[r]
        /\ \A r \in Requests : pc'[r] \in Stage => at[r] # p
        /\ lagging' = {r \in lagging : at[r] # p}
        /\ configCache'[p] = Nothing /\ toolCache'[p] = Nothing
        /\ \A s \in Procs : s # p =>
              /\ configCache'[s] = configCache[s] /\ toolCache'[s] = toolCache[s]
              /\ \A t : <<s, t>> \in behind => <<s, t>> \in behind'
    BY <1>0, <2>0 DEF Stage
  <2>2. CarryInv'
    BY <1>0, <2>1 DEF CarryInv, Carrying, Stored, Stage
  <2>3. ASSUME NEW s \in Procs
        PROVE  Follows(s)' \/ \E r \in Requests : at'[r] = s /\ pc'[r] = "forget"
    <3>1. CASE s = p
      BY <1>0, <2>1, <3>1 DEF Follows
    <3>2. CASE s # p /\ Follows(s)
      BY <1>0, <2>1, <3>2 DEF Follows, Stored
    <3>3. CASE s # p /\ ~ Follows(s)
      BY <1>0, <2>1, <3>3 DEF FollowInv
    <3>4. QED
      BY <3>1, <3>2, <3>3
  <2>4. QED
    BY <1>0, <2>1, <2>2, <2>3 DEF ConfigInv, FollowInv, TornInv
<1>4. QED
  BY <1>1, <1>2, <1>3, ConfigStep DEF Next, Works

\* Nothing is cached and nobody is under way at first.
LEMMA ConfigInit == Init => ConfigInv
  BY DEF Init, Start, EventLoopInit, ConfigInv, CarryInv, TornInv, FollowInv, Follows, Carrying

\* Between two coroutines a process has no settings, and no tools, but the saved ones,
\* unless they were cached too late.
THEOREM SettingsAreFollowed == Spec => []SettingsFollow
<1>1. Init => TypeInv /\ ConfigInv
  BY InitType, ConfigInit
<1>2. (TypeInv /\ ConfigInv) /\ [Next]_vars => (TypeInv /\ ConfigInv)'
  BY NextType, ConfigNext
<1>3. TypeInv /\ ConfigInv => SettingsFollow
  <2> SUFFICES ASSUME TypeInv, ConfigInv, NEW p \in Procs, loop[p] = NoRequest
               PROVE  Follows(p)
    BY DEF SettingsFollow, Follows
  <2>1. NoRequest \notin Requests /\ HoldsLoop
    BY CredentialsAssumption DEF TypeInv
  <2>2. QED
    BY <2>1 DEF ConfigInv, FollowInv, HoldsLoop, Kept
<1>4. QED
  BY <1>1, <1>2, <1>3, PTL DEF Spec

\* Who sets a tenant up again after a teardown carries older settings.
LEMMA TenantMoves ==
    ASSUME TypeInv, ConfigInv, [Next]_vars, torn, tenant', ~ tenant
    PROVE  \E r \in lagging : pc[r] # pc'[r]
<1>0. /\ pc \in [Requests -> {Idle} \cup Stage \cup Outcome]
      /\ tenant' # tenant /\ config = Nothing
      /\ "empty" \notin Keys /\ Nothing \notin Keys
  BY CredentialsAssumption DEF TypeInv, TypeOK, ConfigInv, TornInv
<1> USE DEF settings
<1>1. PICK q \in Requests : Works(q)
  BY <1>0 DEF Next, Works, ExpireCache, ExpireAccess, OfGraph, Crash, vars
<1>2. Config(q)
  BY <1>0, <1>1, OtherEffect DEF Works
<1>3. Reached(q) \/ ToolsFetched(q)
  BY <1>0, <1>2 DEF Config, ProxyLoad, ProxySend, ToolsCached, FetchTools, EditToolbox,
     ReceiveBody, SaveConfig, SaveFails, Forget, Provision, LinkLoad, ReadsRow, LinkStatus,
     Teardown, ScholarDeletes, TornDown, DropConfig, DropFails
<1>4. /\ carry[q] \in Keys /\ pc[q] \in {"wire", "listing"} /\ pc'[q] # pc[q]
  BY <1>0, <1>3 DEF Reached, ToolsFetched, Resumes, Runs, Moves
<1>5. q \in Carrying /\ carry[q] # Stored
  BY <1>0, <1>4 DEF Carrying, Stored
<1>6. q \in lagging
  BY <1>5 DEF ConfigInv, CarryInv
<1>7. QED
  BY <1>4, <1>6

\* After a teardown the tenant stays down until settings are saved again, but for a
\* request that was under way or was served from an older cache.
THEOREM TeardownHolds == Spec => TornDownStaysDown
<1>1. Init => TypeInv /\ ConfigInv
  BY InitType, ConfigInit
<1>2. (TypeInv /\ ConfigInv) /\ [Next]_vars => (TypeInv /\ ConfigInv)'
  BY NextType, ConfigNext
<1>3. (TypeInv /\ ConfigInv) /\ [Next]_vars =>
        [torn /\ tenant' => tenant \/ \E r \in lagging : pc[r] # pc'[r]]_vars
  BY TenantMoves
<1>4. QED
  BY <1>1, <1>2, <1>3, PTL DEF Spec, TornDownStaysDown

-----------------------------------------------------------------------------
(* The Microsoft connection. *)

\* A refresh is of the account that is connected.
AccountInv ==
    \A r \in Requests : Kind[r] = "token" /\ pc[r] \in {"refresh", "upsert"} /\ r \notin lagging
        => AccountOf(held[r]) = AccountOf(graph)

\* A refresh sends the row that is saved.
HeldInv ==
    \A r \in Requests : Kind[r] = "token" /\ pc[r] = "refresh" /\ r \notin lagging
        => held[r] = graph

\* What a refresh has read is what is saved, and of the account that is connected.
GraphInv == HeldInv /\ AccountInv

\* What a handler's step does to the connection.
GraphEffect(q) ==
    /\ graph' # graph => \A r \in Requests :
          r # q /\ Kind[r] = "token" /\ pc[r] \in {"refresh", "upsert"} => r \in lagging'
    /\ Kind[q] = "token" /\ pc'[q] = "refresh" /\ q \notin lagging' => held'[q] = graph'
    /\ Kind[q] = "token" /\ pc'[q] = "upsert" /\ q \notin lagging' =>
          AccountOf(held'[q]) = AccountOf(graph')
    /\ AccountOf(graph') # AccountOf(graph) =>
          Kind[q] \in {"connect", "disconnect"} \/ q \in lagging

\* An upsert replaces the rows that other refreshes have read.
LEMMA UpsertOvertakes ==
    ASSUME TypeInv, NEW q \in Requests, pc[q] = "upsert", Kind[q] \in {"connect", "token"},
           NEW r \in Requests, r # q, Kind[r] = "token", pc[r] \in {"refresh", "upsert"}
    PROVE  r \in Overtaken(q)
<1>1. CASE Kind[q] = "connect" \/ at[r] # at[q]
  BY <1>1 DEF Overtaken, Refreshing
<1>2. CASE Kind[q] = "token" /\ at[r] = at[q]
  BY <1>2 DEF TypeInv, LockInv, Renewing
<1>3. QED
  BY <1>1, <1>2

\* The handlers of the connection.
LEMMA GraphHandlers ==
    ASSUME TypeInv, GraphInv, NEW q \in Requests, Graph(q), pc[q] \notin Outcome
    PROVE  GraphEffect(q)
<1> USE DEF GraphEffect, Outcome, Idle, Starts, Awaits, Resumes, Runs, Moves
<1>0. /\ held \in [Requests -> Rows \cup {Nothing}] /\ graph \in Rows \cup {Nothing}
      /\ issued \in Nat
      /\ pc \in [Requests -> {Idle} \cup Stage \cup Outcome]
      /\ \A row \in Rows : row # Nothing
  BY CredentialsAssumption DEF TypeInv, TypeOK
<1>1. CASE GetGraphToken(q) \/ TakeLock(q) \/ Cancelled(q) \/ Connect(q)
  <2>1. graph' = graph /\ (Kind[q] = "token" => pc'[q] \notin {"refresh", "upsert"})
    BY <1>0, <1>1 DEF GetGraphToken, TakeLock, Cancelled, Connect, connection
  <2>2. QED
    BY <2>1
<1>2. CASE RereadRow(q)
  BY <1>0, <1>2 DEF RereadRow, Recheck
<1>3. CASE Refreshed(q)
  <2>1. Kind[q] = "token" /\ pc[q] = "refresh" /\ graph' = graph /\ lagging' = lagging
    BY <1>3 DEF Refreshed
  <2>2. CASE Resumes(q, "refresh", "upsert") /\ Renews(q)
    <3>1. held[q] \in Rows /\ held'[q] \in Rows /\ held'[q].account = held[q].account
      BY <2>1, <2>2, Renewal
    <3>2. AccountOf(held'[q]) = AccountOf(held[q])
      BY <1>0, <3>1 DEF AccountOf
    <3>3. QED
      BY <1>0, <2>1, <2>2, <3>2 DEF GraphInv, AccountInv
  <2>3. CASE Resumes(q, "refresh", "failed")
    BY <1>0, <2>1, <2>3
  <2>4. QED
    BY <1>3, <2>2, <2>3 DEF Refreshed
<1>4. CASE UpsertRow(q) \/ UpsertFails(q)
  <2>1. /\ pc[q] = "upsert" /\ Kind[q] \in {"connect", "token"}
        /\ pc'[q] \in {"ok", "failed"}
        /\ \/ graph' = graph
           \/ graph' = held[q] /\ lagging' = (lagging \cup Overtaken(q)) \ {q}
    BY <1>0, <1>4 DEF UpsertRow, WritesRow, UpsertFails
  <2>2. CASE graph' = graph
    BY <2>1, <2>2
  <2>3. CASE graph' = held[q] /\ lagging' = (lagging \cup Overtaken(q)) \ {q}
    <3>1. \A r \in Requests :
             r # q /\ Kind[r] = "token" /\ pc[r] \in {"refresh", "upsert"} => r \in lagging'
      BY <2>1, <2>3, UpsertOvertakes
    <3>2. Kind[q] = "token" /\ q \notin lagging => AccountOf(graph') = AccountOf(graph)
      BY <2>1, <2>3 DEF GraphInv, AccountInv
    <3>3. QED
      BY <2>1, <3>1, <3>2
  <2>4. QED
    BY <2>1, <2>2, <2>3
<1>5. CASE Disconnect(q)
  BY <1>0, <1>5 DEF Disconnect, Refreshing
<1>6. QED
  BY <1>1, <1>2, <1>3, <1>4, <1>5 DEF Graph

\* The others leave the connection alone.
LEMMA GraphMovesOnly ==
    ASSUME TypeInv, GraphInv, NEW q \in Requests, Works(q)
    PROVE  GraphEffect(q)
<1>1. CASE Config(q)
  <2>1. graph' = graph
    BY <1>1 DEF Config, ProxyLoad, ProxySend, Reached, ToolsCached, FetchTools, ToolsFetched,
       EditToolbox, ReceiveBody, SaveConfig, SaveFails, Forget, Provision, LinkLoad,
       LinkStatus, Teardown, ScholarDeletes, TornDown, DropConfig, DropFails, OfConfig, connection
  <2>2. Kind[q] # "token"
    <3>1. Forget(q) => Kind[q] # "token"
      BY DEF Forget, Runs, Moves, TypeInv, KindInv, ConfigKinds
    <3>2. QED
      BY <1>1, <3>1 DEF Config, ProxyLoad, ProxySend, Reached, ToolsCached, FetchTools,
         ToolsFetched, EditToolbox, ReceiveBody, SaveConfig, SaveFails, Provision, LinkLoad,
         LinkStatus, Teardown, ScholarDeletes, TornDown, DropConfig, DropFails
  <2>3. QED
    BY <2>1, <2>2 DEF GraphEffect
<1>2. CASE Agent(q)
  <2>1. graph' = graph
    BY <1>2 DEF Agent, ManageToken, SetStatus, Authenticate, TouchLastUsed, FindClient, Enrol,
       DeleteDevice, OfTokens, connection
  <2>2. Kind[q] # "token"
    BY <1>2 DEF Agent, ManageToken, SetStatus, Authenticate, TouchLastUsed, FindClient, Enrol,
       DeleteDevice, Runs, Moves, TypeInv, KindInv
  <2>3. QED
    BY <2>1, <2>2 DEF GraphEffect
<1>3. QED
  BY <1>1, <1>2, GraphHandlers DEF Works

\* Every step keeps refreshes up to date; the settings' part says who still lags.
LEMMA GraphNext == TypeInv /\ ConfigInv /\ GraphInv /\ [Next]_vars => GraphInv'
<1> SUFFICES ASSUME TypeInv, ConfigInv, GraphInv, [Next]_vars,
                    NEW r \in Requests, Kind[r] = "token", pc'[r] \in {"refresh", "upsert"},
                    r \notin lagging'
             PROVE  /\ pc'[r] = "refresh" => held'[r] = graph'
                    /\ AccountOf(held'[r]) = AccountOf(graph')
  BY DEF GraphInv, HeldInv, AccountInv, AccountOf
<1>0. /\ pc \in [Requests -> {Idle} \cup Stage \cup Outcome]
      /\ held \in [Requests -> Rows \cup {Nothing}]
      /\ graph \in Rows \cup {Nothing}
      /\ \A row \in Rows : row # Nothing
      /\ pc[r] \in {"refresh", "upsert"} /\ r \notin lagging =>
            /\ pc[r] = "refresh" => held[r] = graph
            /\ AccountOf(held[r]) = AccountOf(graph)
  BY CredentialsAssumption DEF TypeInv, TypeOK, GraphInv, HeldInv, AccountInv
<1>1. ASSUME NEW q \in Requests, Works(q)
      PROVE  /\ pc'[r] = "refresh" => held'[r] = graph'
             /\ AccountOf(held'[r]) = AccountOf(graph')
  <2>1. CASE r = q
    BY <1>1, <2>1, GraphMovesOnly DEF GraphEffect, AccountOf
  <2>2. CASE r # q
    <3>1. pc[r] = pc'[r] /\ held'[r] = held[r] /\ r \notin lagging
      BY <1>0, <1>1, <2>2, LoopMoves, LockMoves, ConfigEffect, OtherEffect DEF Works, Effect
    <3>2. graph' = graph
      BY <1>1, <2>2, <3>1, GraphMovesOnly DEF GraphEffect
    <3>3. QED
      BY <1>0, <3>1, <3>2 DEF AccountOf
  <2>3. QED
    BY <2>1, <2>2
<1>2. CASE ExpireAccess
  <2>1. /\ graph \in Rows /\ graph.fresh /\ graph' = [graph EXCEPT !.fresh = FALSE]
        /\ UNCHANGED <<pc, held, lagging>>
    BY <1>0, <1>2 DEF ExpireAccess
  <2>2. pc[r] # "refresh"
    BY <1>0, <2>1 DEF TypeInv, LockInv
  <2>3. graph' \in Rows /\ graph'.account = graph.account
    <3>1. graph \in [{"account", "serial", "fresh"} -> Accounts \cup Nat \cup BOOLEAN]
      BY <2>1 DEF Rows
    <3>2. QED
      BY <2>1, <3>1 DEF Rows
  <2>4. AccountOf(graph') = AccountOf(graph)
    BY <1>0, <2>1, <2>3 DEF AccountOf
  <2>5. QED
    BY <1>0, <2>1, <2>2, <2>4 DEF AccountOf
<1>3. CASE \E p \in Procs : ExpireCache(p)
  BY <1>0, <1>3 DEF ExpireCache, OfConfig, connection, AccountOf
<1>4. ASSUME NEW p \in Procs, Crash(p)
      PROVE  /\ pc'[r] = "refresh" => held'[r] = graph'
             /\ AccountOf(held'[r]) = AccountOf(graph')
  <2>1. /\ UNCHANGED <<graph, held>> /\ pc'[r] = pc[r] /\ at[r] # p
        /\ lagging' = {s \in lagging : at[s] # p}
    BY <1>0, <1>4 DEF Crash, Stage
  <2>2. QED
    BY <1>0, <2>1 DEF AccountOf
<1>5. CASE UNCHANGED vars
  BY <1>0, <1>5 DEF vars, connection, AccountOf
<1>6. QED
  BY <1>1, <1>2, <1>3, <1>4, <1>5 DEF Next, Works

\* Nobody refreshes at first.
LEMMA GraphInit == Init => GraphInv
  BY DEF Init, EventLoopInit, GraphInv, HeldInv, AccountInv, Idle

\* No refresh token is newer than the last that Microsoft has issued.
SerialInv ==
    /\ graph # Nothing => graph.serial <= issued
    /\ \A r \in Requests : held[r] # Nothing => held[r].serial <= issued
    /\ \A n \in spent : n <= issued

\* A refresh token that is good and that only r has.
Sole(r) ==
    /\ held[r] # Nothing /\ held[r].serial \notin spent
    /\ graph # Nothing => graph.serial # held[r].serial
    /\ \A q \in Requests : q # r /\ held[q] # Nothing => held[q].serial # held[r].serial

\* Whoever is about to write has a refresh token of its own, or the one that is saved;
\* one that is saved and has been replaced is about to be written over, or stranded.
TurnInv ==
    /\ \A r \in Requests : Kind[r] = "connect" /\ pc[r] \in {"me", "upsert"} => Sole(r)
    /\ \A r \in Requests : Kind[r] = "token" /\ pc[r] = "upsert" /\ r \notin lagging =>
          Sole(r) \/ (graph # Nothing /\ graph.serial = held[r].serial)
    /\ Replaced(graph, spent) =>
          \/ stranded
          \/ \E r \in Requests : Kind[r] = "token" /\ pc[r] = "upsert" /\ Sole(r)

\* What a step of q's may do to refresh tokens: q reads the row, gets a new token or
\* keeps its own, writes the row or deletes it, and has its token replaced.
TokenMove(q) ==
    /\ \A r \in Requests : r # q => held'[r] = held[r]
    /\ issued' \in {issued, issued + 1}
    /\ graph' \in {graph, held[q], Nothing}
    /\ spent' = spent \/ (held[q] # Nothing /\ spent' = spent \cup {held[q].serial})
    /\ \/ held'[q] \in {held[q], graph}
       \/ held[q] # Nothing /\ held'[q] # Nothing /\ held'[q].serial = held[q].serial
       \/ held'[q] # Nothing /\ issued' = issued + 1 /\ held'[q].serial = issued + 1

\* Such a step leaves the others what is theirs alone.
LEMMA SoleStays ==
    ASSUME TypeInv, SerialInv, NEW q \in Requests, TokenMove(q)
    PROVE  /\ SerialInv'
           /\ \A r \in Requests : r # q /\ Sole(r) => Sole(r)'
           /\ held'[q] # Nothing /\ issued' = issued + 1 /\ held'[q].serial = issued + 1
                 /\ graph' \in {graph, Nothing} => Sole(q)'
<1>0. /\ held \in [Requests -> Rows \cup {Nothing}] /\ graph \in Rows \cup {Nothing}
      /\ issued \in Nat /\ spent \subseteq Nat
      /\ \A row \in Rows : row.serial \in Nat
  BY DEF TypeInv, TypeOK, Rows
<1>1. /\ \A r \in Requests : held[r] # Nothing => held[r].serial \in Nat
      /\ graph # Nothing => graph.serial \in Nat
  BY <1>0
<1>2. /\ issued' \in Nat /\ issued <= issued'
      /\ graph' # Nothing => graph'.serial <= issued
      /\ \A n \in spent' : n <= issued
  <2>1. issued' \in Nat /\ issued <= issued'
    BY <1>0 DEF TokenMove
  <2>2. graph' # Nothing => graph'.serial <= issued
    BY DEF TokenMove, SerialInv
  <2>3. \A n \in spent' : n <= issued
    BY DEF TokenMove, SerialInv
  <2>4. QED
    BY <2>1, <2>2, <2>3
<1>3. SerialInv'
  <2>1. graph' # Nothing => graph'.serial \in Nat
    BY <1>1 DEF TokenMove
  <2>2. spent' \subseteq Nat
    BY <1>0, <1>1 DEF TokenMove
  <2>3. \A n \in spent' : n <= issued'
    BY <1>0, <1>2, <2>2
  <2>4. graph' # Nothing => graph'.serial <= issued'
    BY <1>0, <1>2, <2>1
  <2>5. ASSUME NEW r \in Requests, held'[r] # Nothing PROVE held'[r].serial <= issued'
    <3>1. CASE r # q
      BY <1>0, <1>1, <1>2, <2>5, <3>1 DEF TokenMove, SerialInv
    <3>2. CASE r = q
      BY <1>0, <1>1, <1>2, <2>5, <3>2 DEF TokenMove, SerialInv
    <3>3. QED
      BY <3>1, <3>2
  <2>6. QED
    BY <2>3, <2>4, <2>5 DEF SerialInv
<1>4. ASSUME NEW r \in Requests, r # q, Sole(r) PROVE Sole(r)'
  <2>1. /\ held'[r] = held[r] /\ held[r] # Nothing /\ held[r].serial # issued + 1
        /\ held[q] # Nothing => held[q].serial # held[r].serial
    BY <1>0, <1>1, <1>4 DEF TokenMove, Sole, SerialInv
  <2>2. held'[r].serial \notin spent'
    BY <1>4, <2>1 DEF TokenMove, Sole
  <2>3. graph' # Nothing => graph'.serial # held'[r].serial
    BY <1>4, <2>1 DEF TokenMove, Sole
  <2>4. \A s \in Requests : s # r /\ held'[s] # Nothing => held'[s].serial # held'[r].serial
    BY <1>4, <2>1 DEF TokenMove, Sole
  <2>5. QED
    BY <2>1, <2>2, <2>3, <2>4 DEF Sole
<1>5. ASSUME held'[q] # Nothing, issued' = issued + 1, held'[q].serial = issued + 1,
             graph' \in {graph, Nothing}
      PROVE  Sole(q)'
  <2>1. \A n \in spent' : n # issued + 1
    BY <1>0, <1>1, <1>2 DEF TokenMove
  <2>2. graph' # Nothing => graph'.serial # issued + 1
    BY <1>0, <1>1, <1>2, <1>5
  <2>3. \A s \in Requests : s # q /\ held'[s] # Nothing => held'[s].serial # issued + 1
    BY <1>0, <1>1 DEF TokenMove, SerialInv
  <2>4. QED
    BY <1>5, <2>1, <2>2, <2>3 DEF Sole
<1>6. QED
  BY <1>3, <1>4, <1>5

\* A step that leaves the saved token and those that have been replaced.
LeavesTokens(q) ==
    /\ UNCHANGED <<graph, spent, stranded>>
    /\ ~ (Kind[q] = "token" /\ pc[q] = "upsert")

\* What a handler's step does to the turns of those that write.
TurnEffect(q) ==
    /\ TokenMove(q)
    /\ Kind[q] = "connect" /\ pc'[q] \in {"me", "upsert"} => Sole(q)'
    /\ Kind[q] = "token" /\ pc'[q] = "upsert" =>
          \/ Sole(q)'
          \/ q \notin lagging' => graph' # Nothing /\ graph'.serial = held'[q].serial
    /\ \/ LeavesTokens(q)
       \/ Kind[q] = "token" /\ pc'[q] = "upsert" /\ Sole(q)'
       \/ stranded' \/ ~ Replaced(graph', spent')
       \/ /\ pc[q] = "upsert" /\ Kind[q] \in {"connect", "token"}
          /\ WritesRow(q) /\ spent' = spent

\* A refresh that is answered.
LEMMA TurnRenews ==
    ASSUME TypeInv, GraphInv, SerialInv, NEW q \in Requests, Kind[q] = "token",
           pc[q] = "refresh", pc'[q] = "upsert", Renews(q), UNCHANGED <<graph, stranded, lagging>>
    PROVE  TurnEffect(q)
<1>1. /\ \A r \in Requests : r # q => held'[r] = held[r]
      /\ held[q] # Nothing /\ held'[q] # Nothing
      /\ \/ /\ issued' = issued + 1 /\ spent' = spent \cup {held[q].serial}
            /\ held'[q].serial = issued + 1
         \/ UNCHANGED <<issued, spent>> /\ held'[q].serial = held[q].serial
  <2>1. \A row \in Rows : row # Nothing
    BY CredentialsAssumption
  <2>2. QED
    BY <2>1, Renewal DEF Rotates
<1>2. TokenMove(q)
  BY <1>1 DEF TokenMove
<1>3. CASE issued' = issued + 1 /\ held'[q].serial = issued + 1
  <2>1. Sole(q)'
    BY <1>1, <1>2, <1>3, SoleStays
  <2>2. QED
    BY <1>2, <2>1 DEF TurnEffect
<1>4. CASE UNCHANGED <<issued, spent>> /\ held'[q].serial = held[q].serial
  <2>1. LeavesTokens(q)
    BY <1>4 DEF LeavesTokens
  <2>2. q \notin lagging' => graph' # Nothing /\ graph'.serial = held'[q].serial
    BY <1>1, <1>4 DEF GraphInv, HeldInv
  <2>3. QED
    BY <1>2, <2>1, <2>2 DEF TurnEffect
<1>5. QED
  BY <1>1, <1>3, <1>4

\* The handlers of the connection.
LEMMA TurnHandlers ==
    ASSUME TypeInv, GraphInv, SerialInv, TurnInv, NEW q \in Requests, Works(q), Graph(q)
    PROVE  TurnEffect(q)
<1> USE DEF Outcome, Idle, Starts, Awaits, Resumes, Runs, Moves
<1>0. /\ held \in [Requests -> Rows \cup {Nothing}] /\ graph \in Rows \cup {Nothing}
      /\ pc \in [Requests -> {Idle} \cup Stage \cup Outcome] /\ stranded \in BOOLEAN
      /\ \A row \in Rows : row # Nothing
  BY CredentialsAssumption DEF TypeInv, TypeOK
<1>1. CASE GetGraphToken(q) \/ TakeLock(q) \/ Cancelled(q) \/ RereadRow(q)
  <2>1. /\ Kind[q] = "token" /\ pc[q] # "upsert" /\ pc'[q] # "upsert"
        /\ UNCHANGED <<graph, issued, spent, stranded>>
        /\ held' = [held EXCEPT ![q] = graph] \/ UNCHANGED held
    BY <1>0, <1>1 DEF GetGraphToken, TakeLock, Cancelled, RereadRow, Recheck, connection
  <2>2. TokenMove(q)
    BY <1>0, <2>1 DEF TokenMove
  <2>3. QED
    BY <2>1, <2>2 DEF TurnEffect, LeavesTokens
<1>2. CASE Refreshed(q)
  <2>1. Kind[q] = "token" /\ pc[q] = "refresh" /\ UNCHANGED <<graph, lagging>>
    BY <1>2 DEF Refreshed
  <2>2. CASE Resumes(q, "refresh", "upsert") /\ Renews(q) /\ UNCHANGED stranded
    BY <1>0, <2>1, <2>2, TurnRenews
  <2>3. CASE /\ Resumes(q, "refresh", "failed") /\ UNCHANGED held
             /\ AnswerLost(q) \/ UNCHANGED <<issued, spent, stranded>>
    <3>1. pc'[q] = "failed" /\ held[q] # Nothing
      BY <1>0, <2>1, <2>3 DEF TypeInv, LockInv, Renewing
    <3>2. TokenMove(q)
      BY <2>1, <2>3, <3>1 DEF TokenMove, AnswerLost, Rotates
    <3>3. LeavesTokens(q) \/ stranded' \/ ~ Replaced(graph', spent')
      BY <2>1, <2>3 DEF LeavesTokens, AnswerLost
    <3>4. QED
      BY <2>1, <3>1, <3>2, <3>3 DEF TurnEffect
  <2>4. QED
    BY <1>2, <2>2, <2>3 DEF Refreshed
<1>3. CASE Connect(q)
  <2>1. Kind[q] = "connect" /\ UNCHANGED <<graph, spent, stranded>>
    BY <1>3 DEF Connect
  <2>2. CASE pc'[q] = "me" /\ issued' = issued + 1
             /\ held' = [held EXCEPT ![q] =
                    [account |-> Gives[q], serial |-> issued + 1, fresh |-> TRUE]]
    <3>1. Gives[q] \in Accounts /\ issued + 1 \in Nat
      BY <2>1, CredentialsAssumption DEF TypeInv, TypeOK
    <3>2. /\ \A r \in Requests : r # q => held'[r] = held[r]
          /\ held'[q] = [account |-> Gives[q], serial |-> issued + 1, fresh |-> TRUE]
      BY <1>0, <2>2
    <3>3. held'[q] # Nothing /\ held'[q].serial = issued + 1
      <4>1. held'[q] \in Rows
        BY <3>1, <3>2 DEF Rows
      <4>2. held'[q] # Nothing
        BY <4>1, CredentialsAssumption
      <4>3. held'[q].serial = issued + 1
        BY <3>2
      <4>4. QED
        BY <4>2, <4>3
    <3>4. TokenMove(q)
      BY <2>1, <2>2, <3>2, <3>3 DEF TokenMove
    <3>5. Sole(q)'
      BY <2>1, <2>2, <3>3, <3>4, SoleStays
    <3>6. QED
      BY <2>1, <3>4, <3>5 DEF TurnEffect, LeavesTokens
  <2>3. CASE /\ UNCHANGED <<issued, held>>
             /\ pc'[q] \in {"wire", "failed"} \/ (pc[q] = "me" /\ pc'[q] = "upsert")
    <3>1. TokenMove(q)
      BY <2>1, <2>3 DEF TokenMove
    <3>2. pc[q] = "me" => Sole(q)'
      BY <2>1, <2>3 DEF TurnInv, Sole
    <3>3. QED
      BY <2>1, <2>3, <3>1, <3>2 DEF TurnEffect, LeavesTokens
  <2>4. QED
    BY <1>0, <1>3, <2>2, <2>3 DEF Connect
<1>4. CASE UpsertRow(q) \/ UpsertFails(q)
  <2>1. /\ pc[q] = "upsert" /\ Kind[q] \in {"connect", "token"}
        /\ pc'[q] \in {"ok", "failed"} /\ UNCHANGED <<issued, spent, held>>
    BY <1>0, <1>4 DEF UpsertRow, UpsertFails
  <2>2. CASE WritesRow(q)
    <3>1. TokenMove(q)
      BY <2>1, <2>2 DEF TokenMove, WritesRow
    <3>2. QED
      BY <2>1, <2>2, <3>1 DEF TurnEffect
  <2>3. CASE /\ UNCHANGED graph
             /\ stranded' = (stranded \/ (Kind[q] = "token" /\ Replaced(graph, spent)))
    <3>1. TokenMove(q)
      BY <2>1, <2>3 DEF TokenMove
    <3>2. LeavesTokens(q) \/ stranded' \/ ~ Replaced(graph', spent')
      BY <1>0, <2>1, <2>3 DEF LeavesTokens
    <3>3. QED
      BY <2>1, <3>1, <3>2 DEF TurnEffect
  <2>4. QED
    BY <1>4, <2>2, <2>3 DEF UpsertRow, UpsertFails
<1>5. CASE Disconnect(q)
  <2>1. /\ graph' = Nothing /\ UNCHANGED <<issued, spent, held>>
        /\ pc'[q] = "ok"
    BY <1>0, <1>5 DEF Disconnect
  <2>2. TokenMove(q) /\ ~ Replaced(graph', spent')
    BY <2>1 DEF TokenMove, Replaced
  <2>3. QED
    BY <2>1, <2>2 DEF TurnEffect
<1>6. QED
  BY <1>1, <1>2, <1>3, <1>4, <1>5 DEF Graph

\* The others leave the connection alone.
LEMMA TurnMovesOnly ==
    ASSUME TypeInv, GraphInv, SerialInv, TurnInv, NEW q \in Requests, Works(q)
    PROVE  TurnEffect(q)
<1>1. CASE Graph(q)
  BY <1>1, TurnHandlers
<1>2. CASE Config(q) \/ Agent(q)
  <2>1. UNCHANGED connection
    BY <1>2 DEF Config, ProxyLoad, ProxySend, Reached, ToolsCached, FetchTools, ToolsFetched,
       EditToolbox, ReceiveBody, SaveConfig, SaveFails, Forget, Provision, LinkLoad,
       LinkStatus, Teardown, ScholarDeletes, TornDown, DropConfig, DropFails, OfConfig,
       Agent, ManageToken, SetStatus, Authenticate, TouchLastUsed, FindClient, Enrol,
       DeleteDevice, OfTokens
  <2>2. Kind[q] \notin GraphKinds
    <3>1. Forget(q) => Kind[q] \notin GraphKinds
      BY DEF Forget, Runs, Moves, TypeInv, KindInv, ConfigKinds, GraphKinds
    <3>2. TouchLastUsed(q) \/ FindClient(q) \/ Enrol(q) => Kind[q] \notin GraphKinds
      BY DEF TouchLastUsed, FindClient, Enrol, Runs, Moves, TypeInv, KindInv, GraphKinds
    <3>3. QED
      BY <1>2, <3>1, <3>2 DEF Config, ProxyLoad, ProxySend, Reached, ToolsCached, FetchTools,
         ToolsFetched, EditToolbox, ReceiveBody, SaveConfig, SaveFails, Provision, LinkLoad,
         LinkStatus, Teardown, ScholarDeletes, TornDown, DropConfig, DropFails,
         Agent, ManageToken, SetStatus, Authenticate, DeleteDevice, GraphKinds
  <2>3. TokenMove(q) /\ LeavesTokens(q)
    BY <2>1, <2>2 DEF TokenMove, LeavesTokens, connection, GraphKinds
  <2>4. QED
    BY <2>2, <2>3 DEF TurnEffect, GraphKinds
<1>3. QED
  BY <1>1, <1>2 DEF Works

\* A step of a handler keeps the turns.
LEMMA TurnStep ==
    ASSUME TypeInv, ConfigInv, GraphInv, SerialInv, TurnInv, NEW q \in Requests, Works(q)
    PROVE  SerialInv' /\ TurnInv'
<1>0. /\ TurnEffect(q) /\ TokenMove(q) /\ GraphEffect(q)
      /\ \A r \in Requests : r # q /\ Sole(r) => Sole(r)'
      /\ \A r \in Requests : r # q =>
            pc'[r] = pc[r] /\ held'[r] = held[r] /\ (r \in lagging => r \in lagging')
      /\ pc \in [Requests -> {Idle} \cup Stage \cup Outcome]
  BY TurnMovesOnly, GraphMovesOnly, SoleStays, LoopMoves, LockMoves, ConfigEffect, OtherEffect
     DEF TurnEffect, TypeInv, TypeOK, Works, Effect
<1>1. SerialInv'
  BY <1>0, SoleStays
<1>2. ASSUME NEW r \in Requests, Kind[r] = "connect", pc'[r] \in {"me", "upsert"}
      PROVE  Sole(r)'
  BY <1>0, <1>2 DEF TurnEffect, TurnInv
<1>3. ASSUME NEW r \in Requests, Kind[r] = "token", pc'[r] = "upsert", r \notin lagging'
      PROVE  Sole(r)' \/ (graph' # Nothing /\ graph'.serial = held'[r].serial)
  <2>1. CASE r = q
    BY <1>0, <1>3, <2>1 DEF TurnEffect
  <2>2. CASE r # q
    <3>1. pc[r] = "upsert" /\ r \notin lagging /\ held'[r] = held[r] /\ graph' = graph
      BY <1>0, <1>3, <2>2 DEF GraphEffect
    <3>2. QED
      BY <1>0, <1>3, <2>2, <3>1 DEF TurnInv
  <2>3. QED
    BY <2>1, <2>2
<1>4. ASSUME Replaced(graph', spent'), ~ stranded'
      PROVE  \E r \in Requests : Kind[r] = "token" /\ pc'[r] = "upsert" /\ Sole(r)'
  <2>1. CASE LeavesTokens(q)
    <3>1. PICK r \in Requests : Kind[r] = "token" /\ pc[r] = "upsert" /\ Sole(r)
      BY <1>4, <2>1 DEF LeavesTokens, TurnInv
    <3>2. r # q
      BY <2>1, <3>1 DEF LeavesTokens
    <3>3. QED
      BY <1>0, <3>1, <3>2
  <2>2. CASE pc[q] = "upsert" /\ Kind[q] \in {"connect", "token"} /\ WritesRow(q) /\ spent' = spent
    <3>1. held[q].serial \in spent /\ q \notin lagging /\ ~ stranded
      BY <1>4, <2>2 DEF WritesRow, Replaced
    <3>2. ~ Sole(q)
      BY <3>1 DEF Sole
    <3>3. Kind[q] = "token" /\ graph # Nothing /\ graph.serial = held[q].serial
      BY <2>2, <3>1, <3>2 DEF TurnInv
    <3>4. PICK r \in Requests : Kind[r] = "token" /\ pc[r] = "upsert" /\ Sole(r)
      BY <3>1, <3>3 DEF TurnInv, Replaced
    <3>5. QED
      BY <1>0, <3>2, <3>4
  <2>3. CASE Kind[q] = "token" /\ pc'[q] = "upsert" /\ Sole(q)'
    BY <2>3
  <2>4. QED
    BY <1>0, <1>4, <2>1, <2>2, <2>3 DEF TurnEffect
<1>5. QED
  BY <1>1, <1>2, <1>3, <1>4 DEF TurnInv

\* So does a crash: who had an answer coming leaves the row stranded.
LEMMA TurnCrash ==
    ASSUME TypeInv, SerialInv, TurnInv, NEW p \in Procs, Crash(p)
    PROVE  SerialInv' /\ TurnInv'
<1>0. /\ UNCHANGED <<graph, held, at>>
      /\ \A r \in Requests : pc'[r] \in Stage => pc'[r] = pc[r] /\ at[r] # p
      /\ \A r \in Requests : at[r] # p => pc'[r] = pc[r]
      /\ lagging' = {r \in lagging : at[r] # p}
      /\ CutsRefresh(p) /\ stranded \in BOOLEAN
  BY DEF Crash, TypeInv, TypeOK, Stage
<1>1. CASE \E q \in Requests : CutOff(p, q, "refresh") /\ AnswerLost(q)
  <2>1. PICK q \in Requests : CutOff(p, q, "refresh") /\ AnswerLost(q)
    BY <1>1
  <2>2. held[q] # Nothing /\ at[q] = p
    BY <2>1 DEF CutOff, TypeInv, LockInv, Renewing
  <2>3. TokenMove(q)
    BY <1>0, <2>1, <2>2 DEF TokenMove, AnswerLost, Rotates
  <2>4. SerialInv' /\ \A r \in Requests : r # q /\ Sole(r) => Sole(r)'
    BY <2>3, SoleStays
  <2>5. Replaced(graph', spent') => stranded'
    BY <1>0, <2>1 DEF AnswerLost
  <2>6. QED
    BY <1>0, <2>2, <2>4, <2>5 DEF TurnInv, Stage
<1>2. CASE /\ stranded' = (stranded \/ (/\ Replaced(graph, spent)
                                        /\ \E q \in Requests : CutOff(p, q, "upsert")))
           /\ UNCHANGED <<issued, spent>>
  <2>1. SerialInv' /\ \A r \in Requests : Sole(r) => Sole(r)'
    BY <1>0, <1>2 DEF SerialInv, Sole
  <2>2. ASSUME Replaced(graph', spent'), ~ stranded'
        PROVE  \E r \in Requests : Kind[r] = "token" /\ pc'[r] = "upsert" /\ Sole(r)'
    <3>1. Replaced(graph, spent) /\ ~ stranded /\ ~ \E q \in Requests : CutOff(p, q, "upsert")
      BY <1>0, <1>2, <2>2
    <3>2. PICK r \in Requests : Kind[r] = "token" /\ pc[r] = "upsert" /\ Sole(r)
      BY <3>1 DEF TurnInv
    <3>3. QED
      BY <1>0, <2>1, <3>1, <3>2 DEF CutOff
  <2>3. QED
    BY <1>0, <2>1, <2>2 DEF TurnInv, Stage
<1>3. QED
  BY <1>0, <1>1, <1>2 DEF CutsRefresh

\* Every step keeps the turns.
LEMMA TurnNext ==
    TypeInv /\ ConfigInv /\ GraphInv /\ SerialInv /\ TurnInv /\ [Next]_vars
        => SerialInv' /\ TurnInv'
<1> SUFFICES ASSUME TypeInv, ConfigInv, GraphInv, SerialInv, TurnInv, [Next]_vars
             PROVE  SerialInv' /\ TurnInv'
  OBVIOUS
<1>1. CASE ExpireAccess
  <2>1. /\ graph \in Rows /\ graph' = [graph EXCEPT !.fresh = FALSE] /\ graph # Nothing
        /\ UNCHANGED <<pc, held, issued, spent, stranded, lagging>>
    BY <1>1 DEF ExpireAccess, TypeInv, TypeOK
  <2>2. graph' \in Rows /\ graph'.serial = graph.serial
    <3>1. graph \in [{"account", "serial", "fresh"} -> Accounts \cup Nat \cup BOOLEAN]
      BY <2>1 DEF Rows
    <3>2. QED
      BY <2>1, <3>1 DEF Rows
  <2>3. graph' # Nothing
    BY <2>2, CredentialsAssumption
  <2>4. SerialInv' /\ \A r \in Requests : Sole(r) => Sole(r)'
    BY <2>1, <2>2, <2>3 DEF SerialInv, Sole
  <2>5. QED
    BY <2>1, <2>2, <2>3, <2>4 DEF TurnInv, Replaced
<1>2. CASE (\E p \in Procs : ExpireCache(p)) \/ UNCHANGED vars
  <2>1. UNCHANGED <<pc, lagging, connection>>
    BY <1>2 DEF ExpireCache, OfConfig, vars
  <2>2. QED
    BY <2>1 DEF connection, SerialInv, TurnInv, Sole, Replaced
<1>3. QED
  BY <1>1, <1>2, TurnStep, TurnCrash DEF Next, Works

\* Nobody has a refresh token at first, and none has been replaced.
LEMMA TurnInit == Init => SerialInv /\ TurnInv
<1> SUFFICES ASSUME Init PROVE SerialInv /\ TurnInv
  OBVIOUS
<1>1. /\ issued = 0 /\ spent = {} /\ \A r \in Requests : held[r] = Nothing /\ pc[r] = Idle
      /\ graph # Nothing => graph.serial = 0
  BY DEF Init, Start, EventLoopInit
<1>2. QED
  BY <1>1 DEF SerialInv, TurnInv, Replaced, Idle

\* No process sends Microsoft a refresh token that has been replaced.
THEOREM RefreshTokensAreLatest == Spec => []RefreshesLatest
<1>1. Init => TypeInv /\ ConfigInv /\ GraphInv /\ SerialInv /\ TurnInv
  BY InitType, ConfigInit, GraphInit, TurnInit
<1>2. /\ TypeInv /\ ConfigInv /\ GraphInv /\ SerialInv /\ TurnInv
      /\ [Next]_vars
      => (TypeInv /\ ConfigInv /\ GraphInv /\ SerialInv /\ TurnInv)'
  BY NextType, ConfigNext, GraphNext, TurnNext
<1>3. TypeInv /\ GraphInv /\ TurnInv => RefreshesLatest
  <2> SUFFICES ASSUME TypeInv, GraphInv, TurnInv, ~ stranded, NEW r \in Requests,
                      Kind[r] = "token", pc[r] = "refresh", r \notin lagging,
                      held[r].serial \in spent
               PROVE  \E q \in Requests : at[q] # at[r] /\ Kind[q] = "token" /\ pc[q] = "upsert"
    BY DEF RefreshesLatest
  <2>1. held[r] # Nothing /\ held[r] = graph /\ lock[at[r]] = r
    BY DEF TypeInv, LockInv, Renewing, GraphInv, HeldInv
  <2>2. PICK q \in Requests : Kind[q] = "token" /\ pc[q] = "upsert"
    BY <2>1 DEF TurnInv, Replaced
  <2>3. lock[at[q]] = q /\ q # r
    BY <2>2 DEF TypeInv, LockInv, Renewing
  <2>4. QED
    BY <2>1, <2>2, <2>3
<1>4. QED
  BY <1>1, <1>2, <1>3, PTL DEF Spec

\* Only connecting, disconnecting, and a refresh that they overtake change the account.
LEMMA AccountMoves ==
    ASSUME TypeInv, GraphInv, [Next]_vars, AccountOf(graph') # AccountOf(graph)
    PROVE  \E r \in Requests : /\ pc[r] # pc'[r]
                               /\ Kind[r] \in {"connect", "disconnect"} \/ r \in lagging
<1>0. graph \in Rows \cup {Nothing} /\ \A row \in Rows : row # Nothing
  BY CredentialsAssumption DEF TypeInv, TypeOK
<1>1. ~ ExpireAccess
  <2> SUFFICES ASSUME ExpireAccess PROVE FALSE
    OBVIOUS
  <2>1. /\ graph \in Rows /\ graph' = [graph EXCEPT !.fresh = FALSE]
    BY <1>0 DEF ExpireAccess
  <2>2. graph' \in Rows /\ graph'.account = graph.account
    <3>1. graph \in [{"account", "serial", "fresh"} -> Accounts \cup Nat \cup BOOLEAN]
      BY <2>1 DEF Rows
    <3>2. QED
      BY <2>1, <3>1 DEF Rows
  <2>3. QED
    BY <1>0, <2>1, <2>2 DEF AccountOf
<1>2. PICK q \in Requests : Works(q)
  BY <1>1 DEF Next, Works, ExpireCache, OfConfig, Crash, vars, connection, AccountOf
<1>3. Kind[q] \in {"connect", "disconnect"} \/ q \in lagging
  BY <1>2, GraphMovesOnly DEF GraphEffect
<1>4. pc[q] # pc'[q]
  <2>1. pc \in [Requests -> {Idle} \cup Stage \cup Outcome] /\ graph' # graph
    BY DEF TypeInv, TypeOK, AccountOf
  <2>2. UpsertRow(q) \/ UpsertFails(q) \/ Disconnect(q)
    BY <1>2, <2>1 DEF Works, Graph, GetGraphToken, TakeLock, Cancelled, RereadRow, Refreshed, Connect,
       Config, ProxyLoad, ProxySend, Reached, ToolsCached, FetchTools, ToolsFetched,
       EditToolbox, ReceiveBody, SaveConfig, SaveFails, Forget, Provision, LinkLoad,
       LinkStatus, Teardown, ScholarDeletes, TornDown, DropConfig, DropFails, OfConfig,
       Agent, ManageToken, SetStatus, Authenticate, TouchLastUsed, FindClient, Enrol,
       DeleteDevice, OfTokens, connection
  <2>3. QED
    BY <2>1, <2>2 DEF UpsertRow, UpsertFails, Disconnect, Starts, Runs, Moves, Idle
<1>5. QED
  BY <1>3, <1>4

\* The Microsoft account behind a user's calls changes only as he connects or
\* disconnects it, and by a refresh that was under way then.
THEOREM AccountIsKept == Spec => AccountKept
<1>1. Init => TypeInv /\ ConfigInv /\ GraphInv
  BY InitType, ConfigInit, GraphInit
<1>2. (TypeInv /\ ConfigInv /\ GraphInv) /\ [Next]_vars => (TypeInv /\ ConfigInv /\ GraphInv)'
  BY NextType, ConfigNext, GraphNext
<1>3. (TypeInv /\ ConfigInv /\ GraphInv) /\ [Next]_vars =>
        [AccountOf(graph') # AccountOf(graph)
            => \E r \in Requests : /\ pc[r] # pc'[r]
                                   /\ Kind[r] \in {"connect", "disconnect"} \/ r \in lagging]_vars
  BY AccountMoves
<1>4. QED
  BY <1>1, <1>2, <1>3, PTL DEF Spec, AccountKept

-----------------------------------------------------------------------------
(* The agents' client. *)

Answered(r) == Kind[r] = "use" /\ pc[r] \in Outcome

\* A row that somebody finds was inserted by somebody who has been answered, in another
\* process if it is not found before the next insert.
AgentInv ==
    /\ agentClients > 0 => \E q \in Requests : Answered(q)
    /\ \A r \in Requests : pc[r] = "enrol" /\ agentClients > 0 =>
          \E q \in Requests : Answered(q) /\ at[q] # at[r]
    /\ OneAgentClient

\* A step of a handler keeps them so.
LEMMA AgentStep ==
    ASSUME TypeInv, AgentInv, NEW q \in Requests, Works(q)
    PROVE  AgentInv'
<1>0. /\ pc \in [Requests -> {Idle} \cup Stage \cup Outcome] /\ agentClients \in Nat
      /\ at \in [Requests -> Procs] /\ at' = at /\ NoRequest \notin Requests
      /\ pc[q] \notin Outcome
      /\ \A r \in Requests : r # q => pc'[r] = pc[r]
      /\ \A r \in Requests : Answered(r) => Answered(r)'
      /\ loop[at[q]] \in {NoRequest, q} /\ HoldsLoop
  BY CredentialsAssumption, LoopMoves DEF TypeInv, TypeOK, Answered
<1>1. \A r \in Requests : r # q /\ pc'[r] = "enrol" => pc[r] = "enrol"
  BY <1>0
<1>2. CASE agentClients' \in Nat /\ agentClients' <= agentClients
           /\ (pc'[q] = "enrol" => agentClients' = 0)
  BY <1>0, <1>1, <1>2 DEF AgentInv, OneAgentClient, Answered
<1>3. CASE Enrol(q)
  <2>1. /\ pc[q] = "enrol" /\ pc'[q] \in Outcome /\ Kind[q] = "use"
        /\ agentClients' \in {agentClients, agentClients + 1}
    BY <1>0, <1>3 DEF Enrol, Runs, Moves, Outcome, TypeInv, KindInv
  <2>2. Answered(q)'
    BY <2>1 DEF Answered
  <2>3. \A r \in Requests : r # q /\ pc[r] = "enrol" => at[r] # at[q]
    BY <1>0, <2>1 DEF HoldsLoop, Kept
  <2>4. \A r \in Requests : pc'[r] = "enrol" => at[q] # at[r]
    BY <1>0, <2>1, <2>3 DEF Outcome
  <2>5. agentClients' > 1 => \E r \in Requests : Answered(r) /\ at[r] # at[q]
    BY <1>0, <2>1 DEF AgentInv
  <2>6. OneAgentClient'
    <3> SUFFICES ASSUME agentClients' > 1
                 PROVE  \E s, r \in Requests : Answered(s)' /\ Answered(r)' /\ at[s] # at[r]
      BY <1>0 DEF OneAgentClient, Answered
    <3>1. PICK r \in Requests : Answered(r) /\ at[r] # at[q]
      BY <2>5
    <3>2. QED
      BY <1>0, <2>2, <3>1
  <2>7. QED
    BY <1>0, <2>2, <2>4, <2>6 DEF AgentInv
<1>4. ~ Enrol(q) =>
        /\ agentClients' \in Nat /\ agentClients' <= agentClients
        /\ (pc'[q] = "enrol" => agentClients' = 0)
  <2> SUFFICES ASSUME ~ Enrol(q)
               PROVE  /\ agentClients' \in Nat /\ agentClients' <= agentClients
                      /\ (pc'[q] = "enrol" => agentClients' = 0)
    OBVIOUS
  <2> USE DEF Outcome, Starts, Awaits, Resumes, Runs, Moves
  <2>1. CASE Agent(q)
    <3>1. CASE ManageToken(q) \/ Authenticate(q) \/ TouchLastUsed(q)
      BY <1>0, <3>1 DEF ManageToken, SetStatus, Authenticate, TouchLastUsed, agents
    <3>2. CASE FindClient(q)
      BY <1>0, <3>2 DEF FindClient, agents
    <3>3. CASE DeleteDevice(q)
      BY <1>0, <3>3 DEF DeleteDevice
    <3>4. QED
      BY <2>1, <3>1, <3>2, <3>3 DEF Agent
  <2>2. CASE Config(q)
    <3>1. agentClients' = agentClients
      BY <2>2 DEF Config, ProxyLoad, ProxySend, Reached, ToolsCached, FetchTools, ToolsFetched,
         EditToolbox, ReceiveBody, SaveConfig, SaveFails, Forget, Provision, LinkLoad,
         LinkStatus, Teardown, ScholarDeletes, TornDown, DropConfig, DropFails, OfConfig, agents
    <3>2. Kind[q] # "use"
      <4>1. Forget(q) => Kind[q] # "use"
        BY DEF Forget, TypeInv, KindInv, ConfigKinds
      <4>2. QED
        BY <2>2, <4>1 DEF Config, ProxyLoad, ProxySend, Reached, ToolsCached, FetchTools,
           ToolsFetched, EditToolbox, ReceiveBody, SaveConfig, SaveFails, Provision, LinkLoad,
           LinkStatus, Teardown, ScholarDeletes, TornDown, DropConfig, DropFails
    <3>3. pc'[q] # "enrol"
      BY <3>2, KindStep DEF KindInv
    <3>4. QED
      BY <1>0, <3>1, <3>3
  <2>3. CASE Graph(q)
    <3>1. agentClients' = agentClients
      BY <2>3 DEF Graph, GetGraphToken, TakeLock, Cancelled, RereadRow, Refreshed, Connect, UpsertRow,
         WritesRow, UpsertFails, Disconnect, OfGraph, agents
    <3>2. Kind[q] # "use"
      BY <2>3 DEF Graph, GetGraphToken, TakeLock, Cancelled, RereadRow, Refreshed, Connect, UpsertRow,
         WritesRow, UpsertFails, Disconnect
    <3>3. pc'[q] # "enrol"
      BY <3>2, KindStep DEF KindInv
    <3>4. QED
      BY <1>0, <3>1, <3>3
  <2>4. QED
    BY <2>1, <2>2, <2>3 DEF Works
<1>5. QED
  BY <1>2, <1>3, <1>4

\* One process never gives a user two rows for his agents' traffic.
THEOREM OneClientPerProcess == Spec => []OneAgentClient
<1>1. Init => TypeInv /\ AgentInv
  BY InitType DEF Init, Start, EventLoopInit, AgentInv, OneAgentClient, Idle
<1>2. (TypeInv /\ AgentInv) /\ [Next]_vars => (TypeInv /\ AgentInv)'
  <2> SUFFICES ASSUME TypeInv, AgentInv, [Next]_vars PROVE AgentInv'
    BY NextType
  <2>0. pc \in [Requests -> {Idle} \cup Stage \cup Outcome]
    BY DEF TypeInv, TypeOK
  <2>1. CASE (\E p \in Procs : ExpireCache(p)) \/ ExpireAccess \/ UNCHANGED vars
    BY <2>1 DEF ExpireCache, ExpireAccess, OfConfig, OfGraph, vars, agents, AgentInv,
                OneAgentClient, Answered
  <2>2. ASSUME NEW p \in Procs, Crash(p) PROVE AgentInv'
    <3>1. /\ UNCHANGED <<agentClients, at>>
          /\ \A r \in Requests : /\ pc'[r] = "enrol" => pc[r] = "enrol"
                                 /\ Answered(r) => Answered(r)'
      BY <2>0, <2>2 DEF Crash, agents, Outcome, Answered, Stage
    <3>2. QED
      BY <3>1 DEF AgentInv, OneAgentClient, Answered
  <2>3. QED
    BY <2>1, <2>2, AgentStep DEF Next, Works
<1>3. AgentInv => OneAgentClient
  BY DEF AgentInv
<1>4. QED
  BY <1>1, <1>2, <1>3, PTL DEF Spec
=============================================================================
