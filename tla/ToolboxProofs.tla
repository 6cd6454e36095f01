---------------------------- MODULE ToolboxProofs ----------------------------
(* Proofs about Toolbox for every set of MCPs, requests and processes, and  *)
(* any number of faults.                                                    *)
EXTENDS Toolbox, TLAPS

\* A step of a handler, or of one whose call fails.
Works(r) == pc[r] \notin Outcome /\ (Agent(r) \/ Portal(r) \/ Panel(r) \/ DatabaseError(r))

\* Who steps between two awaits holds the loop of its process.
Kept == {"write", "credential", "bulk"}
HoldsLoop == \A r \in Requests : pc[r] \in Kept => loop[at[r]] = r

\* A bulk form works on what it has selected, and describes something.
BulkInv ==
    \A r \in Requests :
        Kind[r] = "bulk" /\ pc[r] \in {"bulk", "insert"} =>
            /\ seen[r] \subseteq SlugsOf[r]
            /\ pc[r] = "insert" => seen[r] # {}

TypeInv == TypeOK /\ HoldsLoop /\ BulkInv

-----------------------------------------------------------------------------
(* Where requests are. *)

\* The next call of a request that goes on.
Positions == {Idle} \cup Call \cup Outcome

\* Every step is a way of moving that takes the loop, or gives it up, from nobody else.
MovesTo(r, to) ==
    /\ Runs(r, pc[r], to) \/ (Awaits(r, pc[r], to) /\ to \notin Kept)
    /\ to \in Positions
    /\ loop[at[r]] \in {NoRequest, r}

\* The agent's tools move so.
LEMMA AgentMoves ==
    ASSUME TypeInv, NEW r \in Requests, Agent(r)
    PROVE  \E to : MovesTo(r, to)
<1> USE DEF MovesTo, Positions, Call, Outcome, Idle, Kept, Goes, Asks, Starts, Resumes,
            Awaits, Runs, Moves, TypeInv, HoldsLoop
<1>1. CASE LoadEnabled(r)
  BY <1>1 DEF LoadEnabled
<1>2. CASE Browse(r)
  BY <1>2 DEF Browse
<1>3. CASE AddMcp(r)
  BY <1>3 DEF AddMcp
<1>4. CASE RemoveMcp(r)
  BY <1>4 DEF RemoveMcp
<1>5. CASE UpdateUserMcps(r)
  BY <1>5 DEF UpdateUserMcps
<1>6. QED
  BY <1>1, <1>2, <1>3, <1>4, <1>5 DEF Agent

\* So do the portal and the Scholar service.
LEMMA PortalMoves ==
    ASSUME TypeInv, NEW r \in Requests, Portal(r)
    PROVE  \E to : MovesTo(r, to)
<1> USE DEF MovesTo, Positions, Call, Outcome, Idle, Kept, Goes, Asks, Starts, Runs,
            Moves, TypeInv, HoldsLoop
<1>1. CASE PruneLoad(r) \/ CatalogAddLoad(r) \/ SaveLoad(r)
  BY <1>1 DEF PruneLoad, CatalogAddLoad, SaveLoad
<1>2. CASE AutoLoad(r) \/ SaveCredentials(r)
  BY <1>2 DEF AutoLoad, SaveCredentials
<1>3. CASE SetAllowedMcps(r) \/ AutoCredential(r)
  BY <1>3 DEF SetAllowedMcps, AutoCredential
<1>4. QED
  BY <1>1, <1>2, <1>3 DEF Portal

\* So does the panel.
LEMMA PanelMoves ==
    ASSUME TypeInv, NEW r \in Requests, Panel(r)
    PROVE  \E to : MovesTo(r, to)
<1> USE DEF MovesTo, Positions, Call, Outcome, Idle, Kept, Goes, Asks, Starts, Resumes,
            Awaits, Runs, Moves, TypeInv, HoldsLoop
<1>1. CASE TogglePublish(r) \/ PublishDescribed(r) \/ PublishNew(r)
  <2>1. CASE TogglePublish(r)
    BY <1>1, <2>1 DEF TogglePublish
  <2>2. CASE PublishDescribed(r)
    BY <1>1, <2>2 DEF PublishDescribed
  <2>3. CASE PublishNew(r)
    BY <1>1, <2>3 DEF PublishNew
  <2>4. QED
    BY <1>1, <2>1, <2>2, <2>3
<1>2. CASE SyncTools(r) \/ VisitLoad(r) \/ AutoPublish(r) \/ VisitDone(r)
  BY <1>2 DEF SyncTools, VisitLoad, AutoPublish, VisitDone
<1>3. CASE BulkLoad(r) \/ BulkRow(r) \/ UpsertRailway(r) \/ BulkDone(r)
  BY <1>3 DEF BulkLoad, BulkRow, UpsertRailway, BulkDone
<1>4. CASE CreateCatalogue(r) \/ SaveCatalogue(r) \/ DeleteCatalogue(r) \/ SetTier(r)
  BY <1>4 DEF CreateCatalogue, SaveCatalogue, DeleteCatalogue, SetTier
<1>5. QED
  BY <1>1, <1>2, <1>3, <1>4 DEF Panel

\* What a step does to the position of requests and to the loop.
LEMMA LoopMoves ==
    ASSUME TypeInv, NEW r \in Requests, Works(r)
    PROVE  /\ pc[r] \notin Outcome /\ pc'[r] \in Positions
           /\ pc' = [pc EXCEPT ![r] = pc'[r]]
           /\ at' = at
           /\ loop[at[r]] \in {NoRequest, r} /\ loop'[at[r]] \in {NoRequest, r}
           /\ loop' = [loop EXCEPT ![at[r]] = loop'[at[r]]]
           /\ pc'[r] \in Kept => loop'[at[r]] = r
<1>1. PICK to : MovesTo(r, to)
  <2>1. DatabaseError(r) => MovesTo(r, "failed")
    BY DEF DatabaseError, MovesTo, Positions, Outcome
  <2>2. QED
    BY <2>1, AgentMoves, PortalMoves, PanelMoves DEF Works
<1>2. /\ pc \in [Requests -> Positions] /\ at \in [Requests -> Procs]
      /\ loop \in [Procs -> Requests \cup {NoRequest}]
  BY DEF TypeInv, TypeOK, Positions
<1>3. pc'[r] = to /\ at' = at /\ pc' = [pc EXCEPT ![r] = to]
  BY <1>1, <1>2 DEF MovesTo, Runs, Awaits, Moves
<1>4. QED
  BY <1>1, <1>2, <1>3 DEF MovesTo, Runs, Awaits, Works, Kept, Outcome

\* The types of where requests are.
LEMMA MoveType ==
    ASSUME TypeInv, NEW r \in Requests, Works(r)
    PROVE  /\ at' \in [Requests -> Procs]
           /\ pc' \in [Requests -> {Idle} \cup Call \cup Outcome]
           /\ loop' \in [Procs -> Requests \cup {NoRequest}]
<1>1. /\ pc \in [Requests -> Positions] /\ at \in [Requests -> Procs]
      /\ loop \in [Procs -> Requests \cup {NoRequest}]
  BY DEF TypeInv, TypeOK, Positions
<1>2. QED
  BY <1>1, LoopMoves DEF Positions

\* The loop stays with who holds it.
LEMMA LoopStep ==
    ASSUME TypeInv, NEW q \in Requests, Works(q)
    PROVE  HoldsLoop'
<1> SUFFICES ASSUME NEW r \in Requests, pc'[r] \in Kept
             PROVE  loop'[at'[r]] = r
  BY DEF HoldsLoop
<1>0. /\ at \in [Requests -> Procs] /\ NoRequest \notin Requests
      /\ pc \in [Requests -> {Idle} \cup Call \cup Outcome]
      /\ loop \in [Procs -> Requests \cup {NoRequest}]
  BY ToolboxAssumption DEF TypeInv, TypeOK
<1>1. CASE r = q
  BY <1>0, <1>1, LoopMoves
<1>2. CASE r # q
  <2>1. pc[r] \in Kept /\ at' = at /\ loop[at[r]] = r
    BY <1>0, <1>2, LoopMoves DEF TypeInv, HoldsLoop
  <2>2. QED
    BY <1>0, <1>2, <2>1, LoopMoves
<1>3. QED
  BY <1>1, <1>2

-----------------------------------------------------------------------------
(* Type correctness. *)

\* The rows that a request hits, and what it leaves of the list.
LEMMA ListTypes ==
    ASSUME TypeInv, NEW r \in Requests
    PROVE  /\ \A S : S \subseteq Slugs /\ (Reads(r, S) \/ Puts(r, S)) =>
                 /\ seen' \in [Requests -> SUBSET Slugs]
                 /\ blind' \in [Requests -> SUBSET Slugs]
           /\ Forgets(r) =>
                 /\ seen' \in [Requests -> SUBSET Slugs]
                 /\ blind' \in [Requests -> SUBSET Slugs]
<1>0. /\ toolbox \subseteq Slugs
      /\ seen \in [Requests -> SUBSET Slugs] /\ blind \in [Requests -> SUBSET Slugs]
  BY DEF TypeInv, TypeOK
<1>1. ASSUME NEW S, S \subseteq Slugs, Reads(r, S)
      PROVE  seen' \in [Requests -> SUBSET Slugs] /\ blind' \in [Requests -> SUBSET Slugs]
  BY <1>0, <1>1 DEF Reads, Differ
<1>2. ASSUME NEW S, S \subseteq Slugs, Puts(r, S)
      PROVE  seen' \in [Requests -> SUBSET Slugs] /\ blind' \in [Requests -> SUBSET Slugs]
  BY <1>0, <1>2 DEF Puts, Differ
<1>3. Forgets(r) => seen' \in [Requests -> SUBSET Slugs] /\ blind' \in [Requests -> SUBSET Slugs]
  BY <1>0 DEF Forgets
<1>4. QED
  BY <1>1, <1>2, <1>3

\* What a process knows of the catalogue is of the catalogue's type.
LEMMA LooksType ==
    ASSUME TypeInv, NEW p \in Procs, Looks(p)
    PROVE  /\ shelfCache' \in [Procs -> [Tiers -> (SUBSET Slugs) \cup {NoShelf}]]
           /\ tierCache' \in [Procs -> Tiers \cup {Unread}]
<1>0. /\ published \subseteq Slugs /\ tier \in Tiers
      /\ shelfCache \in [Procs -> [Tiers -> (SUBSET Slugs) \cup {NoShelf}]]
      /\ tierCache \in [Procs -> Tiers \cup {Unread}]
  BY DEF TypeInv, TypeOK
<1>1. GetUserTier(p) \in Tiers
  BY <1>0 DEF GetUserTier
<1>2. AllPublished(p) \in (SUBSET Slugs) \cup {NoShelf}
  BY <1>0, <1>1 DEF AllPublished, OfferedTo
<1>3. QED
  BY <1>0, <1>1, <1>2 DEF Looks

\* The data that the types are about, without the positions of requests.
DataOK ==
    /\ toolbox \cup credential \cup listed \subseteq Slugs
    /\ tier \in Tiers
    /\ published \cup premium \subseteq listed
    /\ shelfCache \in [Procs -> [Tiers -> (SUBSET Slugs) \cup {NoShelf}]]
    /\ tierCache \in [Procs -> Tiers \cup {Unread}]
    /\ seen \in [Requests -> SUBSET Slugs]
    /\ blind \in [Requests -> SUBSET Slugs]
    /\ faults \in 0 .. MaxFaults

\* The agent's tools keep the types.
LEMMA AgentType ==
    ASSUME TypeInv, NEW r \in Requests, Agent(r)
    PROVE  DataOK'
<1> USE DEF DataOK, catalogue, caches
<1>0. /\ DataOK /\ at[r] \in Procs
      /\ SlugsOf[r] \subseteq Slugs /\ seen[r] \subseteq Slugs
      /\ toolbox \cap OfferedTo(tier) \subseteq Slugs
  BY ToolboxAssumption DEF TypeInv, TypeOK
<1>1. CASE LoadEnabled(r)
  BY <1>0, <1>1, ListTypes DEF LoadEnabled
<1>2. CASE Browse(r)
  BY <1>0, <1>2, ListTypes, LooksType DEF Browse
<1>3. CASE AddMcp(r)
  BY <1>0, <1>3, ListTypes, LooksType DEF AddMcp
<1>4. CASE RemoveMcp(r)
  BY <1>0, <1>4, ListTypes DEF RemoveMcp
<1>5. CASE UpdateUserMcps(r)
  <2> DEFINE S == IF Kind[r] = "add" THEN seen[r] \cup SlugsOf[r] ELSE seen[r] \ SlugsOf[r]
  <2>1. S \subseteq Slugs /\ Puts(r, S)
    BY <1>0, <1>5 DEF UpdateUserMcps
  <2>2. /\ seen' \in [Requests -> SUBSET Slugs] /\ blind' \in [Requests -> SUBSET Slugs]
        /\ toolbox' \subseteq Slugs
    BY <2>1, ListTypes DEF Puts
  <2>3. QED
    BY <1>0, <1>5, <2>2 DEF UpdateUserMcps
<1>6. QED
  BY <1>1, <1>2, <1>3, <1>4, <1>5 DEF Agent

\* The portal and the Scholar service keep the types.
LEMMA PortalType ==
    ASSUME TypeInv, NEW r \in Requests, Portal(r)
    PROVE  DataOK'
<1> USE DEF DataOK, catalogue, caches
<1>0. /\ DataOK
      /\ SlugsOf[r] \subseteq Slugs /\ seen[r] \subseteq Slugs /\ toolbox \subseteq Slugs
  BY ToolboxAssumption DEF TypeInv, TypeOK
<1>1. CASE PruneLoad(r)
  <2>1. UNCHANGED <<seen, blind>> \/ Reads(r, toolbox \cap OfferedTo(tier))
    BY <1>1 DEF PruneLoad
  <2>2. seen' \in [Requests -> SUBSET Slugs] /\ blind' \in [Requests -> SUBSET Slugs]
    BY <1>0, <2>1, ListTypes
  <2>3. QED
    BY <1>0, <1>1, <2>2 DEF PruneLoad
<1>2. CASE CatalogAddLoad(r)
  BY <1>0, <1>2, ListTypes DEF CatalogAddLoad
<1>3. CASE SaveLoad(r)
  <2>1. Reads(r, SlugsOf[r] \cap OfferedTo(tier))
    BY <1>3 DEF SaveLoad
  <2>2. seen' \in [Requests -> SUBSET Slugs] /\ blind' \in [Requests -> SUBSET Slugs]
    BY <1>0, <2>1, ListTypes
  <2>3. QED
    BY <1>0, <1>3, <2>2 DEF SaveLoad
<1>4. CASE AutoLoad(r)
  BY <1>0, <1>4, ListTypes DEF AutoLoad
<1>5. CASE SetAllowedMcps(r)
  <2>1. PICK S : S \subseteq Slugs /\ Puts(r, S)
    BY <1>0, <1>5 DEF SetAllowedMcps, AutoAdded
  <2>2. /\ seen' \in [Requests -> SUBSET Slugs] /\ blind' \in [Requests -> SUBSET Slugs]
        /\ toolbox' \subseteq Slugs
    BY <2>1, ListTypes DEF Puts
  <2>3. QED
    BY <1>0, <1>5, <2>2 DEF SetAllowedMcps
<1>6. CASE AutoCredential(r)
  BY <1>0, <1>6 DEF AutoCredential
<1>7. CASE SaveCredentials(r)
  BY <1>0, <1>7 DEF SaveCredentials
<1>8. QED
  BY <1>1, <1>2, <1>3, <1>4, <1>5, <1>6, <1>7 DEF Portal

\* The first of some MCPs is one of them.
LEMMA FirstIn == \A S : S # {} => First(S) \in S
  BY DEF First

\* The panel keeps the types.
LEMMA PanelType ==
    ASSUME TypeInv, NEW r \in Requests, pc[r] \notin Outcome, Panel(r)
    PROVE  DataOK'
<1> USE DEF DataOK, Untouched, catalogue, caches
<1>0. /\ DataOK
      /\ SlugsOf[r] \subseteq Slugs /\ seen[r] \subseteq Slugs /\ Railway \subseteq Slugs
      /\ seen[r] # {} => First(seen[r]) \in seen[r]
      /\ \A s : RowOf(s) \subseteq listed
  BY ToolboxAssumption, FirstIn DEF TypeInv, TypeOK, RowOf
<1>1. CASE TogglePublish(r)
  BY <1>0, <1>1 DEF TogglePublish
<1>2. CASE PublishDescribed(r)
  BY <1>0, <1>2 DEF PublishDescribed
<1>3. CASE PublishNew(r)
  BY <1>0, <1>3 DEF PublishNew, Inserts
<1>4. CASE SyncTools(r) \/ VisitLoad(r) \/ VisitDone(r)
  BY <1>0, <1>4 DEF SyncTools, VisitLoad, VisitDone
<1>5. CASE AutoPublish(r)
  BY <1>0, <1>5 DEF AutoPublish, Inserts
<1>6. CASE BulkLoad(r) \/ BulkDone(r)
  BY <1>0, <1>6 DEF BulkLoad, BulkDone
<1>7. CASE BulkRow(r)
  <2>1. listed' = listed /\ published' \subseteq listed /\ premium' \subseteq listed
    BY <1>0, <1>7 DEF BulkRow, Sets
  <2>2. seen' \in [Requests -> SUBSET Slugs]
    BY <1>0, <1>7 DEF BulkRow
  <2>3. QED
    BY <1>0, <1>7, <2>1, <2>2 DEF BulkRow
<1>8. CASE UpsertRailway(r)
  <2>1. seen[r] # {}
    BY <1>8 DEF UpsertRailway, TypeInv, BulkInv
  <2>2. seen' \in [Requests -> SUBSET Slugs]
    BY <1>0, <1>8 DEF UpsertRailway
  <2>3. listed' \subseteq Slugs /\ published' \cup premium' \subseteq listed'
    BY <1>0, <1>8, <2>1 DEF UpsertRailway, Inserts
  <2>4. QED
    BY <1>0, <1>8, <2>2, <2>3 DEF UpsertRailway
<1>9. CASE CreateCatalogue(r)
  BY <1>0, <1>9 DEF CreateCatalogue, Inserts
<1>10. CASE SaveCatalogue(r)
  <2>1. listed' = listed /\ published' \subseteq listed /\ premium' \subseteq listed
    BY <1>0, <1>10 DEF SaveCatalogue, Sets
  <2>2. QED
    BY <1>0, <1>10, <2>1 DEF SaveCatalogue
<1>11. CASE DeleteCatalogue(r)
  BY <1>0, <1>11 DEF DeleteCatalogue
<1>12. CASE SetTier(r)
  <2>1. Change[r] \in Tiers
    BY <1>12, ToolboxAssumption DEF SetTier, Asks
  <2>2. QED
    BY <1>0, <1>12, <2>1 DEF SetTier
<1>13. QED
  BY <1>1, <1>2, <1>3, <1>4, <1>5, <1>6, <1>7, <1>8, <1>9, <1>10, <1>11, <1>12 DEF Panel

\* A list that a request has read changes at its own steps.
LEMMA SeenMoves ==
    ASSUME TypeInv, NEW q \in Requests, Works(q)
    PROVE  \A r \in Requests : r # q => seen'[r] = seen[r]
<1> USE DEF Reads, Puts, Forgets, Untouched
<1>0. seen \in [Requests -> SUBSET Slugs]
  BY DEF TypeInv, TypeOK
<1>1. CASE Agent(q)
  BY <1>0, <1>1 DEF Agent, LoadEnabled, Browse, AddMcp, RemoveMcp, UpdateUserMcps
<1>2. CASE Portal(q)
  BY <1>0, <1>2 DEF Portal, PruneLoad, CatalogAddLoad, SaveLoad, AutoLoad,
                   SetAllowedMcps, AutoCredential, SaveCredentials
<1>3. CASE Panel(q)
  <2>1. CASE TogglePublish(q) \/ PublishDescribed(q) \/ PublishNew(q) \/ SyncTools(q)
    BY <2>1 DEF TogglePublish, PublishDescribed, PublishNew, SyncTools
  <2>2. CASE VisitLoad(q) \/ AutoPublish(q) \/ VisitDone(q) \/ BulkLoad(q)
    BY <1>0, <2>2 DEF VisitLoad, AutoPublish, VisitDone, BulkLoad
  <2>3. CASE BulkRow(q) \/ UpsertRailway(q) \/ BulkDone(q)
    BY <1>0, <2>3 DEF BulkRow, UpsertRailway, BulkDone
  <2>4. CASE CreateCatalogue(q) \/ SaveCatalogue(q) \/ DeleteCatalogue(q) \/ SetTier(q)
    BY <2>4 DEF CreateCatalogue, SaveCatalogue, DeleteCatalogue, SetTier
  <2>5. QED
    BY <1>3, <2>1, <2>2, <2>3, <2>4 DEF Panel
<1>4. CASE DatabaseError(q)
  BY <1>4 DEF DatabaseError
<1>5. QED
  BY <1>1, <1>2, <1>3, <1>4 DEF Works

\* A bulk form keeps to its selection.
LEMMA BulkStep ==
    ASSUME TypeInv, NEW q \in Requests, Works(q)
    PROVE  BulkInv'
<1> SUFFICES ASSUME NEW r \in Requests, Kind[r] = "bulk", pc'[r] \in {"bulk", "insert"}
             PROVE  /\ seen'[r] \subseteq SlugsOf[r]
                    /\ pc'[r] = "insert" => seen'[r] # {}
  BY DEF BulkInv
<1>0. /\ seen \in [Requests -> SUBSET Slugs] /\ pc \in [Requests -> {Idle} \cup Call \cup Outcome]
      /\ BulkInv
  BY DEF TypeInv, TypeOK
<1>1. CASE r # q
  BY <1>0, <1>1, LoopMoves, SeenMoves DEF BulkInv
<1>2. CASE r = q
  <2>1. BulkLoad(q) \/ BulkRow(q) \/ UpsertRailway(q)
    <3> USE <1>0, <1>2 DEF Asks, Goes, Starts, Runs, Awaits, Resumes, Moves
    <3>1. ~ Agent(q)
      BY DEF Agent, LoadEnabled, Browse, AddMcp, RemoveMcp, UpdateUserMcps, AgentKinds
    <3>2. ~ Portal(q)
      BY DEF Portal, PruneLoad, CatalogAddLoad, SaveLoad, AutoLoad,
             SetAllowedMcps, AutoCredential, SaveCredentials
    <3>3. ~ DatabaseError(q)
      BY DEF DatabaseError
    <3>4. ~ (SyncTools(q) \/ BulkDone(q))
      BY DEF SyncTools, BulkDone
    <3>5. QED
      BY <3>1, <3>2, <3>3, <3>4 DEF Works, Panel, TogglePublish, PublishDescribed,
         PublishNew, VisitLoad, AutoPublish, VisitDone, CreateCatalogue, SaveCatalogue,
         DeleteCatalogue, SetTier
  <2> USE <1>0, <1>2 DEF Asks, Starts, Runs, Awaits, Resumes, Moves, Idle
  <2>2. CASE BulkLoad(q)
    BY <2>2 DEF BulkLoad
  <2>3. CASE BulkRow(q)
    BY <2>3 DEF BulkRow, BulkInv
  <2>4. CASE UpsertRailway(q)
    BY <2>4 DEF UpsertRailway, BulkInv
  <2>5. QED
    BY <2>1, <2>2, <2>3, <2>4
<1>3. QED
  BY <1>1, <1>2

\* Every step keeps the types, the loop and the selections.
LEMMA NextType == TypeInv /\ [Next]_vars => TypeInv'
<1> SUFFICES ASSUME TypeInv, [Next]_vars PROVE TypeInv'
  OBVIOUS
<1>0. MaxFaults \in Nat /\ TypeOK /\ HoldsLoop /\ BulkInv /\ NoRequest \notin Requests
  BY ToolboxAssumption DEF TypeInv
<1>1. ASSUME NEW r \in Requests, Works(r) PROVE TypeInv'
  <2>1. DataOK'
    <3>1. DatabaseError(r) => DataOK'
      BY <1>0 DEF DatabaseError, DataOK, TypeOK, catalogue, caches
    <3>2. QED
      BY <1>1, <3>1, AgentType, PortalType, PanelType DEF Works
  <2>2. TypeOK'
    BY <1>1, <2>1, MoveType DEF TypeOK, DataOK
  <2>3. QED
    BY <1>1, <2>2, LoopStep, BulkStep DEF TypeInv
<1>2. ASSUME NEW p \in Procs, Expire(p) PROVE TypeInv'
  <2>1. /\ shelfCache' \in [Procs -> [Tiers -> (SUBSET Slugs) \cup {NoShelf}]]
        /\ tierCache' \in [Procs -> Tiers \cup {Unread}]
    <3>0. /\ shelfCache \in [Procs -> [Tiers -> (SUBSET Slugs) \cup {NoShelf}]]
          /\ tierCache \in [Procs -> Tiers \cup {Unread}]
      BY <1>0 DEF TypeOK
    <3>1. CASE tierCache' = [tierCache EXCEPT ![p] = Unread] /\ UNCHANGED shelfCache
      BY <3>0, <3>1
    <3>2. ASSUME NEW t \in Tiers, shelfCache' = [shelfCache EXCEPT ![p][t] = NoShelf],
                 UNCHANGED tierCache
          PROVE  /\ shelfCache' \in [Procs -> [Tiers -> (SUBSET Slugs) \cup {NoShelf}]]
                 /\ tierCache' \in [Procs -> Tiers \cup {Unread}]
      BY <3>0, <3>2
    <3>3. QED
      BY <1>2, <3>1, <3>2 DEF Expire
  <2>2. QED
    BY <1>0, <1>2, <2>1 DEF Expire, TypeInv, TypeOK, HoldsLoop, BulkInv, catalogue, caches
<1>3. ASSUME NEW p \in Procs, Crash(p) PROVE TypeInv'
  <2>1. TypeOK'
    BY <1>0, <1>3 DEF Crash, TypeOK, catalogue, Outcome
  <2>2. /\ at' = at /\ seen' = seen
        /\ \A r \in Requests : /\ pc'[r] \in Call => pc'[r] = pc[r]
                               /\ at[r] = p => pc'[r] \notin Call
        /\ \A s \in Procs : s # p => loop'[s] = loop[s]
    BY <1>0, <1>3 DEF Crash, TypeOK, Call, Outcome
  <2>3. HoldsLoop'
    BY <1>0, <2>2 DEF HoldsLoop, Kept, Call, TypeOK
  <2>4. BulkInv'
    BY <1>0, <2>2 DEF BulkInv, Call
  <2>5. QED
    BY <2>1, <2>3, <2>4 DEF TypeInv
<1>4. CASE UNCHANGED vars
  BY <1>0, <1>4 DEF vars, TypeInv, TypeOK, HoldsLoop, BulkInv, catalogue, caches
<1>5. QED
  BY <1>1, <1>2, <1>3, <1>4 DEF Next, Works

\* Nobody has read anything at first.
LEMMA InitType == Init => TypeInv
  BY ToolboxAssumption DEF Init, EventLoopInit, TypeInv, TypeOK, HoldsLoop, BulkInv, Kept,
                           Tiers, Idle

\* Every reachable state of the toolbox and the catalogue is well typed: only MCPs
\* that the catalogue lists are published or premium.
THEOREM TypeCorrect == Spec => []TypeOK
<1>1. TypeInv => TypeOK
  BY DEF TypeInv
<1>2. QED
  BY <1>1, InitType, NextType, PTL DEF Spec

-----------------------------------------------------------------------------
(* The list that a request writes back. *)

\* What the requests that step in do to the toolbox and to what is known of it.
LEMMA ListMoves ==
    ASSUME TypeInv, NEW q \in Requests, Works(q)
    PROVE  \/ /\ toolbox' = toolbox
              /\ pc'[q] \in Holding =>
                    \/ \E S : Reads(q, S)
                    \/ pc[q] \in Holding /\ seen' = seen /\ blind' = blind
              /\ \A r \in Requests : r # q => blind'[r] = blind[r]
           \/ /\ pc[q] = "write" /\ pc'[q] \notin Holding
              /\ \E S : Puts(q, S)
<1> USE DEF Holding, Outcome, Idle, Asks, Goes, Starts, Awaits, Resumes, Runs, Moves
<1>0. /\ pc \in [Requests -> {Idle} \cup Call \cup Outcome]
      /\ blind \in [Requests -> SUBSET Slugs]
  BY DEF TypeInv, TypeOK
<1>1. CASE Agent(q)
  <2>1. CASE LoadEnabled(q)
    BY <1>0, <2>1 DEF LoadEnabled, Reads
  <2>2. CASE Browse(q)
    BY <1>0, <2>2 DEF Browse, Forgets
  <2>3. CASE AddMcp(q)
    BY <1>0, <2>3 DEF AddMcp, Forgets
  <2>4. CASE RemoveMcp(q)
    BY <1>0, <2>4 DEF RemoveMcp, Forgets
  <2>5. CASE UpdateUserMcps(q)
    BY <1>0, <2>5 DEF UpdateUserMcps
  <2>6. QED
    BY <1>1, <2>1, <2>2, <2>3, <2>4, <2>5 DEF Agent
<1>2. CASE Portal(q)
  <2>1. CASE PruneLoad(q)
    <3>1. toolbox' = toolbox
      BY <2>1 DEF PruneLoad
    <3>2. CASE UNCHANGED <<seen, blind>> /\ pc'[q] = "ok"
      BY <3>1, <3>2
    <3>3. CASE \E S : Reads(q, S)
      BY <1>0, <3>1, <3>3 DEF Reads
    <3>4. QED
      BY <1>0, <2>1, <3>2, <3>3 DEF PruneLoad
  <2>2. CASE CatalogAddLoad(q)
    BY <1>0, <2>2 DEF CatalogAddLoad, Reads
  <2>3. CASE SaveLoad(q)
    BY <1>0, <2>3 DEF SaveLoad, Reads
  <2>4. CASE AutoLoad(q)
    BY <1>0, <2>4 DEF AutoLoad, Reads
  <2>5. CASE SetAllowedMcps(q)
    BY <1>0, <2>5 DEF SetAllowedMcps
  <2>6. CASE AutoCredential(q) \/ SaveCredentials(q)
    BY <1>0, <2>6 DEF AutoCredential, SaveCredentials
  <2>7. QED
    BY <1>2, <2>1, <2>2, <2>3, <2>4, <2>5, <2>6 DEF Portal
<1>3. CASE Panel(q) \/ DatabaseError(q)
  <2>1. toolbox' = toolbox /\ blind' = blind
    BY <1>3 DEF Panel, TogglePublish, PublishDescribed, PublishNew, SyncTools, VisitLoad,
       AutoPublish, VisitDone, BulkLoad, BulkRow, UpsertRailway, BulkDone, CreateCatalogue,
       SaveCatalogue, DeleteCatalogue, SetTier, Untouched, DatabaseError
  <2>2. pc'[q] \notin Holding
    <3>1. CASE TogglePublish(q) \/ PublishDescribed(q) \/ PublishNew(q) \/ SyncTools(q)
      BY <1>0, <3>1 DEF TogglePublish, PublishDescribed, PublishNew, SyncTools
    <3>2. CASE VisitLoad(q) \/ AutoPublish(q) \/ VisitDone(q) \/ BulkLoad(q)
      BY <1>0, <3>2 DEF VisitLoad, AutoPublish, VisitDone, BulkLoad
    <3>3. CASE BulkRow(q) \/ UpsertRailway(q) \/ BulkDone(q) \/ DatabaseError(q)
      BY <1>0, <3>3 DEF BulkRow, UpsertRailway, BulkDone, DatabaseError
    <3>4. CASE CreateCatalogue(q) \/ SaveCatalogue(q) \/ DeleteCatalogue(q) \/ SetTier(q)
      BY <1>0, <3>4 DEF CreateCatalogue, SaveCatalogue, DeleteCatalogue, SetTier
    <3>5. QED
      BY <1>3, <3>1, <3>2, <3>3, <3>4 DEF Panel
  <2>3. QED
    BY <2>1, <2>2
<1>4. QED
  BY <1>1, <1>2, <1>3 DEF Works

\* Where a list in hand is not what the toolbox holds, its reader is blind.
BlindInv ==
    \A r \in Requests : pc[r] \in Holding => Differ(toolbox, seen[r]) \subseteq blind[r]

\* A step of a handler leaves every reader blind to what it changes.
LEMMA BlindStep ==
    ASSUME TypeInv, BlindInv, NEW q \in Requests, Works(q)
    PROVE  BlindInv'
<1> SUFFICES ASSUME NEW r \in Requests, pc'[r] \in Holding
             PROVE  Differ(toolbox', seen'[r]) \subseteq blind'[r]
  BY DEF BlindInv, Differ
<1>0. /\ pc \in [Requests -> {Idle} \cup Call \cup Outcome]
      /\ seen \in [Requests -> SUBSET Slugs] /\ blind \in [Requests -> SUBSET Slugs]
  BY DEF TypeInv, TypeOK
<1>1. CASE toolbox' = toolbox
           /\ (pc'[q] \in Holding =>
                 \/ \E S : Reads(q, S)
                 \/ pc[q] \in Holding /\ seen' = seen /\ blind' = blind)
           /\ \A s \in Requests : s # q => blind'[s] = blind[s]
  <2>1. CASE r = q
    <3>1. ASSUME NEW S, Reads(q, S) PROVE Differ(toolbox', seen'[r]) \subseteq blind'[r]
      BY <1>0, <1>1, <2>1, <3>1 DEF Reads
    <3>2. CASE pc[q] \in Holding /\ seen' = seen /\ blind' = blind
      BY <1>1, <2>1, <3>2 DEF BlindInv
    <3>3. QED
      BY <1>1, <2>1, <3>1, <3>2
  <2>2. CASE r # q
    BY <1>0, <1>1, <2>2, LoopMoves, SeenMoves DEF BlindInv
  <2>3. QED
    BY <2>1, <2>2
<1>2. ASSUME pc'[q] \notin Holding, NEW S, Puts(q, S)
      PROVE  Differ(toolbox', seen'[r]) \subseteq blind'[r]
  <2>1. r # q
    BY <1>2
  <2>2. pc[r] \in Holding /\ seen'[r] = seen[r]
    BY <1>0, <2>1, LoopMoves, SeenMoves
  <2>3. toolbox' = S /\ blind'[r] = blind[r] \cup Differ(toolbox, S)
    BY <1>0, <1>2, <2>1, <2>2 DEF Puts
  <2>4. QED
    BY <2>2, <2>3 DEF BlindInv, Differ
<1>3. QED
  BY <1>1, <1>2, ListMoves

\* Time, crashes and stuttering blind nobody.
LEMMA BlindNext == TypeInv /\ BlindInv /\ [Next]_vars => BlindInv'
<1> SUFFICES ASSUME TypeInv, BlindInv, [Next]_vars PROVE BlindInv'
  OBVIOUS
<1>0. pc \in [Requests -> {Idle} \cup Call \cup Outcome]
  BY DEF TypeInv, TypeOK
<1>1. ASSUME NEW p \in Procs, Expire(p) PROVE BlindInv'
  BY <1>1 DEF Expire, BlindInv, Differ
<1>2. ASSUME NEW p \in Procs, Crash(p) PROVE BlindInv'
  <2>1. /\ UNCHANGED <<toolbox, seen, blind>>
        /\ \A r \in Requests : pc'[r] \in Holding => pc[r] \in Holding
    BY <1>0, <1>2 DEF Crash, Holding
  <2>2. QED
    BY <2>1 DEF BlindInv, Differ
<1>3. CASE UNCHANGED vars
  BY <1>3 DEF vars, BlindInv, Differ
<1>4. QED
  BY <1>1, <1>2, <1>3, BlindStep DEF Next, Works

\* Who writes a list back changes it where it was asked to, or was blind.
LEMMA WritesWhatItMust ==
    ASSUME TypeInv, BlindInv, [Next]_vars, NEW s \in Differ(toolbox, toolbox')
    PROVE  \E r \in Requests : pc'[r] # pc[r] /\ (AskedOf(r, s) \/ s \in blind[r])
<1>0. toolbox' # toolbox
  BY DEF Differ
<1>1. PICK q \in Requests : Works(q)
  BY <1>0 DEF Next, Works, Expire, Crash, vars
<1>2. UpdateUserMcps(q) \/ SetAllowedMcps(q)
  BY <1>0, <1>1 DEF Works, Agent, LoadEnabled, Browse, AddMcp, RemoveMcp, Portal, PruneLoad,
     CatalogAddLoad, SaveLoad, AutoLoad, AutoCredential, SaveCredentials,
     Panel, TogglePublish, PublishDescribed, PublishNew, SyncTools, VisitLoad,
     AutoPublish, VisitDone, BulkLoad, BulkRow, UpsertRailway, BulkDone, CreateCatalogue,
     SaveCatalogue, DeleteCatalogue, SetTier, Untouched, DatabaseError
<1>3. pc[q] = "write" /\ pc'[q] # pc[q]
  <2>1. pc \in [Requests -> {Idle} \cup Call \cup Outcome]
    BY DEF TypeInv, TypeOK
  <2>2. QED
    BY <1>2, <2>1 DEF UpdateUserMcps, SetAllowedMcps, Goes, Runs, Moves
<1>4. Differ(toolbox, seen[q]) \subseteq blind[q]
  BY <1>3 DEF BlindInv, Holding
<1>5. AskedOf(q, s) \/ s \in Differ(toolbox, seen[q])
  <2>1. CASE UpdateUserMcps(q)
    BY <2>1 DEF UpdateUserMcps, Goes, Puts, AskedOf, Differ
  <2>2. CASE SetAllowedMcps(q)
    BY <2>2 DEF SetAllowedMcps, Goes, Puts, AskedOf, Differ, AutoAdded
  <2>3. QED
    BY <1>2, <2>1, <2>2
<1>6. QED
  BY <1>3, <1>4, <1>5

\* A request changes the toolbox where it was asked to, and elsewhere only where the
\* list that it had read did not show what the toolbox holds.
THEOREM ToolboxChangesAsAsked == Spec => ChangesWhatItMust
<1>1. Init => TypeInv /\ BlindInv
  BY InitType DEF Init, EventLoopInit, BlindInv, Holding, Idle
<1>2. (TypeInv /\ BlindInv) /\ [Next]_vars => (TypeInv /\ BlindInv)'
  BY NextType, BlindNext
<1>3. (TypeInv /\ BlindInv) /\ [Next]_vars =>
        [\A s \in Differ(toolbox, toolbox') :
            \E r \in Requests : pc'[r] # pc[r] /\ (AskedOf(r, s) \/ s \in blind[r])]_vars
  BY WritesWhatItMust
<1>4. QED
  BY <1>1, <1>2, <1>3, PTL DEF Spec, ChangesWhatItMust

-----------------------------------------------------------------------------
(* Lists that are written back without an await. *)

\* One process serves every request.
OneProc == \A q, r \in Requests : at[q] = at[r]
StaleInv == TypeInv /\ OnlyAgentsAreStale

\* A step of a handler leaves the portal's lists up to date.
LEMMA StaleStep ==
    ASSUME StaleInv, OneProc, NEW q \in Requests, Works(q),
           NEW r \in Requests, pc'[r] = "write"
    PROVE  /\ Kind[r] \in {"catalogAdd", "autoAdd", "autoRemove"} => seen'[r] = toolbox'
           /\ Kind[r] = "view" => seen'[r] = toolbox' \cap OfferedTo(tier)'
<1>0. /\ pc \in [Requests -> {Idle} \cup Call \cup Outcome]
      /\ seen \in [Requests -> SUBSET Slugs]
      /\ TypeInv /\ NoRequest \notin Requests
  BY ToolboxAssumption DEF StaleInv, TypeInv, TypeOK
<1>1. CASE r # q
  <2>1. pc[r] = "write"
    BY <1>0, <1>1, LoopMoves
  <2>2. loop[at[r]] = r /\ at[r] = at[q]
    BY <1>0, <2>1 DEF TypeInv, HoldsLoop, Kept, OneProc
  <2>3. QED
    BY <1>0, <1>1, <2>2, LoopMoves
<1>2. CASE r = q
  <2> USE <1>0, <1>2 DEF Asks, Goes, Starts, Runs, Awaits, Resumes, Moves
  <2>1. CASE Agent(q)
    BY <2>1 DEF Agent, LoadEnabled, Browse, AddMcp, RemoveMcp, UpdateUserMcps, AgentKinds
  <2>2. CASE PruneLoad(q)
    BY <2>2 DEF PruneLoad, Reads, OfferedTo, catalogue
  <2>3. CASE CatalogAddLoad(q)
    BY <2>3 DEF CatalogAddLoad, Reads
  <2>4. CASE SaveLoad(q)
    BY <2>4 DEF SaveLoad
  <2>5. CASE AutoLoad(q)
    BY <2>5 DEF AutoLoad, Reads
  <2>6. CASE SetAllowedMcps(q) \/ AutoCredential(q) \/ SaveCredentials(q)
    BY <2>6 DEF SetAllowedMcps, AutoCredential, SaveCredentials
  <2>7. CASE DatabaseError(q)
    BY <2>7 DEF DatabaseError
  <2>8. CASE Panel(q)
    <3>1. pc'[q] \notin Holding
      <4> USE DEF Holding, Idle
      <4>1. CASE TogglePublish(q) \/ PublishDescribed(q) \/ PublishNew(q) \/ SyncTools(q)
        BY <4>1 DEF TogglePublish, PublishDescribed, PublishNew, SyncTools
      <4>2. CASE VisitLoad(q) \/ AutoPublish(q) \/ VisitDone(q) \/ BulkLoad(q)
        BY <4>2 DEF VisitLoad, AutoPublish, VisitDone, BulkLoad
      <4>3. CASE BulkRow(q) \/ UpsertRailway(q) \/ BulkDone(q)
        BY <4>3 DEF BulkRow, UpsertRailway, BulkDone
      <4>4. CASE CreateCatalogue(q) \/ SaveCatalogue(q) \/ DeleteCatalogue(q) \/ SetTier(q)
        BY <4>4 DEF CreateCatalogue, SaveCatalogue, DeleteCatalogue, SetTier
      <4>5. QED
        BY <2>8, <4>1, <4>2, <4>3, <4>4 DEF Panel
    <3>2. QED
      BY <3>1 DEF Holding
  <2>9. QED
    BY <2>1, <2>2, <2>3, <2>4, <2>5, <2>6, <2>7, <2>8 DEF Works, Portal
<1>3. QED
  BY <1>1, <1>2

\* Time, crashes and stuttering change no list.
LEMMA StaleNext == StaleInv /\ [Next]_vars => StaleInv'
<1> SUFFICES ASSUME StaleInv, [Next]_vars, OneProc',
                    NEW r \in Requests, pc'[r] = "write"
             PROVE  /\ Kind[r] \in {"catalogAdd", "autoAdd", "autoRemove"} => seen'[r] = toolbox'
                    /\ Kind[r] = "view" => seen'[r] = toolbox' \cap OfferedTo(tier)'
  BY NextType DEF StaleInv, OnlyAgentsAreStale, OneProc
<1>0. pc \in [Requests -> {Idle} \cup Call \cup Outcome] /\ TypeInv
  BY DEF StaleInv, TypeInv, TypeOK
<1>1. OneProc
  <2>1. at' = at
    BY <1>0, LoopMoves DEF Next, Works, Expire, Crash, vars
  <2>2. QED
    BY <2>1 DEF OneProc
<1>2. CASE \E q \in Requests : Works(q)
  BY <1>1, <1>2, StaleStep
<1>3. CASE ~ \E q \in Requests : Works(q)
  <2>1. /\ UNCHANGED <<toolbox, seen, tier, published, premium>>
        /\ pc[r] = "write"
    BY <1>0, <1>3 DEF Next, Works, Expire, Crash, vars, catalogue
  <2>2. QED
    BY <1>1, <2>1 DEF StaleInv, OnlyAgentsAreStale, OneProc, OfferedTo
<1>4. QED
  BY <1>2, <1>3

\* In one process the portal and the Scholar service never write back an old list.
THEOREM OnlyAgentsWriteStale == Spec => []OnlyAgentsAreStale
<1>1. Init => StaleInv
  BY InitType DEF Init, EventLoopInit, StaleInv, OnlyAgentsAreStale, Idle
<1>2. StaleInv => OnlyAgentsAreStale
  BY DEF StaleInv
<1>3. QED
  BY <1>1, <1>2, StaleNext, PTL DEF Spec

-----------------------------------------------------------------------------
(* The catalogue. *)

\* What publishes an MCP that the catalogue lists as unpublished was asked to.
LEMMA PublishesWhatItMust ==
    ASSUME TypeInv, [Next]_vars, NEW s \in (listed \ published) \cap published'
    PROVE  \E r \in Requests :
              /\ pc'[r] # pc[r] \/ seen'[r] # seen[r]
              /\ s \in SlugsOf[r]
              /\ Kind[r] = "bulk" => Change[r] = "publish"
              /\ Kind[r] \in {"toggle", "bulk"}
<1>0. /\ pc \in [Requests -> {Idle} \cup Call \cup Outcome]
      /\ seen \in [Requests -> SUBSET Slugs]
      /\ BulkInv /\ published' # published
  BY DEF TypeInv, TypeOK
<1>1. PICK q \in Requests : Works(q)
  BY <1>0 DEF Next, Works, Expire, Crash, vars, catalogue
<1>2. ~ (Agent(q) \/ Portal(q) \/ DatabaseError(q))
  BY <1>0 DEF Agent, LoadEnabled, Browse, AddMcp, RemoveMcp, UpdateUserMcps, Portal, PruneLoad,
     CatalogAddLoad, SaveLoad, AutoLoad, SetAllowedMcps, AutoCredential, SaveCredentials,
     DatabaseError, catalogue
<1> USE DEF Asks, Goes, Starts, Runs, Awaits, Resumes, Moves
<1>3. CASE PublishDescribed(q)
  BY <1>0, <1>3 DEF PublishDescribed, RowOf
<1>4. CASE BulkRow(q)
  <2>1. /\ Kind[q] = "bulk" /\ pc[q] = "bulk" /\ seen[q] # {}
        /\ First(seen[q]) \in seen[q]
    BY <1>4, FirstIn DEF BulkRow
  <2>2. First(seen[q]) \in SlugsOf[q]
    BY <1>0, <2>1 DEF BulkInv
  <2>3. /\ seen' = [seen EXCEPT ![q] = @ \ {First(seen[q])}]
        /\ Sets(q, First(seen[q]))
    BY <1>0, <1>4 DEF BulkRow, catalogue
  <2>4. s = First(seen[q]) /\ Change[q] = "publish"
    BY <2>3 DEF Sets, RowOf
  <2>5. seen'[q] # seen[q]
    BY <1>0, <2>1, <2>3
  <2>6. QED
    BY <2>1, <2>2, <2>4, <2>5
<1>5. ~ (SaveCatalogue(q) \/ CreateCatalogue(q))
  BY ToolboxAssumption DEF SaveCatalogue, Sets, CreateCatalogue, Inserts, Tiers, catalogue
<1>6. ~ (PublishNew(q) \/ AutoPublish(q) \/ UpsertRailway(q))
  BY DEF PublishNew, AutoPublish, UpsertRailway, Inserts, Absent, catalogue
<1>7. ~ (TogglePublish(q) \/ SyncTools(q) \/ VisitLoad(q) \/ VisitDone(q) \/ BulkLoad(q)
         \/ BulkDone(q) \/ DeleteCatalogue(q) \/ SetTier(q))
  BY <1>0 DEF TogglePublish, SyncTools, VisitLoad, VisitDone, BulkLoad, BulkDone,
              DeleteCatalogue, SetTier, catalogue
<1>8. QED
  BY <1>1, <1>2, <1>3, <1>4, <1>5, <1>6, <1>7 DEF Works, Panel

\* An MCP that an admin has unpublished is published again only by a request to.
THEOREM UnpublishedStays == Spec => StaysUnpublished
<1>1. TypeInv /\ [Next]_vars =>
        [\A s \in (listed \ published) \cap published' :
            \E r \in Requests :
                /\ pc'[r] # pc[r] \/ seen'[r] # seen[r]
                /\ s \in SlugsOf[r]
                /\ Kind[r] = "bulk" => Change[r] = "publish"
                /\ Kind[r] \in {"toggle", "bulk"}]_vars
  BY PublishesWhatItMust
<1>2. QED
  BY <1>1, InitType, NextType, PTL DEF Spec, StaysUnpublished
=============================================================================
