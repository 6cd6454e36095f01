------------------------------ MODULE Toolbox ------------------------------
(***************************************************************************)
(* One user's toolbox, users.allowed_mcp_resources, and the catalogue it    *)
(* is picked from.  The list is stored as a whole: whoever changes it       *)
(* writes back a list made from the one that it has read.  The agent's      *)
(* tools read it when their HTTP request begins and write it when the tool  *)
(* runs, and other requests run in between; the portal, the Scholar service *)
(* and the panel also write it, or change what the catalogue offers.        *)
(*                                                                          *)
(* The grain is one list read with the reads that go with it, and one       *)
(* write.                                                                   *)
(***************************************************************************)
EXTENDS Naturals, EventLoop

CONSTANTS
    Slugs,        \* the MCP servers
    Railway,      \* those that Railway lists with an upstream URL
    Kind,         \* Kind[r]: what r asks for
    SlugsOf,      \* SlugsOf[r]: the MCPs r names: one, or what a form selects
    Change,       \* Change[r]: what a request of the panel sets
    NoShelf,      \* a cache of the catalogue without the entry
    MaxFaults     \* bound: crashes and failed database calls in a behaviour

Tiers == {"standard", "super"}
Unread == "unread"
AgentKinds == {"add", "remove", "browse"}
OneSlug == {"add", "remove", "catalogAdd", "autoAdd", "autoRemove", "credentials",
            "toggle", "create", "edit", "delete"}
Kinds == AgentKinds \cup OneSlug \cup {"view", "save", "bulk", "visit", "setTier"}
Changes == Tiers \cup {"publish", "unpublish", "cost"}

ASSUME ToolboxAssumption ==
    /\ Railway \subseteq Slugs
    /\ NoShelf \notin SUBSET Slugs
    /\ NoRequest \notin Requests
    /\ Kind \in [Requests -> Kinds]
    /\ SlugsOf \in [Requests -> SUBSET Slugs]
    /\ \A r \in Requests : Kind[r] \in OneSlug => \E s \in Slugs : SlugsOf[r] = {s}
    /\ Change \in [Requests -> Changes]
    /\ \A r \in Requests : Kind[r] \in {"create", "edit", "setTier"} => Change[r] \in Tiers
    /\ MaxFaults \in Nat

VARIABLES
    toolbox,      \* users.allowed_mcp_resources
    tier,         \* users.tier
    listed,       \* the rows of mcp_catalogue
    published,    \* is_published
    premium,      \* tier = super
    credential,   \* the MCPs with a row in client_mcp_credentials
    shelfCache,   \* per process, _published_mcps_cache
    tierCache,    \* per process, _user_tier_cache
    seen,         \* the list of MCPs that a request has read
    blind,        \* history: where the toolbox is not what the request took it for
    faults

catalogue == <<listed, published, premium>>
caches == <<shelfCache, tierCache>>
vars == <<toolbox, tier, catalogue, credential, caches, seen, blind, at, pc, loop, faults>>

Call == {"call", "write", "credential", "describe", "publish", "insert", "sync", "bulk"}

TypeOK ==
    /\ toolbox \cup credential \cup listed \subseteq Slugs
    /\ tier \in Tiers
    /\ published \cup premium \subseteq listed
    /\ shelfCache \in [Procs -> [Tiers -> (SUBSET Slugs) \cup {NoShelf}]]
    /\ tierCache \in [Procs -> Tiers \cup {Unread}]
    /\ seen \in [Requests -> SUBSET Slugs]
    /\ blind \in [Requests -> SUBSET Slugs]
    /\ at \in [Requests -> Procs]
    /\ pc \in [Requests -> {Idle} \cup Call \cup Outcome]
    /\ loop \in [Procs -> Requests \cup {NoRequest}]
    /\ faults \in 0 .. MaxFaults

Init ==
    /\ toolbox \subseteq Slugs
    /\ tier = "standard"
    /\ listed \subseteq Slugs
    /\ published \subseteq listed
    /\ premium \subseteq listed
    /\ credential = {}
    /\ shelfCache = [p \in Procs |-> [t \in Tiers |-> NoShelf]]
    /\ tierCache = [p \in Procs |-> Unread]
    /\ seen = [r \in Requests |-> {}]
    /\ blind = [r \in Requests |-> {}]
    /\ EventLoopInit
    /\ faults = 0

-----------------------------------------------------------------------------
(* Reading and writing the list.                                            *)

\* Mutant: an await between the read and the write.
AsksAndAwaits(r, kinds, to) == Kind[r] \in kinds /\ Awaits(r, Idle, to)

Asks(r, kinds, to) == Kind[r] \in kinds /\ Starts(r, to)
Goes(r, kinds, from, to) == Kind[r] \in kinds /\ Runs(r, from, to)

OfferedTo(t) == published \ (IF t = "super" THEN {} ELSE premium)
Differ(S, T) == (S \ T) \cup (T \ S)

\* A request keeps the list S; the rest of the toolbox it will know nothing of.
Reads(r, S) ==
    /\ seen' = [seen EXCEPT ![r] = S]
    /\ blind' = [blind EXCEPT ![r] = Differ(toolbox, S)]

Forgets(r) ==
    /\ seen' = [seen EXCEPT ![r] = {}]
    /\ blind' = [blind EXCEPT ![r] = {}]

\* A write of the list makes every other request's copy out of date.
Holding == {"call", "write"}
Puts(r, S) ==
    /\ toolbox' = S
    /\ seen' = [seen EXCEPT ![r] = {}]
    /\ blind' = [q \in Requests |->
          IF q = r THEN {}
          ELSE IF pc[q] \in Holding THEN blind[q] \cup Differ(toolbox, S) ELSE blind[q]]

-----------------------------------------------------------------------------
(* The agent's tools: browse_mcps, add_mcp and remove_mcp.                  *)

LoadEnabled(r) ==
    /\ Kind[r] \in AgentKinds
    /\ Awaits(r, Idle, "call")
    /\ Reads(r, toolbox \cap OfferedTo(tier))
    /\ UNCHANGED <<toolbox, tier, catalogue, credential, caches, faults>>

GetUserTier(p) == IF tierCache[p] = Unread THEN tier ELSE tierCache[p]
AllPublished(p) ==
    LET t == GetUserTier(p) IN
    IF shelfCache[p][t] = NoShelf THEN OfferedTo(t) ELSE shelfCache[p][t]

\* The two lookups leave what they have found in the caches of the process.
Looks(p) ==
    /\ tierCache' = [tierCache EXCEPT ![p] = GetUserTier(p)]
    /\ shelfCache' = [shelfCache EXCEPT ![p][GetUserTier(p)] = AllPublished(p)]

Browse(r) ==
    /\ Kind[r] = "browse"
    /\ Resumes(r, "call", "ok")
    /\ Looks(at[r])
    /\ Forgets(r)
    /\ UNCHANGED <<toolbox, tier, catalogue, credential, faults>>

AddMcp(r) ==
    /\ Kind[r] = "add"
    /\ pc[r] = "call"
    /\ Looks(at[r])
    /\ IF SlugsOf[r] \subseteq AllPublished(at[r]) /\ SlugsOf[r] \cap seen[r] = {}
         THEN Resumes(r, "call", "write") /\ UNCHANGED <<seen, blind>>
         ELSE /\ Resumes(r, "call", IF SlugsOf[r] \subseteq AllPublished(at[r])
                                      THEN "duplicate" ELSE "refused")
              /\ Forgets(r)
    /\ UNCHANGED <<toolbox, tier, catalogue, credential, faults>>

RemoveMcp(r) ==
    /\ Kind[r] = "remove"
    /\ IF SlugsOf[r] \subseteq seen[r]
         THEN Resumes(r, "call", "write") /\ UNCHANGED <<seen, blind>>
         ELSE Resumes(r, "call", "refused") /\ Forgets(r)
    /\ UNCHANGED <<toolbox, tier, catalogue, credential, caches, faults>>

UpdateUserMcps(r) ==
    /\ Goes(r, {"add", "remove"}, "write", "ok")
    /\ Puts(r, IF Kind[r] = "add" THEN seen[r] \cup SlugsOf[r] ELSE seen[r] \ SlugsOf[r])
    /\ UNCHANGED <<tier, catalogue, credential, caches, faults>>

-----------------------------------------------------------------------------
(* The portal's pages and the Scholar service.                              *)

\* A page that lists the toolbox first drops what is not offered any more.
PruneLoad(r) ==
    /\ LET kept == toolbox \cap OfferedTo(tier) IN
       IF kept = toolbox
         THEN Asks(r, {"view"}, "ok") /\ UNCHANGED <<seen, blind>>
         ELSE Asks(r, {"view"}, "write") /\ Reads(r, kept)
    /\ UNCHANGED <<toolbox, tier, catalogue, credential, caches, faults>>

CatalogAddLoad(r) ==
    /\ IF ~ SlugsOf[r] \subseteq OfferedTo(tier)
         THEN Asks(r, {"catalogAdd"}, "refused") /\ UNCHANGED <<seen, blind>>
         ELSE IF SlugsOf[r] \subseteq toolbox
         THEN Asks(r, {"catalogAdd"}, "duplicate") /\ UNCHANGED <<seen, blind>>
         ELSE Asks(r, {"catalogAdd"}, "write") /\ Reads(r, toolbox)
    /\ UNCHANGED <<toolbox, tier, catalogue, credential, caches, faults>>

\* The form replaces the list.  The webhook that tells scholar-web comes after
\* the write, is best effort and changes nothing here.
SaveLoad(r) ==
    /\ Asks(r, {"save"}, "write")
    /\ Reads(r, SlugsOf[r] \cap OfferedTo(tier))
    /\ UNCHANGED <<toolbox, tier, catalogue, credential, caches, faults>>

\* Mutant: the service stores a list of its own entry.
AutoAddAlone(r) == SlugsOf[r]

AutoAdded(r) == seen[r] \cup SlugsOf[r]

AutoLoad(r) ==
    /\ IF SlugsOf[r] \subseteq toolbox <=> Kind[r] = "autoAdd"
         THEN /\ Asks(r, {"autoAdd", "autoRemove"}, "credential")
              /\ UNCHANGED <<seen, blind>>
         ELSE Asks(r, {"autoAdd", "autoRemove"}, "write") /\ Reads(r, toolbox)
    /\ UNCHANGED <<toolbox, tier, catalogue, credential, caches, faults>>

SetAllowedMcps(r) ==
    /\ \/ Goes(r, {"view", "save"}, "write", "ok") /\ Puts(r, seen[r])
       \/ Goes(r, {"catalogAdd"}, "write", "ok") /\ Puts(r, seen[r] \cup SlugsOf[r])
       \/ Goes(r, {"autoAdd"}, "write", "credential") /\ Puts(r, AutoAdded(r))
       \/ Goes(r, {"autoRemove"}, "write", "credential") /\ Puts(r, seen[r] \ SlugsOf[r])
    /\ UNCHANGED <<tier, catalogue, credential, caches, faults>>

AutoCredential(r) ==
    /\ Goes(r, {"autoAdd", "autoRemove"}, "credential", "ok")
    /\ credential' = IF Kind[r] = "autoAdd" THEN credential \cup SlugsOf[r]
                                            ELSE credential \ SlugsOf[r]
    /\ UNCHANGED <<toolbox, tier, catalogue, caches, seen, blind, faults>>

\* The user's own form; it asks for a published MCP, not for one in the toolbox.
SaveCredentials(r) ==
    /\ IF SlugsOf[r] \subseteq published
         THEN Asks(r, {"credentials"}, "ok") /\ credential' = credential \cup SlugsOf[r]
         ELSE Asks(r, {"credentials"}, "refused") /\ UNCHANGED credential
    /\ UNCHANGED <<toolbox, tier, catalogue, caches, seen, blind, faults>>

-----------------------------------------------------------------------------
(* The panel's catalogue.  An MCP that Railway lists and the catalogue does *)
(* not gets a row once the server has been asked to describe itself.        *)

First(S) == CHOOSE s \in S : TRUE
Untouched == UNCHANGED <<toolbox, tier, credential, caches, blind, faults>>

\* Mutant: a second insert of a slug overwrites the row.
Overwrites(s) == s \in Slugs

Absent(s) == s \notin listed

\* Mutant: an update makes the rows that it does not find.
AnyRow(s) == {s}

\* The rows that an update of a slug hits.
RowOf(s) == {s} \cap listed

\* The slug is the key: an insert that finds it raises.
Inserts(s, live, t) ==
    /\ listed' = listed \cup {s}
    /\ published' = IF live THEN published \cup {s} ELSE published \ {s}
    /\ premium' = IF t = "super" THEN premium \cup {s} ELSE premium \ {s}

TogglePublish(r) ==
    \E s \in SlugsOf[r] :
        /\ Kind[r] = "toggle"
        /\ Untouched /\ UNCHANGED <<listed, premium, seen>>
        /\ \/ /\ s \in published
              /\ Starts(r, "ok")
              /\ published' = published \ {s}
           \/ /\ s \in listed \ published \/ s \in Railway \ listed
              /\ Awaits(r, Idle, IF s \in listed THEN "publish" ELSE "insert")
              /\ UNCHANGED published
           \/ s \notin listed \cup Railway /\ Starts(r, "refused") /\ UNCHANGED published

\* An update of a row that has been deleted meanwhile does nothing.
PublishDescribed(r) ==
    /\ Kind[r] = "toggle" /\ pc[r] = "publish"
    /\ Resumes(r, "publish", "sync")
    /\ published' = published \cup UNION {RowOf(s) : s \in SlugsOf[r]}
    /\ Untouched /\ UNCHANGED <<listed, premium, seen>>

PublishNew(r) ==
    \E s \in SlugsOf[r] :
        /\ Kind[r] = "toggle" /\ pc[r] = "insert"
        /\ IF Absent(s) THEN Resumes(r, "insert", "sync") /\ Inserts(s, TRUE, "standard")
                        ELSE Resumes(r, "insert", "failed") /\ UNCHANGED catalogue
        /\ Untouched /\ UNCHANGED seen

\* mcp_tools is refreshed last.
SyncTools(r) ==
    /\ Awaits(r, "sync", "ok")
    /\ Untouched /\ UNCHANGED <<catalogue, seen>>

\* The list page publishes what is new on Railway, one after the other.
VisitLoad(r) ==
    /\ Kind[r] = "visit"
    /\ Awaits(r, Idle, "describe")
    /\ seen' = [seen EXCEPT ![r] = Railway \ listed]
    /\ Untouched /\ UNCHANGED catalogue

AutoPublish(r) ==
    /\ Kind[r] = "visit" /\ seen[r] # {}
    /\ Awaits(r, "describe", "describe")
    /\ LET s == First(seen[r]) IN
       /\ seen' = [seen EXCEPT ![r] = @ \ {s}]
       /\ IF Absent(s) THEN Inserts(s, TRUE, "standard") ELSE UNCHANGED catalogue
    /\ Untouched

VisitDone(r) ==
    /\ Kind[r] = "visit" /\ seen[r] = {}
    /\ Resumes(r, "describe", "ok")
    /\ Untouched /\ UNCHANGED <<catalogue, seen>>

\* What an update of one row sets.
Sets(r, s) ==
    /\ published' = CASE Change[r] = "publish" -> published \cup RowOf(s)
                      [] Change[r] = "unpublish" -> published \ {s}
                      [] OTHER -> published
    /\ premium' = CASE Change[r] = "super" -> premium \cup RowOf(s)
                    [] Change[r] = "standard" -> premium \ {s}
                    [] OTHER -> premium
    /\ UNCHANGED listed

BulkLoad(r) ==
    /\ Asks(r, {"bulk"}, "bulk")
    /\ seen' = [seen EXCEPT ![r] = SlugsOf[r]]
    /\ Untouched /\ UNCHANGED catalogue

\* One row after the other.  A slug that only Railway knows is described first,
\* and inserted with what the form sets.
BulkRow(r) ==
    /\ Kind[r] = "bulk" /\ pc[r] = "bulk" /\ seen[r] # {}
    /\ LET s == First(seen[r]) IN
       IF s \in Railway \ listed
         THEN Awaits(r, "bulk", "insert") /\ UNCHANGED <<catalogue, seen>>
         ELSE /\ Runs(r, "bulk", "bulk")
              /\ seen' = [seen EXCEPT ![r] = @ \ {s}]
              /\ Sets(r, s)
    /\ Untouched

UpsertRailway(r) ==
    /\ Kind[r] = "bulk" /\ pc[r] = "insert"
    /\ LET s == First(seen[r]) IN
       IF Absent(s)
         THEN /\ Resumes(r, "insert", "bulk")
              /\ seen' = [seen EXCEPT ![r] = @ \ {s}]
              /\ Inserts(s, Change[r] = "publish", Change[r])
         ELSE Resumes(r, "insert", "failed") /\ UNCHANGED <<catalogue, seen>>
    /\ Untouched

BulkDone(r) ==
    /\ seen[r] = {}
    /\ Goes(r, {"bulk"}, "bulk", "ok")
    /\ Untouched /\ UNCHANGED <<catalogue, seen>>

CreateCatalogue(r) ==
    \E s \in SlugsOf[r] :
        /\ Kind[r] = "create"
        /\ IF Absent(s)
             THEN Starts(r, "ok") /\ Inserts(s, FALSE, Change[r])
             ELSE Starts(r, "refused") /\ UNCHANGED catalogue
        /\ Untouched /\ UNCHANGED seen

SaveCatalogue(r) ==
    \E s \in SlugsOf[r] :
        /\ IF s \in listed THEN Asks(r, {"edit"}, "ok") /\ Sets(r, s)
                           ELSE Asks(r, {"edit"}, "refused") /\ UNCHANGED catalogue
        /\ Untouched /\ UNCHANGED seen

DeleteCatalogue(r) ==
    /\ Asks(r, {"delete"}, "ok")
    /\ listed' = listed \ SlugsOf[r]
    /\ published' = published \ SlugsOf[r]
    /\ premium' = premium \ SlugsOf[r]
    /\ Untouched /\ UNCHANGED seen

SetTier(r) ==
    /\ Asks(r, {"setTier"}, "ok")
    /\ tier' = Change[r]
    /\ UNCHANGED <<toolbox, catalogue, credential, caches, seen, blind, faults>>

-----------------------------------------------------------------------------
(* Time and faults.                                                         *)

\* Sixty seconds after it was cached an entry is gone.
Expire(p) ==
    /\ \/ tierCache' = [tierCache EXCEPT ![p] = Unread] /\ UNCHANGED shelfCache
       \/ \E t \in Tiers :
             /\ shelfCache' = [shelfCache EXCEPT ![p][t] = NoShelf]
             /\ UNCHANGED tierCache
    /\ UNCHANGED <<toolbox, tier, catalogue, credential, seen, blind, at, pc, loop, faults>>

DatabaseError(r) ==
    /\ faults < MaxFaults
    /\ pc[r] \in {"call", "write", "credential", "publish", "insert", "bulk"}
    /\ loop[at[r]] \in {NoRequest, r}
    /\ Runs(r, pc[r], "failed")
    /\ faults' = faults + 1
    /\ UNCHANGED <<toolbox, tier, catalogue, credential, caches, seen, blind>>

Crash(p) ==
    /\ faults < MaxFaults
    /\ \E r \in Requests : at[r] = p /\ pc[r] \in Call
    /\ pc' = [r \in Requests |-> IF at[r] = p /\ pc[r] \in Call THEN "crashed" ELSE pc[r]]
    /\ loop' = [loop EXCEPT ![p] = NoRequest]
    /\ tierCache' = [tierCache EXCEPT ![p] = Unread]
    /\ shelfCache' = [shelfCache EXCEPT ![p] = [t \in Tiers |-> NoShelf]]
    /\ faults' = faults + 1
    /\ UNCHANGED <<toolbox, tier, catalogue, credential, seen, blind, at>>

Agent(r) == LoadEnabled(r) \/ Browse(r) \/ AddMcp(r) \/ RemoveMcp(r) \/ UpdateUserMcps(r)

Portal(r) ==
    \/ PruneLoad(r) \/ CatalogAddLoad(r) \/ SaveLoad(r) \/ AutoLoad(r)
    \/ SetAllowedMcps(r) \/ AutoCredential(r) \/ SaveCredentials(r)

Panel(r) ==
    \/ TogglePublish(r) \/ PublishDescribed(r) \/ PublishNew(r) \/ SyncTools(r)
    \/ VisitLoad(r) \/ AutoPublish(r) \/ VisitDone(r)
    \/ BulkLoad(r) \/ BulkRow(r) \/ UpsertRailway(r) \/ BulkDone(r)
    \/ CreateCatalogue(r) \/ SaveCatalogue(r) \/ DeleteCatalogue(r) \/ SetTier(r)

Next ==
    \/ \E r \in Requests :
          /\ pc[r] \notin Outcome
          /\ Agent(r) \/ Portal(r) \/ Panel(r) \/ DatabaseError(r)
    \/ \E p \in Procs : Expire(p) \/ Crash(p)

Spec == Init /\ [][Next]_vars

-----------------------------------------------------------------------------
(* Properties.                                                              *)

AskedOf(r, s) ==
    \/ Kind[r] = "save"
    \/ Kind[r] \in {"add", "remove", "catalogAdd", "autoAdd", "autoRemove"} /\ s \in SlugsOf[r]

\* A request changes the toolbox where it was asked to, and elsewhere only where
\* the list it has read did not show what the toolbox holds: it undoes what
\* others did since, and drops what the catalogue did not offer.  The list is
\* written back as a whole by seven handlers, each in its own way.
ChangesWhatItMust ==
    [][\A s \in Differ(toolbox, toolbox') :
          \E r \in Requests : pc'[r] # pc[r] /\ (AskedOf(r, s) \/ s \in blind[r])]_vars

\* In one process the portal and the Scholar service never write back an old
\* list: their handlers read and write it with no await in between.  So it is
\* the agent's tools alone that undo what other requests did.
OnlyAgentsAreStale ==
    (\A q, r \in Requests : at[q] = at[r]) =>
        \A r \in Requests : pc[r] = "write" =>
            /\ Kind[r] \in {"catalogAdd", "autoAdd", "autoRemove"} => seen[r] = toolbox
            /\ Kind[r] = "view" => seen[r] = toolbox \cap OfferedTo(tier)

\* An MCP that an admin has unpublished is published again only by a request to
\* publish it: not by the list page, which publishes what is new on Railway and
\* may have looked before the row was there.
StaysUnpublished ==
    [][\A s \in (listed \ published) \cap published' :
          \E r \in Requests :
              /\ pc'[r] # pc[r] \/ seen'[r] # seen[r]
              /\ s \in SlugsOf[r]
              /\ Kind[r] = "bulk" => Change[r] = "publish"
              /\ Kind[r] \in {"toggle", "bulk"}]_vars
=============================================================================
