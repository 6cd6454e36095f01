---------------------------- MODULE OAuthGrants ----------------------------
(***************************************************************************)
(* The life of an authorization: /authorize opens a session, a user logs   *)
(* in to the portal and consents, the client exchanges the code for a pair *)
(* of tokens and refreshes it, somebody revokes it, and the gateway lets   *)
(* bearers in on the word of a per-process cache.  The grain is one        *)
(* database call; processes, faults and requests are those of EventLoop.   *)
(*                                                                         *)
(* A code is named by the consent that wrote it and a pair of tokens by    *)
(* the request to /token that issued it.  A client presents only codes and *)
(* tokens that it was handed, or, before there is a code, the id of its    *)
(* session: both are kept in the same column, and /token takes either.     *)
(***************************************************************************)
EXTENDS Integers, EventLoop

CONSTANTS
    Users, NoUser,
    Clients,
    Public,       \* clients with is_public_client
    DeviceName,   \* oauth_clients.client_name
    Sessions,
    ClientOf,     \* the client that a session is for
    Kind,         \* Kind[r]: what r asks for
    SessionOf,    \* SessionOf[r]: the session, or a session of the client
    UserOf,       \* UserOf[r]: the user who is signed in to the portal
    Presents,     \* Presents[r]: the consent or the issue r has the result of
    Early,        \* exchanges that present the session's id, not a code
    Genuine,      \* requests with the right secret, client and verifier
    MaxFaults     \* bound: crashes and failed database calls in a behaviour

Issues == {"exchange", "refresh"}
Revocations == {"revoke", "revokeRefresh", "inspectorRevoke", "portalRevoke",
                "adminRevoke", "delete"}
Kinds == {"consent"} \cup Issues \cup Revocations
NoCode == {"none", "pending", "gone"}

ASSUME GrantsAssumption ==
    /\ NoUser \notin Users
    /\ NoRequest \notin Requests
    /\ NoCode \cap Requests = {}
    /\ Public \subseteq Clients
    /\ ClientOf \in [Sessions -> Clients]
    /\ Kind \in [Requests -> Kinds]
    /\ SessionOf \in [Requests -> Sessions]
    /\ UserOf \in [Requests -> Users]
    /\ Presents \in [Requests -> Requests]
    /\ Early \subseteq {r \in Requests : Kind[r] = "exchange"}
    /\ Genuine \subseteq Requests
    /\ MaxFaults \in Nat
    /\ \A r \in Requests :
          /\ Kind[r] = "exchange" /\ r \notin Early =>
                /\ Kind[Presents[r]] = "consent"
                /\ SessionOf[Presents[r]] = SessionOf[r]
          /\ Kind[r] \in {"refresh", "revoke", "revokeRefresh", "inspectorRevoke"} =>
                /\ Kind[Presents[r]] \in Issues
                /\ SessionOf[Presents[r]] = SessionOf[r]

VARIABLES
    \* database
    status,       \* of a row of oauth_clients
    owner,        \* oauth_clients.user_id
    code,         \* the row of oauth_authorization_codes a session stands for
    expired,      \* sessions whose row is past expires_at
    access,       \* the row of oauth_access_tokens of a pair
    refresh,      \* the row of oauth_refresh_tokens of a pair
    holder,       \* user_id of both rows
    \* processes
    cache,        \* _access_token_cache
    faults,
    \* history
    consented     \* the consent whose code a session has had

Row == {"none", "valid", "revoked", "deleted"}
Call == {"claimRead", "claimDuplicates", "claimWrite", "claimReread",
         "approveRead", "approveWrite", "load", "delete", "bind", "access", "refresh",
         "revokeOld", "revokeOldAccess", "revoke", "revokeLinked",
         "revokeRefresh", "deactivate", "revokeAllAccess", "revokeAllRefresh",
         "deleteRefresh", "deleteAccess", "deleteCodes", "deleteClient"}

database == <<status, owner, code, expired, access, refresh, holder>>
vars == <<database, cache, at, pc, loop, faults, consented>>

ClientAt(r) == ClientOf[SessionOf[r]]
PairsOf(c) == {t \in Requests : ClientAt(t) = c}

TypeOK ==
    /\ status \in [Clients -> {"active", "inactive", "deleted"}]
    /\ owner \in [Clients -> Users \cup {NoUser}]
    /\ code \in [Sessions -> NoCode \cup Requests]
    /\ expired \subseteq Sessions
    /\ access \in [Requests -> Row]
    /\ refresh \in [Requests -> Row]
    /\ holder \in [Requests -> Users \cup {NoUser}]
    /\ cache \in [Procs -> [Requests -> {"none", "valid", "revoked"}]]
    /\ at \in [Requests -> Procs]
    /\ pc \in [Requests -> {Idle} \cup Call \cup Outcome]
    /\ loop \in [Procs -> Requests \cup {NoRequest}]
    /\ faults \in 0 .. MaxFaults
    /\ consented \in [Sessions -> Requests \cup {NoRequest}]

NoRows == [r \in Requests |-> "none"]

Init ==
    /\ status = [c \in Clients |-> "active"]
    /\ owner = [c \in Clients |-> NoUser]
    /\ code = [s \in Sessions |-> "none"]
    /\ expired = {}
    /\ access = NoRows
    /\ refresh = NoRows
    /\ holder = [r \in Requests |-> NoUser]
    /\ cache = [p \in Procs |-> NoRows]
    /\ faults = 0
    /\ consented = [s \in Sessions |-> NoRequest]
    /\ EventLoopInit

-----------------------------------------------------------------------------
(* What the handlers share. *)

Enters(r, kinds, to) ==
    /\ Kind[r] \in kinds
    /\ Starts(r, to)

Continues(r, kind, from, to) ==
    /\ Kind[r] = kind
    /\ Runs(r, from, to)

\* An UPDATE of is_revoked: rows that do not exist are not touched.
Revoke(rows, ts) ==
    [t \in Requests |->
        IF t \in ts /\ rows[t] = "valid" THEN "revoked" ELSE rows[t]]

DeleteRows(rows, ts) ==
    [t \in Requests |->
        IF t \in ts /\ rows[t] # "none" THEN "deleted" ELSE rows[t]]

Pop(p, t) == cache' = [cache EXCEPT ![p][t] = "none"]
Clear(p) == cache' = [cache EXCEPT ![p] = NoRows]

-----------------------------------------------------------------------------
(* GET /authorize *)

Authorize(s) ==
    /\ code[s] = "none"
    /\ status[ClientOf[s]] = "active"
    /\ \E p \in Procs : loop[p] = NoRequest
    /\ code' = [code EXCEPT ![s] = "pending"]
    /\ UNCHANGED <<status, owner, expired, access, refresh, holder, cache, at,
                   pc, loop, faults, consented>>

\* Time passes: a pending session or a code is past its expires_at.
Expire(s) ==
    /\ code[s] \in {"pending"} \cup Requests
    /\ expired' = expired \cup {s}
    /\ UNCHANGED <<status, owner, code, access, refresh, holder, cache, at, pc,
                   loop, faults, consented>>

-----------------------------------------------------------------------------
(* _complete_oauth_session: the user has logged in, with the session's id   *)
(* in the query.                                                            *)

\* Mutant: an answered session can be answered again.
PendingOrAnswered(s) == code[s] \notin {"none", "gone"} /\ s \notin expired

Pending(s) == code[s] = "pending" /\ s \notin expired

ConsentLoad(r) ==
    /\ code[SessionOf[r]] # "none"
    /\ Enters(r, {"consent"},
              IF ~ Pending(SessionOf[r]) THEN "refused"
              ELSE IF ClientAt(r) \in Public THEN "approveRead"
              ELSE "claimRead")
    /\ UNCHANGED <<database, cache, faults, consented>>

\* A client whose row is gone is not claimed, and the session goes on.
ClaimRead(r) ==
    /\ Continues(r, "consent", "claimRead",
          CASE \/ status[ClientAt(r)] = "deleted"
               \/ owner[ClientAt(r)] = UserOf[r] -> "approveRead"
            [] /\ status[ClientAt(r)] # "deleted"
               /\ owner[ClientAt(r)] = NoUser    -> "claimDuplicates"
            [] OTHER                             -> "refused")
    /\ UNCHANGED <<database, cache, faults, consented>>

\* Mutant: the older devices stay on.
ClaimKeepsDuplicates(r) ==
    /\ Continues(r, "consent", "claimDuplicates", "claimWrite")
    /\ UNCHANGED <<database, cache, faults, consented>>

\* The user's older devices of that name are switched off; their tokens stay.
ClaimDuplicates(r) ==
    /\ Continues(r, "consent", "claimDuplicates", "claimWrite")
    /\ status' = [c \in Clients |->
                    IF /\ status[c] = "active"
                       /\ owner[c] = UserOf[r]
                       /\ DeviceName[c] = DeviceName[ClientAt(r)]
                      THEN "inactive" ELSE status[c]]
    /\ UNCHANGED <<owner, code, expired, access, refresh, holder, cache, faults,
                   consented>>

\* Mutant: the UPDATE asks only whether there is a row.
ClaimableAgain(c) == status[c] # "deleted"

\* UPDATE ... WHERE user_id IS NULL.
Claimable(c) == owner[c] = NoUser /\ status[c] # "deleted"

ClaimWrite(r) ==
    /\ Continues(r, "consent", "claimWrite",
                 IF Claimable(ClientAt(r)) THEN "approveRead" ELSE "claimReread")
    /\ owner' = IF Claimable(ClientAt(r))
                  THEN [owner EXCEPT ![ClientAt(r)] = UserOf[r]] ELSE owner
    /\ UNCHANGED <<status, code, expired, access, refresh, holder, cache, faults,
                   consented>>

ClaimReread(r) ==
    /\ Continues(r, "consent", "claimReread",
                 IF /\ owner[ClientAt(r)] = UserOf[r]
                    /\ status[ClientAt(r)] # "deleted"
                   THEN "approveRead" ELSE "refused")
    /\ UNCHANGED <<database, cache, faults, consented>>

ApproveRead(r) ==
    /\ Continues(r, "consent", "approveRead",
                 IF Pending(SessionOf[r]) THEN "approveWrite" ELSE "refused")
    /\ UNCHANGED <<database, cache, faults, consented>>

\* UPDATE ... WHERE code = session_id.  Nobody looks how many rows it changed:
\* the code is handed out all the same.
ApproveWrite(r) ==
    /\ Continues(r, "consent", "approveWrite", "ok")
    /\ IF code[SessionOf[r]] = "pending"
         THEN /\ code' = [code EXCEPT ![SessionOf[r]] = r]
              /\ expired' = expired \ {SessionOf[r]}
              /\ consented' = [consented EXCEPT ![SessionOf[r]] = r]
         ELSE UNCHANGED <<code, expired, consented>>
    /\ UNCHANGED <<status, owner, access, refresh, holder, cache, faults>>

-----------------------------------------------------------------------------
(* POST /token *)

\* What r shows, as the row's column has it: a pending row has the session's id.
Presented(r) == IF r \in Early THEN "pending" ELSE Presents[r]

\* /authorize hands out the session's id; a code or a token comes in the answer
\* to the request that wrote it.
Handed(r) ==
    IF r \in Early THEN code[SessionOf[r]] # "none" ELSE pc[Presents[r]] = "ok"

\* Mutant: a client that is not active may ask for tokens.
TokenAnyClient(r) ==
    /\ Handed(r)
    /\ Enters(r, Issues, IF r \in Genuine THEN "load" ELSE "refused")
    /\ UNCHANGED <<database, cache, faults, consented>>

TokenClient(r) ==
    /\ Handed(r)
    /\ Enters(r, Issues,
              IF status[ClientAt(r)] = "active" /\ r \in Genuine
                THEN "load" ELSE "refused")
    /\ UNCHANGED <<database, cache, faults, consented>>

ExchangeLoad(r) ==
    /\ Continues(r, "exchange", "load",
                 IF /\ code[SessionOf[r]] = Presented(r)
                    /\ SessionOf[r] \notin expired
                   THEN "delete" ELSE "refused")
    /\ UNCHANGED <<database, cache, faults, consented>>

\* Mutant: nobody looks whether the DELETE found the row.
ExchangeDeleteBlind(r) ==
    /\ Continues(r, "exchange", "delete", "bind")
    /\ code' = [code EXCEPT ![SessionOf[r]] = "gone"]
    /\ UNCHANGED <<status, owner, expired, access, refresh, holder, cache,
                   faults, consented>>

\* The rows that the DELETE returns tell who has used the code.
ExchangeDelete(r) ==
    /\ Continues(r, "exchange", "delete",
                 IF code[SessionOf[r]] = Presented(r) THEN "bind" ELSE "refused")
    /\ code' = IF code[SessionOf[r]] = Presented(r)
                 THEN [code EXCEPT ![SessionOf[r]] = "gone"] ELSE code
    /\ UNCHANGED <<status, owner, expired, access, refresh, holder, cache,
                   faults, consented>>

\* The user whom a client's row names; nobody, if the row is gone.
RowOwner(c) == IF status[c] = "deleted" THEN NoUser ELSE owner[c]

\* Mutant: the client's id in the column of the user's.
ExchangeBindClient(r) ==
    /\ Continues(r, "exchange", "bind", "access")
    /\ holder' = [holder EXCEPT ![r] = ClientAt(r)]
    /\ UNCHANGED <<status, owner, code, expired, access, refresh, cache, faults,
                   consented>>

\* user_id is the one of the consent.  A row that is still pending has none:
\* the client's owner takes its place, and a public client is refused.
ExchangeBind(r) ==
    /\ Continues(r, "exchange", "bind",
                 IF /\ r \in Early
                    /\ ClientAt(r) \in Public
                    /\ status[ClientAt(r)] # "deleted"
                   THEN "refused" ELSE "access")
    /\ holder' = [holder EXCEPT ![r] = IF r \in Early THEN RowOwner(ClientAt(r))
                                       ELSE UserOf[Presents[r]]]
    /\ UNCHANGED <<status, owner, code, expired, access, refresh, cache, faults,
                   consented>>

IssueAccess(r) ==
    /\ Kind[r] \in Issues
    /\ Runs(r, "access", "refresh")
    /\ access' = [access EXCEPT ![r] = "valid"]
    /\ UNCHANGED <<status, owner, code, expired, refresh, holder, cache, faults,
                   consented>>

IssueRefresh(r) ==
    /\ Kind[r] \in Issues
    /\ Runs(r, "refresh", "ok")
    /\ refresh' = [refresh EXCEPT ![r] = "valid"]
    /\ UNCHANGED <<status, owner, code, expired, access, holder, cache, faults,
                   consented>>

\* A valid row may be past its expires_at.
RefreshLoad(r) ==
    /\ \/ Continues(r, "refresh", "load", "refused")
       \/ /\ refresh[Presents[r]] = "valid"
          /\ Continues(r, "refresh", "load", "revokeOld")
    /\ UNCHANGED <<database, cache, faults, consented>>

\* Mutant: the old refresh token stays valid.
RefreshKeepsOld(r) ==
    /\ Continues(r, "refresh", "revokeOld", "revokeOldAccess")
    /\ UNCHANGED <<database, cache, faults, consented>>

\* The UPDATE does not ask for a row that is still valid.
RefreshRevokeOld(r) ==
    /\ Continues(r, "refresh", "revokeOld", "revokeOldAccess")
    /\ refresh' = Revoke(refresh, {Presents[r]})
    /\ UNCHANGED <<status, owner, code, expired, access, holder, cache, faults,
                   consented>>

\* user_id is that of the old row, and of the client's row if it has none.
Carry(r) ==
    /\ holder' = [holder EXCEPT ![r] = holder[Presents[r]]]
    /\ Continues(r, "refresh", "revokeOldAccess",
                 IF holder[Presents[r]] = NoUser THEN "bind" ELSE "access")

\* Mutant: the old access token stays in the cache.
RefreshKeepsCached(r) ==
    /\ Carry(r)
    /\ access' = Revoke(access, {Presents[r]})
    /\ UNCHANGED <<status, owner, code, expired, refresh, cache, faults, consented>>

\* Mutant: the new pair acts for the client's owner.
RefreshCarriesNobody(r) ==
    /\ Continues(r, "refresh", "revokeOldAccess", "bind")
    /\ Pop(at[r], Presents[r])
    /\ access' = Revoke(access, {Presents[r]})
    /\ UNCHANGED <<status, owner, code, expired, refresh, holder, faults, consented>>

RefreshRevokeOldAccess(r) ==
    /\ Carry(r)
    /\ Pop(at[r], Presents[r])
    /\ access' = Revoke(access, {Presents[r]})
    /\ UNCHANGED <<status, owner, code, expired, refresh, faults, consented>>

RefreshBind(r) ==
    /\ Continues(r, "refresh", "bind", "access")
    /\ holder' = [holder EXCEPT ![r] = RowOwner(ClientAt(r))]
    /\ UNCHANGED <<status, owner, code, expired, access, refresh, cache, faults,
                   consented>>

-----------------------------------------------------------------------------
(* Revocation: POST /revoke with either token, the panel's token inspector, *)
(* the portal's and the panel's revoke buttons, deletion of a client.       *)

RevokeStart(r) ==
    /\ pc[Presents[r]] = "ok"
    /\ \/ Enters(r, {"revoke", "revokeRefresh"},
                 IF status[ClientAt(r)] = "active" /\ r \in Genuine
                   THEN Kind[r] ELSE "refused")
       \/ Enters(r, {"inspectorRevoke"}, "revoke")
    /\ UNCHANGED <<database, cache, faults, consented>>

\* The inspector's route leaves the cache alone.
RevokeAccess(r) ==
    /\ Kind[r] \in {"revoke", "inspectorRevoke"}
    /\ Runs(r, "revoke",
            IF Kind[r] = "revoke" /\ access[Presents[r]] = "deleted"
              THEN "ok" ELSE "revokeLinked")
    /\ access' = Revoke(access, {Presents[r]})
    /\ IF Kind[r] = "revoke" THEN Pop(at[r], Presents[r]) ELSE UNCHANGED cache
    /\ UNCHANGED <<status, owner, code, expired, refresh, holder, faults, consented>>

RevokeLinked(r) ==
    /\ Kind[r] \in {"revoke", "inspectorRevoke"}
    /\ Runs(r, "revokeLinked", "ok")
    /\ refresh' = Revoke(refresh, {Presents[r]})
    /\ UNCHANGED <<status, owner, code, expired, access, holder, cache, faults,
                   consented>>

\* A refresh token is looked for among the access tokens first, in vain.  The
\* access token of its pair stays valid.
RevokeRefreshToken(r) ==
    /\ Continues(r, "revokeRefresh", "revokeRefresh", "ok")
    /\ refresh' = Revoke(refresh, {Presents[r]})
    /\ UNCHANGED <<status, owner, code, expired, access, holder, cache, faults,
                   consented>>

\* The portal serves the device's owner, the panel anybody's device; the
\* panel's list of clients looks at nothing.
DeviceCheck(r) ==
    /\ \/ Enters(r, {"portalRevoke", "adminRevoke", "delete"},
             IF \/ status[ClientAt(r)] = "deleted"
                \/ Kind[r] = "portalRevoke" /\ owner[ClientAt(r)] # UserOf[r]
               THEN "refused"
               ELSE IF Kind[r] = "delete" THEN "deleteRefresh" ELSE "deactivate")
       \/ Enters(r, {"adminRevoke"}, "deactivate")
    /\ UNCHANGED <<database, cache, faults, consented>>

Deactivate(r) ==
    /\ Kind[r] \in {"portalRevoke", "adminRevoke"}
    /\ Runs(r, "deactivate", "revokeAllAccess")
    /\ status' = [status EXCEPT ![ClientAt(r)] =
                     IF @ = "active" THEN "inactive" ELSE @]
    /\ UNCHANGED <<owner, code, expired, access, refresh, holder, cache, faults,
                   consented>>

\* Only the panel's buttons clear the cache.
RevokeAllAccess(r) ==
    /\ Kind[r] \in {"portalRevoke", "adminRevoke"}
    /\ Runs(r, "revokeAllAccess", "revokeAllRefresh")
    /\ access' = Revoke(access, PairsOf(ClientAt(r)))
    /\ IF Kind[r] = "adminRevoke" THEN Clear(at[r]) ELSE UNCHANGED cache
    /\ UNCHANGED <<status, owner, code, expired, refresh, holder, faults, consented>>

RevokeAllRefresh(r) ==
    /\ Kind[r] \in {"portalRevoke", "adminRevoke"}
    /\ Runs(r, "revokeAllRefresh", "ok")
    /\ refresh' = Revoke(refresh, PairsOf(ClientAt(r)))
    /\ UNCHANGED <<status, owner, code, expired, access, holder, cache, faults,
                   consented>>

DeleteRefresh(r) ==
    /\ Continues(r, "delete", "deleteRefresh", "deleteAccess")
    /\ Clear(at[r])
    /\ refresh' = DeleteRows(refresh, PairsOf(ClientAt(r)))
    /\ UNCHANGED <<status, owner, code, expired, access, holder, faults, consented>>

DeleteAccess(r) ==
    /\ Continues(r, "delete", "deleteAccess", "deleteCodes")
    /\ access' = DeleteRows(access, PairsOf(ClientAt(r)))
    /\ UNCHANGED <<status, owner, code, expired, refresh, holder, cache, faults,
                   consented>>

DeleteCodes(r) ==
    /\ Continues(r, "delete", "deleteCodes", "deleteClient")
    /\ code' = [s \in Sessions |->
                  IF ClientOf[s] = ClientAt(r) /\ code[s] # "none"
                    THEN "gone" ELSE code[s]]
    /\ UNCHANGED <<status, owner, expired, access, refresh, holder, cache, faults,
                   consented>>

DeleteClient(r) ==
    /\ Continues(r, "delete", "deleteClient", "ok")
    /\ status' = [status EXCEPT ![ClientAt(r)] = "deleted"]
    /\ UNCHANGED <<owner, code, expired, access, refresh, holder, cache, faults,
                   consented>>

-----------------------------------------------------------------------------
(* load_access_token, on each request to the gateway and to /introspect.   *)

\* Mutant: a cached row has lost is_revoked.
AuthenticateForgets(p, t) ==
    /\ pc[t] = "ok"
    /\ loop[p] = NoRequest
    /\ cache[p][t] = "none"
    /\ access[t] \in {"valid", "revoked"}
    /\ cache' = [cache EXCEPT ![p][t] = "valid"]
    /\ UNCHANGED <<database, at, pc, loop, faults, consented>>

\* A row is cached as it is, revoked or not.  A hit changes nothing.
Authenticate(p, t) ==
    /\ pc[t] = "ok"
    /\ loop[p] = NoRequest
    /\ cache[p][t] = "none"
    /\ access[t] \in {"valid", "revoked"}
    /\ cache' = [cache EXCEPT ![p][t] = access[t]]
    /\ UNCHANGED <<database, at, pc, loop, faults, consented>>

\* An entry lives for a minute, or until a full cache needs its place.
CacheDrop(p, t) ==
    /\ cache[p][t] # "none"
    /\ Pop(p, t)
    /\ UNCHANGED <<database, at, pc, loop, faults, consented>>

-----------------------------------------------------------------------------
(* Faults. *)

DatabaseError(r) ==
    /\ pc[r] \in Call
    /\ Runs(r, pc[r], "failed")
    /\ faults < MaxFaults
    /\ faults' = faults + 1
    /\ UNCHANGED <<database, cache, consented>>

\* The process that takes over starts with an empty cache.
Crash(p) ==
    /\ \E r \in Requests : at[r] = p /\ pc[r] \in Call
    /\ pc' = [r \in Requests |->
                IF at[r] = p /\ pc[r] \in Call THEN "crashed" ELSE pc[r]]
    /\ loop' = [loop EXCEPT ![p] = NoRequest]
    /\ Clear(p)
    /\ faults < MaxFaults
    /\ faults' = faults + 1
    /\ UNCHANGED <<database, at, consented>>

-----------------------------------------------------------------------------
Consent(r) ==
    \/ ConsentLoad(r)
    \/ ClaimRead(r)
    \/ ClaimDuplicates(r)
    \/ ClaimWrite(r)
    \/ ClaimReread(r)
    \/ ApproveRead(r)
    \/ ApproveWrite(r)
Exchange(r) ==
    \/ TokenClient(r)
    \/ ExchangeLoad(r)
    \/ ExchangeDelete(r)
    \/ ExchangeBind(r)
Rotate(r) ==
    \/ RefreshLoad(r)
    \/ RefreshRevokeOld(r)
    \/ RefreshRevokeOldAccess(r)
    \/ RefreshBind(r)
Issue(r) ==
    \/ IssueAccess(r)
    \/ IssueRefresh(r)
RevokeTokens(r) ==
    \/ RevokeStart(r)
    \/ RevokeAccess(r)
    \/ RevokeLinked(r)
    \/ RevokeRefreshToken(r)
RevokeDevice(r) ==
    \/ DeviceCheck(r)
    \/ Deactivate(r)
    \/ RevokeAllAccess(r)
    \/ RevokeAllRefresh(r)
Delete(r) ==
    \/ DeleteRefresh(r)
    \/ DeleteAccess(r)
    \/ DeleteCodes(r)
    \/ DeleteClient(r)

Handle(r) ==
    \/ Consent(r)
    \/ Exchange(r)
    \/ Rotate(r)
    \/ Issue(r)
    \/ RevokeTokens(r)
    \/ RevokeDevice(r)
    \/ Delete(r)

Next ==
    \/ \E r \in Requests : Handle(r) \/ DatabaseError(r)
    \/ \E s \in Sessions : Authorize(s) \/ Expire(s)
    \/ \E p \in Procs, t \in Requests : Authenticate(p, t) \/ CacheDrop(p, t)
    \/ \E p \in Procs : Crash(p)

Spec == Init /\ [][Next]_vars

(* Time passes: no entry stays in a cache for ever. *)
FairSpec ==
    Spec /\ \A p \in Procs, t \in Requests : WF_vars(CacheDrop(p, t))

-----------------------------------------------------------------------------
(* Properties. *)

Issued(t) == access[t] # "none"

\* The DELETE that takes the code is what decides: however many processes
\* exchange a code at once, and whatever dies, it yields one pair of tokens.
CodeRedeemedOnce ==
    \A x, y \in Requests :
        /\ Kind[x] = "exchange" /\ Issued(x)
        /\ Kind[y] = "exchange" /\ Issued(y)
        /\ SessionOf[x] = SessionOf[y]
        => x = y

\* Two users may answer the same session, or claim the same device, at once,
\* and the session's id may be exchanged before either.  A token is the one's
\* whose consent the session has, through every refresh, and on a client that
\* is not public it is its owner's.  Where nobody consented it is nobody's or
\* the client's owner's, and the client has been no public one.
TokensFollowConsent ==
    \A t \in Requests :
        Issued(t) =>
            IF consented[SessionOf[t]] # NoRequest
              THEN /\ holder[t] = UserOf[consented[SessionOf[t]]]
                   /\ \/ ClientAt(t) \in Public
                      \/ status[ClientAt(t)] = "deleted"
                      \/ holder[t] = owner[ClientAt(t)]
              ELSE /\ holder[t] \in {NoUser, owner[ClientAt(t)]}
                   /\ ClientAt(t) \in Public => status[ClientAt(t)] = "deleted"

\* In one process the read of a refresh token and its revocation lie between
\* two awaits: a session never has two refresh tokens that work.
OneLiveRefresh ==
    \A x, y \in Requests :
        /\ refresh[x] = "valid"
        /\ refresh[y] = "valid"
        /\ SessionOf[x] = SessionOf[y]
        => x = y

\* Once a device is revoked none of its tokens is valid, and no exchange or
\* refresh that comes later issues another one.
RevokedDeviceIsDead ==
    \A r \in Requests :
        Kind[r] \in {"portalRevoke", "adminRevoke"} /\ pc[r] = "ok" =>
            \A t \in PairsOf(ClientAt(r)) :
                access[t] # "valid" /\ refresh[t] # "valid"

\* Reconnecting clients do not accumulate: a user has one active device of a
\* name, however many were registered and claimed.
OneActiveDevice ==
    \A c, d \in Clients :
        /\ owner[c] # NoUser /\ owner[c] = owner[d]
        /\ DeviceName[c] = DeviceName[d]
        /\ status[c] = "active" /\ status[d] = "active"
        => c = d

\* The user who is sent back to the client has the code of the session, though
\* nobody looks whether the UPDATE that writes the code found its row.
ConsentHandedOut ==
    \A r \in Requests :
        Kind[r] = "consent" /\ pc[r] = "ok" => consented[SessionOf[r]] = r

\* Rotation, /revoke, the panel's buttons and deletion evict the tokens they
\* revoke: in one process the cache lets in no token whose row is not valid,
\* but for a revocation by the routes that leave it alone, the portal's and
\* the inspector's.
CacheFollowsRows ==
    \A p \in Procs, t \in Requests :
        cache[p][t] = "valid" =>
            \/ access[t] = "valid"
            \/ \E r \in Requests :
                  /\ Kind[r] \in {"portalRevoke", "inspectorRevoke"}
                  /\ ClientAt(r) = ClientAt(t)
                  /\ pc[r] \notin {Idle, "refused"}

\* Whichever route revokes a token, and in whichever process, there comes a
\* time when no cache lets it in.
RevocationLands ==
    \A t \in Requests :
        access[t] = "revoked" ~> \A p \in Procs : cache[p][t] # "valid"

\* Whatever the number of processes, races and crashes, a session is consented
\* to once, and only before it yields its one pair of tokens, which acts for who
\* consented, and without a consent for nobody but the client's owner.
C == INSTANCE Consent WITH
        Pairs <- {x \in Requests : Kind[x] = "exchange"},
        Shared <- Public,
        consent <- [s \in Sessions |-> IF consented[s] = NoRequest THEN NoUser
                                       ELSE UserOf[consented[s]]],
        issued <- [s \in Sessions |->
                     {x \in Requests : /\ Kind[x] = "exchange"
                                       /\ SessionOf[x] = s
                                       /\ Issued(x)}],
        bearer <- [x \in {y \in Requests : Kind[y] = "exchange"} |->
                     IF Issued(x) THEN holder[x] ELSE NoUser]

ConsentSpec == C!Spec
=============================================================================
