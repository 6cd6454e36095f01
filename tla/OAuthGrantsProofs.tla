------------------------- MODULE OAuthGrantsProofs -------------------------
(* Proofs about OAuthGrants for every set of users, clients, sessions,      *)
(* processes and requests.                                                  *)
EXTENDS OAuthGrants, TLAPS

-----------------------------------------------------------------------------
(* Type correctness. *)

\* Every step of a request handler keeps the types: the building blocks.
LEMMA RunsType ==
    ASSUME TypeOK, NEW r \in Requests, NEW from, NEW to,
           to \in {Idle} \cup Call \cup Outcome, Runs(r, from, to)
    PROVE  /\ pc' \in [Requests -> {Idle} \cup Call \cup Outcome]
           /\ at' \in [Requests -> Procs]
           /\ loop' \in [Procs -> Requests \cup {NoRequest}]
  BY DEF TypeOK, Runs, Moves

\* The UPDATEs and DELETEs of rows of tokens give rows of tokens.
LEMMA RowsType ==
    ASSUME NEW rows \in [Requests -> Row], NEW ts
    PROVE  /\ Revoke(rows, ts) \in [Requests -> Row]
           /\ DeleteRows(rows, ts) \in [Requests -> Row]
  BY DEF Revoke, DeleteRows, Row

\* Evicting one entry of a cache, or all of them, gives a cache.
LEMMA PopType ==
    ASSUME TypeOK, NEW p \in Procs, NEW t \in Requests, Pop(p, t)
    PROVE  cache' \in [Procs -> [Requests -> {"none", "valid", "revoked"}]]
  BY DEF TypeOK, Pop

\* Dropping what a process has cached keeps the type of the caches.
LEMMA ClearType ==
    ASSUME TypeOK, NEW p \in Procs, Clear(p)
    PROVE  cache' \in [Procs -> [Requests -> {"none", "valid", "revoked"}]]
  BY DEF TypeOK, Clear, NoRows

\* Before any request, every variable has its type.
LEMMA InitType == Init => TypeOK
  BY GrantsAssumption DEF Init, EventLoopInit, TypeOK, NoRows, NoCode, Row

\* A handler's step keeps the types.
LEMMA HandleType ==
    ASSUME TypeOK, NEW r \in Requests, Handle(r)
    PROVE  TypeOK'
<1> USE DEF Call, Outcome, Idle, Enters, Continues, Starts, database
<1>0. /\ SessionOf[r] \in Sessions /\ ClientAt(r) \in Clients
      /\ Presents[r] \in Requests /\ UserOf[r] \in Users
      /\ UserOf[Presents[r]] \in Users
      /\ at[r] \in Procs
  BY GrantsAssumption DEF ClientAt, TypeOK
<1>1. CASE Consent(r)
  <2>1. CASE ConsentLoad(r)
    BY <2>1, <1>0, RunsType DEF ConsentLoad, TypeOK
  <2>2. CASE ClaimRead(r)
    BY <2>2, <1>0, RunsType DEF ClaimRead, TypeOK
  <2>3. CASE ClaimDuplicates(r)
    BY <2>3, <1>0, RunsType DEF ClaimDuplicates, TypeOK
  <2>4. CASE ClaimWrite(r)
    BY <2>4, <1>0, RunsType DEF ClaimWrite, TypeOK
  <2>5. CASE ClaimReread(r)
    BY <2>5, <1>0, RunsType DEF ClaimReread, TypeOK
  <2>6. CASE ApproveRead(r)
    BY <2>6, <1>0, RunsType DEF ApproveRead, TypeOK
  <2>7. CASE ApproveWrite(r)
    <3>1. CASE code[SessionOf[r]] = "pending"
      <4>1. /\ code' = [code EXCEPT ![SessionOf[r]] = r]
            /\ expired' = expired \ {SessionOf[r]}
            /\ consented' = [consented EXCEPT ![SessionOf[r]] = r]
        BY <2>7, <3>1 DEF ApproveWrite
      <4>2. code' \in [Sessions -> NoCode \cup Requests]
        BY <4>1, <1>0 DEF TypeOK
      <4>3. expired' \subseteq Sessions
        BY <4>1 DEF TypeOK
      <4>4. consented' \in [Sessions -> Requests \cup {NoRequest}]
        BY <4>1, <1>0 DEF TypeOK
      <4>5. QED
        BY <2>7, <4>2, <4>3, <4>4, RunsType DEF ApproveWrite, TypeOK
    <3>2. CASE code[SessionOf[r]] # "pending"
      BY <2>7, <3>2, <1>0, RunsType DEF ApproveWrite, TypeOK
    <3>3. QED
      BY <3>1, <3>2
  <2>8. QED
    BY <1>1, <2>1, <2>2, <2>3, <2>4, <2>5, <2>6, <2>7 DEF Consent
<1>2. CASE Exchange(r)
  <2>1. CASE TokenClient(r)
    BY <2>1, <1>0, RunsType DEF TokenClient, TypeOK
  <2>2. CASE ExchangeLoad(r)
    BY <2>2, <1>0, RunsType DEF ExchangeLoad, TypeOK
  <2>3. CASE ExchangeDelete(r)
    BY <2>3, <1>0, RunsType DEF ExchangeDelete, TypeOK, NoCode
  <2>4. CASE ExchangeBind(r)
    <3>1. RowOwner(ClientAt(r)) \in Users \cup {NoUser}
      BY <1>0 DEF RowOwner, TypeOK
    <3>2. holder' \in [Requests -> Users \cup {NoUser}]
      BY <2>4, <3>1, <1>0 DEF ExchangeBind, TypeOK
    <3>3. QED
      BY <2>4, <3>2, <1>0, RunsType DEF ExchangeBind, TypeOK
  <2>5. QED
    BY <1>2, <2>1, <2>2, <2>3, <2>4 DEF Exchange
<1>3. CASE Rotate(r)
  <2>1. CASE RefreshLoad(r)
    BY <2>1, <1>0, RunsType DEF RefreshLoad, TypeOK
  <2>2. CASE RefreshRevokeOld(r)
    BY <2>2, <1>0, RunsType, RowsType DEF RefreshRevokeOld, TypeOK
  <2>3. CASE RefreshRevokeOldAccess(r)
    BY <2>3, <1>0, RunsType, PopType, RowsType
       DEF RefreshRevokeOldAccess, Carry, TypeOK
  <2>4. CASE RefreshBind(r)
    <3>1. holder' \in [Requests -> Users \cup {NoUser}]
      BY <2>4, <1>0 DEF RefreshBind, RowOwner, TypeOK
    <3>2. QED
      BY <2>4, <3>1, <1>0, RunsType DEF RefreshBind, TypeOK
  <2>5. QED
    BY <1>3, <2>1, <2>2, <2>3, <2>4 DEF Rotate
<1>4. CASE RevokeTokens(r)
  <2>1. CASE RevokeStart(r)
    BY <2>1, <1>0, RunsType DEF RevokeStart, TypeOK
  <2>2. CASE RevokeAccess(r)
    BY <2>2, <1>0, RunsType, PopType, RowsType DEF RevokeAccess, TypeOK
  <2>3. CASE RevokeLinked(r)
    BY <2>3, <1>0, RunsType, RowsType DEF RevokeLinked, TypeOK
  <2>4. CASE RevokeRefreshToken(r)
    BY <2>4, <1>0, RunsType, RowsType DEF RevokeRefreshToken, TypeOK
  <2>5. QED
    BY <1>4, <2>1, <2>2, <2>3, <2>4 DEF RevokeTokens
<1>5. CASE RevokeDevice(r)
  <2>1. CASE DeviceCheck(r)
    BY <2>1, <1>0, RunsType DEF DeviceCheck, TypeOK
  <2>2. CASE Deactivate(r)
    BY <2>2, <1>0, RunsType DEF Deactivate, TypeOK
  <2>3. CASE RevokeAllAccess(r)
    BY <2>3, <1>0, RunsType, ClearType, RowsType DEF RevokeAllAccess, TypeOK
  <2>4. CASE RevokeAllRefresh(r)
    BY <2>4, <1>0, RunsType, RowsType DEF RevokeAllRefresh, TypeOK
  <2>5. QED
    BY <1>5, <2>1, <2>2, <2>3, <2>4 DEF RevokeDevice
<1>6. CASE Delete(r)
  <2>1. CASE DeleteRefresh(r)
    BY <2>1, <1>0, RunsType, ClearType, RowsType DEF DeleteRefresh, TypeOK
  <2>2. CASE DeleteAccess(r)
    BY <2>2, <1>0, RunsType, RowsType DEF DeleteAccess, TypeOK
  <2>3. CASE DeleteCodes(r)
    BY <2>3, <1>0, RunsType DEF DeleteCodes, TypeOK, NoCode
  <2>4. CASE DeleteClient(r)
    BY <2>4, <1>0, RunsType DEF DeleteClient, TypeOK
  <2>5. QED
    BY <1>6, <2>1, <2>2, <2>3, <2>4 DEF Delete
<1>7. CASE Issue(r)
  <2>1. CASE IssueAccess(r)
    BY <2>1, <1>0, RunsType DEF IssueAccess, TypeOK, Row
  <2>2. CASE IssueRefresh(r)
    BY <2>2, <1>0, RunsType DEF IssueRefresh, TypeOK, Row
  <2>3. QED
    BY <1>7, <2>1, <2>2 DEF Issue
<1>8. QED
  BY <1>1, <1>2, <1>3, <1>4, <1>5, <1>6, <1>7 DEF Handle

\* Every step keeps the types.
LEMMA NextType == TypeOK /\ [Next]_vars => TypeOK'
<1> SUFFICES ASSUME TypeOK, [Next]_vars PROVE TypeOK'
  OBVIOUS
<1> USE DEF database
<1>1. ASSUME NEW r \in Requests, Handle(r) PROVE TypeOK'
  BY <1>1, HandleType
<1>2. ASSUME NEW r \in Requests, DatabaseError(r) PROVE TypeOK'
  <2>1. faults' \in 0 .. MaxFaults
    BY <1>2, GrantsAssumption DEF DatabaseError, TypeOK
  <2>2. QED
    BY <1>2, <2>1, RunsType DEF DatabaseError, TypeOK, Outcome
<1>3. ASSUME NEW s \in Sessions, Authorize(s) \/ Expire(s) PROVE TypeOK'
  BY <1>3 DEF Authorize, Expire, TypeOK, NoCode
<1>4. ASSUME NEW p \in Procs, NEW t \in Requests,
             Authenticate(p, t) \/ CacheDrop(p, t)
      PROVE  TypeOK'
  <2>1. CASE Authenticate(p, t)
    <3>1. access[t] \in {"none", "valid", "revoked"}
      BY <2>1 DEF Authenticate
    <3>2. cache' \in [Procs -> [Requests -> {"none", "valid", "revoked"}]]
      BY <2>1, <3>1 DEF Authenticate, TypeOK
    <3>3. QED
      BY <2>1, <3>2 DEF Authenticate, TypeOK
  <2>2. CASE CacheDrop(p, t)
    BY <2>2, PopType DEF CacheDrop, TypeOK
  <2>3. QED
    BY <1>4, <2>1, <2>2
<1>5. ASSUME NEW p \in Procs, Crash(p) PROVE TypeOK'
  <2>1. faults' \in 0 .. MaxFaults
    BY <1>5, GrantsAssumption DEF Crash, TypeOK
  <2>2. QED
    BY <1>5, <2>1, ClearType DEF Crash, TypeOK, Outcome
<1>6. CASE UNCHANGED vars
  BY <1>6 DEF vars, TypeOK
<1>7. QED
  BY <1>1, <1>2, <1>3, <1>4, <1>5, <1>6 DEF Next

\* Every reachable state is a state of the database, of the caches and of the
\* requests.
THEOREM TypeCorrect == Spec => []TypeOK
  BY InitType, NextType, PTL DEF Spec

-----------------------------------------------------------------------------
(* One consent, one pair: for any number of processes, whatever dies.       *)

\* An exchange whose DELETE found the row is the only one that did, and stays
\* so while its tokens are missing and after they are there.
Took(x) == Kind[x] = "exchange" /\ (pc[x] \in {"bind", "access"} \/ Issued(x))

\* The consent that the session of an exchange has had.
Answer(x) == IF x \in Early THEN NoRequest ELSE Presents[x]

CodeInv ==
    /\ \A s \in Sessions :
          /\ code[s] \in Requests => consented[s] = code[s]
          /\ code[s] \in {"none", "pending"} => consented[s] = NoRequest
    /\ \A x \in Requests :
          Took(x) => /\ code[SessionOf[x]] = "gone"
                     /\ consented[SessionOf[x]] = Answer(x)
    /\ \A x, y \in Requests :
          Took(x) /\ Took(y) /\ SessionOf[x] = SessionOf[y] => x = y

\* No row of a pair is there before the request that issues it is at its insert.
BeforeIssue == {Idle, "load", "delete", "revokeOld", "revokeOldAccess", "bind",
                "access"}

RowInv ==
    \A x \in Requests :
        /\ pc[x] \in BeforeIssue => ~ Issued(x)
        /\ pc[x] = "refresh" => Issued(x)
        /\ refresh[x] # "none" => Issued(x)
        /\ Kind[x] = "refresh" /\ pc[x] \in {"revokeOld", "revokeOldAccess",
                                             "bind", "access"}
              => Issued(Presents[x])

\* Who claims a client that is not public keeps it, and nobody claims another.
Owns(c, u) == c \in Public \/ status[c] = "deleted" \/ owner[c] = u

OwnerInv ==
    /\ \A c \in Public : owner[c] = NoUser
    /\ \A r \in Requests :
          /\ pc[r] \in {"claimRead", "claimDuplicates", "claimWrite"}
                => ClientAt(r) \notin Public
          /\ Kind[r] = "consent" /\ pc[r] \in {"approveRead", "approveWrite"}
                => Owns(ClientAt(r), UserOf[r])
    /\ \A s \in Sessions :
          consented[s] # NoRequest => /\ SessionOf[consented[s]] = s
                                      /\ Owns(ClientOf[s], UserOf[consented[s]])

\* Nobody consented, and the client is no public one, unless its row is gone.
Unasked(t) ==
    /\ consented[SessionOf[t]] = NoRequest
    /\ ClientAt(t) \in Public => status[ClientAt(t)] = "deleted"

\* Whom the rows of a pair may name.
ActsFor(t) ==
    \/ /\ consented[SessionOf[t]] # NoRequest
       /\ holder[t] = UserOf[consented[SessionOf[t]]]
    \/ /\ Unasked(t)
       /\ holder[t] \in {NoUser, owner[ClientAt(t)]}

HolderInv ==
    \A t \in Requests :
        /\ Issued(t) \/ pc[t] \in {"bind", "access"} => code[SessionOf[t]] = "gone"
        /\ Issued(t) \/ pc[t] = "access" => ActsFor(t)
        /\ Kind[t] = "refresh" /\ pc[t] = "bind" => Unasked(t)

-----------------------------------------------------------------------------
\* UPDATEs and DELETEs neither make a row nor make it as if it had never been.
LEMMA RowsKept ==
    ASSUME NEW rows \in [Requests -> Row], NEW ts, NEW t \in Requests
    PROVE  /\ Revoke(rows, ts)[t] = "none" <=> rows[t] = "none"
           /\ DeleteRows(rows, ts)[t] = "none" <=> rows[t] = "none"
  BY DEF Revoke, DeleteRows, Row

\* Revoking or deleting access tokens never makes an unissued token issued, nor the reverse.
LEMMA IssuedKept ==
    ASSUME TypeOK, NEW ts, access' \in {Revoke(access, ts), DeleteRows(access, ts)}
    PROVE  \A t \in Requests : Issued(t)' <=> Issued(t)
  BY RowsKept DEF TypeOK, Issued

\* Revoking or deleting refresh tokens leaves it known which of them were issued.
LEMMA RefreshKept ==
    ASSUME TypeOK, NEW ts, refresh' \in {Revoke(refresh, ts), DeleteRows(refresh, ts)}
    PROVE  \A t \in Requests : refresh'[t] = "none" <=> refresh[t] = "none"
  BY RowsKept DEF TypeOK

\* A step that writes neither codes nor consents and lets nobody take a code.
LEMMA CodeFrame ==
    ASSUME CodeInv, UNCHANGED <<code, consented>>,
           \A x \in Requests : Took(x)' => Took(x)
    PROVE  CodeInv'
  BY DEF CodeInv

\* A handler's step keeps the part on codes.
LEMMA CodeStep ==
    ASSUME TypeOK, CodeInv, RowInv, NEW r \in Requests, Handle(r)
    PROVE  CodeInv'
<1> USE GrantsAssumption DEF CodeInv, Took, Issued, TypeOK, Continues, Enters,
        Starts, Runs, Moves, Idle, database, NoCode
<1>0. SessionOf[r] \in Sessions /\ Presents[r] \in Requests /\ at[r] \in Procs
  OBVIOUS
<1>1. CASE Consent(r)
  <2>1. CASE ConsentLoad(r)
    BY <2>1, <1>0 DEF ConsentLoad
  <2>2. CASE ClaimRead(r)
    BY <2>2, <1>0 DEF ClaimRead
  <2>3. CASE ClaimDuplicates(r)
    BY <2>3, <1>0 DEF ClaimDuplicates
  <2>4. CASE ClaimWrite(r)
    BY <2>4, <1>0 DEF ClaimWrite
  <2>5. CASE ClaimReread(r)
    BY <2>5, <1>0 DEF ClaimReread
  <2>6. CASE ApproveRead(r)
    BY <2>6, <1>0 DEF ApproveRead
  <2>7. CASE ApproveWrite(r)
    <3>1. CASE code[SessionOf[r]] = "pending"
      <4>1. /\ code' = [code EXCEPT ![SessionOf[r]] = r]
            /\ consented' = [consented EXCEPT ![SessionOf[r]] = r]
        BY <2>7, <3>1 DEF ApproveWrite
      <4>2. \A x \in Requests : Took(x)' => Took(x) /\ SessionOf[x] # SessionOf[r]
        BY <2>7, <3>1 DEF ApproveWrite
      <4>3. QED
        BY <4>1, <4>2, <1>0
    <3>2. CASE code[SessionOf[r]] # "pending"
      <4>1. UNCHANGED <<code, consented>>
        BY <2>7, <3>2 DEF ApproveWrite
      <4>2. \A x \in Requests : Took(x)' => Took(x)
        BY <2>7 DEF ApproveWrite
      <4>3. QED
        BY ONLY <4>1, <4>2, CodeInv, CodeFrame
    <3>3. QED
      BY <3>1, <3>2
  <2>8. QED
    BY <1>1, <2>1, <2>2, <2>3, <2>4, <2>5, <2>6, <2>7 DEF Consent
<1>2. CASE Exchange(r)
  <2>1. CASE TokenClient(r)
    BY <2>1, <1>0 DEF TokenClient
  <2>2. CASE ExchangeLoad(r)
    BY <2>2, <1>0 DEF ExchangeLoad
  <2>3. CASE ExchangeDelete(r)
    BY <2>3, <1>0 DEF ExchangeDelete, Presented, Answer
  <2>4. CASE ExchangeBind(r)
    BY <2>4, <1>0 DEF ExchangeBind
  <2>5. QED
    BY <1>2, <2>1, <2>2, <2>3, <2>4 DEF Exchange
<1>3. CASE Rotate(r)
  <2>1. CASE RefreshLoad(r)
    BY <2>1, <1>0 DEF RefreshLoad
  <2>2. CASE RefreshRevokeOld(r)
    BY <2>2, <1>0, RowsKept DEF RefreshRevokeOld
  <2>3. CASE RefreshRevokeOldAccess(r)
    <3>1. \A t \in Requests : Issued(t)' <=> Issued(t)
      <4> DEFINE ts == {Presents[r]}
      <4>1. access' \in {Revoke(access, ts), DeleteRows(access, ts)}
        BY ONLY <2>3 DEF RefreshRevokeOldAccess
      <4> HIDE DEF ts
      <4>2. QED
        BY ONLY <4>1, TypeOK, IssuedKept
    <3>2. \A x \in Requests : Took(x)' => Took(x)
      <4>1. /\ Kind[r] # "exchange"
            /\ \A x \in Requests : x # r => pc'[x] = pc[x]
        BY ONLY <2>3, TypeOK DEF RefreshRevokeOldAccess, Carry, Continues, Runs, Moves, TypeOK
      <4>2. QED
        BY ONLY <3>1, <4>1 DEF Took
    <3>3. UNCHANGED <<code, consented>>
      BY ONLY <2>3 DEF RefreshRevokeOldAccess
    <3>4. QED
      BY ONLY <3>2, <3>3, CodeInv, CodeFrame
  <2>4. CASE RefreshBind(r)
    BY <2>4, <1>0 DEF RefreshBind
  <2>5. QED
    BY <1>3, <2>1, <2>2, <2>3, <2>4 DEF Rotate
<1>4. CASE RevokeTokens(r)
  <2>1. CASE RevokeStart(r)
    BY <2>1, <1>0 DEF RevokeStart
  <2>2. CASE RevokeAccess(r)
    <3>1. \A t \in Requests : Issued(t)' <=> Issued(t)
      <4> DEFINE ts == {Presents[r]}
      <4>1. access' \in {Revoke(access, ts), DeleteRows(access, ts)}
        BY ONLY <2>2 DEF RevokeAccess
      <4> HIDE DEF ts
      <4>2. QED
        BY ONLY <4>1, TypeOK, IssuedKept
    <3>2. \A x \in Requests : Took(x)' => Took(x)
      <4>1. /\ Kind[r] # "exchange"
            /\ \A x \in Requests : x # r => pc'[x] = pc[x]
        BY ONLY <2>2, TypeOK DEF RevokeAccess, Continues, Runs, Moves, TypeOK
      <4>2. QED
        BY ONLY <3>1, <4>1 DEF Took
    <3>3. UNCHANGED <<code, consented>>
      BY ONLY <2>2 DEF RevokeAccess
    <3>4. QED
      BY ONLY <3>2, <3>3, CodeInv, CodeFrame
  <2>3. CASE RevokeLinked(r)
    BY <2>3, <1>0, RowsKept DEF RevokeLinked
  <2>4. CASE RevokeRefreshToken(r)
    BY <2>4, <1>0, RowsKept DEF RevokeRefreshToken
  <2>5. QED
    BY <1>4, <2>1, <2>2, <2>3, <2>4 DEF RevokeTokens
<1>5. CASE RevokeDevice(r)
  <2>1. CASE DeviceCheck(r)
    BY <2>1, <1>0 DEF DeviceCheck
  <2>2. CASE Deactivate(r)
    BY <2>2, <1>0 DEF Deactivate
  <2>3. CASE RevokeAllAccess(r)
    <3>1. \A t \in Requests : Issued(t)' <=> Issued(t)
      <4> DEFINE ts == PairsOf(ClientAt(r))
      <4>1. access' \in {Revoke(access, ts), DeleteRows(access, ts)}
        BY ONLY <2>3 DEF RevokeAllAccess
      <4> HIDE DEF ts
      <4>2. QED
        BY ONLY <4>1, TypeOK, IssuedKept
    <3>2. \A x \in Requests : Took(x)' => Took(x)
      <4>1. /\ Kind[r] # "exchange"
            /\ \A x \in Requests : x # r => pc'[x] = pc[x]
        BY ONLY <2>3, TypeOK DEF RevokeAllAccess, Continues, Runs, Moves, TypeOK
      <4>2. QED
        BY ONLY <3>1, <4>1 DEF Took
    <3>3. UNCHANGED <<code, consented>>
      BY ONLY <2>3 DEF RevokeAllAccess
    <3>4. QED
      BY ONLY <3>2, <3>3, CodeInv, CodeFrame
  <2>4. CASE RevokeAllRefresh(r)
    BY <2>4, <1>0, RowsKept DEF RevokeAllRefresh
  <2>5. QED
    BY <1>5, <2>1, <2>2, <2>3, <2>4 DEF RevokeDevice
<1>6. CASE Delete(r)
  <2>1. CASE DeleteRefresh(r)
    BY <2>1, <1>0, RowsKept DEF DeleteRefresh
  <2>2. CASE DeleteAccess(r)
    <3>1. \A t \in Requests : Issued(t)' <=> Issued(t)
      <4> DEFINE ts == PairsOf(ClientAt(r))
      <4>1. access' \in {Revoke(access, ts), DeleteRows(access, ts)}
        BY ONLY <2>2 DEF DeleteAccess
      <4> HIDE DEF ts
      <4>2. QED
        BY ONLY <4>1, TypeOK, IssuedKept
    <3>2. \A x \in Requests : Took(x)' => Took(x)
      <4>1. /\ Kind[r] # "exchange"
            /\ \A x \in Requests : x # r => pc'[x] = pc[x]
        BY ONLY <2>2, TypeOK DEF DeleteAccess, Continues, Runs, Moves, TypeOK
      <4>2. QED
        BY ONLY <3>1, <4>1 DEF Took
    <3>3. UNCHANGED <<code, consented>>
      BY ONLY <2>2 DEF DeleteAccess
    <3>4. QED
      BY ONLY <3>2, <3>3, CodeInv, CodeFrame
  <2>3. CASE DeleteCodes(r)
    BY <2>3, <1>0 DEF DeleteCodes
  <2>4. CASE DeleteClient(r)
    BY <2>4, <1>0 DEF DeleteClient
  <2>5. QED
    BY <1>6, <2>1, <2>2, <2>3, <2>4 DEF Delete
<1>7. CASE Issue(r)
  <2>1. CASE IssueAccess(r)
    BY <2>1, <1>0 DEF IssueAccess
  <2>2. CASE IssueRefresh(r)
    BY <2>2, <1>0 DEF IssueRefresh
  <2>3. QED
    BY <1>7, <2>1, <2>2 DEF Issue
<1>8. QED
  BY <1>1, <1>2, <1>3, <1>4, <1>5, <1>6, <1>7 DEF Handle

\* A handler's step keeps the part on token rows.
LEMMA RowStep ==
    ASSUME TypeOK, RowInv, NEW r \in Requests, Handle(r)
    PROVE  RowInv'
<1> USE GrantsAssumption DEF RowInv, BeforeIssue, TypeOK, Continues, Enters,
        Starts, Runs, Moves, Idle, Outcome, Issues, database
<1>0. SessionOf[r] \in Sessions /\ Presents[r] \in Requests /\ at[r] \in Procs
  OBVIOUS
<1>1. CASE Consent(r)
  <2>1. CASE ConsentLoad(r)
    BY <2>1, <1>0 DEF ConsentLoad, Issued
  <2>2. CASE ClaimRead(r)
    BY <2>2, <1>0 DEF ClaimRead, Issued
  <2>3. CASE ClaimDuplicates(r)
    BY <2>3, <1>0 DEF ClaimDuplicates, Issued
  <2>4. CASE ClaimWrite(r)
    BY <2>4, <1>0 DEF ClaimWrite, Issued
  <2>5. CASE ClaimReread(r)
    BY <2>5, <1>0 DEF ClaimReread, Issued
  <2>6. CASE ApproveRead(r)
    BY <2>6, <1>0 DEF ApproveRead, Issued
  <2>7. CASE ApproveWrite(r)
    BY <2>7, <1>0 DEF ApproveWrite, Issued
  <2>8. QED
    BY <1>1, <2>1, <2>2, <2>3, <2>4, <2>5, <2>6, <2>7 DEF Consent
<1>2. CASE Exchange(r)
  <2>1. CASE TokenClient(r)
    BY <2>1, <1>0 DEF TokenClient, Issued
  <2>2. CASE ExchangeLoad(r)
    BY <2>2, <1>0 DEF ExchangeLoad, Issued
  <2>3. CASE ExchangeDelete(r)
    BY <2>3, <1>0 DEF ExchangeDelete, Issued
  <2>4. CASE ExchangeBind(r)
    BY <2>4, <1>0 DEF ExchangeBind, Issued
  <2>5. QED
    BY <1>2, <2>1, <2>2, <2>3, <2>4 DEF Exchange
<1>3. CASE Rotate(r)
  <2>1. CASE RefreshLoad(r)
    BY <2>1, <1>0 DEF RefreshLoad, Issued
  <2>2. CASE RefreshRevokeOld(r)
    <3>1. \A t \in Requests : refresh'[t] = "none" <=> refresh[t] = "none"
      <4> DEFINE ts == {Presents[r]}
      <4>1. refresh' \in {Revoke(refresh, ts), DeleteRows(refresh, ts)}
        BY ONLY <2>2 DEF RefreshRevokeOld
      <4> HIDE DEF ts
      <4>2. QED
        BY ONLY <4>1, TypeOK, RefreshKept
    <3>2. UNCHANGED access
      BY ONLY <2>2 DEF RefreshRevokeOld
    <3>3. /\ pc[r] = "revokeOld"
          /\ pc' = [pc EXCEPT ![r] = "revokeOldAccess"]
      BY <2>2 DEF RefreshRevokeOld
    <3>4. QED
      BY <3>1, <3>2, <3>3 DEF Issued
  <2>3. CASE RefreshRevokeOldAccess(r)
    <3>1. \A t \in Requests : Issued(t)' <=> Issued(t)
      <4> DEFINE ts == {Presents[r]}
      <4>1. access' \in {Revoke(access, ts), DeleteRows(access, ts)}
        BY ONLY <2>3 DEF RefreshRevokeOldAccess
      <4> HIDE DEF ts
      <4>2. QED
        BY ONLY <4>1, TypeOK, IssuedKept
    <3>2. UNCHANGED refresh
      BY ONLY <2>3 DEF RefreshRevokeOldAccess
    <3>3. QED
      BY <2>3, <3>1, <3>2 DEF RefreshRevokeOldAccess, Carry
  <2>4. CASE RefreshBind(r)
    BY <2>4, <1>0 DEF RefreshBind, Issued
  <2>5. QED
    BY <1>3, <2>1, <2>2, <2>3, <2>4 DEF Rotate
<1>4. CASE RevokeTokens(r)
  <2>1. CASE RevokeStart(r)
    BY <2>1, <1>0 DEF RevokeStart, Issued
  <2>2. CASE RevokeAccess(r)
    <3>1. \A t \in Requests : Issued(t)' <=> Issued(t)
      <4> DEFINE ts == {Presents[r]}
      <4>1. access' \in {Revoke(access, ts), DeleteRows(access, ts)}
        BY ONLY <2>2 DEF RevokeAccess
      <4> HIDE DEF ts
      <4>2. QED
        BY ONLY <4>1, TypeOK, IssuedKept
    <3>2. UNCHANGED refresh
      BY ONLY <2>2 DEF RevokeAccess
    <3>3. QED
      BY <2>2, <3>1, <3>2 DEF RevokeAccess
  <2>3. CASE RevokeLinked(r)
    <3>1. \A t \in Requests : refresh'[t] = "none" <=> refresh[t] = "none"
      <4> DEFINE ts == {Presents[r]}
      <4>1. refresh' \in {Revoke(refresh, ts), DeleteRows(refresh, ts)}
        BY ONLY <2>3 DEF RevokeLinked
      <4> HIDE DEF ts
      <4>2. QED
        BY ONLY <4>1, TypeOK, RefreshKept
    <3>2. UNCHANGED access
      BY ONLY <2>3 DEF RevokeLinked
    <3>3. /\ pc[r] = "revokeLinked"
          /\ pc' = [pc EXCEPT ![r] = "ok"]
      BY <2>3 DEF RevokeLinked
    <3>4. QED
      BY <3>1, <3>2, <3>3 DEF Issued
  <2>4. CASE RevokeRefreshToken(r)
    <3>1. \A t \in Requests : refresh'[t] = "none" <=> refresh[t] = "none"
      <4> DEFINE ts == {Presents[r]}
      <4>1. refresh' \in {Revoke(refresh, ts), DeleteRows(refresh, ts)}
        BY ONLY <2>4 DEF RevokeRefreshToken
      <4> HIDE DEF ts
      <4>2. QED
        BY ONLY <4>1, TypeOK, RefreshKept
    <3>2. UNCHANGED access
      BY ONLY <2>4 DEF RevokeRefreshToken
    <3>3. /\ pc[r] = "revokeRefresh"
          /\ pc' = [pc EXCEPT ![r] = "ok"]
      BY <2>4 DEF RevokeRefreshToken
    <3>4. QED
      BY <3>1, <3>2, <3>3 DEF Issued
  <2>5. QED
    BY <1>4, <2>1, <2>2, <2>3, <2>4 DEF RevokeTokens
<1>5. CASE RevokeDevice(r)
  <2>1. CASE DeviceCheck(r)
    BY <2>1, <1>0 DEF DeviceCheck, Issued
  <2>2. CASE Deactivate(r)
    BY <2>2, <1>0 DEF Deactivate, Issued
  <2>3. CASE RevokeAllAccess(r)
    <3>1. \A t \in Requests : Issued(t)' <=> Issued(t)
      <4> DEFINE ts == PairsOf(ClientAt(r))
      <4>1. access' \in {Revoke(access, ts), DeleteRows(access, ts)}
        BY ONLY <2>3 DEF RevokeAllAccess
      <4> HIDE DEF ts
      <4>2. QED
        BY ONLY <4>1, TypeOK, IssuedKept
    <3>2. UNCHANGED refresh
      BY ONLY <2>3 DEF RevokeAllAccess
    <3>3. QED
      BY <2>3, <3>1, <3>2 DEF RevokeAllAccess
  <2>4. CASE RevokeAllRefresh(r)
    <3>1. \A t \in Requests : refresh'[t] = "none" <=> refresh[t] = "none"
      <4> DEFINE ts == PairsOf(ClientAt(r))
      <4>1. refresh' \in {Revoke(refresh, ts), DeleteRows(refresh, ts)}
        BY ONLY <2>4 DEF RevokeAllRefresh
      <4> HIDE DEF ts
      <4>2. QED
        BY ONLY <4>1, TypeOK, RefreshKept
    <3>2. UNCHANGED access
      BY ONLY <2>4 DEF RevokeAllRefresh
    <3>3. /\ pc[r] = "revokeAllRefresh"
          /\ pc' = [pc EXCEPT ![r] = "ok"]
      BY <2>4 DEF RevokeAllRefresh
    <3>4. QED
      BY <3>1, <3>2, <3>3 DEF Issued
  <2>5. QED
    BY <1>5, <2>1, <2>2, <2>3, <2>4 DEF RevokeDevice
<1>6. CASE Delete(r)
  <2>1. CASE DeleteRefresh(r)
    <3>1. \A t \in Requests : refresh'[t] = "none" <=> refresh[t] = "none"
      <4> DEFINE ts == PairsOf(ClientAt(r))
      <4>1. refresh' \in {Revoke(refresh, ts), DeleteRows(refresh, ts)}
        BY ONLY <2>1 DEF DeleteRefresh
      <4> HIDE DEF ts
      <4>2. QED
        BY ONLY <4>1, TypeOK, RefreshKept
    <3>2. UNCHANGED access
      BY ONLY <2>1 DEF DeleteRefresh
    <3>3. /\ pc[r] = "deleteRefresh"
          /\ pc' = [pc EXCEPT ![r] = "deleteAccess"]
      BY <2>1 DEF DeleteRefresh
    <3>4. QED
      BY <3>1, <3>2, <3>3 DEF Issued
  <2>2. CASE DeleteAccess(r)
    <3>1. \A t \in Requests : Issued(t)' <=> Issued(t)
      <4> DEFINE ts == PairsOf(ClientAt(r))
      <4>1. access' \in {Revoke(access, ts), DeleteRows(access, ts)}
        BY ONLY <2>2 DEF DeleteAccess
      <4> HIDE DEF ts
      <4>2. QED
        BY ONLY <4>1, TypeOK, IssuedKept
    <3>2. UNCHANGED refresh
      BY ONLY <2>2 DEF DeleteAccess
    <3>3. QED
      BY <2>2, <3>1, <3>2 DEF DeleteAccess
  <2>3. CASE DeleteCodes(r)
    BY <2>3, <1>0 DEF DeleteCodes, Issued
  <2>4. CASE DeleteClient(r)
    BY <2>4, <1>0 DEF DeleteClient, Issued
  <2>5. QED
    BY <1>6, <2>1, <2>2, <2>3, <2>4 DEF Delete
<1>7. CASE Issue(r)
  <2>1. CASE IssueAccess(r)
    BY <2>1, <1>0 DEF IssueAccess, Issued
  <2>2. CASE IssueRefresh(r)
    BY <2>2, <1>0 DEF IssueRefresh, Issued
  <2>3. QED
    BY <1>7, <2>1, <2>2 DEF Issue
<1>8. QED
  BY <1>1, <1>2, <1>3, <1>4, <1>5, <1>6, <1>7 DEF Handle

\* A handler's step keeps the part on the owners of sessions.
LEMMA OwnerStep ==
    ASSUME TypeOK, CodeInv, OwnerInv, NEW r \in Requests, Handle(r)
    PROVE  OwnerInv'
<1> USE GrantsAssumption DEF OwnerInv, Owns, TypeOK, Continues, Enters,
        Starts, Runs, Moves, Idle, Outcome, database, ClientAt
<1>0. SessionOf[r] \in Sessions /\ Presents[r] \in Requests /\ at[r] \in Procs
  OBVIOUS
<1>1. CASE Consent(r)
  <2>1. CASE ConsentLoad(r)
    BY <2>1, <1>0 DEF ConsentLoad
  <2>2. CASE ClaimRead(r)
    BY <2>2, <1>0 DEF ClaimRead
  <2>3. CASE ClaimDuplicates(r)
    BY <2>3, <1>0 DEF ClaimDuplicates
  <2>4. CASE ClaimWrite(r)
    <3>1. CASE Claimable(ClientAt(r))
      <4>1. /\ owner' = [owner EXCEPT ![ClientAt(r)] = UserOf[r]]
            /\ pc[r] = "claimWrite"
            /\ pc' = [pc EXCEPT ![r] = "approveRead"]
            /\ UNCHANGED <<status, consented>>
        BY <2>4, <3>1 DEF ClaimWrite
      <4>2. \A u \in Users : Owns(ClientAt(r), u) => ClientAt(r) \in Public
        BY <3>1 DEF Claimable
      <4>3. \A c \in Clients, u \in Users : Owns(c, u) => Owns(c, u)'
        BY <4>1, <4>2
      <4>4. Owns(ClientAt(r), UserOf[r])'
        BY <4>1
      <4>5. \A s \in Sessions : ClientOf[s] \in Clients
        OBVIOUS
      <4>6. \A x \in Requests : UserOf[x] \in Users /\ ClientAt(x) \in Clients
        OBVIOUS
      <4>7. QED
        BY ONLY <4>1, <4>3, <4>4, <4>5, <4>6, OwnerInv, TypeOK DEF OwnerInv, TypeOK
    <3>2. CASE ~ Claimable(ClientAt(r))
      BY <2>4, <3>2 DEF ClaimWrite
    <3>3. QED
      BY <3>1, <3>2
  <2>5. CASE ClaimReread(r)
    BY <2>5, <1>0 DEF ClaimReread
  <2>6. CASE ApproveRead(r)
    BY <2>6, <1>0 DEF ApproveRead
  <2>7. CASE ApproveWrite(r)
    BY <2>7, <1>0 DEF ApproveWrite
  <2>8. QED
    BY <1>1, <2>1, <2>2, <2>3, <2>4, <2>5, <2>6, <2>7 DEF Consent
<1>2. CASE Exchange(r)
  <2>1. CASE TokenClient(r)
    BY <2>1, <1>0 DEF TokenClient
  <2>2. CASE ExchangeLoad(r)
    BY <2>2, <1>0 DEF ExchangeLoad
  <2>3. CASE ExchangeDelete(r)
    BY <2>3, <1>0 DEF ExchangeDelete
  <2>4. CASE ExchangeBind(r)
    BY <2>4, <1>0 DEF ExchangeBind
  <2>5. QED
    BY <1>2, <2>1, <2>2, <2>3, <2>4 DEF Exchange
<1>3. CASE Rotate(r)
  <2>1. CASE RefreshLoad(r)
    BY <2>1, <1>0 DEF RefreshLoad
  <2>2. CASE RefreshRevokeOld(r)
    BY <2>2, <1>0 DEF RefreshRevokeOld
  <2>3. CASE RefreshRevokeOldAccess(r)
    BY <2>3, <1>0 DEF RefreshRevokeOldAccess, Carry
  <2>4. CASE RefreshBind(r)
    BY <2>4, <1>0 DEF RefreshBind
  <2>5. QED
    BY <1>3, <2>1, <2>2, <2>3, <2>4 DEF Rotate
<1>4. CASE RevokeTokens(r)
  <2>1. CASE RevokeStart(r)
    BY <2>1, <1>0 DEF RevokeStart
  <2>2. CASE RevokeAccess(r)
    BY <2>2, <1>0 DEF RevokeAccess
  <2>3. CASE RevokeLinked(r)
    BY <2>3, <1>0 DEF RevokeLinked
  <2>4. CASE RevokeRefreshToken(r)
    BY <2>4, <1>0 DEF RevokeRefreshToken
  <2>5. QED
    BY <1>4, <2>1, <2>2, <2>3, <2>4 DEF RevokeTokens
<1>5. CASE RevokeDevice(r)
  <2>1. CASE DeviceCheck(r)
    BY <2>1, <1>0 DEF DeviceCheck
  <2>2. CASE Deactivate(r)
    BY <2>2, <1>0 DEF Deactivate
  <2>3. CASE RevokeAllAccess(r)
    BY <2>3, <1>0 DEF RevokeAllAccess
  <2>4. CASE RevokeAllRefresh(r)
    BY <2>4, <1>0 DEF RevokeAllRefresh
  <2>5. QED
    BY <1>5, <2>1, <2>2, <2>3, <2>4 DEF RevokeDevice
<1>6. CASE Delete(r)
  <2>1. CASE DeleteRefresh(r)
    BY <2>1, <1>0 DEF DeleteRefresh
  <2>2. CASE DeleteAccess(r)
    BY <2>2, <1>0 DEF DeleteAccess
  <2>3. CASE DeleteCodes(r)
    BY <2>3, <1>0 DEF DeleteCodes
  <2>4. CASE DeleteClient(r)
    BY <2>4, <1>0 DEF DeleteClient
  <2>5. QED
    BY <1>6, <2>1, <2>2, <2>3, <2>4 DEF Delete
<1>7. CASE Issue(r)
  <2>1. CASE IssueAccess(r)
    BY <2>1, <1>0 DEF IssueAccess
  <2>2. CASE IssueRefresh(r)
    BY <2>2, <1>0 DEF IssueRefresh
  <2>3. QED
    BY <1>7, <2>1, <2>2 DEF Issue
<1>8. QED
  BY <1>1, <1>2, <1>3, <1>4, <1>5, <1>6, <1>7 DEF Handle

\* A step that changes no holder, only adds owners, and lets nobody near an insert.
HolderQuiet ==
    /\ UNCHANGED <<holder, consented>>
    /\ \A s \in Sessions : code[s] = "gone" => code'[s] = "gone"
    /\ \A c \in Clients :
          /\ status[c] = "deleted" => status'[c] = "deleted"
          /\ owner'[c] = owner[c] \/ owner[c] = NoUser
    /\ \A t \in Requests :
          /\ Issued(t)' => Issued(t) \/ pc[t] = "access"
          /\ pc'[t] \in {"bind", "access"} => pc'[t] = pc[t]

\* Such a step keeps the part on whom a token is for.
LEMMA HolderFrame ==
    ASSUME HolderInv, HolderQuiet
    PROVE  HolderInv'
<1> SUFFICES ASSUME NEW t \in Requests
             PROVE  /\ Issued(t)' \/ pc'[t] \in {"bind", "access"}
                          => code'[SessionOf[t]] = "gone"
                    /\ Issued(t)' \/ pc'[t] = "access" => ActsFor(t)'
                    /\ Kind[t] = "refresh" /\ pc'[t] = "bind" => Unasked(t)'
  BY DEF HolderInv
<1>1. SessionOf[t] \in Sessions /\ ClientAt(t) \in Clients
  BY GrantsAssumption DEF ClientAt
<1>2. Unasked(t) => Unasked(t)'
  BY <1>1 DEF HolderQuiet, Unasked, ClientAt
<1>3. ActsFor(t) => ActsFor(t)'
  BY <1>1, <1>2 DEF HolderQuiet, ActsFor, ClientAt
<1>4. /\ Issued(t)' => Issued(t) \/ pc[t] = "access"
      /\ pc'[t] \in {"bind", "access"} => pc'[t] = pc[t]
  BY DEF HolderQuiet
<1>5. code[SessionOf[t]] = "gone" => code'[SessionOf[t]] = "gone"
  BY <1>1 DEF HolderQuiet
<1>6. QED
  BY <1>2, <1>3, <1>4, <1>5 DEF HolderInv

\* A step that moves r alone, to or past its insert, if it holds for r.
LEMMA HolderOf ==
    ASSUME HolderInv, NEW r \in Requests,
           UNCHANGED <<code, status, owner, consented>>,
           \A t \in Requests \ {r} :
               holder'[t] = holder[t] /\ access'[t] = access[t] /\ pc'[t] = pc[t],
           code[SessionOf[r]] = "gone",
           Issued(r)' \/ pc'[r] = "access" => ActsFor(r)',
           Kind[r] = "refresh" /\ pc'[r] = "bind" => Unasked(r)'
    PROVE  HolderInv'
<1> SUFFICES ASSUME NEW t \in Requests
             PROVE  /\ Issued(t)' \/ pc'[t] \in {"bind", "access"}
                          => code'[SessionOf[t]] = "gone"
                    /\ Issued(t)' \/ pc'[t] = "access" => ActsFor(t)'
                    /\ Kind[t] = "refresh" /\ pc'[t] = "bind" => Unasked(t)'
  BY DEF HolderInv
<1>1. CASE t = r
  BY <1>1
<1>2. CASE t # r
  BY <1>2 DEF HolderInv, ActsFor, Unasked, Issued
<1>3. QED
  BY <1>1, <1>2

\* A handler's step keeps the part on whom a token is for.
LEMMA HolderStep ==
    ASSUME TypeOK, CodeInv, RowInv, HolderInv, NEW r \in Requests, Handle(r)
    PROVE  HolderInv'
<1> USE GrantsAssumption DEF TypeOK, Continues, Enters,
        Starts, Runs, Moves, Idle, Outcome, database
<1>0. SessionOf[r] \in Sessions /\ Presents[r] \in Requests /\ at[r] \in Procs
      /\ ClientAt(r) \in Clients
  BY DEF ClientAt
<1>1. CASE Consent(r)
  <2>1. CASE ConsentLoad(r)
    BY <2>1, <1>0, HolderFrame DEF ConsentLoad, HolderQuiet, Issued
  <2>2. CASE ClaimRead(r)
    BY <2>2, <1>0, HolderFrame DEF ClaimRead, HolderQuiet, Issued
  <2>3. CASE ClaimDuplicates(r)
    BY <2>3, <1>0, HolderFrame DEF ClaimDuplicates, HolderQuiet, Issued
  <2>4. CASE ClaimWrite(r)
    BY <2>4, <1>0, HolderFrame DEF ClaimWrite, Claimable, HolderQuiet, Issued
  <2>5. CASE ClaimReread(r)
    BY <2>5, <1>0, HolderFrame DEF ClaimReread, HolderQuiet, Issued
  <2>6. CASE ApproveRead(r)
    BY <2>6, <1>0, HolderFrame DEF ApproveRead, HolderQuiet, Issued
  <2>7. CASE ApproveWrite(r)
    <3>1. CASE code[SessionOf[r]] = "pending"
      <4>1. \A t \in Requests : Issued(t) \/ pc[t] \in {"bind", "access"}
                                 => SessionOf[t] # SessionOf[r]
        BY <3>1 DEF HolderInv
      <4>2. /\ consented' = [consented EXCEPT ![SessionOf[r]] = r]
            /\ code' = [code EXCEPT ![SessionOf[r]] = r]
            /\ pc' = [pc EXCEPT ![r] = "ok"]
            /\ UNCHANGED <<access, holder, status, owner>>
        BY <2>7, <3>1 DEF ApproveWrite
      <4>3. ASSUME NEW t \in Requests,
                   Issued(t)' \/ pc'[t] \in {"bind", "access"}
            PROVE  /\ Issued(t) \/ pc[t] \in {"bind", "access"}
                   /\ pc'[t] = pc[t] \/ Issued(t)
                   /\ pc'[t] \in {"bind", "access"} => pc'[t] = pc[t]
                   /\ code'[SessionOf[t]] = code[SessionOf[t]]
                   /\ consented'[SessionOf[t]] = consented[SessionOf[t]]
        BY <4>1, <4>2, <4>3 DEF Issued
      <4>4. QED
        BY ONLY <4>2, <4>3, HolderInv DEF HolderInv, ActsFor, Unasked, Issued
    <3>2. CASE code[SessionOf[r]] # "pending"
      BY <2>7, <3>2, HolderFrame DEF ApproveWrite, HolderQuiet, Issued
    <3>3. QED
      BY <3>1, <3>2
  <2>8. QED
    BY <1>1, <2>1, <2>2, <2>3, <2>4, <2>5, <2>6, <2>7 DEF Consent
<1>2. CASE Exchange(r)
  <2>1. CASE TokenClient(r)
    BY <2>1, <1>0, HolderFrame DEF TokenClient, HolderQuiet, Issued
  <2>2. CASE ExchangeLoad(r)
    BY <2>2, <1>0, HolderFrame DEF ExchangeLoad, HolderQuiet, Issued
  <2>3. CASE ExchangeDelete(r)
    <3>1. /\ Kind[r] = "exchange" /\ pc[r] = "delete"
          /\ pc' = [pc EXCEPT ![r] = IF code[SessionOf[r]] = Presented(r)
                                       THEN "bind" ELSE "refused"]
          /\ UNCHANGED <<access, holder, status, owner, consented>>
      BY <2>3 DEF ExchangeDelete
    <3>2. CASE code[SessionOf[r]] = Presented(r)
      <4>1. code' = [code EXCEPT ![SessionOf[r]] = "gone"]
        BY <2>3, <3>2 DEF ExchangeDelete
      <4>2. QED
        BY <3>1, <3>2, <4>1 DEF HolderInv, ActsFor, Unasked, Issued
    <3>3. CASE code[SessionOf[r]] # Presented(r)
      BY <2>3, <3>3, HolderFrame DEF ExchangeDelete, HolderQuiet, Issued
    <3>4. QED
      BY <3>2, <3>3
  <2>4. CASE ExchangeBind(r)
    <3>1. /\ code[SessionOf[r]] = "gone"
          /\ consented[SessionOf[r]] = Answer(r)
          /\ ~ Issued(r)
      BY <2>4 DEF ExchangeBind, CodeInv, Took, RowInv, BeforeIssue
    <3>2. Issued(r)' \/ pc'[r] = "access" => ActsFor(r)'
      BY <2>4, <3>1, <1>0
         DEF ExchangeBind, Answer, ActsFor, Unasked, RowOwner, Issued, ClientAt
    <3>3. QED
      BY <2>4, <3>1, <3>2, HolderOf DEF ExchangeBind
  <2>5. QED
    BY <1>2, <2>1, <2>2, <2>3, <2>4 DEF Exchange
<1>3. CASE Rotate(r)
  <2>1. CASE RefreshLoad(r)
    BY <2>1, <1>0, HolderFrame DEF RefreshLoad, HolderQuiet, Issued
  <2>2. CASE RefreshRevokeOld(r)
    BY <2>2, <1>0, HolderFrame, RowsKept DEF RefreshRevokeOld, HolderQuiet, Issued
  <2>3. CASE RefreshRevokeOldAccess(r)
    <3>1. \A t \in Requests : Issued(t)' <=> Issued(t)
      <4> DEFINE ts == {Presents[r]}
      <4>1. access' \in {Revoke(access, ts), DeleteRows(access, ts)}
        BY ONLY <2>3 DEF RefreshRevokeOldAccess
      <4> HIDE DEF ts
      <4>2. QED
        BY ONLY <4>1, TypeOK, IssuedKept
    <3>2. /\ Kind[r] = "refresh" /\ pc[r] = "revokeOldAccess"
          /\ pc' = [pc EXCEPT ![r] = IF holder[Presents[r]] = NoUser
                                       THEN "bind" ELSE "access"]
          /\ holder' = [holder EXCEPT ![r] = holder[Presents[r]]]
          /\ UNCHANGED <<code, status, owner, consented>>
      BY <2>3 DEF RefreshRevokeOldAccess, Carry
    <3>3. /\ Issued(Presents[r]) /\ ~ Issued(r)
          /\ SessionOf[Presents[r]] = SessionOf[r]
      BY <3>2, <1>0 DEF RowInv, BeforeIssue
    <3>4. code[SessionOf[r]] = "gone" /\ ActsFor(Presents[r])
      BY <3>3, <1>0 DEF HolderInv
    <3>5. ActsFor(r)'
      BY <3>2, <3>3, <3>4, <1>0 DEF ActsFor, Unasked, ClientAt
    <3>6. pc'[r] = "bind" => Unasked(r)'
      <4>1. ASSUME holder[Presents[r]] = NoUser PROVE Unasked(Presents[r])
        <5>1. \A x \in Requests : UserOf[x] # NoUser
          OBVIOUS
        <5>2. consented[SessionOf[r]] \in Requests \cup {NoRequest}
          BY <1>0
        <5>3. QED
          BY <3>3, <3>4, <4>1, <5>1, <5>2 DEF ActsFor
      <4>2. QED
        BY <3>2, <3>3, <4>1 DEF Unasked, ClientAt
    <3>7. ASSUME NEW t \in Requests, t # r
          PROVE  /\ holder'[t] = holder[t] /\ pc'[t] = pc[t]
                 /\ Issued(t)' <=> Issued(t)
                 /\ ActsFor(t)' <=> ActsFor(t)
                 /\ Unasked(t)' <=> Unasked(t)
      BY <3>1, <3>2, <3>7 DEF ActsFor, Unasked
    <3>8. QED
      BY ONLY <3>2, <3>4, <3>5, <3>6, <3>7, HolderInv DEF HolderInv
  <2>4. CASE RefreshBind(r)
    <3>1. /\ Kind[r] = "refresh" /\ pc[r] = "bind"
          /\ pc' = [pc EXCEPT ![r] = "access"]
          /\ holder' = [holder EXCEPT ![r] = RowOwner(ClientAt(r))]
          /\ UNCHANGED <<code, status, owner, access, consented>>
      BY <2>4 DEF RefreshBind
    <3>2. code[SessionOf[r]] = "gone" /\ Unasked(r)
      BY <3>1 DEF HolderInv
    <3>3. ActsFor(r)'
      BY <3>1, <3>2 DEF ActsFor, Unasked, RowOwner, ClientAt
    <3>4. QED
      BY <3>1, <3>2, <3>3, HolderOf
  <2>5. QED
    BY <1>3, <2>1, <2>2, <2>3, <2>4 DEF Rotate
<1>4. CASE RevokeTokens(r)
  <2>1. CASE RevokeStart(r)
    BY <2>1, <1>0, HolderFrame DEF RevokeStart, HolderQuiet, Issued
  <2>2. CASE RevokeAccess(r)
    <3>1. \A t \in Requests : Issued(t)' <=> Issued(t)
      <4> DEFINE ts == {Presents[r]}
      <4>1. access' \in {Revoke(access, ts), DeleteRows(access, ts)}
        BY ONLY <2>2 DEF RevokeAccess
      <4> HIDE DEF ts
      <4>2. QED
        BY ONLY <4>1, TypeOK, IssuedKept
    <3>2. QED
      BY <2>2, <3>1, HolderFrame DEF RevokeAccess, HolderQuiet
  <2>3. CASE RevokeLinked(r)
    BY <2>3, <1>0, HolderFrame, RowsKept DEF RevokeLinked, HolderQuiet, Issued
  <2>4. CASE RevokeRefreshToken(r)
    BY <2>4, <1>0, HolderFrame, RowsKept DEF RevokeRefreshToken, HolderQuiet, Issued
  <2>5. QED
    BY <1>4, <2>1, <2>2, <2>3, <2>4 DEF RevokeTokens
<1>5. CASE RevokeDevice(r)
  <2>1. CASE DeviceCheck(r)
    BY <2>1, <1>0, HolderFrame DEF DeviceCheck, HolderQuiet, Issued
  <2>2. CASE Deactivate(r)
    BY <2>2, <1>0, HolderFrame DEF Deactivate, HolderQuiet, Issued
  <2>3. CASE RevokeAllAccess(r)
    <3>1. \A t \in Requests : Issued(t)' <=> Issued(t)
      <4> DEFINE ts == PairsOf(ClientAt(r))
      <4>1. access' \in {Revoke(access, ts), DeleteRows(access, ts)}
        BY ONLY <2>3 DEF RevokeAllAccess
      <4> HIDE DEF ts
      <4>2. QED
        BY ONLY <4>1, TypeOK, IssuedKept
    <3>2. QED
      BY <2>3, <3>1, HolderFrame DEF RevokeAllAccess, HolderQuiet
  <2>4. CASE RevokeAllRefresh(r)
    BY <2>4, <1>0, HolderFrame, RowsKept DEF RevokeAllRefresh, HolderQuiet, Issued
  <2>5. QED
    BY <1>5, <2>1, <2>2, <2>3, <2>4 DEF RevokeDevice
<1>6. CASE Delete(r)
  <2>1. CASE DeleteRefresh(r)
    BY <2>1, <1>0, HolderFrame, RowsKept DEF DeleteRefresh, HolderQuiet, Issued
  <2>2. CASE DeleteAccess(r)
    <3>1. \A t \in Requests : Issued(t)' <=> Issued(t)
      <4> DEFINE ts == PairsOf(ClientAt(r))
      <4>1. access' \in {Revoke(access, ts), DeleteRows(access, ts)}
        BY ONLY <2>2 DEF DeleteAccess
      <4> HIDE DEF ts
      <4>2. QED
        BY ONLY <4>1, TypeOK, IssuedKept
    <3>2. QED
      BY <2>2, <3>1, HolderFrame DEF DeleteAccess, HolderQuiet
  <2>3. CASE DeleteCodes(r)
    BY <2>3, <1>0, HolderFrame DEF DeleteCodes, HolderQuiet, Issued
  <2>4. CASE DeleteClient(r)
    BY <2>4, <1>0, HolderFrame DEF DeleteClient, HolderQuiet, Issued
  <2>5. QED
    BY <1>6, <2>1, <2>2, <2>3, <2>4 DEF Delete
<1>7. CASE Issue(r)
  <2>1. CASE IssueAccess(r)
    BY <2>1, <1>0, HolderFrame DEF IssueAccess, HolderQuiet, Issued
  <2>2. CASE IssueRefresh(r)
    BY <2>2, <1>0, HolderFrame DEF IssueRefresh, HolderQuiet, Issued
  <2>3. QED
    BY <1>7, <2>1, <2>2 DEF Issue
<1>8. QED
  BY <1>1, <1>2, <1>3, <1>4, <1>5, <1>6, <1>7 DEF Handle

GrantInv == CodeInv /\ RowInv /\ OwnerInv /\ HolderInv

\* The invariant holds before any request.
LEMMA GrantInit == Init => GrantInv
<1> SUFFICES ASSUME Init PROVE GrantInv
  OBVIOUS
<1>1. TypeOK
  BY InitType
<1>2. \A t \in Requests : access[t] = "none" /\ refresh[t] = "none" /\ pc[t] = Idle
  BY DEF Init, EventLoopInit, NoRows
<1>3. \A s \in Sessions : consented[s] = NoRequest /\ code[s] = "none"
  BY DEF Init
<1>4. CodeInv
  BY <1>2, <1>3, GrantsAssumption DEF CodeInv, Took, Issued, NoCode, Idle
<1>5. RowInv /\ HolderInv
  BY <1>2 DEF RowInv, HolderInv, Issued, Idle
<1>6. OwnerInv
  BY <1>2, <1>3, GrantsAssumption DEF OwnerInv, Init, Idle
<1>7. QED
  BY <1>4, <1>5, <1>6 DEF GrantInv

\* A fault ends requests and leaves the database as it is.
LEMMA GrantFault ==
    ASSUME TypeOK, GrantInv, UNCHANGED <<database, consented>>,
           \A x \in Requests : pc'[x] = pc[x] \/ pc'[x] \in {"failed", "crashed"}
    PROVE  GrantInv'
<1> USE DEF database
<1>1. CodeInv'
  BY DEF GrantInv, CodeInv, Took, Issued
<1>2. RowInv'
  BY DEF GrantInv, RowInv, Issued, BeforeIssue, Idle
<1>3. OwnerInv'
  BY DEF GrantInv, OwnerInv, Owns
<1>4. HolderInv'
  BY HolderFrame DEF GrantInv, HolderQuiet, Issued
<1>5. QED
  BY <1>1, <1>2, <1>3, <1>4 DEF GrantInv

\* Every step keeps the invariant.
LEMMA GrantNext == TypeOK /\ GrantInv /\ [Next]_vars => GrantInv'
<1> SUFFICES ASSUME TypeOK, GrantInv, [Next]_vars PROVE GrantInv'
  OBVIOUS
<1>1. ASSUME NEW r \in Requests, Handle(r) PROVE GrantInv'
  BY <1>1, CodeStep, RowStep, OwnerStep, HolderStep DEF GrantInv
<1>2. ASSUME NEW r \in Requests, DatabaseError(r) PROVE GrantInv'
  BY <1>2, GrantFault DEF DatabaseError, Runs, Moves, TypeOK
<1>3. ASSUME NEW s \in Sessions, Authorize(s) PROVE GrantInv'
  <2>1. /\ code' = [code EXCEPT ![s] = "pending"] /\ code[s] = "none"
        /\ UNCHANGED <<status, owner, access, refresh, holder, pc, consented>>
    BY <1>3 DEF Authorize
  <2>2. CodeInv'
    BY <2>1, GrantsAssumption DEF GrantInv, CodeInv, Took, Issued, NoCode, TypeOK
  <2>3. RowInv'
    BY <2>1 DEF GrantInv, RowInv, Issued
  <2>4. OwnerInv'
    BY <2>1 DEF GrantInv, OwnerInv, Owns
  <2>5. HolderInv'
    BY <2>1, HolderFrame DEF GrantInv, HolderQuiet, Issued, TypeOK
  <2>6. QED
    BY <2>2, <2>3, <2>4, <2>5 DEF GrantInv
<1>4. ASSUME NEW s \in Sessions, Expire(s) PROVE GrantInv'
  <2>1. UNCHANGED <<status, owner, code, access, refresh, holder, pc, consented>>
    BY <1>4 DEF Expire
  <2>2. QED
    BY <2>1, HolderFrame
       DEF GrantInv, CodeInv, Took, Issued, RowInv, OwnerInv, Owns, HolderQuiet
<1>5. ASSUME NEW p \in Procs, NEW t \in Requests,
             Authenticate(p, t) \/ CacheDrop(p, t)
      PROVE  GrantInv'
  BY <1>5, GrantFault DEF Authenticate, CacheDrop
<1>6. ASSUME NEW p \in Procs, Crash(p) PROVE GrantInv'
  BY <1>6, GrantFault DEF Crash
<1>7. CASE UNCHANGED vars
  BY <1>7, GrantFault DEF vars
<1>8. QED
  BY <1>1, <1>2, <1>3, <1>4, <1>5, <1>6, <1>7 DEF Next

\* The invariant holds in every reachable state.
LEMMA GrantInvariant == Spec => [](TypeOK /\ GrantInv)
  BY InitType, NextType, GrantInit, GrantNext, PTL DEF Spec

\* However many processes exchange a code at once, it yields one pair.
THEOREM CodesAreSingleUse == Spec => []CodeRedeemedOnce
<1>1. GrantInv => CodeRedeemedOnce
  BY DEF GrantInv, CodeInv, Took, CodeRedeemedOnce
<1>2. QED
  BY <1>1, GrantInvariant, PTL

\* Every token acts for the user who consented to its session, and on a client
\* that is not public for the client's owner; a token of a session that nobody
\* consented to acts for the owner or for nobody.
THEOREM TokensAreTheConsenters == Spec => []TokensFollowConsent
<1>1. TypeOK /\ GrantInv => TokensFollowConsent
  <2> SUFFICES ASSUME TypeOK, GrantInv, NEW t \in Requests, Issued(t)
               PROVE  IF consented[SessionOf[t]] # NoRequest
                        THEN /\ holder[t] = UserOf[consented[SessionOf[t]]]
                             /\ \/ ClientAt(t) \in Public
                                \/ status[ClientAt(t)] = "deleted"
                                \/ holder[t] = owner[ClientAt(t)]
                        ELSE /\ holder[t] \in {NoUser, owner[ClientAt(t)]}
                             /\ ClientAt(t) \in Public
                                   => status[ClientAt(t)] = "deleted"
    BY DEF TokensFollowConsent
  <2>1. ActsFor(t)
    BY DEF GrantInv, HolderInv
  <2>2. SessionOf[t] \in Sessions
    BY GrantsAssumption
  <2>3. CASE consented[SessionOf[t]] # NoRequest
    <3>1. Owns(ClientAt(t), UserOf[consented[SessionOf[t]]])
      BY <2>2, <2>3 DEF GrantInv, OwnerInv, ClientAt
    <3>2. holder[t] = UserOf[consented[SessionOf[t]]]
      BY <2>1, <2>3 DEF ActsFor, Unasked
    <3>3. QED
      BY <2>3, <3>1, <3>2 DEF Owns
  <2>4. CASE consented[SessionOf[t]] = NoRequest
    BY <2>1, <2>4 DEF ActsFor, Unasked
  <2>5. QED
    BY <2>3, <2>4
<1>2. QED
  BY <1>1, GrantInvariant, PTL

-----------------------------------------------------------------------------
(* OAuthGrants implements Consent. *)

Mapped == <<owner,
            [s \in Sessions |-> IF consented[s] = NoRequest THEN NoUser
                                ELSE UserOf[consented[s]]],
            [s \in Sessions |-> {x \in Requests : /\ Kind[x] = "exchange"
                                                  /\ SessionOf[x] = s
                                                  /\ Issued(x)}],
            [x \in {y \in Requests : Kind[y] = "exchange"} |->
                IF Issued(x) THEN holder[x] ELSE NoUser]>>

\* A step that Consent does not see.
Quiet ==
    /\ UNCHANGED <<owner, consented>>
    /\ \A t \in Requests :
          Kind[t] = "exchange" =>
              /\ Issued(t)' <=> Issued(t)
              /\ Issued(t) => holder'[t] = holder[t]

\* A step that touches neither a client's owner, a session's answer nor an issued
\* token stutters in Consent.
LEMMA QuietIsStutter == Quiet => UNCHANGED Mapped
<1> SUFFICES ASSUME Quiet PROVE UNCHANGED Mapped
  OBVIOUS
<1>1. \A s \in Sessions :
         {x \in Requests : Kind[x] = "exchange" /\ SessionOf[x] = s /\ Issued(x)'}
           = {x \in Requests : Kind[x] = "exchange" /\ SessionOf[x] = s /\ Issued(x)}
  BY DEF Quiet
<1>2. [x \in {y \in Requests : Kind[y] = "exchange"} |->
          IF Issued(x)' THEN holder'[x] ELSE NoUser]
        = [x \in {y \in Requests : Kind[y] = "exchange"} |->
              IF Issued(x) THEN holder[x] ELSE NoUser]
  BY DEF Quiet
<1>3. QED
  BY <1>1, <1>2 DEF Quiet, Mapped

\* Only a claim, the write of a consent and the issue of a code's token are seen
\* in Consent.
LEMMA HandleSeen ==
    ASSUME TypeOK, RowInv, NEW r \in Requests, Handle(r)
    PROVE  \/ Quiet
           \/ ClaimWrite(r)
           \/ ApproveWrite(r)
           \/ Kind[r] = "exchange" /\ IssueAccess(r)
<1> USE DEF database
<1>1. CASE Consent(r)
  <2>1. CASE ConsentLoad(r)
    BY <2>1 DEF ConsentLoad, Quiet, Issued
  <2>2. CASE ClaimRead(r)
    BY <2>2 DEF ClaimRead, Quiet, Issued
  <2>3. CASE ClaimDuplicates(r)
    BY <2>3 DEF ClaimDuplicates, Quiet, Issued
  <2>4. CASE ClaimWrite(r)
    BY <2>4
  <2>5. CASE ClaimReread(r)
    BY <2>5 DEF ClaimReread, Quiet, Issued
  <2>6. CASE ApproveRead(r)
    BY <2>6 DEF ApproveRead, Quiet, Issued
  <2>7. CASE ApproveWrite(r)
    BY <2>7
  <2>8. QED
    BY <1>1, <2>1, <2>2, <2>3, <2>4, <2>5, <2>6, <2>7 DEF Consent
<1>2. CASE Exchange(r)
  <2>1. CASE TokenClient(r)
    BY <2>1 DEF TokenClient, Quiet, Issued
  <2>2. CASE ExchangeLoad(r)
    BY <2>2 DEF ExchangeLoad, Quiet, Issued
  <2>3. CASE ExchangeDelete(r)
    BY <2>3 DEF ExchangeDelete, Quiet, Issued
  <2>4. CASE ExchangeBind(r)
    <3>1. ~ Issued(r)
      BY <2>4 DEF ExchangeBind, Continues, Runs, Moves, RowInv, BeforeIssue
    <3>2. QED
      BY <2>4, <3>1 DEF ExchangeBind, Quiet, Issued, TypeOK
  <2>5. QED
    BY <1>2, <2>1, <2>2, <2>3, <2>4 DEF Exchange
<1>3. CASE Rotate(r)
  <2>1. CASE RefreshLoad(r)
    BY <2>1 DEF RefreshLoad, Quiet, Issued
  <2>2. CASE RefreshRevokeOld(r)
    BY <2>2 DEF RefreshRevokeOld, Quiet, Issued
  <2>3. CASE RefreshRevokeOldAccess(r)
    <3>1. \A t \in Requests : Issued(t)' <=> Issued(t)
      <4> DEFINE ts == {Presents[r]}
      <4>1. access' \in {Revoke(access, ts), DeleteRows(access, ts)}
        BY ONLY <2>3 DEF RefreshRevokeOldAccess
      <4> HIDE DEF ts
      <4>2. QED
        BY ONLY <4>1, TypeOK, IssuedKept
    <3>2. /\ Kind[r] = "refresh"
          /\ holder' = [holder EXCEPT ![r] = holder[Presents[r]]]
          /\ UNCHANGED <<owner, consented>>
      BY ONLY <2>3 DEF RefreshRevokeOldAccess, Carry, Continues
    <3>3. QED
      BY <3>1, <3>2 DEF Quiet, TypeOK
  <2>4. CASE RefreshBind(r)
    BY <2>4 DEF RefreshBind, Continues, Quiet, Issued, TypeOK
  <2>5. QED
    BY <1>3, <2>1, <2>2, <2>3, <2>4 DEF Rotate
<1>4. CASE RevokeTokens(r)
  <2>1. CASE RevokeStart(r)
    BY <2>1 DEF RevokeStart, Quiet, Issued
  <2>2. CASE RevokeAccess(r)
    <3>1. \A t \in Requests : Issued(t)' <=> Issued(t)
      <4> DEFINE ts == {Presents[r]}
      <4>1. access' \in {Revoke(access, ts), DeleteRows(access, ts)}
        BY ONLY <2>2 DEF RevokeAccess
      <4> HIDE DEF ts
      <4>2. QED
        BY ONLY <4>1, TypeOK, IssuedKept
    <3>2. UNCHANGED <<owner, consented, holder>>
      BY ONLY <2>2 DEF RevokeAccess
    <3>3. QED
      BY <3>1, <3>2 DEF Quiet
  <2>3. CASE RevokeLinked(r)
    BY <2>3 DEF RevokeLinked, Quiet, Issued
  <2>4. CASE RevokeRefreshToken(r)
    BY <2>4 DEF RevokeRefreshToken, Quiet, Issued
  <2>5. QED
    BY <1>4, <2>1, <2>2, <2>3, <2>4 DEF RevokeTokens
<1>5. CASE RevokeDevice(r)
  <2>1. CASE DeviceCheck(r)
    BY <2>1 DEF DeviceCheck, Quiet, Issued
  <2>2. CASE Deactivate(r)
    BY <2>2 DEF Deactivate, Quiet, Issued
  <2>3. CASE RevokeAllAccess(r)
    <3>1. \A t \in Requests : Issued(t)' <=> Issued(t)
      <4> DEFINE ts == PairsOf(ClientAt(r))
      <4>1. access' \in {Revoke(access, ts), DeleteRows(access, ts)}
        BY ONLY <2>3 DEF RevokeAllAccess
      <4> HIDE DEF ts
      <4>2. QED
        BY ONLY <4>1, TypeOK, IssuedKept
    <3>2. UNCHANGED <<owner, consented, holder>>
      BY ONLY <2>3 DEF RevokeAllAccess
    <3>3. QED
      BY <3>1, <3>2 DEF Quiet
  <2>4. CASE RevokeAllRefresh(r)
    BY <2>4 DEF RevokeAllRefresh, Quiet, Issued
  <2>5. QED
    BY <1>5, <2>1, <2>2, <2>3, <2>4 DEF RevokeDevice
<1>6. CASE Delete(r)
  <2>1. CASE DeleteRefresh(r)
    BY <2>1 DEF DeleteRefresh, Quiet, Issued
  <2>2. CASE DeleteAccess(r)
    <3>1. \A t \in Requests : Issued(t)' <=> Issued(t)
      <4> DEFINE ts == PairsOf(ClientAt(r))
      <4>1. access' \in {Revoke(access, ts), DeleteRows(access, ts)}
        BY ONLY <2>2 DEF DeleteAccess
      <4> HIDE DEF ts
      <4>2. QED
        BY ONLY <4>1, TypeOK, IssuedKept
    <3>2. UNCHANGED <<owner, consented, holder>>
      BY ONLY <2>2 DEF DeleteAccess
    <3>3. QED
      BY <3>1, <3>2 DEF Quiet
  <2>3. CASE DeleteCodes(r)
    BY <2>3 DEF DeleteCodes, Quiet, Issued
  <2>4. CASE DeleteClient(r)
    BY <2>4 DEF DeleteClient, Quiet, Issued
  <2>5. QED
    BY <1>6, <2>1, <2>2, <2>3, <2>4 DEF Delete
<1>7. CASE Issue(r)
  <2>1. CASE IssueAccess(r)
    BY <2>1 DEF IssueAccess, Issues, Quiet, Issued, TypeOK
  <2>2. CASE IssueRefresh(r)
    BY <2>2 DEF IssueRefresh, Quiet, Issued
  <2>3. QED
    BY <1>7, <2>1, <2>2 DEF Issue
<1>8. QED
  BY <1>1, <1>2, <1>3, <1>4, <1>5, <1>6, <1>7 DEF Handle

\* The initial states map to initial states of Consent.
LEMMA ConsentInit == Init => C!Init
  BY DEF Init, C!Init, NoRows, Issued

\* The claim that finds the client without an owner is the abstract one.
LEMMA ClaimClaims ==
    ASSUME TypeOK, GrantInv, NEW r \in Requests, ClaimWrite(r)
    PROVE  C!Next \/ UNCHANGED Mapped
<1>1. ClientAt(r) \in Clients /\ UserOf[r] \in Users
  BY GrantsAssumption DEF ClientAt
<1>2. CASE Claimable(ClientAt(r))
  <2>1. /\ pc[r] = "claimWrite"
        /\ owner[ClientAt(r)] = NoUser
        /\ owner' = [owner EXCEPT ![ClientAt(r)] = UserOf[r]]
        /\ UNCHANGED <<access, holder, consented>>
    BY <1>2 DEF ClaimWrite, Claimable, Continues, Runs, Moves
  <2>2. ClientAt(r) \notin Public
    BY <2>1 DEF GrantInv, OwnerInv
  <2>3. C!Claim(ClientAt(r), UserOf[r])
    BY <2>1, <2>2 DEF C!Claim, Issued
  <2>4. QED
    BY <1>1, <2>3 DEF C!Next
<1>3. CASE ~ Claimable(ClientAt(r))
  BY <1>3, QuietIsStutter DEF ClaimWrite, Quiet, Issued
<1>4. QED
  BY <1>2, <1>3

\* The consent that finds the session pending is the abstract one.
LEMMA ApproveAgrees ==
    ASSUME TypeOK, GrantInv, NEW r \in Requests, ApproveWrite(r)
    PROVE  C!Next \/ UNCHANGED Mapped
<1>1. SessionOf[r] \in Sessions /\ UserOf[r] \in Users /\ UserOf[r] # NoUser
  BY GrantsAssumption
<1>2. CASE code[SessionOf[r]] = "pending"
  <2>1. /\ consented' = [consented EXCEPT ![SessionOf[r]] = r]
        /\ UNCHANGED <<owner, access, holder>>
    BY <1>2 DEF ApproveWrite
  <2>2. consented[SessionOf[r]] = NoRequest
    BY <1>1, <1>2 DEF GrantInv, CodeInv
  <2>3. r # NoRequest
    BY GrantsAssumption
  <2>4. {x \in Requests : Kind[x] = "exchange" /\ SessionOf[x] = SessionOf[r]
                          /\ Issued(x)} = {}
    BY <1>2 DEF GrantInv, CodeInv, Took
  <2>5. C!Agree(SessionOf[r], UserOf[r])
    BY <1>1, <2>1, <2>2, <2>3, <2>4 DEF C!Agree, TypeOK, Issued
  <2>6. QED
    BY <1>1, <2>5 DEF C!Next
<1>3. CASE code[SessionOf[r]] # "pending"
  BY <1>3, QuietIsStutter DEF ApproveWrite, Quiet, Issued
<1>4. QED
  BY <1>2, <1>3

\* The exchange whose DELETE took the row issues the abstract pair.
LEMMA ExchangeIssues ==
    ASSUME TypeOK, GrantInv, NEW r \in Requests, Kind[r] = "exchange", IssueAccess(r)
    PROVE  C!Next
<1>1. /\ pc[r] = "access"
      /\ access' = [access EXCEPT ![r] = "valid"]
      /\ UNCHANGED <<owner, holder, consented>>
  BY DEF IssueAccess, Runs, Moves
<1>2. SessionOf[r] \in Sessions /\ ClientAt(r) = ClientOf[SessionOf[r]]
  BY GrantsAssumption DEF ClientAt
<1>3. Took(r)
  BY <1>1 DEF Took
<1>4. ActsFor(r)
  BY <1>1 DEF GrantInv, HolderInv
<1>5. \A x \in Requests :
         Kind[x] = "exchange" /\ SessionOf[x] = SessionOf[r] => ~ Issued(x)
  <2> SUFFICES ASSUME NEW x \in Requests, Kind[x] = "exchange",
                      SessionOf[x] = SessionOf[r], Issued(x)
               PROVE  FALSE
    OBVIOUS
  <2>1. x = r
    BY <1>3 DEF GrantInv, CodeInv, Took
  <2>2. QED
    BY <1>1, <2>1 DEF GrantInv, RowInv, BeforeIssue
<1>6. \A x \in Requests : Issued(x)' <=> Issued(x) \/ x = r
  BY <1>1 DEF Issued, TypeOK
<1>7. C!IssueFor(SessionOf[r], r, holder[r])
  <2>1. {x \in Requests : Kind[x] = "exchange" /\ SessionOf[x] = SessionOf[r]
                          /\ Issued(x)} = {}
    BY <1>5
  <2>2. [s \in Sessions |-> {x \in Requests : /\ Kind[x] = "exchange"
                                              /\ SessionOf[x] = s
                                              /\ Issued(x)'}]
          = [[s \in Sessions |-> {x \in Requests : /\ Kind[x] = "exchange"
                                                   /\ SessionOf[x] = s
                                                   /\ Issued(x)}]
               EXCEPT ![SessionOf[r]] = {r}]
    BY <1>2, <1>5, <1>6
  <2>3. [x \in {y \in Requests : Kind[y] = "exchange"} |->
            IF Issued(x)' THEN holder'[x] ELSE NoUser]
          = [[x \in {y \in Requests : Kind[y] = "exchange"} |->
                 IF Issued(x) THEN holder[x] ELSE NoUser]
               EXCEPT ![r] = holder[r]]
    BY <1>1, <1>6
  <2>4. QED
    BY <1>1, <1>2, <2>1, <2>2, <2>3 DEF C!IssueFor
<1>8. C!Issue(SessionOf[r], r) \/ C!IssueUnasked(SessionOf[r], r)
  <2>1. \A q \in Requests : UserOf[q] # NoUser
    BY GrantsAssumption
  <2>2. consented[SessionOf[r]] \in Requests \cup {NoRequest}
    BY <1>2 DEF TypeOK
  <2>3. CASE consented[SessionOf[r]] # NoRequest
    <3>1. holder[r] = UserOf[consented[SessionOf[r]]]
      BY <1>4, <2>3 DEF ActsFor, Unasked
    <3>2. [s \in Sessions |-> IF consented[s] = NoRequest THEN NoUser
                              ELSE UserOf[consented[s]]][SessionOf[r]] = holder[r]
      BY <1>2, <2>3, <3>1
    <3>3. holder[r] # NoUser
      BY <2>1, <2>2, <2>3, <3>1
    <3>4. C!Issue(SessionOf[r], r)
      BY ONLY <1>7, <3>2, <3>3 DEF C!Issue, C!IssueFor
    <3>5. QED
      BY <3>4
  <2>4. CASE consented[SessionOf[r]] = NoRequest
    <3>1. holder[r] \in {NoUser, owner[ClientOf[SessionOf[r]]]}
      BY <1>2, <1>4, <2>4 DEF ActsFor, Unasked
    <3>2. [s \in Sessions |-> IF consented[s] = NoRequest THEN NoUser
                              ELSE UserOf[consented[s]]][SessionOf[r]] = NoUser
      BY <1>2, <2>4
    <3>3. C!IssueUnasked(SessionOf[r], r)
      BY ONLY <1>7, <3>1, <3>2 DEF C!IssueUnasked, C!IssueFor
    <3>4. QED
      BY <3>3
  <2>5. QED
    BY <2>3, <2>4
<1>9. r \in {x \in Requests : Kind[x] = "exchange"}
  OBVIOUS
<1>10. QED
  BY <1>2, <1>8, <1>9 DEF C!Next

\* Every step maps to a step of Consent or a stutter.
LEMMA ConsentStep ==
    TypeOK /\ GrantInv /\ [Next]_vars => C!Next \/ UNCHANGED Mapped
<1> SUFFICES ASSUME TypeOK, GrantInv, [Next]_vars
             PROVE  C!Next \/ UNCHANGED Mapped
  OBVIOUS
<1>1. ASSUME NEW r \in Requests, Handle(r) PROVE C!Next \/ UNCHANGED Mapped
  BY <1>1, HandleSeen, QuietIsStutter, ClaimClaims, ApproveAgrees, ExchangeIssues
     DEF GrantInv
<1>2. ASSUME UNCHANGED <<owner, access, holder, consented>>
      PROVE  C!Next \/ UNCHANGED Mapped
  BY <1>2, QuietIsStutter DEF Quiet, Issued
<1>3. CASE \E r \in Requests : DatabaseError(r)
  BY <1>2, <1>3 DEF DatabaseError, database
<1>4. CASE \E s \in Sessions : Authorize(s) \/ Expire(s)
  BY <1>2, <1>4 DEF Authorize, Expire
<1>5. CASE \E p \in Procs, t \in Requests : Authenticate(p, t) \/ CacheDrop(p, t)
  BY <1>2, <1>5 DEF Authenticate, CacheDrop, database
<1>6. CASE \E p \in Procs : Crash(p)
  BY <1>2, <1>6 DEF Crash, database
<1>7. CASE UNCHANGED vars
  BY <1>2, <1>7 DEF vars, database
<1>8. QED
  BY <1>1, <1>3, <1>4, <1>5, <1>6, <1>7 DEF Next

\* However many processes race and whatever dies, the handlers implement the
\* promise: one owner, one consent, one pair, which acts for who consented, and
\* without a consent for nobody but the client's owner.
THEOREM GrantsImplementConsent == Spec => ConsentSpec
<1>1. TypeOK /\ GrantInv /\ [Next]_vars => [C!Next]_Mapped
  BY ConsentStep
<1>2. QED
  BY <1>1, ConsentInit, GrantInvariant, PTL DEF Spec, ConsentSpec, C!Spec, Mapped
=============================================================================
