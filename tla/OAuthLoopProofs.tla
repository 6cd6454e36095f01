--------------------------- MODULE OAuthLoopProofs ---------------------------
(* What one event loop makes of OAuthGrants: proofs for every set of users, *)
(* clients, sessions and requests, and one process.                         *)
EXTENDS OAuthGrantsProofs

OneProcess == \A p, q \in Procs : p = q

-----------------------------------------------------------------------------
(* The loop is a mutex: every handler is a coroutine, none awaits between   *)
(* two database calls, and so whoever is between two has the process alone. *)

HoldsLoop == \A r \in Requests : pc[r] \in Call => loop[at[r]] = r
LoopInv == TypeOK /\ HoldsLoop

\* A step of a handler: it is a new request and gets a free loop, or it goes on.
Moving(r) ==
    /\ \/ pc[r] = Idle /\ loop[at[r]] = NoRequest
       \/ pc[r] \in Call
    /\ \E to \in Call \cup Outcome : Runs(r, pc[r], to)

\* Every step of a handler passes its request from a call to the next, on its loop.
LEMMA HandlerMoves ==
    ASSUME NEW r \in Requests, Handle(r)
    PROVE  Moving(r)
<1> USE DEF Moving, Enters, Continues, Starts, Runs, Moves, Idle, Call, Outcome
<1>1. CASE Consent(r)
  BY <1>1 DEF Consent, ConsentLoad, ClaimRead, ClaimDuplicates, ClaimWrite,
              ClaimReread, ApproveRead, ApproveWrite
<1>2. CASE Exchange(r)
  BY <1>2 DEF Exchange, TokenClient, ExchangeLoad, ExchangeDelete, ExchangeBind
<1>3. CASE Rotate(r)
  BY <1>3 DEF Rotate, RefreshLoad, RefreshRevokeOld, RefreshRevokeOldAccess,
              RefreshBind, Carry
<1>4. CASE RevokeTokens(r)
  BY <1>4 DEF RevokeTokens, RevokeStart, RevokeAccess, RevokeLinked,
              RevokeRefreshToken
<1>5. CASE RevokeDevice(r)
  BY <1>5 DEF RevokeDevice, DeviceCheck, Deactivate, RevokeAllAccess,
              RevokeAllRefresh
<1>6. CASE Delete(r)
  BY <1>6 DEF Delete, DeleteRefresh, DeleteAccess, DeleteCodes, DeleteClient
<1>7. CASE Issue(r)
  BY <1>7 DEF Issue, IssueAccess, IssueRefresh
<1>8. QED
  BY <1>1, <1>2, <1>3, <1>4, <1>5, <1>6, <1>7 DEF Handle

\* Taking a step keeps the loop with the request that is between two calls.
LEMMA MovingHolds ==
    ASSUME LoopInv, NEW r \in Requests, Moving(r)
    PROVE  HoldsLoop'
<1>1. PICK to \in Call \cup Outcome : Runs(r, pc[r], to)
  BY DEF Moving
<1>2. \A q \in Requests : q # r /\ pc[q] \in Call => at[q] # at[r]
  BY GrantsAssumption DEF Moving, LoopInv, HoldsLoop
<1>3. pc' = [pc EXCEPT ![r] = to] /\ at' = at
      /\ loop' = [loop EXCEPT ![at[r]] = IF to \in Outcome THEN NoRequest ELSE r]
  BY <1>1 DEF Runs, Moves
<1>4. to \in Outcome => to \notin Call
  BY DEF Call, Outcome
<1>5. at \in [Requests -> Procs] /\ pc \in [Requests -> {Idle} \cup Call \cup Outcome]
      /\ loop \in [Procs -> Requests \cup {NoRequest}]
  BY DEF LoopInv, TypeOK
<1>6. ASSUME NEW q \in Requests, pc'[q] \in Call PROVE loop'[at'[q]] = q
  <2>1. CASE q = r
    BY <1>3, <1>4, <1>5, <1>6, <2>1
  <2>2. CASE q # r
    <3>1. pc[q] \in Call
      BY <1>3, <1>5, <1>6, <2>2
    <3>2. QED
      BY <1>2, <1>3, <1>5, <2>2, <3>1 DEF LoopInv, HoldsLoop
  <2>3. QED
    BY <2>1, <2>2
<1>7. QED
  BY <1>6 DEF HoldsLoop

\* Every step of the server keeps the types and the ownership of the loops.
LEMMA LoopNext == LoopInv /\ [Next]_vars => LoopInv'
<1> SUFFICES ASSUME LoopInv, [Next]_vars PROVE HoldsLoop'
  BY NextType DEF LoopInv
<1> USE DEF LoopInv, TypeOK, HoldsLoop, Runs, Moves, Call, Outcome, Idle
<1>0. CASE UNCHANGED vars
  BY <1>0 DEF vars
<1>1. ASSUME NEW r \in Requests, Handle(r) PROVE HoldsLoop'
  BY <1>1, HandlerMoves, MovingHolds
<1>2. ASSUME NEW r \in Requests, DatabaseError(r) PROVE HoldsLoop'
  <2>1. Moving(r)
    BY <1>2 DEF DatabaseError, Moving
  <2>2. QED
    BY <2>1, MovingHolds
<1>3. ASSUME NEW s \in Sessions, Authorize(s) \/ Expire(s) PROVE HoldsLoop'
  BY <1>3 DEF Authorize, Expire
<1>4. ASSUME NEW p \in Procs, NEW t \in Requests,
             Authenticate(p, t) \/ CacheDrop(p, t)
      PROVE  HoldsLoop'
  BY <1>4 DEF Authenticate, CacheDrop
<1>5. ASSUME NEW p \in Procs, Crash(p) PROVE HoldsLoop'
  BY <1>5 DEF Crash
<1>6. QED
  BY <1>0, <1>1, <1>2, <1>3, <1>4, <1>5 DEF Next

\* No request has begun, and no loop is taken.
LEMMA LoopInit == Init => LoopInv
  BY InitType DEF Init, EventLoopInit, LoopInv, HoldsLoop, Idle, Call

\* While a handler takes a step no other one is between two of its calls.
LEMMA OthersRest ==
    ASSUME OneProcess, LoopInv, NEW r \in Requests, Handle(r)
    PROVE  \A q \in Requests : q # r => pc[q] \notin Call /\ pc'[q] = pc[q]
<1>1. Moving(r)
  BY HandlerMoves
<1>2. at[r] \in Procs /\ \A q \in Requests : at[q] = at[r]
  BY DEF OneProcess, LoopInv, TypeOK
<1>3. loop[at[r]] \in {NoRequest, r}
  BY <1>1 DEF Moving, LoopInv, HoldsLoop
<1>4. \A q \in Requests : q # r => pc[q] \notin Call
  BY <1>2, <1>3, GrantsAssumption DEF LoopInv, HoldsLoop
<1>5. QED
  BY <1>1, <1>4 DEF Moving, Runs, Moves, LoopInv, TypeOK

-----------------------------------------------------------------------------
(* What steps do to the rows, whichever handler takes them.                 *)

\* A request to /token that has passed the check of its grant.
Issuing(r) == Kind[r] \in Issues /\ pc[r] \in {"access", "refresh"}

\* An UPDATE of is_revoked makes no token valid.
LEMMA RevokeMakesNone ==
    ASSUME NEW rows \in [Requests -> Row], NEW ts, NEW t \in Requests
    PROVE  /\ Revoke(rows, ts)[t] = "valid" => rows[t] = "valid"
           /\ DeleteRows(rows, ts)[t] = "valid" => rows[t] = "valid"
  BY DEF Revoke, DeleteRows

\* No handler switches a device on, and only /token makes tokens.
LEMMA RowEffects ==
    ASSUME TypeOK, NEW r \in Requests, Handle(r)
    PROVE  /\ \A c \in Clients : status'[c] = "active" => status[c] = "active"
           /\ \A t \in Requests : access'[t] = "valid" =>
                 access[t] = "valid" \/ (t = r /\ Issuing(r))
           /\ \A t \in Requests : refresh'[t] = "valid" =>
                 refresh[t] = "valid" \/ (t = r /\ Issuing(r))
           /\ Kind[r] \in Issues => UNCHANGED status
<1> USE DEF Issuing, Issues, Enters, Continues, Runs, Moves, database
<1>0. /\ status \in [Clients -> {"active", "inactive", "deleted"}]
      /\ access \in [Requests -> Row] /\ refresh \in [Requests -> Row]
      /\ ClientAt(r) \in Clients
  BY GrantsAssumption DEF TypeOK, ClientAt
<1>1. CASE Consent(r)
  <2>1. UNCHANGED <<access, refresh>> /\ Kind[r] \notin Issues
    BY <1>1 DEF Consent, ConsentLoad, ClaimRead, ClaimDuplicates, ClaimWrite,
                ClaimReread, ApproveRead, ApproveWrite
  <2>2. \A c \in Clients : status'[c] = "active" => status[c] = "active"
    BY <1>1 DEF Consent, ConsentLoad, ClaimRead, ClaimDuplicates, ClaimWrite,
                ClaimReread, ApproveRead, ApproveWrite
  <2>3. QED
    BY <2>1, <2>2
<1>2. CASE Exchange(r)
  BY <1>0, <1>2 DEF Exchange, TokenClient, ExchangeLoad, ExchangeDelete,
                    ExchangeBind
<1>3. CASE Rotate(r)
  BY <1>0, <1>3, RevokeMakesNone
     DEF Rotate, RefreshLoad, RefreshRevokeOld, RefreshRevokeOldAccess, RefreshBind,
         Carry
<1>4. CASE RevokeTokens(r)
  BY <1>0, <1>4, RevokeMakesNone
     DEF RevokeTokens, RevokeStart, RevokeAccess, RevokeLinked, RevokeRefreshToken
<1>5. CASE RevokeDevice(r)
  BY <1>0, <1>5, RevokeMakesNone
     DEF RevokeDevice, DeviceCheck, Deactivate, RevokeAllAccess, RevokeAllRefresh
<1>6. CASE Delete(r)
  BY <1>0, <1>6, RevokeMakesNone
     DEF Delete, DeleteRefresh, DeleteAccess, DeleteCodes, DeleteClient
<1>7. CASE Issue(r)
  BY <1>0, <1>7 DEF Issue, IssueAccess, IssueRefresh
<1>8. QED
  BY <1>1, <1>2, <1>3, <1>4, <1>5, <1>6, <1>7 DEF Handle

\* The other steps leave all rows alone but for a session that opens, and send
\* requests nowhere but to failure.
Aside ==
    /\ UNCHANGED <<status, owner, access, refresh, holder, consented>>
    /\ \A r \in Requests : pc'[r] \in {pc[r], "failed", "crashed"}
    /\ \A s \in Sessions : code'[s] # code[s] => code[s] = "none" /\ code'[s] = "pending"

\* A request runs the handler of its own kind.
LEMMA StepKinds ==
    ASSUME TypeOK, [Next]_vars
    PROVE  Aside \/ \E r \in Requests : Handle(r)
<1> USE DEF TypeOK, Aside, database
<1>0. CASE UNCHANGED vars
  BY <1>0 DEF vars
<1>1. ASSUME NEW r \in Requests, DatabaseError(r) PROVE Aside
  BY <1>1 DEF DatabaseError, Runs, Moves
<1>2. ASSUME NEW s \in Sessions, Authorize(s) \/ Expire(s) PROVE Aside
  BY <1>2 DEF Authorize, Expire
<1>3. ASSUME NEW p \in Procs, NEW t \in Requests,
             Authenticate(p, t) \/ CacheDrop(p, t)
      PROVE  Aside
  BY <1>3 DEF Authenticate, CacheDrop
<1>4. ASSUME NEW p \in Procs, Crash(p) PROVE Aside
  BY <1>4 DEF Crash
<1>5. QED
  BY <1>0, <1>1, <1>2, <1>3, <1>4 DEF Next

-----------------------------------------------------------------------------
(* A revoked device is dead.                                                *)

Buttons == {"portalRevoke", "adminRevoke"}

\* Whoever is at a statement of /token has a client that is active, and a client
\* whose device is being revoked is not any more.
DeadInv ==
    /\ \A x \in Requests :
          Kind[x] \in Issues /\ pc[x] \in Call => status[ClientAt(x)] = "active"
    /\ \A r \in Requests : Kind[r] \in Buttons =>
          /\ pc[r] \in {"revokeAllAccess", "revokeAllRefresh", "ok"} =>
                status[ClientAt(r)] # "active"
          /\ pc[r] \in {"revokeAllRefresh", "ok"} =>
                \A t \in PairsOf(ClientAt(r)) : access[t] # "valid"
          /\ pc[r] = "ok" =>
                \A t \in PairsOf(ClientAt(r)) : refresh[t] # "valid"

\* /token asks for an active client; a button deactivates, then revokes the access
\* tokens, then the refresh tokens.
LEMMA DeadMoves ==
    ASSUME TypeOK, NEW r \in Requests, Handle(r)
    PROVE  /\ Kind[r] \in Issues /\ pc'[r] \in Call =>
                 pc[r] \in Call \/ status[ClientAt(r)] = "active"
           /\ Kind[r] \in Buttons =>
                 /\ pc'[r] = "revokeAllAccess" => status'[ClientAt(r)] # "active"
                 /\ pc'[r] = "revokeAllRefresh" =>
                       /\ pc[r] = "revokeAllAccess"
                       /\ \A t \in PairsOf(ClientAt(r)) : access'[t] # "valid"
                 /\ pc'[r] = "ok" =>
                       /\ pc[r] = "revokeAllRefresh"
                       /\ \A t \in PairsOf(ClientAt(r)) : refresh'[t] # "valid"
<1> USE DEF TypeOK, Issues, Buttons, Enters, Continues, Starts, Runs, Moves, database, Call
<1>1. CASE Consent(r)
  BY <1>1 DEF Consent, ConsentLoad, ClaimRead, ClaimDuplicates, ClaimWrite,
              ClaimReread, ApproveRead, ApproveWrite
<1>2. CASE Exchange(r)
  BY <1>2 DEF Exchange, TokenClient, ExchangeLoad, ExchangeDelete, ExchangeBind
<1>3. CASE Rotate(r)
  BY <1>3 DEF Rotate, RefreshLoad, RefreshRevokeOld, RefreshRevokeOldAccess,
              RefreshBind, Carry
<1>4. CASE RevokeTokens(r)
  BY <1>4 DEF RevokeTokens, RevokeStart, RevokeAccess, RevokeLinked,
              RevokeRefreshToken
<1>5. CASE RevokeDevice(r)
  BY <1>5, GrantsAssumption
     DEF RevokeDevice, DeviceCheck, Deactivate, RevokeAllAccess, RevokeAllRefresh,
         ClientAt, PairsOf, Revoke
<1>6. CASE Delete(r)
  BY <1>6 DEF Delete, DeleteRefresh, DeleteAccess, DeleteCodes, DeleteClient
<1>7. CASE Issue(r)
  BY <1>7 DEF Issue, IssueAccess, IssueRefresh
<1>8. QED
  BY <1>1, <1>2, <1>3, <1>4, <1>5, <1>6, <1>7 DEF Handle

\* A step of a handler leaves a revoked device dead.
LEMMA DeadStep ==
    ASSUME OneProcess, LoopInv, DeadInv, NEW r \in Requests, Handle(r)
    PROVE  DeadInv'
<1>1. \A q \in Requests : q # r => pc[q] \notin Call /\ pc'[q] = pc[q]
  BY OthersRest
<1>2. TypeOK /\ \A q \in Requests : ClientAt(q) \in Clients
  BY GrantsAssumption DEF LoopInv, ClientAt
<1>3. Issuing(r) => status[ClientAt(r)] = "active"
  BY DEF Issuing, DeadInv, Call
<1>4. ASSUME NEW x \in Requests, Kind[x] \in Issues, pc'[x] \in Call
      PROVE  status'[ClientAt(x)] = "active"
  <2>1. x = r
    BY <1>1, <1>4
  <2>2. QED
    BY <1>2, <1>4, <2>1, DeadMoves, RowEffects DEF DeadInv
<1>5. ASSUME NEW q \in Requests, Kind[q] \in Buttons
      PROVE  /\ pc'[q] \in {"revokeAllAccess", "revokeAllRefresh", "ok"} =>
                   status'[ClientAt(q)] # "active"
             /\ pc'[q] \in {"revokeAllRefresh", "ok"} =>
                   \A t \in PairsOf(ClientAt(q)) : access'[t] # "valid"
             /\ pc'[q] = "ok" =>
                   \A t \in PairsOf(ClientAt(q)) : refresh'[t] # "valid"
  <2>1. CASE q = r
    <3>1. ~ Issuing(r)
      BY <1>5, <2>1 DEF Issuing, Buttons, Issues
    <3>2. QED
      BY <1>2, <1>5, <2>1, <3>1, DeadMoves, RowEffects DEF DeadInv, PairsOf
  <2>2. CASE q # r
    <3>1. pc'[q] = pc[q] /\ pc[q] \notin Call
      BY <1>1, <2>2
    <3>2. CASE pc[q] = "ok"
      <4>1. /\ status[ClientAt(q)] # "active"
            /\ \A t \in PairsOf(ClientAt(q)) : access[t] # "valid" /\ refresh[t] # "valid"
        BY <1>5, <3>2 DEF DeadInv
      <4>2. \A t \in PairsOf(ClientAt(q)) : t = r => ~ Issuing(r)
        BY <1>3, <4>1 DEF PairsOf
      <4>3. QED
        BY <1>2, <4>1, <4>2, RowEffects DEF PairsOf
    <3>3. CASE pc[q] # "ok"
      BY <3>1, <3>3 DEF Call
    <3>4. QED
      BY <3>2, <3>3
  <2>3. QED
    BY <2>1, <2>2
<1>6. QED
  BY <1>4, <1>5 DEF DeadInv, ClientAt, PairsOf

\* A step that is no handler's leaves a revoked device dead.
LEMMA DeadAside == DeadInv /\ Aside => DeadInv'
  BY DEF DeadInv, Aside, ClientAt, PairsOf, Call

\* In one process, a device that the portal or the panel has revoked has no
\* valid token, and never gets one again.
THEOREM RevokedDevicesAreDead ==
    ASSUME OneProcess
    PROVE  Spec => []RevokedDeviceIsDead
<1>1. Init => LoopInv /\ DeadInv
  BY LoopInit DEF Init, EventLoopInit, DeadInv, Idle, Call
<1>2. LoopInv /\ DeadInv /\ [Next]_vars => (LoopInv /\ DeadInv)'
  <2> SUFFICES ASSUME LoopInv, DeadInv, [Next]_vars PROVE DeadInv'
    BY LoopNext
  <2>1. Aside \/ \E r \in Requests : Handle(r)
    BY StepKinds DEF LoopInv
  <2>2. QED
    BY <2>1, DeadAside, DeadStep
<1>3. DeadInv => RevokedDeviceIsDead
  BY DEF DeadInv, RevokedDeviceIsDead, Buttons
<1>4. QED
  BY <1>1, <1>2, <1>3, PTL DEF Spec

-----------------------------------------------------------------------------
(* A session has one refresh token that works.                              *)

\* A pair whose refresh token works, or will when its request is done.
Live(x) ==
    \/ refresh[x] = "valid"
    \/ Kind[x] \in Issues /\ pc[x] \in {"revokeOldAccess", "bind", "access", "refresh"}

\* A new pair comes from the live one only, which is revoked before the new one is
\* made; the code of a session that has tokens is gone for good (HolderInv).
LiveInv ==
    /\ \A r \in Requests : Kind[r] = "refresh" /\ pc[r] = "revokeOld" =>
          refresh[Presents[r]] = "valid"
    /\ \A x, y \in Requests : Live(x) /\ Live(y) /\ SessionOf[x] = SessionOf[y] => x = y

\* What makes a pair live.
LEMMA LiveMoves ==
    ASSUME TypeOK, NEW r \in Requests, Handle(r)
    PROVE  /\ /\ Kind[r] \in Issues
              /\ pc'[r] \in {"revokeOldAccess", "bind", "access", "refresh"}
              =>
                 \/ pc[r] \in {"revokeOldAccess", "bind", "access"}
                 \/ /\ Kind[r] = "exchange" /\ pc[r] = "delete"
                    /\ code[SessionOf[r]] = Presented(r)
                 \/ /\ Kind[r] = "refresh" /\ pc[r] = "revokeOld"
                    /\ refresh'[Presents[r]] # "valid"
           /\ Kind[r] = "refresh" /\ pc'[r] = "revokeOld" =>
                 refresh'[Presents[r]] = "valid"
<1> USE DEF Issues, Enters, Continues, Starts, Runs, Moves, database
<1>0. /\ code \in [Sessions -> NoCode \cup Requests]
      /\ access \in [Requests -> Row] /\ refresh \in [Requests -> Row]
      /\ pc \in [Requests -> {Idle} \cup Call \cup Outcome]
      /\ SessionOf[r] \in Sessions /\ Presents[r] \in Requests
  BY GrantsAssumption DEF TypeOK
<1>1. CASE Consent(r)
  BY <1>1 DEF Consent, ConsentLoad, ClaimRead, ClaimDuplicates, ClaimWrite,
              ClaimReread, ApproveRead, ApproveWrite
<1>2. CASE Exchange(r)
  BY <1>0, <1>2, GrantsAssumption
     DEF Exchange, TokenClient, ExchangeLoad, ExchangeDelete, ExchangeBind
<1>3. CASE Rotate(r)
  BY <1>0, <1>3, RowsKept
     DEF Rotate, RefreshLoad, RefreshRevokeOld, RefreshRevokeOldAccess, RefreshBind,
         Carry, Revoke
<1>4. CASE RevokeTokens(r)
  BY <1>0, <1>4, RowsKept
     DEF RevokeTokens, RevokeStart, RevokeAccess, RevokeLinked, RevokeRefreshToken
<1>5. CASE RevokeDevice(r)
  BY <1>0, <1>5, RowsKept
     DEF RevokeDevice, DeviceCheck, Deactivate, RevokeAllAccess, RevokeAllRefresh
<1>6. CASE Delete(r)
  BY <1>0, <1>6, RowsKept
     DEF Delete, DeleteRefresh, DeleteAccess, DeleteCodes, DeleteClient
<1>7. CASE Issue(r)
  BY <1>0, <1>7 DEF Issue, IssueAccess, IssueRefresh
<1>8. QED
  BY <1>1, <1>2, <1>3, <1>4, <1>5, <1>6, <1>7 DEF Handle

\* A step of a handler leaves a session at most one live refresh token.
LEMMA LiveStep ==
    ASSUME OneProcess, LoopInv, GrantInv, LiveInv, NEW r \in Requests, Handle(r)
    PROVE  LiveInv'
<1>1. \A q \in Requests : q # r => pc[q] \notin Call /\ pc'[q] = pc[q]
  BY OthersRest
<1>2. /\ TypeOK
      /\ \A q \in Requests : SessionOf[q] \in Sessions /\ Presents[q] \in Requests
  BY GrantsAssumption DEF LoopInv
<1>3. ASSUME NEW q \in Requests, Kind[q] = "refresh", pc'[q] = "revokeOld"
      PROVE  refresh'[Presents[q]] = "valid"
  <2>1. q = r
    BY <1>1, <1>3 DEF Call
  <2>2. QED
    BY <1>2, <1>3, <2>1, LiveMoves
<1>4. ASSUME NEW y \in Requests, Live(y)', y # r
      PROVE  Live(y) /\ refresh[y] = "valid" /\ refresh'[y] = "valid"
  <2>1. pc'[y] \notin {"revokeOldAccess", "bind", "access", "refresh"}
    BY <1>1, <1>4 DEF Call
  <2>2. refresh'[y] = "valid"
    BY <1>4, <2>1 DEF Live
  <2>3. QED
    BY <1>2, <1>4, <2>2, RowEffects DEF Live
<1>5. ASSUME Live(r)', NEW y \in Requests, Live(y)', y # r,
             SessionOf[y] = SessionOf[r]
      PROVE  FALSE
  <2>1. Live(y) /\ refresh[y] = "valid" /\ refresh'[y] = "valid"
    BY <1>4, <1>5
  <2>2. ~ Live(r)
    BY <1>5, <2>1 DEF LiveInv
  <2>3. refresh'[r] # "valid"
    BY <1>2, <2>2, RowEffects DEF Live, Issuing
  <2>4. Kind[r] \in Issues /\ pc'[r] \in {"revokeOldAccess", "bind", "access", "refresh"}
    BY <1>5, <2>3 DEF Live
  <2>5. CASE Kind[r] = "exchange" /\ code[SessionOf[r]] = Presented(r)
    <3>1. Issued(y)
      BY <2>1 DEF GrantInv, RowInv
    <3>2. code[SessionOf[r]] = "gone"
      BY <1>5, <3>1 DEF GrantInv, HolderInv
    <3>3. QED
      BY <1>2, <2>5, <3>2, GrantsAssumption DEF NoCode, Presented
  <2>6. CASE Kind[r] = "refresh" /\ pc[r] = "revokeOld" /\ refresh'[Presents[r]] # "valid"
    <3>1. refresh[Presents[r]] = "valid" /\ SessionOf[Presents[r]] = SessionOf[r]
      BY <2>6, GrantsAssumption DEF LiveInv
    <3>2. y = Presents[r]
      BY <1>2, <1>5, <2>1, <3>1 DEF LiveInv, Live
    <3>3. QED
      BY <2>1, <2>6, <3>2
  <2>7. QED
    BY <1>2, <2>2, <2>4, <2>5, <2>6, LiveMoves DEF Live
<1>6. ASSUME NEW x \in Requests, NEW y \in Requests, Live(x)', Live(y)',
             SessionOf[x] = SessionOf[y]
      PROVE  x = y
  BY <1>4, <1>5, <1>6 DEF LiveInv
<1>7. QED
  BY <1>3, <1>6 DEF LiveInv

\* A step that is no handler's leaves a session at most one live refresh token.
LEMMA LiveAside == TypeOK /\ LiveInv /\ Aside => LiveInv'
<1> SUFFICES ASSUME TypeOK, LiveInv, Aside PROVE LiveInv'
  OBVIOUS
<1>1. \A t \in Requests : SessionOf[t] \in Sessions
  BY GrantsAssumption
<1>2. \A x \in Requests : Live(x)' => Live(x)
  BY DEF Live, Aside
<1>3. \A t \in Requests : Issued(t)' <=> Issued(t)
  BY DEF Issued, Aside
<1>4. QED
  BY <1>1, <1>2, <1>3 DEF LiveInv, Aside

\* In one process a session never has two refresh tokens that work, whatever is
\* replayed, revoked or interrupted.
THEOREM RefreshTokensRotate ==
    ASSUME OneProcess
    PROVE  Spec => []OneLiveRefresh
<1>1. Init => LoopInv /\ GrantInv /\ LiveInv
  BY LoopInit, GrantInit
     DEF Init, EventLoopInit, LiveInv, Live, Issued, NoRows, Idle
<1>2. LoopInv /\ GrantInv /\ LiveInv /\ [Next]_vars => (LoopInv /\ GrantInv /\ LiveInv)'
  <2> SUFFICES ASSUME LoopInv, GrantInv, LiveInv, [Next]_vars PROVE LiveInv'
    BY LoopNext, GrantNext DEF LoopInv
  <2>1. Aside \/ \E r \in Requests : Handle(r)
    BY StepKinds DEF LoopInv
  <2>2. QED
    BY <2>1, LiveAside, LiveStep DEF LoopInv
<1>3. LiveInv => OneLiveRefresh
  BY DEF LiveInv, Live, OneLiveRefresh
<1>4. QED
  BY <1>1, <1>2, <1>3, PTL DEF Spec

-----------------------------------------------------------------------------
(* A user has one active device of a name.                                  *)

\* Between the two statements of a claim none of the user's devices of that name
\* is on.
ActiveInv ==
    /\ OneActiveDevice
    /\ \A r \in Requests : Kind[r] = "consent" /\ pc[r] = "claimWrite" =>
          \A c \in Clients :
              /\ owner[c] = UserOf[r]
              /\ DeviceName[c] = DeviceName[ClientAt(r)]
              => status[c] # "active"

\* Owners change at the write of a claim only, which follows the switching off.
LEMMA ClaimMoves ==
    ASSUME TypeOK, NEW r \in Requests, Handle(r)
    PROVE  /\ \/ UNCHANGED owner
              \/ /\ Kind[r] = "consent" /\ pc[r] = "claimWrite"
                 /\ pc'[r] # "claimWrite"
                 /\ owner' = [owner EXCEPT ![ClientAt(r)] = UserOf[r]]
           /\ Kind[r] = "consent" /\ pc'[r] = "claimWrite" =>
                 /\ UNCHANGED owner
                 /\ \A c \in Clients :
                       /\ owner[c] = UserOf[r]
                       /\ DeviceName[c] = DeviceName[ClientAt(r)]
                       => status'[c] # "active"
<1> USE DEF TypeOK, Enters, Continues, Starts, Runs, Moves, database
<1>1. CASE Consent(r)
  <2>1. CASE ClaimDuplicates(r)
    BY <2>1 DEF ClaimDuplicates
  <2>2. CASE ClaimWrite(r)
    BY <2>2 DEF ClaimWrite
  <2>3. CASE \/ ConsentLoad(r) \/ ClaimRead(r) \/ ClaimReread(r) \/ ApproveRead(r)
             \/ ApproveWrite(r)
    BY <2>3 DEF ConsentLoad, ClaimRead, ClaimReread, ApproveRead, ApproveWrite
  <2>4. QED
    BY <1>1, <2>1, <2>2, <2>3 DEF Consent
<1>2. CASE Exchange(r)
  BY <1>2 DEF Exchange, TokenClient, ExchangeLoad, ExchangeDelete, ExchangeBind, Issues
<1>3. CASE Rotate(r)
  BY <1>3 DEF Rotate, RefreshLoad, RefreshRevokeOld, RefreshRevokeOldAccess,
              RefreshBind, Carry
<1>4. CASE RevokeTokens(r)
  BY <1>4 DEF RevokeTokens, RevokeStart, RevokeAccess, RevokeLinked,
              RevokeRefreshToken
<1>5. CASE RevokeDevice(r)
  BY <1>5 DEF RevokeDevice, DeviceCheck, Deactivate, RevokeAllAccess,
              RevokeAllRefresh
<1>6. CASE Delete(r)
  BY <1>6 DEF Delete, DeleteRefresh, DeleteAccess, DeleteCodes, DeleteClient
<1>7. CASE Issue(r)
  BY <1>7 DEF Issue, IssueAccess, IssueRefresh, Issues
<1>8. QED
  BY <1>1, <1>2, <1>3, <1>4, <1>5, <1>6, <1>7 DEF Handle

\* A step of a handler leaves a user one active device of a name.
LEMMA ActiveStep ==
    ASSUME OneProcess, LoopInv, ActiveInv, NEW r \in Requests, Handle(r)
    PROVE  ActiveInv'
<1>1. \A q \in Requests : q # r => pc[q] \notin Call /\ pc'[q] = pc[q]
  BY OthersRest
<1>2. TypeOK /\ ClientAt(r) \in Clients
  BY GrantsAssumption DEF LoopInv, ClientAt
<1>3. \A c \in Clients : status'[c] = "active" => status[c] = "active"
  BY <1>2, RowEffects
<1>4. OneActiveDevice'
  <2>1. CASE UNCHANGED owner
    BY <1>3, <2>1 DEF ActiveInv, OneActiveDevice
  <2>2. CASE /\ Kind[r] = "consent" /\ pc[r] = "claimWrite"
             /\ owner' = [owner EXCEPT ![ClientAt(r)] = UserOf[r]]
    <3>1. \A c \in Clients : c # ClientAt(r) => owner'[c] = owner[c]
      BY <1>2, <2>2 DEF TypeOK
    <3>2. owner'[ClientAt(r)] = UserOf[r]
      BY <1>2, <2>2 DEF TypeOK
    <3>3. QED
      BY <1>3, <2>2, <3>1, <3>2 DEF ActiveInv, OneActiveDevice
  <2>3. QED
    BY <1>2, <2>1, <2>2, ClaimMoves
<1>5. ASSUME NEW q \in Requests, Kind[q] = "consent", pc'[q] = "claimWrite"
      PROVE  \A c \in Clients :
                 /\ owner'[c] = UserOf[q]
                 /\ DeviceName[c] = DeviceName[ClientAt(q)]
                 => status'[c] # "active"
  <2>1. q = r
    BY <1>1, <1>5 DEF Call
  <2>2. QED
    BY <1>2, <1>5, <2>1, ClaimMoves
<1>6. QED
  BY <1>4, <1>5 DEF ActiveInv, ClientAt

\* A step that is no handler's leaves a user one active device of a name.
LEMMA ActiveAside == ActiveInv /\ Aside => ActiveInv'
  BY DEF ActiveInv, OneActiveDevice, Aside, ClientAt

\* In one process a user has at most one active device of a name, however many are
\* registered, claimed and switched off.
THEOREM DevicesDoNotAccumulate ==
    ASSUME OneProcess
    PROVE  Spec => []OneActiveDevice
<1>1. Init => LoopInv /\ ActiveInv
  BY LoopInit DEF Init, EventLoopInit, ActiveInv, OneActiveDevice, Idle
<1>2. LoopInv /\ ActiveInv /\ [Next]_vars => (LoopInv /\ ActiveInv)'
  <2> SUFFICES ASSUME LoopInv, ActiveInv, [Next]_vars PROVE ActiveInv'
    BY LoopNext
  <2>1. Aside \/ \E r \in Requests : Handle(r)
    BY StepKinds DEF LoopInv
  <2>2. QED
    BY <2>1, ActiveAside, ActiveStep
<1>3. ActiveInv => OneActiveDevice
  BY DEF ActiveInv
<1>4. QED
  BY <1>1, <1>2, <1>3, PTL DEF Spec

-----------------------------------------------------------------------------
(* Whoever is sent back with a code has the code of the session.            *)

HandedInv ==
    /\ \A r \in Requests : Kind[r] = "consent" /\ pc[r] = "approveWrite" =>
          code[SessionOf[r]] = "pending"
    /\ ConsentHandedOut

\* A consent is answered where it writes the code, which it has just read as pending;
\* nothing else changes what a session was consented to.
LEMMA ConsentMoves ==
    ASSUME TypeOK, NEW r \in Requests, Handle(r)
    PROVE  /\ \/ UNCHANGED consented
              \/ /\ Kind[r] = "consent" /\ code[SessionOf[r]] = "pending"
                 /\ consented' = [consented EXCEPT ![SessionOf[r]] = r]
           /\ Kind[r] = "consent" /\ pc'[r] = "approveWrite" =>
                 code'[SessionOf[r]] = "pending"
           /\ Kind[r] = "consent" /\ pc'[r] = "ok" =>
                 /\ pc[r] = "approveWrite"
                 /\ code[SessionOf[r]] = "pending" =>
                       consented' = [consented EXCEPT ![SessionOf[r]] = r]
<1> USE DEF TypeOK, Enters, Continues, Starts, Runs, Moves, database
<1>1. CASE Consent(r)
  <2>1. CASE ApproveWrite(r)
    BY <2>1 DEF ApproveWrite
  <2>2. CASE ApproveRead(r)
    BY <2>2 DEF ApproveRead, Pending
  <2>3. CASE \/ ConsentLoad(r) \/ ClaimRead(r) \/ ClaimDuplicates(r) \/ ClaimWrite(r)
             \/ ClaimReread(r)
    BY <2>3 DEF ConsentLoad, ClaimRead, ClaimDuplicates, ClaimWrite, ClaimReread
  <2>4. QED
    BY <1>1, <2>1, <2>2, <2>3 DEF Consent
<1>2. CASE Exchange(r)
  BY <1>2 DEF Exchange, TokenClient, ExchangeLoad, ExchangeDelete, ExchangeBind, Issues
<1>3. CASE Rotate(r)
  BY <1>3 DEF Rotate, RefreshLoad, RefreshRevokeOld, RefreshRevokeOldAccess,
              RefreshBind, Carry
<1>4. CASE RevokeTokens(r)
  BY <1>4 DEF RevokeTokens, RevokeStart, RevokeAccess, RevokeLinked,
              RevokeRefreshToken
<1>5. CASE RevokeDevice(r)
  BY <1>5 DEF RevokeDevice, DeviceCheck, Deactivate, RevokeAllAccess,
              RevokeAllRefresh
<1>6. CASE Delete(r)
  BY <1>6 DEF Delete, DeleteRefresh, DeleteAccess, DeleteCodes, DeleteClient
<1>7. CASE Issue(r)
  BY <1>7 DEF Issue, IssueAccess, IssueRefresh, Issues
<1>8. QED
  BY <1>1, <1>2, <1>3, <1>4, <1>5, <1>6, <1>7 DEF Handle

\* A step of a handler hands a code to nobody but its consenter.
LEMMA HandedStep ==
    ASSUME OneProcess, LoopInv, GrantInv, HandedInv, NEW r \in Requests, Handle(r)
    PROVE  HandedInv'
<1>1. \A q \in Requests : q # r => pc[q] \notin Call /\ pc'[q] = pc[q]
  BY OthersRest
<1>2. TypeOK /\ \A q \in Requests : SessionOf[q] \in Sessions
  BY GrantsAssumption DEF LoopInv
<1>3. ASSUME NEW q \in Requests, Kind[q] = "consent", pc'[q] = "approveWrite"
      PROVE  code'[SessionOf[q]] = "pending"
  <2>1. q = r
    BY <1>1, <1>3 DEF Call
  <2>2. QED
    BY <1>2, <1>3, <2>1, ConsentMoves
<1>4. ASSUME NEW q \in Requests, Kind[q] = "consent", pc'[q] = "ok"
      PROVE  consented'[SessionOf[q]] = q
  <2>1. CASE q = r
    <3>1. consented' = [consented EXCEPT ![SessionOf[r]] = r]
      BY <1>2, <1>4, <2>1, ConsentMoves DEF HandedInv
    <3>2. QED
      BY <1>2, <2>1, <3>1 DEF TypeOK
  <2>2. CASE q # r
    <3>1. pc[q] = "ok" /\ consented[SessionOf[q]] = q
      BY <1>1, <1>4, <2>2 DEF HandedInv, ConsentHandedOut
    <3>2. code[SessionOf[q]] # "pending"
      BY <1>2, <3>1, GrantsAssumption DEF GrantInv, CodeInv
    <3>3. QED
      BY <1>2, <3>1, <3>2, ConsentMoves DEF TypeOK
  <2>3. QED
    BY <2>1, <2>2
<1>5. QED
  BY <1>3, <1>4 DEF HandedInv, ConsentHandedOut

\* A step that is no handler's hands out no code.
LEMMA HandedAside == HandedInv /\ Aside => HandedInv'
<1> SUFFICES ASSUME HandedInv, Aside PROVE HandedInv'
  OBVIOUS
<1>1. \A r \in Requests : SessionOf[r] \in Sessions
  BY GrantsAssumption
<1>2. \A r \in Requests : pc'[r] \in {"approveWrite", "ok"} => pc'[r] = pc[r]
  BY DEF Aside
<1>3. \A s \in Sessions : code[s] = "pending" => code'[s] = "pending"
  BY DEF Aside
<1>4. QED
  BY <1>1, <1>2, <1>3 DEF HandedInv, ConsentHandedOut, Aside

\* In one process every user who is sent back to the client has consented to the
\* session, and the code of the session is his.
THEOREM ConsentsAreHandedOut ==
    ASSUME OneProcess
    PROVE  Spec => []ConsentHandedOut
<1>1. Init => LoopInv /\ GrantInv /\ HandedInv
  BY LoopInit, GrantInit DEF Init, EventLoopInit, HandedInv, ConsentHandedOut, Idle
<1>2. LoopInv /\ GrantInv /\ HandedInv /\ [Next]_vars
        => (LoopInv /\ GrantInv /\ HandedInv)'
  <2> SUFFICES ASSUME LoopInv, GrantInv, HandedInv, [Next]_vars PROVE HandedInv'
    BY LoopNext, GrantNext DEF LoopInv
  <2>1. Aside \/ \E r \in Requests : Handle(r)
    BY StepKinds DEF LoopInv
  <2>2. QED
    BY <2>1, HandedAside, HandedStep DEF LoopInv
<1>3. HandedInv => ConsentHandedOut
  BY DEF HandedInv
<1>4. QED
  BY <1>1, <1>2, <1>3, PTL DEF Spec

-----------------------------------------------------------------------------
(* The cache of the process follows the rows.                               *)

\* Revoked by a route that leaves the cache alone.
Spares == {"portalRevoke", "inspectorRevoke"}
SparedBy(t, r) ==
    Kind[r] \in Spares /\ ClientAt(r) = ClientAt(t) /\ pc[r] \notin {Idle, "refused"}

\* A deletion that is about to remove the access tokens has emptied the cache.
CacheInv ==
    /\ CacheFollowsRows
    /\ \A r \in Requests : Kind[r] = "delete" /\ pc[r] = "deleteAccess" =>
          \A p \in Procs, t \in Requests : cache[p][t] = "none"

\* Nobody who has begun is refused by a route that spares the cache.
LEMMA SparedMoves ==
    ASSUME TypeOK, NEW r \in Requests, Handle(r), Kind[r] \in Spares, pc[r] # Idle
    PROVE  pc'[r] # "refused" \/ pc'[r] = pc[r]
<1> USE DEF Spares, Enters, Continues, Starts, Runs, Moves, Idle
<1>0. pc \in [Requests -> {Idle} \cup Call \cup Outcome]
  BY DEF TypeOK
<1>1. CASE Consent(r)
  BY <1>0, <1>1 DEF Consent, ConsentLoad, ClaimRead, ClaimDuplicates, ClaimWrite,
              ClaimReread, ApproveRead, ApproveWrite
<1>2. CASE Exchange(r)
  BY <1>0, <1>2 DEF Exchange, TokenClient, ExchangeLoad, ExchangeDelete,
                    ExchangeBind, Issues
<1>3. CASE Rotate(r)
  BY <1>0, <1>3 DEF Rotate, RefreshLoad, RefreshRevokeOld, RefreshRevokeOldAccess,
              RefreshBind, Carry
<1>4. CASE RevokeTokens(r)
  BY <1>0, <1>4 DEF RevokeTokens, RevokeStart, RevokeAccess, RevokeLinked,
              RevokeRefreshToken
<1>5. CASE RevokeDevice(r)
  BY <1>0, <1>5 DEF RevokeDevice, DeviceCheck, Deactivate, RevokeAllAccess,
              RevokeAllRefresh
<1>6. CASE Delete(r)
  BY <1>0, <1>6 DEF Delete, DeleteRefresh, DeleteAccess, DeleteCodes, DeleteClient
<1>7. CASE Issue(r)
  BY <1>0, <1>7 DEF Issue, IssueAccess, IssueRefresh, Issues
<1>8. QED
  BY <1>1, <1>2, <1>3, <1>4, <1>5, <1>6, <1>7 DEF Handle

\* A handler that takes validity from a row takes the entry from the cache, has
\* emptied it, or spares it.
LEMMA CacheMoves ==
    ASSUME OneProcess, TypeOK, NEW r \in Requests, Handle(r)
    PROVE  /\ \A p \in Procs, t \in Requests : cache'[p][t] \in {cache[p][t], "none"}
           /\ \A p \in Procs, t \in Requests :
                 access[t] = "valid" /\ access'[t] # "valid" =>
                    \/ cache'[p][t] = "none"
                    \/ Kind[r] = "delete" /\ pc[r] = "deleteAccess"
                    \/ SparedBy(t, r)'
           /\ Kind[r] = "delete" /\ pc'[r] = "deleteAccess" =>
                 \A p \in Procs, t \in Requests : cache'[p][t] = "none"
<1> USE DEF Enters, Continues, Starts, Runs, Moves, database
<1>0. /\ access \in [Requests -> Row]
      /\ cache \in [Procs -> [Requests -> {"none", "valid", "revoked"}]]
      /\ pc \in [Requests -> {Idle} \cup Call \cup Outcome]
      /\ at[r] \in Procs /\ \A p \in Procs : p = at[r]
      /\ Presents[r] \in Requests
  BY GrantsAssumption DEF TypeOK, OneProcess
<1>1. CASE Consent(r)
  <2>1. UNCHANGED <<access, cache>> /\ Kind[r] = "consent"
    BY <1>1 DEF Consent, ConsentLoad, ClaimRead, ClaimDuplicates, ClaimWrite,
                ClaimReread, ApproveRead, ApproveWrite
  <2>2. QED
    BY <2>1
<1>2. CASE Exchange(r)
  <2>1. UNCHANGED cache /\ Kind[r] # "delete"
    BY <1>2 DEF Exchange, TokenClient, ExchangeLoad, ExchangeDelete,
                ExchangeBind, Issues
  <2>2. \A t \in Requests : access[t] = "valid" => access'[t] = "valid"
    BY <1>0, <1>2 DEF Exchange, TokenClient, ExchangeLoad, ExchangeDelete,
                      ExchangeBind
  <2>3. QED
    BY <2>1, <2>2
<1>3. CASE Rotate(r)
  <2>1. CASE RefreshRevokeOldAccess(r)
    BY <1>0, <2>1 DEF RefreshRevokeOldAccess, Carry, Pop, Revoke
  <2>2. CASE RefreshLoad(r) \/ RefreshRevokeOld(r) \/ RefreshBind(r)
    BY <1>0, <2>2 DEF RefreshLoad, RefreshRevokeOld, RefreshBind
  <2>3. QED
    BY <1>3, <2>1, <2>2 DEF Rotate
<1>4. CASE RevokeTokens(r)
  <2>1. CASE RevokeAccess(r)
    <3>1. CASE Kind[r] = "revoke"
      BY <1>0, <2>1, <3>1 DEF RevokeAccess, Pop, Revoke
    <3>2. CASE Kind[r] = "inspectorRevoke"
      <4>1. ClientAt(r) = ClientAt(Presents[r])
        BY <3>2, GrantsAssumption DEF ClientAt
      <4>2. SparedBy(Presents[r], r)'
        BY <1>0, <2>1, <3>2, <4>1
           DEF RevokeAccess, SparedBy, Spares, ClientAt, Idle
      <4>3. \A t \in Requests : t # Presents[r] => access'[t] = access[t]
        BY <1>0, <2>1 DEF RevokeAccess, Revoke
      <4>4. UNCHANGED cache
        BY <2>1, <3>2 DEF RevokeAccess
      <4>5. QED
        BY <3>2, <4>2, <4>3, <4>4
    <3>3. QED
      BY <2>1, <3>1, <3>2 DEF RevokeAccess
  <2>2. CASE RevokeStart(r) \/ RevokeLinked(r) \/ RevokeRefreshToken(r)
    BY <1>0, <2>2 DEF RevokeStart, RevokeLinked, RevokeRefreshToken
  <2>3. QED
    BY <1>4, <2>1, <2>2 DEF RevokeTokens
<1>5. CASE RevokeDevice(r)
  <2>1. CASE RevokeAllAccess(r)
    <3>1. CASE Kind[r] = "adminRevoke"
      BY <1>0, <2>1, <3>1 DEF RevokeAllAccess, Clear, NoRows
    <3>2. CASE Kind[r] = "portalRevoke"
      <4>1. \A t \in PairsOf(ClientAt(r)) : SparedBy(t, r)'
        BY <1>0, <2>1, <3>2
           DEF RevokeAllAccess, SparedBy, Spares, PairsOf, ClientAt, Idle
      <4>2. \A t \in Requests \ PairsOf(ClientAt(r)) : access'[t] = access[t]
        BY <1>0, <2>1 DEF RevokeAllAccess, Revoke
      <4>3. UNCHANGED cache
        BY <2>1, <3>2 DEF RevokeAllAccess
      <4>4. QED
        BY <3>2, <4>1, <4>2, <4>3
    <3>3. QED
      BY <2>1, <3>1, <3>2 DEF RevokeAllAccess
  <2>2. CASE DeviceCheck(r) \/ Deactivate(r) \/ RevokeAllRefresh(r)
    BY <1>0, <2>2 DEF DeviceCheck, Deactivate, RevokeAllRefresh
  <2>3. QED
    BY <1>5, <2>1, <2>2 DEF RevokeDevice
<1>6. CASE Delete(r)
  <2>1. CASE DeleteRefresh(r)
    BY <1>0, <2>1 DEF DeleteRefresh, Clear, NoRows
  <2>2. CASE DeleteAccess(r) \/ DeleteCodes(r) \/ DeleteClient(r)
    BY <1>0, <2>2 DEF DeleteAccess, DeleteCodes, DeleteClient
  <2>3. QED
    BY <1>6, <2>1, <2>2 DEF Delete
<1>7. CASE Issue(r)
  BY <1>0, <1>7 DEF Issue, IssueAccess, IssueRefresh, Issues
<1>8. QED
  BY <1>1, <1>2, <1>3, <1>4, <1>5, <1>6, <1>7 DEF Handle

\* A step of a handler leaves no entry behind a row, but for the spared ones.
LEMMA CacheStep ==
    ASSUME OneProcess, LoopInv, CacheInv, NEW r \in Requests, Handle(r)
    PROVE  CacheInv'
<1>1. \A q \in Requests : q # r => pc[q] \notin Call /\ pc'[q] = pc[q]
  BY OthersRest
<1>2. TypeOK
  BY DEF LoopInv
<1>3. ASSUME NEW q \in Requests, NEW t \in Requests, SparedBy(t, q)
      PROVE  SparedBy(t, q)'
  <2>1. pc'[q] \notin {Idle, "refused"}
    <3>1. CASE q = r
      <4>1. Moving(r)
        BY HandlerMoves
      <4>2. pc'[r] # Idle
        BY <1>2, <4>1 DEF Moving, Runs, Moves, TypeOK, Call, Outcome, Idle
      <4>3. QED
        BY <1>2, <1>3, <3>1, <4>2, SparedMoves DEF SparedBy
    <3>2. CASE q # r
      BY <1>1, <1>3, <3>2 DEF SparedBy
    <3>3. QED
      BY <3>1, <3>2
  <2>2. QED
    BY <1>3, <2>1 DEF SparedBy, ClientAt
<1>4. ASSUME NEW p \in Procs, NEW t \in Requests, cache'[p][t] = "valid"
      PROVE  access'[t] = "valid" \/ \E q \in Requests : SparedBy(t, q)'
  <2>1. cache[p][t] = "valid"
    BY <1>2, <1>4, CacheMoves
  <2>2. CASE access[t] = "valid"
    BY <1>2, <1>4, <2>1, <2>2, CacheMoves DEF CacheInv
  <2>3. CASE \E q \in Requests : SparedBy(t, q)
    BY <1>3, <2>3
  <2>4. QED
    BY <2>1, <2>2, <2>3 DEF CacheInv, CacheFollowsRows, SparedBy, Spares
<1>5. ASSUME NEW q \in Requests, Kind[q] = "delete", pc'[q] = "deleteAccess"
      PROVE  \A p \in Procs, t \in Requests : cache'[p][t] = "none"
  <2>1. q = r
    BY <1>1, <1>5 DEF Call
  <2>2. QED
    BY <1>2, <1>5, <2>1, CacheMoves
<1>6. CacheFollowsRows'
  BY <1>4 DEF CacheFollowsRows, SparedBy, Spares, ClientAt
<1>7. QED
  BY <1>5, <1>6 DEF CacheInv

\* While no handler steps, an entry changes when it is dropped, or when its row is read
\* on a loop that nobody holds.
CacheReads(p, t) ==
    \/ cache'[p][t] \in {cache[p][t], "none"}
    \/ cache'[p][t] = access[t] /\ loop[p] = NoRequest

\* The steps that are no handler's do no more to the cache than that.
LEMMA CacheElsewhere ==
    ASSUME TypeOK, [Next]_vars, ~ \E r \in Requests : Handle(r),
           NEW p \in Procs, NEW t \in Requests
    PROVE  CacheReads(p, t)
<1> USE DEF CacheReads
<1>0. cache \in [Procs -> [Requests -> {"none", "valid", "revoked"}]]
  BY DEF TypeOK
<1>1. CASE UNCHANGED cache
  BY <1>1
<1>2. ASSUME NEW q \in Procs, NEW x \in Requests,
             Authenticate(q, x) \/ CacheDrop(q, x)
      PROVE  CacheReads(p, t)
  BY <1>0, <1>2 DEF Authenticate, CacheDrop, Pop
<1>3. ASSUME NEW q \in Procs, Crash(q) PROVE CacheReads(p, t)
  BY <1>0, <1>3 DEF Crash, Clear, NoRows
<1>4. ASSUME NEW r \in Requests, DatabaseError(r) PROVE UNCHANGED cache
  BY <1>4 DEF DatabaseError
<1>5. ASSUME NEW s \in Sessions, Authorize(s) \/ Expire(s) PROVE UNCHANGED cache
  BY <1>5 DEF Authorize, Expire
<1>6. UNCHANGED vars => UNCHANGED cache
  BY DEF vars
<1>7. QED
  BY <1>1, <1>2, <1>3, <1>4, <1>5, <1>6 DEF Next

\* The cache fills only while nobody is between two calls, and else it loses entries.
LEMMA CacheAside ==
    ASSUME OneProcess, LoopInv, CacheInv, [Next]_vars, Aside
    PROVE  CacheInv' \/ \E r \in Requests : Handle(r)
<1>1. CASE \E r \in Requests : Handle(r)
  BY <1>1
<1>2. CASE ~ \E r \in Requests : Handle(r)
  <2>0. \A p \in Procs, t \in Requests : CacheReads(p, t)
    BY <1>2, CacheElsewhere DEF LoopInv
  <2>1. ASSUME NEW q \in Requests, Kind[q] = "delete", pc'[q] = "deleteAccess"
        PROVE  \A p \in Procs, t \in Requests : cache'[p][t] = "none"
    <3>1. pc[q] = "deleteAccess"
      BY <2>1 DEF Aside
    <3>2. \A p \in Procs : loop[p] = q /\ loop[p] # NoRequest
      BY <3>1, GrantsAssumption DEF OneProcess, LoopInv, HoldsLoop, TypeOK, Call
    <3>3. QED
      BY <2>0, <2>1, <3>1, <3>2 DEF CacheReads, CacheInv
  <2>2. \A q, t \in Requests : SparedBy(t, q) => SparedBy(t, q)'
    BY DEF Aside, SparedBy, Idle, ClientAt
  <2>3. ASSUME NEW p \in Procs, NEW t \in Requests, cache'[p][t] = "valid"
        PROVE  access'[t] = "valid" \/ \E q \in Requests : SparedBy(t, q)'
    <3>1. cache[p][t] = "valid" \/ access[t] = "valid"
      BY <2>0, <2>3 DEF CacheReads
    <3>2. access' = access
      BY DEF Aside
    <3>3. QED
      BY <2>2, <3>1, <3>2 DEF CacheInv, CacheFollowsRows, SparedBy, Spares
  <2>4. CacheFollowsRows'
    BY <2>3 DEF CacheFollowsRows, SparedBy, Spares, ClientAt
  <2>5. QED
    BY <2>1, <2>4 DEF CacheInv
<1>3. QED
  BY <1>1, <1>2

\* In one process the cache lets in no token whose row is not valid, but for what the
\* portal and the inspector revoke.
THEOREM CacheIsFollowing ==
    ASSUME OneProcess
    PROVE  Spec => []CacheFollowsRows
<1>1. Init => LoopInv /\ CacheInv
  BY LoopInit DEF Init, EventLoopInit, CacheInv, CacheFollowsRows, NoRows, Idle
<1>2. LoopInv /\ CacheInv /\ [Next]_vars => (LoopInv /\ CacheInv)'
  <2> SUFFICES ASSUME LoopInv, CacheInv, [Next]_vars PROVE CacheInv'
    BY LoopNext
  <2>1. Aside \/ \E r \in Requests : Handle(r)
    BY StepKinds DEF LoopInv
  <2>2. QED
    BY <2>1, CacheAside, CacheStep
<1>3. CacheInv => CacheFollowsRows
  BY DEF CacheInv
<1>4. QED
  BY <1>1, <1>2, <1>3, PTL DEF Spec
=============================================================================
