--------------------------- MODULE AccountsProofs ---------------------------
(* Proofs about Accounts for every set of addresses, identities, links and  *)
(* requests, and any number of faults: the types and the identities with    *)
(* any number of processes, the links with one.                             *)
EXTENDS Accounts, TLAPS

-----------------------------------------------------------------------------
(* The actions of the handlers, by what they work on.                       *)

Bridge(r) == ByIdentity(r) \/ ByEmail(r) \/ LinkIdentity(r) \/ InsertIdentity(r) \/ Reread(r)
Finding(r) ==
    \/ Create(r) \/ RegisterLookup(r) \/ ApproveRead(r) \/ ApproveLookup(r)
    \/ RejectRead(r) \/ BySub(r) \/ ByAddress(r) \/ ForgotLookup(r) \/ Login(r)
    \/ PluginLogin(r) \/ FindPlugin(r) \/ PluginToken(r) \/ SettingsLoad(r) \/ DeleteLoad(r)
Writing(r) ==
    \/ Insert(r) \/ Grant(r) \/ InsertDevice(r) \/ Decide(r) \/ RejectDrop(r)
    \/ LinkSocial(r) \/ Activate(r) \/ InsertPlugin(r) \/ Rename(r) \/ Remove(r)
Linking(r) == Mint(r) \/ Redeem(r) \/ SetupLoad(r) \/ SetPassword(r) \/ Consume(r)

\* A step of a handler, or of one whose call fails.
Works(r) == Handle(r) \/ DatabaseError(r)

\* Every handler is made of these.
LEMMA ActionCases ==
    ASSUME NEW r \in Requests, Handle(r)
    PROVE  /\ pc[r] \notin Outcome
           /\ \/ Bridge(r) /\ Kind[r] \in Bridged
              \/ Kind[r] \notin Bridged /\ (Finding(r) \/ Writing(r) \/ Linking(r))
<1>1. CASE Resolve(r)
  BY <1>1 DEF Resolve, Bridge, Handle
<1>2. CASE Register(r) \/ Invite(r) \/ Approve(r) \/ Reject(r) \/ SocialCallback(r)
  BY <1>2 DEF Register, Invite, Approve, Reject, SocialCallback, NewAccount, Finding,
              Writing, Linking, Bridged, Handle
<1>3. CASE SetupPassword(r) \/ ForgotPassword(r) \/ ResetPassword(r)
  BY <1>3 DEF SetupPassword, ForgotPassword, ResetPassword, Finding, Writing, Linking,
              Bridged, Handle
<1>4. CASE Login(r)
  BY <1>4 DEF Login, Asks, Finding, Bridged, Handle
<1>5. CASE PluginSignIn(r) \/ SettingsEmail(r) \/ SettingsPassword(r) \/ DeleteUser(r)
  BY <1>5 DEF PluginSignIn, SettingsEmail, SettingsPassword, DeleteUser, Finding,
              Writing, Linking, Bridged, Handle
<1>6. QED
  BY <1>1, <1>2, <1>3, <1>4, <1>5 DEF Handle

-----------------------------------------------------------------------------
(* Type correctness. *)

\* Each way of moving on keeps the types of where requests are.
LEMMA MoveType ==
    ASSUME TypeOK, NEW r \in Requests, NEW from, NEW to,
           to \in {Idle} \cup Call \cup Outcome,
           Resolves(r, from, to) \/ Runs(r, from, to) \/ Steps(r, from, to)
    PROVE  /\ pc' \in [Requests -> {Idle} \cup Call \cup Outcome]
           /\ at' \in [Requests -> Procs]
           /\ loop' \in [Procs -> Requests \cup {NoRequest}]
  BY DEF TypeOK, Resolves, Runs, Steps, Moves

\* So does noting an account.
LEMMA FindsType ==
    ASSUME TypeOK, NEW r \in Requests, NEW a \in Requests \cup {None}, Finds(r, a)
    PROVE  subject' \in [Requests -> Requests \cup {None}]
  BY DEF TypeOK, Finds

\* An empty database is well typed.
LEMMA InitType == Init => TypeOK
  BY AccountsAssumption DEF Init, InitRows, EventLoopInit, TypeOK, Nothing

\* The bridge keeps the types.
LEMMA BridgeType ==
    ASSUME TypeOK, NEW r \in Requests, Bridge(r)
    PROVE  TypeOK'
<1> USE DEF Call, Outcome, Idle, users, database
<1>0. /\ EmailOf[r] \in Emails \cup {Placeholder} /\ EmailOf[r] # None
      /\ IdentityOf[r] \in Identities
      /\ None \notin Requests /\ subject[r] \in Requests \cup {None}
  BY AccountsAssumption DEF TypeOK
<1>1. CASE ByIdentity(r)
  BY <1>1, MoveType, FindsType DEF ByIdentity, Bound, TypeOK
<1>2. CASE ByEmail(r)
  <2>1. CASE AccountsAt(EmailOf[r]) = {}
    BY <1>2, <2>1, MoveType DEF ByEmail, TypeOK
  <2>2. CASE AccountsAt(EmailOf[r]) # {}
    <3>1. PICK a \in AccountsAt(EmailOf[r]) :
             /\ \E to \in Call \cup Outcome : Resolves(r, "byEmail", to)
             /\ Finds(r, a)
             /\ UNCHANGED <<database, faults>>
      BY <1>2, <2>2 DEF ByEmail
    <3>2. a \in Requests
      BY DEF AccountsAt
    <3>3. QED
      BY <3>1, <3>2, MoveType, FindsType DEF TypeOK
  <2>3. QED
    BY <2>1, <2>2
<1>3. CASE LinkIdentity(r)
  <2>1. CASE Exists(subject[r]) /\ Bound(r) \ {subject[r]} # {}
    BY <1>3, <2>1, MoveType DEF LinkIdentity, TypeOK
  <2>2. CASE ~ (Exists(subject[r]) /\ Bound(r) \ {subject[r]} # {})
    BY <1>0, <1>3, <2>2, MoveType DEF LinkIdentity, Exists, TypeOK
  <2>3. QED
    BY <2>1, <2>2
<1>4. CASE InsertIdentity(r)
  <2>1. CASE AccountsAt(EmailOf[r]) # {} \/ Bound(r) # {}
    BY <1>4, <2>1, MoveType DEF InsertIdentity, TypeOK
  <2>2. CASE ~ (AccountsAt(EmailOf[r]) # {} \/ Bound(r) # {})
    <3>1. /\ Resolves(r, "insertIdentity", "ok") /\ Finds(r, r)
          /\ email' = [email EXCEPT ![r] = EmailOf[r]]
          /\ identity' = [identity EXCEPT ![r] = IdentityOf[r]]
          /\ active' = active \cup {r}
          /\ UNCHANGED <<social, password, funded, device, link, applied, faults>>
      BY <1>4, <2>2 DEF InsertIdentity
    <3>2. QED
      BY <1>0, <3>1, MoveType, FindsType DEF TypeOK
  <2>3. QED
    BY <2>1, <2>2
<1>5. CASE Reread(r)
  BY <1>5, MoveType, FindsType DEF Reread, Bound, TypeOK
<1>6. QED
  BY <1>1, <1>2, <1>3, <1>4, <1>5 DEF Bridge

\* A look-up moves the request on and notes an account, or none.
LEMMA FindingMoves ==
    ASSUME NEW r \in Requests, Finding(r)
    PROVE  /\ \E from \in {Idle} \cup Call, to \in Call \cup Outcome : Runs(r, from, to)
           /\ UNCHANGED <<database, faults>>
           /\ \/ UNCHANGED subject
              \/ \E a \in Requests : Finds(r, a)
              \/ \E q \in Requests : Finds(r, subject[q])
<1> USE DEF Call, Outcome, Asks, Goes, Starts, AccountsAt, Looked
<1>1. CASE Create(r) \/ RegisterLookup(r) \/ ApproveRead(r) \/ ApproveLookup(r)
  BY <1>1 DEF Create, Answer, RegisterLookup, ApproveRead, ApproveLookup
<1>2. CASE RejectRead(r) \/ BySub(r) \/ ByAddress(r) \/ ForgotLookup(r) \/ Login(r)
  BY <1>2 DEF RejectRead, BySub, ByAddress, ForgotLookup, Login
<1>3. CASE PluginLogin(r) \/ FindPlugin(r) \/ PluginToken(r) \/ DeleteLoad(r)
  BY <1>3 DEF PluginLogin, FindPlugin, PluginToken, DeleteLoad
<1>4. CASE SettingsLoad(r)
  BY <1>4, AccountsAssumption DEF SettingsLoad
<1>5. QED
  BY <1>1, <1>2, <1>3, <1>4 DEF Finding

\* So look-ups keep the types.
LEMMA FindingType ==
    ASSUME TypeOK, NEW r \in Requests, Finding(r)
    PROVE  TypeOK'
<1>1. subject' \in [Requests -> Requests \cup {None}]
  BY FindingMoves, FindsType DEF TypeOK
<1>2. QED
  BY <1>1, FindingMoves, MoveType DEF TypeOK, database, users

\* The statements that write accounts keep the types.
LEMMA WritingType ==
    ASSUME TypeOK, NEW r \in Requests, Writing(r)
    PROVE  TypeOK'
<1> USE DEF Call, Outcome, Idle, Goes, users, database
<1>0. /\ EmailOf[r] \in Emails \cup {Placeholder} /\ EmailOf[r] # None
      /\ SubOf[r] \in Subs
      /\ None \notin Requests /\ subject[r] \in Requests \cup {None}
  BY AccountsAssumption DEF TypeOK
<1>1. CASE Insert(r)
  <2>1. CASE Taken(r)
    BY <1>1, <2>1, MoveType DEF Insert, Answer, TypeOK
  <2>2. CASE ~ Taken(r)
    <3>1. /\ \E to \in {"device", "grant"} : Runs(r, "insert", to)
          /\ Finds(r, r)
          /\ email' = [email EXCEPT ![r] = EmailOf[r]]
          /\ social' \in {social, [social EXCEPT ![r] = SubOf[r]]}
          /\ active' \in {active, active \cup {r}}
          /\ funded' \in {funded, funded \cup {r}}
          /\ UNCHANGED <<identity, password, device, link, applied, faults>>
      BY <1>1, <2>2 DEF Insert
    <3>2. /\ pc' \in [Requests -> {Idle} \cup Call \cup Outcome]
          /\ at' \in [Requests -> Procs]
          /\ loop' \in [Procs -> Requests \cup {NoRequest}]
          /\ subject' \in [Requests -> Requests \cup {None}]
      BY <3>1, MoveType, FindsType DEF TypeOK
    <3>3. /\ email' \in [Requests -> Emails \cup {Placeholder, None}]
          /\ social' \in [Requests -> Subs \cup {None}]
          /\ email'[r] # None
          /\ \A a \in Requests : a # r => email'[a] = email[a] /\ social'[a] = social[a]
      BY <1>0, <3>1 DEF TypeOK
    <3>4. /\ active' \subseteq active \cup {r} /\ active' \subseteq Requests
          /\ funded' \subseteq funded \cup {r} /\ funded' \subseteq Requests
      BY <3>1 DEF TypeOK
    <3>5. QED
      BY <3>1, <3>2, <3>3, <3>4 DEF TypeOK
  <2>3. QED
    BY <2>1, <2>2
<1>2. CASE Grant(r)
  <2>1. /\ \E to \in {"ok", "device"} : Runs(r, "grant", to)
        /\ \/ funded' = funded
           \/ Exists(subject[r]) /\ funded' = funded \cup {subject[r]}
        /\ UNCHANGED <<email, identity, social, password, active, device, link,
                       applied, subject, faults>>
    BY <1>2 DEF Grant
  <2>2. QED
    BY <1>0, <2>1, MoveType DEF Exists, TypeOK
<1>3. CASE InsertDevice(r)
  <2>1. /\ \E to \in {"decide", "mint", "failed"} : Runs(r, "device", to)
        /\ \/ device' = device
           \/ \E to \in {"inactive", "active"} : device' = [device EXCEPT ![r] = to]
        /\ UNCHANGED <<users, link, applied, subject, faults>>
    BY <1>3 DEF InsertDevice
  <2>2. QED
    BY <1>0, <2>1, MoveType DEF TypeOK
<1>4. CASE Decide(r)
  BY <1>0, <1>4, MoveType DEF Decide, TypeOK
<1>5. CASE RejectDrop(r)
  BY <1>0, <1>5, MoveType DEF RejectDrop, TypeOK
<1>6. CASE LinkSocial(r)
  BY <1>0, <1>6, MoveType DEF LinkSocial, Exists, TypeOK
<1>7. CASE Activate(r)
  BY <1>0, <1>7, MoveType DEF Activate, Exists, TypeOK
<1>8. CASE InsertPlugin(r)
  BY <1>0, <1>8, MoveType DEF InsertPlugin, TypeOK
<1>9. CASE Rename(r)
  BY <1>0, <1>9, MoveType DEF Rename, Exists, TypeOK
<1>10. CASE Remove(r)
  <2> DEFINE a == subject[r]
  <2>1. /\ Runs(r, "remove", "ok")
        /\ email' = [email EXCEPT ![a] = None]
        /\ identity' = [identity EXCEPT ![a] = None]
        /\ social' = [social EXCEPT ![a] = None]
        /\ password' = [password EXCEPT ![a] = None]
        /\ active' = active \ {a} /\ funded' = funded \ {a}
        /\ device' = [d \in Requests |-> IF subject[d] = a THEN "none" ELSE device[d]]
        /\ UNCHANGED <<link, applied, subject, faults>>
    BY <1>10 DEF Remove
  <2>2. QED
    BY <1>0, <2>1, MoveType DEF TypeOK
<1>11. QED
  BY <1>1, <1>2, <1>3, <1>4, <1>5, <1>6, <1>7, <1>8, <1>9, <1>10 DEF Writing

\* The links keep the types.
LEMMA LinkingType ==
    ASSUME TypeOK, NEW r \in Requests, Linking(r)
    PROVE  TypeOK'
<1> USE DEF Call, Outcome, Idle, Goes, Asks, Starts, users, database
<1>0. /\ None \notin Requests /\ subject[r] \in Requests \cup {None}
      /\ Presents[r] \in Requests
  BY AccountsAssumption DEF TypeOK
<1>1. CASE Mint(r)
  BY <1>1, MoveType DEF Mint, TypeOK
<1>2. CASE Redeem(r)
  <2>1. subject' \in [Requests -> Requests \cup {None}]
    BY <1>0, <1>2 DEF Redeem, Finds, TypeOK
  <2>2. /\ \E to \in {"load", "setPassword", "refused"} : Runs(r, Idle, to)
        /\ UNCHANGED <<database, faults>>
    BY <1>2 DEF Redeem
  <2>3. QED
    BY <2>1, <2>2, MoveType DEF TypeOK
<1>3. CASE SetupLoad(r)
  BY <1>3, MoveType DEF SetupLoad, TypeOK
<1>4. CASE SetPassword(r)
  BY <1>0, <1>4, MoveType DEF SetPassword, Exists, TypeOK
<1>5. CASE Consume(r)
  BY <1>0, <1>5, MoveType DEF Consume, TypeOK
<1>6. QED
  BY <1>1, <1>2, <1>3, <1>4, <1>5 DEF Linking

\* So do the faults, and time.
LEMMA FaultType ==
    ASSUME TypeOK,
           \/ \E r \in Requests : DatabaseError(r) \/ Lapse(r)
           \/ \E p \in Procs : Crash(p)
    PROVE  TypeOK'
<1> USE DEF Call, Outcome, Idle, users, database
<1>1. MaxFaults \in Nat
  BY AccountsAssumption
<1>2. ASSUME NEW r \in Requests, DatabaseError(r) PROVE TypeOK'
  <2>1. /\ \E from : \E to \in Call \cup Outcome : Runs(r, from, to) \/ Steps(r, from, to)
        /\ UNCHANGED <<database, subject>>
    BY <1>2 DEF DatabaseError, AfterError, Answer
  <2>2. faults' \in 0 .. MaxFaults
    BY <1>1, <1>2 DEF DatabaseError, TypeOK
  <2>3. QED
    BY <2>1, <2>2, MoveType DEF TypeOK
<1>3. ASSUME NEW r \in Requests, Lapse(r) PROVE TypeOK'
  BY <1>3 DEF Lapse, TypeOK
<1>4. ASSUME NEW p \in Procs, Crash(p) PROVE TypeOK'
  BY <1>1, <1>4 DEF Crash, TypeOK
<1>5. QED
  BY <1>2, <1>3, <1>4

\* Every step keeps the types.
LEMMA NextType == TypeOK /\ [Next]_vars => TypeOK'
<1> SUFFICES ASSUME TypeOK, [Next]_vars PROVE TypeOK'
  OBVIOUS
<1>1. CASE \E r \in Requests : Handle(r)
  BY <1>1, ActionCases, BridgeType, FindingType, WritingType, LinkingType
<1>2. CASE \/ \E r \in Requests : DatabaseError(r) \/ Lapse(r)
           \/ \E p \in Procs : Crash(p)
  BY <1>2, FaultType
<1>3. CASE UNCHANGED vars
  BY <1>3 DEF vars, database, users, TypeOK
<1>4. QED
  BY <1>1, <1>2, <1>3 DEF Next

\* Every reachable state of the accounts is well typed: a column without its row is
\* empty, and only rows are active or funded.
THEOREM TypeCorrect == Spec => []TypeOK
<1>1. Init => TypeOK
  BY InitType
<1>2. TypeOK /\ [Next]_vars => TypeOK'
  BY NextType
<1>3. QED
  BY <1>1, <1>2, PTL DEF Spec
-----------------------------------------------------------------------------
(* The event loop. *)

\* Every coroutine that is between two calls holds its process's loop; only a
\* JWT that is resolved on the thread pool needs none.
HoldsLoop == \A r \in Requests : Kind[r] # "jwt" /\ pc[r] \in Call => loop[at[r]] = r
LoopInv == TypeOK /\ HoldsLoop

\* A handler's step moves it on, on the pool or with the loop that nobody else holds.
LEMMA WorkMoves ==
    ASSUME LoopInv, NEW r \in Requests, Works(r)
    PROVE  \E from, to \in {Idle} \cup Call \cup Outcome :
              /\ from \notin Outcome /\ to # Idle
              /\ \/ Kind[r] = "jwt" /\ Steps(r, from, to)
                 \/ /\ Kind[r] # "jwt" /\ Runs(r, from, to)
                    /\ loop[at[r]] \in {NoRequest, r}
<1> USE DEF Call, Outcome, Idle, Goes, Asks, Starts
<1>0. HoldsLoop /\ pc[r] \in {Idle} \cup Call \cup Outcome
  BY DEF LoopInv, TypeOK
<1>1. CASE DatabaseError(r)
  <2>1. AfterError(r) \in {"reread", "refused", "ignored", "failed", "ok", "device"}
    BY DEF AfterError, Answer
  <2>2. pc[r] \in Call
    BY <1>1 DEF DatabaseError
  <2>3. /\ AfterError(r) \in {Idle} \cup Call \cup Outcome /\ AfterError(r) # Idle
        /\ pc[r] \in {Idle} \cup Call \cup Outcome /\ pc[r] \notin Outcome
    BY <2>1, <2>2
  <2>4. \/ Kind[r] = "jwt" /\ Steps(r, pc[r], AfterError(r))
        \/ Kind[r] # "jwt" /\ Runs(r, pc[r], AfterError(r))
    BY <1>1 DEF DatabaseError
  <2>5. Kind[r] # "jwt" => loop[at[r]] \in {NoRequest, r}
    BY <1>0, <2>2 DEF HoldsLoop
  <2>6. QED
    BY <2>3, <2>4, <2>5
<1>2. CASE Handle(r) /\ Bridge(r) /\ Kind[r] \in Bridged
  <2>1. \E from, to \in {Idle} \cup Call \cup Outcome :
           from \notin Outcome /\ to # Idle /\ Resolves(r, from, to)
    <3>1. CASE ByIdentity(r) \/ InsertIdentity(r) \/ Reread(r)
      BY <3>1 DEF ByIdentity, InsertIdentity, Reread
    <3>2. CASE ByEmail(r)
      BY <3>2 DEF ByEmail
    <3>3. CASE LinkIdentity(r)
      BY <3>3 DEF LinkIdentity
    <3>4. QED
      BY <1>2, <3>1, <3>2, <3>3 DEF Bridge
  <2>2. QED
    BY <2>1 DEF Resolves
<1>3. CASE Handle(r) /\ Kind[r] \notin Bridged
  <2>1. \E from, to \in {Idle} \cup Call \cup Outcome :
           /\ from \notin Outcome /\ to # Idle /\ Runs(r, from, to)
           /\ from = Idle => loop[at[r]] = NoRequest
    <3>1. CASE Finding(r)
      <4>1. CASE Create(r) \/ RegisterLookup(r) \/ ApproveRead(r) \/ ApproveLookup(r)
        BY <4>1 DEF Create, Answer, RegisterLookup, ApproveRead, ApproveLookup
      <4>2. CASE RejectRead(r) \/ BySub(r) \/ ByAddress(r) \/ ForgotLookup(r) \/ Login(r)
        BY <4>2 DEF RejectRead, BySub, ByAddress, ForgotLookup, Login
      <4>3. CASE PluginLogin(r) \/ FindPlugin(r) \/ PluginToken(r) \/ DeleteLoad(r)
        BY <4>3 DEF PluginLogin, FindPlugin, PluginToken, DeleteLoad
      <4>4. CASE SettingsLoad(r)
        BY <4>4 DEF SettingsLoad
      <4>5. QED
        BY <3>1, <4>1, <4>2, <4>3, <4>4 DEF Finding
    <3>2. CASE Writing(r)
      <4>1. CASE Insert(r) \/ Grant(r) \/ InsertDevice(r) \/ Decide(r) \/ RejectDrop(r)
        BY <4>1 DEF Insert, Answer, Grant, InsertDevice, Decide, RejectDrop
      <4>2. CASE LinkSocial(r)
        BY <4>2 DEF LinkSocial
      <4>3. CASE Activate(r) \/ InsertPlugin(r) \/ Rename(r) \/ Remove(r)
        BY <4>3 DEF Activate, InsertPlugin, Rename, Remove
      <4>4. QED
        BY <3>2, <4>1, <4>2, <4>3 DEF Writing
    <3>3. CASE Linking(r)
      BY <3>3 DEF Linking, Mint, Redeem, SetupLoad, SetPassword, Consume
    <3>4. QED
      BY <1>3, <3>1, <3>2, <3>3, ActionCases
  <2>2. Kind[r] # "jwt"
    BY <1>3 DEF Bridged
  <2>3. PICK from, to \in {Idle} \cup Call \cup Outcome :
           /\ from \notin Outcome /\ to # Idle /\ Runs(r, from, to)
           /\ from = Idle => loop[at[r]] = NoRequest
    BY <2>1
  <2>4. from = pc[r]
    BY <2>3 DEF Runs, Moves
  <2>5. loop[at[r]] \in {NoRequest, r}
    <3>1. CASE from = Idle
      BY <3>1, <2>3
    <3>2. CASE from # Idle
      <4>1. pc[r] \in Call
        BY <3>2, <2>3, <2>4
      <4>2. QED
        BY <1>0, <2>2, <4>1 DEF HoldsLoop
    <3>3. QED
      BY <3>1, <3>2
  <2>6. QED
    BY <2>2, <2>3, <2>5
<1>4. QED
  BY <1>1, <1>2, <1>3, ActionCases DEF Works

\* What a step of a handler does to the position of requests.
LEMMA LoopMoves ==
    ASSUME LoopInv, NEW r \in Requests, Works(r)
    PROVE  /\ pc[r] \notin Outcome /\ pc'[r] \in Call \cup Outcome
           /\ pc' = [pc EXCEPT ![r] = pc'[r]]
           /\ at' = at
           /\ Kind[r] = "jwt" => loop' = loop
           /\ Kind[r] # "jwt" =>
                 /\ loop[at[r]] \in {NoRequest, r}
                 /\ loop' = [loop EXCEPT ![at[r]] =
                               IF pc'[r] \in Outcome THEN NoRequest ELSE r]
<1>1. PICK from, to \in {Idle} \cup Call \cup Outcome :
         /\ from \notin Outcome /\ to # Idle
         /\ \/ Kind[r] = "jwt" /\ Steps(r, from, to)
            \/ /\ Kind[r] # "jwt" /\ Runs(r, from, to)
               /\ loop[at[r]] \in {NoRequest, r}
  BY WorkMoves
<1>2. /\ pc[r] = from /\ pc' = [pc EXCEPT ![r] = to] /\ at' = at
      /\ pc \in [Requests -> {Idle} \cup Call \cup Outcome]
  BY <1>1 DEF Steps, Runs, Moves, LoopInv, TypeOK
<1>3. pc'[r] = to
  BY <1>2
<1>4. QED
  BY <1>1, <1>2, <1>3 DEF Steps, Runs

\* The loop stays with who holds it.
LEMMA LoopNext == LoopInv /\ [Next]_vars => LoopInv'
<1> SUFFICES ASSUME LoopInv, [Next]_vars PROVE HoldsLoop'
  BY NextType DEF LoopInv
<1>0. /\ NoRequest \notin Requests
      /\ at \in [Requests -> Procs]
      /\ pc \in [Requests -> {Idle} \cup Call \cup Outcome]
      /\ loop \in [Procs -> Requests \cup {NoRequest}]
      /\ HoldsLoop
  BY AccountsAssumption DEF LoopInv, TypeOK
<1>1. ASSUME NEW q \in Requests, Works(q), NEW r \in Requests,
             Kind[r] # "jwt", pc'[r] \in Call
      PROVE  loop'[at'[r]] = r
  <2>1. CASE r = q
    BY <1>0, <1>1, <2>1, LoopMoves DEF Call, Outcome
  <2>2. CASE r # q
    <3>1. pc[r] \in Call /\ at' = at
      BY <1>0, <1>1, <2>2, LoopMoves
    <3>2. loop[at[r]] = r
      BY <1>0, <1>1, <3>1 DEF HoldsLoop
    <3>3. QED
      BY <1>0, <1>1, <2>2, <3>1, <3>2, LoopMoves
  <2>3. QED
    BY <2>1, <2>2
<1>2. ASSUME NEW m \in Requests, Lapse(m) PROVE HoldsLoop'
  BY <1>0, <1>2 DEF Lapse, HoldsLoop
<1>3. ASSUME NEW p \in Procs, Crash(p) PROVE HoldsLoop'
  BY <1>0, <1>3 DEF Crash, HoldsLoop, Call
<1>4. CASE UNCHANGED vars
  BY <1>0, <1>4 DEF vars, HoldsLoop
<1>5. QED
  BY <1>1, <1>2, <1>3, <1>4 DEF Next, Works, HoldsLoop

\* Nobody holds the loop at first.
LEMMA LoopInit == Init => LoopInv
  BY InitType DEF Init, EventLoopInit, LoopInv, HoldsLoop, Idle, Call

\* With one process, no other coroutine is between two calls while one steps.
LEMMA OthersRest ==
    ASSUME LoopInv, OneProcess, NEW q \in Requests, Works(q), Kind[q] # "jwt",
           NEW r \in Requests, r # q, Kind[r] # "jwt"
    PROVE  pc[r] \notin Call
<1>1. loop[at[q]] \in {NoRequest, q} /\ at[q] \in Procs /\ at[r] \in Procs
  BY LoopMoves DEF LoopInv, TypeOK
<1>2. NoRequest \notin Requests
  BY AccountsAssumption
<1>3. QED
  BY <1>1, <1>2 DEF OneProcess, LoopInv, HoldsLoop

-----------------------------------------------------------------------------
(* Links. *)

\* What handlers do to links, passwords and what requests work on.
LEMMA Effects ==
    ASSUME TypeOK, NEW q \in Requests, Works(q)
    PROVE  /\ \A r \in Requests : r # q => subject'[r] = subject[r]
           /\ password' = password \/ SetPassword(q) \/ Remove(q)
           /\ link' = link \/ Mint(q) \/ Consume(q)
<1> USE DEF users, database
<1>0. subject \in [Requests -> Requests \cup {None}]
  BY DEF TypeOK
<1>1. CASE DatabaseError(q)
  BY <1>1 DEF DatabaseError
<1>2. CASE Bridge(q)
  <2>1. CASE ByIdentity(q) \/ ByEmail(q) \/ Reread(q)
    BY <1>0, <2>1 DEF ByIdentity, ByEmail, Reread, Finds
  <2>2. CASE LinkIdentity(q)
    BY <2>2 DEF LinkIdentity
  <2>3. CASE InsertIdentity(q)
    BY <1>0, <2>3 DEF InsertIdentity, Finds
  <2>4. QED
    BY <1>2, <2>1, <2>2, <2>3 DEF Bridge
<1>3. CASE Finding(q)
  <2>1. /\ UNCHANGED database
        /\ \/ UNCHANGED subject
           \/ \E a \in Requests : Finds(q, a)
           \/ \E b \in Requests : Finds(q, subject[b])
    BY <1>3, FindingMoves
  <2>2. QED
    BY <1>0, <2>1 DEF Finds
<1>4. CASE Writing(q)
  <2>1. CASE Insert(q)
    BY <1>0, <2>1 DEF Insert, Finds
  <2>2. CASE Grant(q) \/ InsertDevice(q) \/ Decide(q) \/ RejectDrop(q) \/ LinkSocial(q)
    BY <2>2 DEF Grant, InsertDevice, Decide, RejectDrop, LinkSocial
  <2>3. CASE Activate(q) \/ InsertPlugin(q) \/ Rename(q) \/ Remove(q)
    BY <2>3 DEF Activate, InsertPlugin, Rename, Remove
  <2>4. QED
    BY <1>4, <2>1, <2>2, <2>3 DEF Writing
<1>5. CASE Linking(q)
  BY <1>0, <1>5 DEF Linking, Mint, Redeem, SetupLoad, SetPassword, Consume, Finds
<1>6. QED
  BY <1>1, <1>2, <1>3, <1>4, <1>5, ActionCases DEF Works

\* How whoever presents a link gets from one call to the next.
LEMMA RedeemerMoves ==
    ASSUME LoopInv, NEW q \in Redeemers, Works(q)
    PROVE  /\ pc'[q] = "ok" => Consume(q)
           /\ pc[q] = Idle => Redeem(q)
           /\ Kind[q] = "setup" /\ pc'[q] = "setPassword" => SetupLoad(q)
<1> USE DEF Redeemers, Of
<1>0. q \in Requests /\ Kind[q] \in {"setup", "reset"}
      /\ pc \in [Requests -> {Idle} \cup Call \cup Outcome]
  BY DEF LoopInv, TypeOK
<1>1. CASE DatabaseError(q)
  BY <1>0, <1>1 DEF DatabaseError, AfterError, Answer, Runs, Moves, Call, Idle
<1>2. CASE Handle(q)
  <2>1. SetupPassword(q) \/ ResetPassword(q)
    BY <1>0, <1>2 DEF Handle, Resolve, Bridged, Register, Invite, Approve, Reject,
         SocialCallback, ForgotPassword, Login, Asks, PluginSignIn, SettingsEmail,
         SettingsPassword, DeleteUser
  <2>2. QED
    BY <1>0, <2>1 DEF SetupPassword, ResetPassword, Redeem, SetupLoad, SetPassword,
         Activate, Consume, Goes, Asks, Starts, Runs, Moves, Idle
<1>3. QED
  BY <1>1, <1>2 DEF Works

\* Whoever presents a link works on one that its minter was done with; it is used
\* once its redeemer is answered, and not before.
LinkInv ==
    \A r \in Redeemers :
        /\ pc[r] \in Call \cup {"ok"} => pc[Presents[r]] = "ok"
        /\ pc[r] = "ok" => link[Presents[r]] = "used"
        /\ pc[r] \in Call => link[Presents[r]] # "used"
OnceInv == LinkInv /\ LinkUsedOnce

\* A step of a handler keeps the links used once.
LEMMA OnceStep ==
    ASSUME OneProcess, LoopInv, OnceInv, NEW q \in Requests, Works(q)
    PROVE  OnceInv'
<1>0. /\ pc \in [Requests -> {Idle} \cup Call \cup Outcome]
      /\ link \in [Requests -> {"none", "fresh", "lapsed", "used"}]
      /\ TypeOK
      /\ \A r \in Redeemers : r \in Requests /\ Kind[r] # "jwt" /\ Presents[r] \in Requests
  BY AccountsAssumption DEF LoopInv, TypeOK, Redeemers, Of
<1>1. /\ pc[q] \notin Outcome /\ pc'[q] \in Call \cup Outcome
      /\ pc' = [pc EXCEPT ![q] = pc'[q]]
  BY LoopMoves
<1>2. \A r \in Requests : pc[r] = "ok" => r # q /\ pc'[r] = "ok"
  BY <1>0, <1>1 DEF Outcome
<1>3. \A r \in Requests : pc'[r] # "ok" \/ pc[r] = "ok" \/ r = q
  BY <1>0, <1>1
<1>4. q \in Redeemers /\ pc[q] = Idle => pc[Presents[q]] = "ok" /\ (pc'[q] \in Call => link[Presents[q]] = "fresh")
  <2> SUFFICES ASSUME q \in Redeemers, pc[q] = Idle
               PROVE  pc[Presents[q]] = "ok" /\ (pc'[q] \in Call => link[Presents[q]] = "fresh")
    OBVIOUS
  <2>1. Redeem(q)
    BY RedeemerMoves
  <2>2. QED
    BY <1>0, <2>1 DEF Redeem, Asks, Starts, Runs, Moves, Fresh, Call, Idle
<1>5. \A r \in Redeemers : pc'[r] \in Call \cup {"ok"} => pc'[Presents[r]] = "ok"
  <2> SUFFICES ASSUME NEW r \in Redeemers, pc'[r] \in Call \cup {"ok"}
               PROVE  pc[Presents[r]] = "ok"
    BY <1>0, <1>2
  <2>1. pc[r] \in Call \cup {"ok"} => pc[Presents[r]] = "ok"
    BY DEF OnceInv, LinkInv
  <2>2. CASE r = q
    BY <1>0, <1>1, <1>4, <2>1, <2>2
  <2>3. CASE r # q
    BY <1>0, <1>1, <2>1, <2>3
  <2>4. QED
    BY <2>2, <2>3
<1>6. link' = link \/ Mint(q) \/ Consume(q)
  BY <1>0, Effects
<1>7. \A r \in Redeemers : pc[r] = "ok" => link'[Presents[r]] = "used"
  <2> SUFFICES ASSUME NEW r \in Redeemers, pc[r] = "ok"
               PROVE  link'[Presents[r]] = "used"
    OBVIOUS
  <2>1. pc[Presents[r]] = "ok" /\ link[Presents[r]] = "used" /\ Presents[r] # q
    BY <1>0, <1>2 DEF OnceInv, LinkInv
  <2>2. CASE Mint(q)
    BY <1>0, <2>1, <2>2 DEF Mint
  <2>3. CASE Consume(q)
    BY <1>0, <2>1, <2>3 DEF Consume
  <2>4. QED
    BY <1>6, <2>1, <2>2, <2>3
<1>8. ASSUME q \in Redeemers, pc'[q] = "ok"
      PROVE  link'[Presents[q]] = "used" /\ link[Presents[q]] # "used"
  <2>1. Consume(q)
    BY <1>8, RedeemerMoves
  <2>2. pc[q] = "consume"
    BY <2>1 DEF Consume, Goes, Runs, Moves
  <2>3. link[Presents[q]] # "used"
    BY <1>8, <2>2 DEF OnceInv, LinkInv, Call
  <2>4. link'[Presents[q]] = "used"
    BY <1>0, <1>8, <2>1 DEF Consume
  <2>5. QED
    BY <2>3, <2>4
<1>9. \A r \in Redeemers : pc'[r] \in Call => link'[Presents[r]] # "used"
  <2> SUFFICES ASSUME NEW r \in Redeemers, pc'[r] \in Call
               PROVE  link'[Presents[r]] # "used"
    OBVIOUS
  <2>1. link[Presents[r]] # "used"
    <3>1. pc[r] \in Call => link[Presents[r]] # "used"
      BY DEF OnceInv, LinkInv
    <3>2. CASE r = q
      BY <1>0, <1>1, <1>4, <3>1, <3>2
    <3>3. CASE r # q
      BY <1>0, <1>1, <3>1, <3>3
    <3>4. QED
      BY <3>2, <3>3
  <2>2. CASE Mint(q)
    BY <1>0, <2>1, <2>2 DEF Mint
  <2>3. ~ Consume(q)
    <3> SUFFICES ASSUME Consume(q) PROVE FALSE
      OBVIOUS
    <3>1. /\ Kind[q] \in {"setup", "reset"}
          /\ pc'[q] = "ok"
      BY <1>0 DEF Consume, Goes, Runs, Moves
    <3>2. r # q
      BY <3>1 DEF Call
    <3>3. pc[r] \in Call
      BY <1>0, <1>1, <3>2
    <3>4. QED
      BY <1>0, <3>1, <3>2, <3>3, OthersRest
  <2>4. QED
    BY <1>6, <2>1, <2>2, <2>3
<1>10. LinkUsedOnce'
  <2> SUFFICES ASSUME NEW r \in Redeemers, NEW s \in Redeemers,
                      pc'[r] = "ok", pc'[s] = "ok", Presents[r] = Presents[s]
               PROVE  r = s
    BY DEF LinkUsedOnce
  <2>1. CASE r = q /\ s # q
    <3>1. pc[s] = "ok"
      BY <1>0, <1>3, <2>1
    <3>2. QED
      BY <1>8, <2>1, <3>1 DEF OnceInv, LinkInv
  <2>2. CASE s = q /\ r # q
    <3>1. pc[r] = "ok"
      BY <1>0, <1>3, <2>2
    <3>2. QED
      BY <1>8, <2>2, <3>1 DEF OnceInv, LinkInv
  <2>3. CASE r # q /\ s # q
    BY <1>0, <1>3, <2>3 DEF OnceInv, LinkUsedOnce
  <2>4. QED
    BY <2>1, <2>2, <2>3
<1>11. \A r \in Redeemers : pc'[r] = "ok" => link'[Presents[r]] = "used"
  BY <1>0, <1>3, <1>7, <1>8
<1>12. QED
  BY <1>5, <1>9, <1>10, <1>11 DEF OnceInv, LinkInv

\* Time, crashes and stuttering use no link.
LEMMA OnceNext == OneProcess /\ LoopInv /\ OnceInv /\ [Next]_vars => OnceInv'
<1> SUFFICES ASSUME OneProcess, LoopInv, OnceInv, [Next]_vars PROVE OnceInv'
  OBVIOUS
<1>0. /\ pc \in [Requests -> {Idle} \cup Call \cup Outcome]
      /\ link \in [Requests -> {"none", "fresh", "lapsed", "used"}]
      /\ \A r \in Redeemers : r \in Requests /\ Presents[r] \in Requests
  BY AccountsAssumption DEF LoopInv, TypeOK, Redeemers, Of
<1>1. ASSUME NEW m \in Requests, Lapse(m) PROVE OnceInv'
  <2>1. /\ UNCHANGED pc
        /\ \A n \in Requests : link'[n] = "used" <=> link[n] = "used"
    BY <1>0, <1>1 DEF Lapse
  <2>2. QED
    BY <1>0, <2>1 DEF OnceInv, LinkInv, LinkUsedOnce
<1>2. ASSUME NEW p \in Procs, Crash(p) PROVE OnceInv'
  <2>1. /\ UNCHANGED link
        /\ \A r \in Requests : /\ pc'[r] \in Call => pc[r] \in Call
                               /\ pc'[r] = "ok" <=> pc[r] = "ok"
    BY <1>0, <1>2 DEF Crash, Call, database
  <2>2. QED
    BY <1>0, <2>1 DEF OnceInv, LinkInv, LinkUsedOnce
<1>3. CASE UNCHANGED vars
  BY <1>3 DEF vars, database, OnceInv, LinkInv, LinkUsedOnce
<1>4. QED
  BY <1>1, <1>2, <1>3, OnceStep DEF Next, Works

\* In one process a link is answered for once, although it is consumed three
\* statements after it was found fresh: the handler holds the loop in between.
THEOREM LinksWorkOnce ==
    ASSUME OneProcess
    PROVE  Spec => []LinkUsedOnce
<1>1. Init => LoopInv /\ OnceInv
  BY LoopInit DEF Init, EventLoopInit, OnceInv, LinkInv, LinkUsedOnce, Redeemers, Of, Idle, Call
<1>2. LoopInv /\ OnceInv /\ [Next]_vars => (LoopInv /\ OnceInv)'
  BY LoopNext, OnceNext
<1>3. OnceInv => LinkUsedOnce
  BY DEF OnceInv
<1>4. QED
  BY <1>1, <1>2, <1>3, PTL DEF Spec

-----------------------------------------------------------------------------
(* Passwords. *)

\* Whoever is about to set the first password of an account still finds none.
SetupInv ==
    \A r \in Requests :
        Kind[r] = "setup" /\ pc[r] = "setPassword" /\ subject[r] # None =>
            password[subject[r]] = None

\* A handler's step keeps the first password the first.
LEMMA SetupStep ==
    ASSUME OneProcess, LoopInv, SetupInv, NEW q \in Requests, Works(q)
    PROVE  SetupInv'
<1> SUFFICES ASSUME NEW r \in Requests, Kind[r] = "setup", pc'[r] = "setPassword",
                    subject'[r] # None
             PROVE  password'[subject'[r]] = None
  BY DEF SetupInv
<1>0. /\ pc \in [Requests -> {Idle} \cup Call \cup Outcome]
      /\ password \in [Requests -> Requests \cup {None}]
      /\ TypeOK
  BY DEF LoopInv, TypeOK
<1>1. CASE r = q
  <2>1. SetupLoad(q)
    BY <1>1, RedeemerMoves DEF Redeemers, Of
  <2>2. /\ password[subject[q]] = None /\ UNCHANGED <<password, subject>>
    BY <1>0, <1>1, <2>1 DEF SetupLoad, Goes, Runs, Moves, database, users
  <2>3. QED
    BY <1>1, <2>2
<1>2. CASE r # q
  <2>1. pc[r] = "setPassword" /\ subject'[r] = subject[r]
    BY <1>0, <1>2, LoopMoves, Effects
  <2>2. password[subject[r]] = None
    BY <2>1 DEF SetupInv
  <2>3. ~ SetPassword(q)
    <3>1. SetPassword(q) => Kind[q] # "jwt"
      BY DEF SetPassword, Goes
    <3>2. QED
      BY <1>2, <2>1, <3>1, OthersRest DEF Call
  <2>4. ~ Remove(q)
    <3>1. Remove(q) => Kind[q] # "jwt"
      BY DEF Remove, Goes
    <3>2. QED
      BY <1>2, <2>1, <3>1, OthersRest DEF Call
  <2>5. password' = password
    BY <1>0, <2>3, <2>4, Effects
  <2>6. QED
    BY <2>1, <2>2, <2>5
<1>3. QED
  BY <1>1, <1>2

\* So do time, crashes and stuttering.
LEMMA SetupNext == OneProcess /\ LoopInv /\ SetupInv /\ [Next]_vars => SetupInv'
<1> SUFFICES ASSUME OneProcess, LoopInv, SetupInv, [Next]_vars PROVE SetupInv'
  OBVIOUS
<1>0. pc \in [Requests -> {Idle} \cup Call \cup Outcome]
  BY DEF LoopInv, TypeOK
<1>1. ASSUME NEW m \in Requests, Lapse(m) PROVE SetupInv'
  BY <1>1 DEF Lapse, SetupInv, users
<1>2. ASSUME NEW p \in Procs, Crash(p) PROVE SetupInv'
  BY <1>0, <1>2 DEF Crash, SetupInv, database, users
<1>3. CASE UNCHANGED vars
  BY <1>3 DEF vars, database, users, SetupInv
<1>4. QED
  BY <1>1, <1>2, <1>3, SetupStep DEF Next, Works

\* The step that replaces a password is of a reset or of the settings page.
LEMMA ResetsOnly ==
    ASSUME LoopInv, SetupInv, [Next]_vars, NEW a \in Requests,
           password[a] # None, password'[a] \notin {password[a], None}
    PROVE  Kind[password'[a]] \in {"reset", "newPassword"}
<1>0. /\ password \in [Requests -> Requests \cup {None}]
      /\ pc \in [Requests -> {Idle} \cup Call \cup Outcome]
      /\ TypeOK
  BY DEF LoopInv, TypeOK
<1>1. PICK q \in Requests : Works(q)
  BY DEF Next, Works, Lapse, Crash, vars, database, users
<1>2. ~ Remove(q)
  BY <1>0 DEF Remove
<1>3. SetPassword(q)
  BY <1>0, <1>1, <1>2, Effects
<1>4. /\ Kind[q] \in {"setup", "reset", "newPassword"} /\ pc[q] = "setPassword"
      /\ a = subject[q] /\ password'[a] = q
  BY <1>0, <1>3 DEF SetPassword, Goes, Runs, Moves
<1>5. a # None
  BY AccountsAssumption
<1>6. Kind[q] # "setup"
  BY <1>4, <1>5 DEF SetupInv
<1>7. QED
  BY <1>4, <1>6

\* In one process no link to set up an account replaces a password, however many of
\* them are out and whichever handlers die half way.
THEOREM SetupLinksNeverReset ==
    ASSUME OneProcess
    PROVE  Spec => SetupNeverResets
<1>1. Init => LoopInv /\ SetupInv
  BY LoopInit DEF Init, EventLoopInit, SetupInv, Idle
<1>2. LoopInv /\ SetupInv /\ [Next]_vars => (LoopInv /\ SetupInv)'
  BY LoopNext, SetupNext
<1>3. LoopInv /\ SetupInv /\ [Next]_vars =>
        [\A a \in Requests :
            password[a] # None /\ password'[a] \notin {password[a], None} =>
                Kind[password'[a]] \in {"reset", "newPassword"}]_vars
  BY ResetsOnly
<1>4. QED
  BY <1>1, <1>2, <1>3, PTL DEF Spec, SetupNeverResets

-----------------------------------------------------------------------------
(* Identities. *)

\* Where a request that will insert a row has not inserted it, or has given up to.
Unmade == {Idle, "byEmail", "insertIdentity", "reread", "byAddress", "lookup",
           "create", "insert"}

\* A row is its maker's own, and who works on an account works on one that was made.
RowsInv ==
    /\ \A a \in Requests : email[a] # None => subject[a] = a
    /\ \A r \in Requests : subject[r] # None =>
          subject[subject[r]] = subject[r] /\ pc[subject[r]] \notin Unmade

\* The insertion of a row.
Makes(q) ==
    /\ pc[q] \in Unmade /\ pc'[q] \notin Unmade
    /\ subject'[q] = q
    /\ email' = [email EXCEPT ![q] = EmailOf[q]]
    /\ identity' \in {identity, [identity EXCEPT ![q] = IdentityOf[q]]}

\* The ways in which a request's account changes.
FindsRow(q) ==
    \/ subject'[q] = subject[q]
    \/ /\ pc[q] \in Unmade
       /\ \/ subject'[q] = q /\ pc'[q] \notin Unmade
          \/ \E a \in Requests : subject'[q] = a /\ email[a] # None
          \/ \E p \in Requests : subject'[q] = subject[p]

\* The statements of the bridge, by what they do to rows.
LEMMA BridgeRows ==
    ASSUME LoopInv, NEW q \in Requests, Works(q), Bridge(q)
    PROVE  /\ \/ UNCHANGED <<email, identity>>
              \/ Makes(q)
              \/ LinkIdentity(q) /\ email' = email
           /\ FindsRow(q)
           /\ pc'[q] \in Unmade => pc[q] \in Unmade
<1> USE DEF Unmade, Idle, users, database, Outcome
<1>0. /\ TypeOK
      /\ pc \in [Requests -> {Idle} \cup Call \cup Outcome]
      /\ subject \in [Requests -> Requests \cup {None}]
      /\ IdentityOf[q] # None
  BY AccountsAssumption DEF LoopInv, TypeOK
<1>1. \A to : (\E from : Resolves(q, from, to)) => pc'[q] = to
  BY <1>0 DEF Resolves, Runs, Steps, Moves
<1>2. CASE ByIdentity(q)
  <2>1. UNCHANGED <<email, identity>> /\ pc[q] = Idle
    BY <1>2 DEF ByIdentity
  <2>2. subject'[q] = subject[q] \/ \E a \in Bound(q) : subject'[q] = a
    BY <1>0, <1>2 DEF ByIdentity, Finds
  <2>3. \A a \in Bound(q) : a \in Requests /\ email[a] # None
    BY <1>0 DEF Bound, TypeOK
  <2>4. QED
    BY <2>1, <2>2, <2>3 DEF FindsRow
<1>3. CASE ByEmail(q)
  <2>1. UNCHANGED <<email, identity>> /\ pc[q] = "byEmail"
    BY <1>3 DEF ByEmail
  <2>2. subject'[q] = subject[q] \/ \E a \in AccountsAt(EmailOf[q]) : subject'[q] = a
    BY <1>0, <1>3 DEF ByEmail, Finds
  <2>3. \A a \in AccountsAt(EmailOf[q]) : a \in Requests /\ email[a] # None
    BY AccountsAssumption DEF AccountsAt
  <2>4. QED
    BY <2>1, <2>2, <2>3 DEF FindsRow
<1>4. CASE LinkIdentity(q)
  <2>1. email' = email /\ subject'[q] = subject[q] /\ pc'[q] \in {"ok", "failed"}
    BY <1>1, <1>4 DEF LinkIdentity
  <2>2. QED
    BY <1>4, <2>1 DEF FindsRow
<1>5. CASE InsertIdentity(q)
  <2>1. pc[q] = "insertIdentity"
    BY <1>5 DEF InsertIdentity
  <2>2. CASE AccountsAt(EmailOf[q]) # {} \/ Bound(q) # {}
    BY <1>5, <2>1, <2>2 DEF InsertIdentity, FindsRow
  <2>3. CASE ~ (AccountsAt(EmailOf[q]) # {} \/ Bound(q) # {})
    <3>1. pc'[q] = "ok" /\ subject'[q] = q
      BY <1>0, <1>1, <1>5, <2>3 DEF InsertIdentity, Finds
    <3>2. Makes(q)
      BY <1>5, <2>1, <2>3, <3>1 DEF InsertIdentity, Makes
    <3>3. QED
      BY <2>1, <3>1, <3>2 DEF FindsRow
  <2>4. QED
    BY <2>2, <2>3
<1>6. CASE Reread(q)
  <2>1. UNCHANGED <<email, identity>> /\ pc[q] = "reread"
    BY <1>6 DEF Reread
  <2>2. subject'[q] = subject[q] \/ \E a \in Bound(q) : subject'[q] = a
    BY <1>0, <1>6 DEF Reread, Finds
  <2>3. \A a \in Bound(q) : a \in Requests /\ email[a] # None
    BY <1>0 DEF Bound, TypeOK
  <2>4. QED
    BY <2>1, <2>2, <2>3 DEF FindsRow
<1>7. QED
  BY <1>2, <1>3, <1>4, <1>5, <1>6 DEF Bridge

\* The look-ups: each notes a row that is there, or what another request noted.
LEMMA FindingRows ==
    ASSUME TypeOK, NEW q \in Requests, Finding(q)
    PROVE  /\ UNCHANGED <<email, identity>>
           /\ FindsRow(q)
           /\ pc'[q] \in Unmade => pc[q] \in Unmade
<1> USE DEF Asks, Goes, Starts, Runs, Moves, Idle, Unmade
<1>0. /\ pc \in [Requests -> {Idle} \cup Call \cup Outcome]
      /\ subject \in [Requests -> Requests \cup {None}]
      /\ \A a \in AccountsAt(EmailOf[q]) : a \in Requests /\ email[a] # None
      /\ Looked(q) \subseteq AccountsAt(EmailOf[q])
      /\ \A a \in Requests : social[a] = SubOf[q] => email[a] # None
  BY AccountsAssumption DEF TypeOK, AccountsAt, Looked
<1>1. UNCHANGED <<email, identity>>
  BY FindingMoves DEF database, users
<1>2. CASE Create(q) \/ ApproveRead(q) \/ RejectRead(q) \/ FindPlugin(q) \/ PluginToken(q)
  <2>1. subject' = subject
    BY <1>2 DEF Create, ApproveRead, RejectRead, FindPlugin, PluginToken
  <2>2. pc'[q] \in Unmade => pc[q] \in Unmade
    BY <1>0, <1>2 DEF Create, Answer, ApproveRead, RejectRead, FindPlugin, PluginToken
  <2>3. QED
    BY <1>1, <2>1, <2>2 DEF FindsRow
<1>3. ASSUME \/ RegisterLookup(q) \/ ApproveLookup(q) \/ BySub(q) \/ ByAddress(q)
             \/ ForgotLookup(q) \/ Login(q) \/ PluginLogin(q) \/ DeleteLoad(q)
      PROVE  FindsRow(q) /\ pc[q] \in Unmade
  <2>1. pc[q] \in Unmade
    BY <1>3 DEF RegisterLookup, ApproveLookup, BySub, ByAddress, ForgotLookup, Login,
                PluginLogin, DeleteLoad
  <2>2. \/ subject' = subject
        \/ \E a \in AccountsAt(EmailOf[q]) \cup {b \in Requests : social[b] = SubOf[q]} :
              Finds(q, a)
    <3>1. CASE RegisterLookup(q) \/ ApproveLookup(q)
      BY <1>0, <3>1 DEF RegisterLookup, ApproveLookup
    <3>2. CASE BySub(q) \/ ByAddress(q)
      BY <3>2 DEF BySub, ByAddress
    <3>3. CASE ForgotLookup(q) \/ Login(q) \/ PluginLogin(q) \/ DeleteLoad(q)
      BY <3>3 DEF ForgotLookup, Login, PluginLogin, DeleteLoad
    <3>4. QED
      BY <1>3, <3>1, <3>2, <3>3
  <2>3. QED
    BY <1>0, <2>1, <2>2 DEF FindsRow, Finds
<1>4. CASE SettingsLoad(q)
  <2>1. Presents[q] \in Requests
    BY AccountsAssumption
  <2>2. pc[q] = Idle /\ subject'[q] = subject[Presents[q]]
    BY <1>0, <1>4 DEF SettingsLoad, Finds
  <2>3. QED
    BY <1>1, <2>1, <2>2 DEF FindsRow
<1>5. QED
  BY <1>1, <1>2, <1>3, <1>4 DEF Finding

\* What each statement of the other handlers does to the rows.
LEMMA WritingRows ==
    ASSUME TypeOK, NEW q \in Requests, Writing(q) \/ Linking(q)
    PROVE  /\ \/ UNCHANGED <<email, identity>>
              \/ Makes(q)
              \/ Rename(q) \/ Remove(q)
           /\ FindsRow(q)
           /\ pc'[q] \in Unmade => pc[q] \in Unmade
<1> USE DEF Asks, Goes, Starts, Runs, Moves, Idle, Unmade, Outcome
<1>0. /\ pc \in [Requests -> {Idle} \cup Call \cup Outcome]
      /\ subject \in [Requests -> Requests \cup {None}]
  BY DEF TypeOK
<1>1. CASE Insert(q)
  <2>1. CASE Taken(q)
    BY <1>1, <2>1 DEF Insert, users, FindsRow
  <2>2. CASE ~ Taken(q)
    <3>1. subject'[q] = q /\ pc[q] = "insert" /\ pc'[q] \in {"device", "grant"}
      BY <1>0, <1>1, <2>2 DEF Insert, Finds
    <3>2. /\ email' = [email EXCEPT ![q] = EmailOf[q]]
          /\ identity' = identity
      BY <1>1, <2>2 DEF Insert
    <3>3. QED
      BY <3>1, <3>2 DEF Makes, FindsRow
  <2>3. QED
    BY <2>1, <2>2
<1>2. CASE Grant(q) \/ InsertDevice(q) \/ Decide(q) \/ RejectDrop(q) \/ LinkSocial(q)
           \/ Activate(q) \/ InsertPlugin(q)
  <2>1. UNCHANGED <<email, identity, subject>>
    BY <1>2 DEF Grant, InsertDevice, Decide, RejectDrop, LinkSocial, Activate,
                InsertPlugin, users
  <2>2. pc'[q] \notin Unmade
    <3>1. CASE Grant(q) \/ InsertDevice(q) \/ Decide(q) \/ RejectDrop(q)
      BY <1>0, <3>1 DEF Grant, InsertDevice, Decide, RejectDrop
    <3>2. CASE LinkSocial(q) \/ Activate(q) \/ InsertPlugin(q)
      BY <1>0, <3>2 DEF LinkSocial, Activate, InsertPlugin
    <3>3. QED
      BY <1>2, <3>1, <3>2
  <2>3. QED
    BY <2>1, <2>2 DEF FindsRow
<1>3. CASE Rename(q) \/ Remove(q)
  BY <1>0, <1>3 DEF Rename, Remove, FindsRow
<1>4. CASE Mint(q) \/ SetupLoad(q) \/ SetPassword(q) \/ Consume(q)
  <2>1. UNCHANGED <<email, identity, subject>>
    BY <1>4 DEF Mint, SetupLoad, SetPassword, Consume, users, database
  <2>2. pc'[q] \notin Unmade
    BY <1>0, <1>4 DEF Mint, SetupLoad, SetPassword, Consume
  <2>3. QED
    BY <2>1, <2>2 DEF FindsRow
<1>5. CASE Redeem(q)
  <2>1. Presents[q] \in Requests
    BY AccountsAssumption
  <2>2. /\ pc[q] = Idle
        /\ subject'[q] \in {subject[q], subject[Presents[q]]}
        /\ UNCHANGED <<email, identity>>
    BY <1>0, <1>5 DEF Redeem, Finds, users, database
  <2>3. QED
    BY <2>1, <2>2 DEF FindsRow
<1>6. QED
  BY <1>1, <1>2, <1>3, <1>4, <1>5 DEF Writing, Linking

\* What a handler's step does to the rows, and to what it works on.
LEMMA WorksRows ==
    ASSUME LoopInv, NEW q \in Requests, Works(q)
    PROVE  /\ \/ UNCHANGED <<email, identity>>
              \/ Makes(q)
              \/ LinkIdentity(q) /\ email' = email
              \/ Rename(q) \/ Remove(q)
           /\ FindsRow(q)
           /\ pc'[q] \in Unmade => pc[q] \in Unmade
<1>0. TypeOK
  BY DEF LoopInv
<1>1. CASE DatabaseError(q)
  <2>1. UNCHANGED <<email, identity, subject>>
    BY <1>1 DEF DatabaseError, database, users
  <2>2. pc'[q] = AfterError(q)
    BY <1>0, <1>1 DEF DatabaseError, Runs, Steps, Moves, TypeOK
  <2>3. AfterError(q) \in Unmade => pc[q] \in Unmade
    BY DEF AfterError, Answer, Unmade, Idle
  <2>4. QED
    BY <2>1, <2>2, <2>3 DEF FindsRow
<1>2. CASE Handle(q) /\ Bridge(q)
  BY <1>2, BridgeRows
<1>3. CASE Handle(q) /\ (Finding(q) \/ Writing(q) \/ Linking(q))
  BY <1>0, <1>3, FindingRows, WritingRows
<1>4. QED
  BY <1>1, <1>2, <1>3, ActionCases DEF Works

\* A row stays its maker's.
LEMMA RowsStep ==
    ASSUME LoopInv, RowsInv, NEW q \in Requests, Works(q)
    PROVE  RowsInv'
<1>0. /\ TypeOK /\ None \notin Requests
      /\ pc \in [Requests -> {Idle} \cup Call \cup Outcome]
      /\ subject \in [Requests -> Requests \cup {None}]
      /\ email \in [Requests -> Emails \cup {Placeholder, None}]
      /\ FindsRow(q)
  BY AccountsAssumption, WorksRows DEF LoopInv, TypeOK
<1>1. \A r \in Requests : r # q => subject'[r] = subject[r] /\ pc'[r] = pc[r]
  BY <1>0, Effects, LoopMoves
<1>2. \A a \in Requests : email'[a] # None => email[a] # None \/ (Makes(q) /\ a = q)
  <2>1. CASE email' = email
    BY <2>1
  <2>2. CASE Makes(q)
    BY <1>0, <2>2 DEF Makes
  <2>3. CASE Rename(q) \/ Remove(q)
    BY <1>0, <2>3 DEF Rename, Remove, Exists
  <2>4. QED
    BY <2>1, <2>2, <2>3, WorksRows
<1>3. pc[q] \notin Unmade => subject'[q] = subject[q] /\ pc'[q] \notin Unmade
  BY WorksRows DEF FindsRow
<1>4. \A a \in Requests : subject[a] = a /\ pc[a] \notin Unmade =>
         subject'[a] = a /\ pc'[a] \notin Unmade
  BY <1>1, <1>3
<1>5. \A r \in Requests : subject[r] # None =>
         /\ subject'[subject[r]] = subject[r]
         /\ pc'[subject[r]] \notin Unmade
  BY <1>0, <1>4 DEF RowsInv
<1>6. \A a \in Requests : email[a] # None => subject[a] = a /\ pc[a] \notin Unmade
  BY <1>0 DEF RowsInv
<1>7. \A a \in Requests : email'[a] # None => subject'[a] = a
  BY <1>2, <1>4, <1>6 DEF Makes
<1>8. \A r \in Requests : subject'[r] # None =>
         subject'[subject'[r]] = subject'[r] /\ pc'[subject'[r]] \notin Unmade
  <2> SUFFICES ASSUME NEW r \in Requests, subject'[r] # None
               PROVE  subject'[subject'[r]] = subject'[r] /\ pc'[subject'[r]] \notin Unmade
    OBVIOUS
  <2>1. CASE subject'[r] = subject[r]
    BY <1>5, <2>1
  <2>2. CASE subject'[r] # subject[r]
    <3>1. r = q
      BY <1>1, <2>2
    <3>2. CASE subject'[q] = q /\ pc'[q] \notin Unmade
      BY <3>1, <3>2
    <3>3. CASE \E a \in Requests : subject'[q] = a /\ email[a] # None
      BY <1>4, <1>6, <3>1, <3>3
    <3>4. CASE \E p \in Requests : subject'[q] = subject[p]
      BY <1>5, <3>1, <3>4
    <3>5. QED
      BY <1>0, <2>2, <3>1, <3>2, <3>3, <3>4 DEF FindsRow
  <2>3. QED
    BY <2>1, <2>2
<1>9. QED
  BY <1>7, <1>8 DEF RowsInv

\* Time, crashes and stuttering change no row.
LEMMA RowsNext == LoopInv /\ RowsInv /\ [Next]_vars => RowsInv'
<1> SUFFICES ASSUME LoopInv, RowsInv, [Next]_vars PROVE RowsInv'
  OBVIOUS
<1>0. /\ pc \in [Requests -> {Idle} \cup Call \cup Outcome]
      /\ subject \in [Requests -> Requests \cup {None}]
  BY DEF LoopInv, TypeOK
<1>1. ASSUME UNCHANGED <<email, subject>>,
             \A r \in Requests : pc'[r] = pc[r] \/ pc'[r] = "crashed"
      PROVE  RowsInv'
  BY <1>0, <1>1 DEF RowsInv, Unmade, Idle
<1>2. ASSUME NEW m \in Requests, Lapse(m) PROVE RowsInv'
  BY <1>1, <1>2 DEF Lapse, users
<1>3. ASSUME NEW p \in Procs, Crash(p) PROVE RowsInv'
  BY <1>0, <1>1, <1>3 DEF Crash, database, users
<1>4. CASE UNCHANGED vars
  BY <1>1, <1>4 DEF vars, database, users
<1>5. QED
  BY <1>2, <1>3, <1>4, RowsStep DEF Next, Works

\* Who bears an address is the only one to have made an account of it, and whoever is
\* about to link a row found one of its address that no other identity has yet.
BearerInv ==
    /\ \A a \in Requests, r \in Bridges :
          email[a] = EmailOf[r] => EmailOf[a] = EmailOf[r]
    /\ \A r \in Bridges : pc[r] \in {"linkIdentity", "reclaim"} =>
          /\ EmailOf[r] # Placeholder
          /\ subject[r] # None /\ EmailOf[subject[r]] = EmailOf[r]
          /\ identity[subject[r]] \in {None, IdentityOf[r]}
    /\ IdentityKeepsAccount

\* How the bridge comes to link a row, and to answer.
LEMMA BridgeMoves ==
    ASSUME LoopInv, NEW q \in Bridges, Works(q)
    PROVE  /\ pc'[q] \in {"linkIdentity", "reclaim"} =>
                /\ \E a \in AccountsAt(EmailOf[q]) :
                      subject'[q] = a /\ identity[a] \in {None, IdentityOf[q]}
                /\ UNCHANGED <<email, identity>>
           /\ pc'[q] = "ok" /\ Exists(subject[q])' =>
                identity'[subject'[q]] = IdentityOf[q]
<1> USE DEF Idle, database, users, Outcome
<1>0. /\ TypeOK /\ q \in Requests /\ Kind[q] \in Bridged
      /\ pc \in [Requests -> {Idle} \cup Call \cup Outcome]
      /\ subject \in [Requests -> Requests \cup {None}]
      /\ identity \in [Requests -> Identities \cup {None}]
      /\ \A to : (\E from : Resolves(q, from, to)) => pc'[q] = to
  BY DEF LoopInv, TypeOK, Bridges, Of, Resolves, Runs, Steps, Moves
<1>1. CASE DatabaseError(q)
  <2>1. AfterError(q) \notin {"linkIdentity", "reclaim", "ok"}
    BY <1>0 DEF AfterError, Answer, Bridged
  <2>2. pc'[q] = AfterError(q)
    BY <1>0, <1>1 DEF DatabaseError, Runs, Steps, Moves
  <2>3. QED
    BY <2>1, <2>2
<1>2. CASE ByIdentity(q) \/ Reread(q)
  <2>1. pc'[q] \notin {"linkIdentity", "reclaim"}
    BY <1>0, <1>2 DEF ByIdentity, Reread
  <2>2. pc'[q] = "ok" => \E a \in Bound(q) : subject'[q] = a
    BY <1>0, <1>2 DEF ByIdentity, Reread, Finds
  <2>3. identity' = identity
    BY <1>2 DEF ByIdentity, Reread
  <2>4. QED
    BY <2>1, <2>2, <2>3 DEF Bound
<1>3. CASE ByEmail(q)
  <2>1. CASE AccountsAt(EmailOf[q]) = {}
    BY <1>0, <1>3, <2>1 DEF ByEmail
  <2>2. CASE AccountsAt(EmailOf[q]) # {}
    <3>1. PICK a \in AccountsAt(EmailOf[q]) :
             /\ Resolves(q, "byEmail",
                   CASE LinkedElsewhere(q, a) -> "failed"
                     [] ~ LinkedElsewhere(q, a) /\ a \in active -> "linkIdentity"
                     [] ~ LinkedElsewhere(q, a) /\ a \notin active
                        /\ a \in funded -> "failed"
                     [] OTHER -> "reclaim")
             /\ Finds(q, a)
             /\ UNCHANGED <<database, faults>>
      BY <1>3, <2>2 DEF ByEmail
    <3>2. subject'[q] = a /\ UNCHANGED <<email, identity>>
      BY <1>0, <3>1 DEF Finds
    <3>3. CASE LinkedElsewhere(q, a)
      <4>1. pc'[q] = "failed"
        BY <1>0, <3>1, <3>3
      <4>2. QED
        BY <4>1
    <3>4. CASE ~ LinkedElsewhere(q, a)
      <4>1. pc'[q] \in {"failed", "linkIdentity", "reclaim"}
        BY <1>0, <3>1, <3>4
      <4>2. QED
        BY <3>2, <3>4, <4>1 DEF LinkedElsewhere
    <3>5. QED
      BY <3>3, <3>4
  <2>3. QED
    BY <2>1, <2>2
<1>4. CASE LinkIdentity(q)
  <2>1. pc'[q] \in {"ok", "failed"} /\ UNCHANGED <<email, subject>>
    BY <1>0, <1>4 DEF LinkIdentity
  <2>2. pc'[q] = "ok" /\ Exists(subject[q]) =>
          identity' = [identity EXCEPT ![subject[q]] = IdentityOf[q]]
    <3> SUFFICES ASSUME pc'[q] = "ok", Exists(subject[q])
                 PROVE  identity' = [identity EXCEPT ![subject[q]] = IdentityOf[q]]
      OBVIOUS
    <3>1. ~ (Bound(q) \ {subject[q]} # {})
      BY <1>0, <1>4 DEF LinkIdentity
    <3>2. QED
      BY <1>4, <3>1 DEF LinkIdentity
  <2>3. QED
    BY <1>0, <2>1, <2>2 DEF Exists
<1>5. CASE InsertIdentity(q)
  <2>1. CASE AccountsAt(EmailOf[q]) # {} \/ Bound(q) # {}
    <3>1. pc'[q] = "reread"
      BY <1>0, <1>5, <2>1 DEF InsertIdentity
    <3>2. QED
      BY <3>1
  <2>2. CASE ~ (AccountsAt(EmailOf[q]) # {} \/ Bound(q) # {})
    <3>1. pc'[q] = "ok"
      BY <1>0, <1>5, <2>2 DEF InsertIdentity
    <3>2. /\ subject'[q] = q
          /\ identity' = [identity EXCEPT ![q] = IdentityOf[q]]
      BY <1>0, <1>5, <2>2 DEF InsertIdentity, Finds
    <3>3. QED
      BY <1>0, <3>1, <3>2
  <2>3. QED
    BY <2>1, <2>2
<1>6. QED
  BY <1>0, <1>1, <1>2, <1>3, <1>4, <1>5, ActionCases DEF Works, Bridge

\* A handler's step leaves each account with who was answered for it.
LEMMA BearerStep ==
    ASSUME SubjectsApart, LoopInv, RowsInv, BearerInv, NEW q \in Requests, Works(q)
    PROVE  BearerInv'
<1>0. /\ TypeOK /\ None \notin Requests /\ Placeholder \notin Emails
      /\ None \notin Emails \cup {Placeholder} /\ None \notin Identities
      /\ pc \in [Requests -> {Idle} \cup Call \cup Outcome]
      /\ subject \in [Requests -> Requests \cup {None}]
      /\ email \in [Requests -> Emails \cup {Placeholder, None}]
      /\ identity \in [Requests -> Identities \cup {None}]
      /\ \A r \in Bridges : /\ r \in Requests /\ EmailOf[r] \in Emails \cup {Placeholder}
                            /\ IdentityOf[r] \in Identities
  BY AccountsAssumption DEF LoopInv, TypeOK, Bridges, Of
<1>1. \A r \in Requests : r # q => subject'[r] = subject[r] /\ pc'[r] = pc[r]
  BY <1>0, Effects, LoopMoves
<1>2. \A a \in Requests, r \in Bridges :
         email'[a] = EmailOf[r] => EmailOf[a] = EmailOf[r]
  <2> SUFFICES ASSUME NEW a \in Requests, NEW r \in Bridges, email'[a] = EmailOf[r]
               PROVE  EmailOf[a] = EmailOf[r]
    OBVIOUS
  <2>1. CASE email'[a] = email[a]
    BY <2>1 DEF BearerInv
  <2>2. CASE Makes(q)
    BY <1>0, <2>2 DEF Makes, BearerInv
  <2>3. CASE Rename(q)
    <3>1. Kind[q] = "rename"
      BY <2>3 DEF Rename, Goes
    <3>2. EmailOf[q] # EmailOf[r]
      BY <3>1 DEF SubjectsApart, Of
    <3>3. email'[a] \in {email[a], EmailOf[q]}
      BY <1>0, <2>3 DEF Rename
    <3>4. QED
      BY <2>1, <3>2, <3>3
  <2>4. CASE Remove(q)
    <3>1. email'[a] \in {email[a], None}
      BY <1>0, <2>4 DEF Remove
    <3>2. QED
      BY <1>0, <2>1, <3>1
  <2>5. QED
    BY <2>1, <2>2, <2>3, <2>4, WorksRows
<1>3. ASSUME NEW r \in Bridges, r # q, subject[r] # None, pc[r] \in Call \cup {"ok"},
             pc[r] = "ok" => Exists(subject[r])' /\ identity[subject[r]] = IdentityOf[r],
             pc[r] # "ok" => /\ pc[r] \in {"linkIdentity", "reclaim"}
                             /\ identity[subject[r]] \in {None, IdentityOf[r]}
      PROVE  identity'[subject[r]] \in {identity[subject[r]], IdentityOf[r]}
                \cup (IF pc[r] = "ok" THEN {} ELSE {None})
  <2> DEFINE a == subject[r]
  <2>0. a \in Requests /\ pc[a] \notin Unmade
    BY <1>0, <1>3 DEF RowsInv
  <2>1. CASE identity'[a] = identity[a]
    BY <2>1
  <2>2. CASE Makes(q)
    BY <1>0, <2>0, <2>1, <2>2 DEF Makes
  <2>3. CASE LinkIdentity(q) /\ email' = email
    <3>1. CASE a # subject[q] \/ ~ Exists(subject[q])
      BY <1>0, <2>0, <2>1, <2>3, <3>1 DEF LinkIdentity
    <3>2. CASE a = subject[q] /\ Exists(subject[q])
      <4>1. pc[q] \in {"linkIdentity", "reclaim"} /\ q \in Bridges
        <5>1. pc[q] \in {"linkIdentity", "reclaim"}
          BY <2>3 DEF LinkIdentity
        <5>2. Kind[q] \in Bridged
          BY <2>3 DEF LinkIdentity, Resolves, Bridged
        <5>3. QED
          BY <5>1, <5>2 DEF Bridges, Of
      <4>2. /\ EmailOf[q] # Placeholder /\ EmailOf[a] = EmailOf[q]
            /\ identity[a] \in {None, IdentityOf[q]}
        BY <3>2, <4>1 DEF BearerInv
      <4>3. identity'[a] \in {identity[a], IdentityOf[q]}
        BY <1>0, <2>0, <2>3, <3>2 DEF LinkIdentity
      <4>4. CASE IdentityOf[q] = IdentityOf[r]
        BY <4>3, <4>4
      <4>5. CASE pc[r] = "ok"
        BY <1>0, <1>3, <4>2, <4>3, <4>5
      <4>6. CASE pc[r] # "ok" /\ IdentityOf[q] # IdentityOf[r]
        <5>1. EmailOf[r] = EmailOf[q] /\ pc[r] \in Call
          BY <1>3, <4>2, <4>6 DEF BearerInv, Call
        <5>2. OneProcess /\ Kind[q] = "bff"
          BY <4>1, <4>2, <4>6, <5>1 DEF SubjectsApart
        <5>3. Kind[r] = "bff"
          BY <4>1, <4>2, <4>6, <5>1 DEF SubjectsApart
        <5>4. QED
          BY <1>0, <1>3, <5>1, <5>2, <5>3, OthersRest
      <4>7. QED
        BY <4>4, <4>5, <4>6
    <3>3. QED
      BY <3>1, <3>2
  <2>4. CASE Rename(q)
    BY <2>1, <2>4 DEF Rename
  <2>5. CASE Remove(q)
    <3>1. CASE a # subject[q]
      BY <1>0, <2>0, <2>1, <2>5, <3>1 DEF Remove
    <3>2. CASE a = subject[q]
      <4>1. email'[a] = None /\ identity'[a] = None
        BY <1>0, <2>0, <2>5, <3>2 DEF Remove
      <4>2. pc[r] # "ok"
        BY <1>0, <1>1, <1>3, <4>1 DEF Exists
      <4>3. QED
        BY <4>1, <4>2
    <3>3. QED
      BY <3>1, <3>2
  <2>6. QED
    BY <2>1, <2>2, <2>3, <2>4, <2>5, WorksRows
<1>4. ASSUME NEW r \in Bridges, pc'[r] \in {"linkIdentity", "reclaim"}
      PROVE  /\ EmailOf[r] # Placeholder
             /\ subject'[r] # None /\ EmailOf[subject'[r]] = EmailOf[r]
             /\ identity'[subject'[r]] \in {None, IdentityOf[r]}
  <2>1. CASE r = q
    <3>1. PICK a \in AccountsAt(EmailOf[q]) :
             /\ subject'[q] = a /\ identity[a] \in {None, IdentityOf[q]}
             /\ UNCHANGED <<email, identity>>
      BY <1>4, <2>1, BridgeMoves
    <3>2. a \in Requests /\ email[a] = EmailOf[q] /\ EmailOf[q] \in Emails
      BY DEF AccountsAt
    <3>3. EmailOf[a] = EmailOf[q]
      BY <1>4, <2>1, <3>2 DEF BearerInv
    <3>4. QED
      BY <1>0, <2>1, <3>1, <3>2, <3>3
  <2>2. CASE r # q
    <3>1. /\ pc[r] \in {"linkIdentity", "reclaim"} /\ subject'[r] = subject[r]
          /\ pc[r] \in Call /\ pc[r] # "ok"
      BY <1>0, <1>1, <1>4, <2>2 DEF Call
    <3>2. /\ EmailOf[r] # Placeholder
          /\ subject[r] # None /\ EmailOf[subject[r]] = EmailOf[r]
          /\ identity[subject[r]] \in {None, IdentityOf[r]}
      BY <3>1 DEF BearerInv
    <3>3. identity'[subject[r]] \in {None, IdentityOf[r]}
      BY <1>3, <2>2, <3>1, <3>2
    <3>4. QED
      BY <3>1, <3>2, <3>3
  <2>3. QED
    BY <2>1, <2>2
<1>5. ASSUME NEW r \in Bridges, pc'[r] = "ok", Exists(subject[r])'
      PROVE  identity'[subject'[r]] = IdentityOf[r]
  <2>1. CASE r = q
    BY <1>5, <2>1, BridgeMoves
  <2>2. CASE r # q
    <3>1. pc[r] = "ok" /\ subject'[r] = subject[r]
      BY <1>0, <1>1, <1>5, <2>2
    <3>2. subject[r] \in Requests /\ pc[subject[r]] \notin Unmade /\ email'[subject[r]] # None
      BY <1>0, <1>5, <3>1 DEF Exists, RowsInv
    <3>3. email[subject[r]] # None
      <4>1. CASE Makes(q)
        BY <1>0, <3>2, <4>1 DEF Makes
      <4>2. CASE Rename(q) \/ Remove(q)
        BY <1>0, <3>2, <4>2 DEF Rename, Remove, Exists
      <4>3. QED
        BY <3>2, <4>1, <4>2, WorksRows
    <3>4. identity[subject[r]] = IdentityOf[r]
      BY <1>0, <3>1, <3>2, <3>3 DEF BearerInv, IdentityKeepsAccount, Exists
    <3>5. QED
      BY <1>0, <1>3, <1>5, <2>2, <3>1, <3>2, <3>4
  <2>3. QED
    BY <2>1, <2>2
<1>6. QED
  BY <1>2, <1>4, <1>5 DEF BearerInv, IdentityKeepsAccount, Exists

\* So do time, crashes and stuttering.
LEMMA BearerNext ==
    SubjectsApart /\ LoopInv /\ RowsInv /\ BearerInv /\ [Next]_vars => BearerInv'
<1> SUFFICES ASSUME SubjectsApart, LoopInv, RowsInv, BearerInv, [Next]_vars
             PROVE  BearerInv'
  OBVIOUS
<1>0. /\ pc \in [Requests -> {Idle} \cup Call \cup Outcome]
      /\ \A r \in Bridges : r \in Requests
  BY DEF LoopInv, TypeOK, Bridges, Of
<1>1. ASSUME UNCHANGED <<email, identity, subject>>,
             \A r \in Requests : pc'[r] = pc[r] \/ pc'[r] = "crashed"
      PROVE  BearerInv'
  BY <1>0, <1>1 DEF BearerInv, IdentityKeepsAccount, Exists
<1>2. ASSUME NEW m \in Requests, Lapse(m) PROVE BearerInv'
  BY <1>1, <1>2 DEF Lapse, users
<1>3. ASSUME NEW p \in Procs, Crash(p) PROVE BearerInv'
  BY <1>0, <1>1, <1>3 DEF Crash, database, users
<1>4. CASE UNCHANGED vars
  BY <1>1, <1>4 DEF vars, database, users
<1>5. QED
  BY <1>2, <1>3, <1>4, BearerStep DEF Next, Works

\* With any number of processes, threads and faults, whoever was answered for a
\* Supabase identity keeps the account it was answered with: the thread that read the
\* row before another one linked it, or that lost the race to insert it, moves no
\* wallet to another person.
THEOREM IdentitiesKeepAccounts ==
    ASSUME SubjectsApart
    PROVE  Spec => []IdentityKeepsAccount
<1>1. Init => LoopInv /\ RowsInv /\ BearerInv
  <2> SUFFICES ASSUME Init PROVE RowsInv /\ BearerInv
    BY LoopInit
  <2>1. /\ \A r \in Requests : email[r] = None /\ subject[r] = None /\ pc[r] = Idle
        /\ \A r \in Bridges : r \in Requests /\ EmailOf[r] # None
    BY AccountsAssumption DEF Init, InitRows, EventLoopInit, Nothing, Bridges, Of
  <2>2. QED
    BY <2>1 DEF RowsInv, BearerInv, IdentityKeepsAccount, Idle
<1>2. LoopInv /\ RowsInv /\ BearerInv /\ [Next]_vars => (LoopInv /\ RowsInv /\ BearerInv)'
  BY LoopNext, RowsNext, BearerNext
<1>3. BearerInv => IdentityKeepsAccount
  BY DEF BearerInv
<1>4. QED
  BY <1>1, <1>2, <1>3, PTL DEF Spec
=============================================================================
