------------------------- MODULE RegistrationProofs -------------------------
(* Proofs about Registration for every set of programs, users, processes    *)
(* and requests, and any number of faults.                                  *)
EXTENDS Registration, TLAPS

-----------------------------------------------------------------------------
(* Type correctness. *)

\* The calls of a request keep the types of where requests are.
LEMMA RunsType ==
    ASSUME TypeOK, NEW r \in Requests, NEW from, NEW to,
           to \in {Idle} \cup Call \cup Outcome, Runs(r, from, to)
    PROVE  /\ pc' \in [Requests -> {Idle} \cup Call \cup Outcome]
           /\ at' \in [Requests -> Procs]
           /\ loop' \in [Procs -> Requests \cup {NoRequest}]
  BY DEF TypeOK, Runs, Moves

\* Before any request, every variable has its type.
LEMMA InitType == Init => TypeOK
  BY RegistrationAssumption DEF Init, EventLoopInit, TypeOK

\* The handlers of a request.
Handles(r) == Register(r) \/ Claim(r) \/ Panel(r) \/ DatabaseError(r)

\* An inserted row is well typed.
LEMMA InsertType ==
    ASSUME TypeOK, NEW r \in Requests, Kind[r] \in Inserting, InsertRow(r)
    PROVE  /\ rows' \subseteq {c \in Requests : Kind[c] \in Inserting}
           /\ owner' \in [Requests -> Users \cup {NoUser}]
           /\ on' \cup old' \cup {c \in Requests : owner'[c] # NoUser} \subseteq rows'
           /\ given' \in [Requests -> Requests \cup {NoClient}]
           /\ faults' \in 0 .. MaxFaults
  BY DEF TypeOK, InsertRow, Answers

\* So is what is left after a removal.
LEMMA RemoveType ==
    ASSUME TypeOK, NEW C, Removes(C)
    PROVE  /\ rows' \subseteq {c \in Requests : Kind[c] \in Inserting}
           /\ owner' \in [Requests -> Users \cup {NoUser}]
           /\ on' \cup old' \cup {c \in Requests : owner'[c] # NoUser} \subseteq rows'
  BY DEF TypeOK, Removes

\* A step of a handler keeps the types.
LEMMA HandleType ==
    ASSUME TypeOK, NEW r \in Requests, Handles(r)
    PROVE  TypeOK'
<1> USE DEF Call, Outcome, Asks, Goes, Starts, clients
<1>0. /\ FingerOf[r] \in Fingers \cup {Generic} /\ UserOf[r] \in Users
      /\ rows \subseteq Requests
  BY RegistrationAssumption DEF TypeOK
<1>1. CASE Select(r)
  <2>1. given' \in [Requests -> Requests \cup {NoClient}]
    BY <1>0, <1>1 DEF Select, Answers, Offered, Unclaimed, TypeOK
  <2>2. QED
    BY <1>1, <2>1, RunsType DEF Select, TypeOK
<1>2. CASE Insert(r)
  <2>1. CASE Unclaimed(FingerOf[r]) = {}
    <3>1. Kind[r] \in Inserting /\ Runs(r, "insert", "ok") /\ InsertRow(r)
      BY <1>2, <2>1 DEF Insert, Inserting
    <3>2. QED
      BY <3>1, InsertType, RunsType DEF TypeOK
  <2>2. CASE Unclaimed(FingerOf[r]) # {}
    BY <1>2, <2>2, RunsType DEF Insert, TypeOK
  <2>3. QED
    BY <2>1, <2>2
<1>3. CASE Reselect(r)
  <2>1. given' \in [Requests -> Requests \cup {NoClient}]
    BY <1>0, <1>3 DEF Reselect, Answers, Offered, Unclaimed, TypeOK
  <2>2. QED
    BY <1>3, <2>1, RunsType DEF Reselect, TypeOK
<1>4. CASE Claim(r)
  <2>1. CASE ClaimLoad(r) \/ ClaimRead(r) \/ ClaimReread(r)
    BY <2>1, RunsType DEF ClaimLoad, ClaimRead, ClaimReread, TypeOK
  <2>2. CASE ClaimDuplicates(r)
    BY <2>2, RunsType DEF ClaimDuplicates, TypeOK
  <2>3. CASE ClaimWrite(r)
    <3>1. CASE ~ Gone(r) /\ owner[Claimed(r)] = NoUser
      BY <1>0, <2>3, <3>1, RunsType DEF ClaimWrite, Gone, TypeOK
    <3>2. CASE ~ (~ Gone(r) /\ owner[Claimed(r)] = NoUser)
      BY <2>3, <3>2, RunsType DEF ClaimWrite, TypeOK
    <3>3. QED
      BY <3>1, <3>2
  <2>4. QED
    BY <1>4, <2>1, <2>2, <2>3 DEF Claim
<1>5. CASE CreateClient(r) \/ CreatePublicClient(r)
  <2>1. Kind[r] \in Inserting /\ Runs(r, Idle, "ok") /\ InsertRow(r)
    BY <1>5 DEF CreateClient, CreatePublicClient, Inserting
  <2>2. QED
    BY <2>1, InsertType, RunsType DEF TypeOK
<1>6. CASE RevokeClient(r) \/ DeleteRead(r)
  BY <1>6, RunsType DEF RevokeClient, DeleteRead, TypeOK
<1>7. CASE DeleteClient(r) \/ CleanupUnclaimed(r)
  <2>1. (\E C : Removes(C)) /\ \E from : Runs(r, from, "ok")
    BY <1>7 DEF DeleteClient, CleanupUnclaimed
  <2>2. QED
    BY <1>7, <2>1, RemoveType, RunsType DEF DeleteClient, CleanupUnclaimed, TypeOK
<1>8. CASE DatabaseError(r)
  BY <1>8, RunsType, RegistrationAssumption DEF DatabaseError, TypeOK
<1>9. QED
  BY <1>1, <1>2, <1>3, <1>4, <1>5, <1>6, <1>7, <1>8 DEF Handles, Register, Panel

\* Every step, a handler's or not, keeps the types.
LEMMA NextType == TypeOK /\ [Next]_vars => TypeOK'
<1> SUFFICES ASSUME TypeOK, [Next]_vars PROVE TypeOK'
  OBVIOUS
<1>1. CASE \E r \in Requests : Handles(r)
  BY <1>1, HandleType
<1>2. CASE \E c \in Requests : Ages(c)
  BY <1>2 DEF Ages, TypeOK
<1>3. CASE \E p \in Procs : Crash(p)
  BY <1>3, RegistrationAssumption DEF Crash, TypeOK, clients, Outcome
<1>4. CASE UNCHANGED vars
  BY <1>4 DEF vars, clients, TypeOK
<1>5. QED
  BY <1>1, <1>2, <1>3, <1>4 DEF Next, Handles

\* Every reachable state of the registrations is well typed.
THEOREM TypeCorrect == Spec => []TypeOK
<1>1. Init => TypeOK
  BY InitType
<1>2. TypeOK /\ [Next]_vars => TypeOK'
  BY NextType
<1>3. QED
  BY <1>1, <1>2, PTL DEF Spec

-----------------------------------------------------------------------------
(* What a step does to the rows and the answers, whoever takes it.          *)

\* The rows carry the names of the requests that were answered with them, and an
\* answer names a row that has been there.
RowsInv ==
    /\ \A c \in rows : pc[c] = "ok" /\ given[c] = c
    /\ \A q \in Requests : given[q] # NoClient =>
          /\ pc[q] = "ok"
          /\ pc[given[q]] = "ok" /\ given[given[q]] = given[q]

\* A step of a request inserts its own row or none, keeps the owners of the rows it
\* leaves, and is answered with its own row or with one that is there.
LEMMA Effects ==
    ASSUME TypeOK, RowsInv, NEW r \in Requests, Handles(r)
    PROVE  /\ \E to \in Call \cup Outcome : pc' = [pc EXCEPT ![r] = to]
           /\ pc[r] \in {Idle} \cup Call
           /\ rows' \subseteq rows \cup {r}
           /\ r \in rows' => pc'[r] = "ok" /\ given'[r] = r /\ Kind[r] \in Inserting
           /\ \A c \in Requests : c # r => given'[c] = given[c]
           /\ \/ given'[r] = given[r]
              \/ given'[r] = r /\ r \in rows' /\ r \in on' /\ owner'[r] = NoUser
              \/ given'[r] \in rows
           /\ given'[r] # given[r] => pc'[r] = "ok"
           /\ on' \subseteq on \cup {r}
           /\ \A c \in Requests : owner[c] # NoUser /\ c \in rows' => owner'[c] = owner[c]
           /\ faults' \in {faults, faults + 1}
<1> USE DEF Asks, Goes, Starts, Runs, Moves, clients, Call, Outcome, Idle
<1>0. /\ pc \in [Requests -> {Idle} \cup Call \cup Outcome]
      /\ rows \subseteq Requests
      /\ given \in [Requests -> Requests \cup {NoClient}]
      /\ owner \in [Requests -> Users \cup {NoUser}]
      /\ r \in rows => pc[r] = "ok"
      /\ \A c \in Requests : owner[c] # NoUser => c \in rows
  BY DEF TypeOK, RowsInv
<1>1. CASE Select(r)
  BY <1>0, <1>1 DEF Select, Answers, Offered, Unclaimed
<1>2. CASE Insert(r)
  BY <1>0, <1>2 DEF Insert, InsertRow, Answers, Inserting
<1>3. CASE Reselect(r)
  BY <1>0, <1>3 DEF Reselect, Answers, Offered, Unclaimed
<1>4. CASE Claim(r)
  <2>1. CASE ClaimLoad(r) \/ ClaimRead(r) \/ ClaimReread(r)
    BY <1>0, <2>1 DEF ClaimLoad, ClaimRead, ClaimReread
  <2>2. CASE ClaimDuplicates(r)
    BY <1>0, <2>2 DEF ClaimDuplicates
  <2>3. CASE ClaimWrite(r)
    BY <1>0, <2>3 DEF ClaimWrite, Gone
  <2>4. QED
    BY <1>4, <2>1, <2>2, <2>3 DEF Claim
<1>5. CASE CreateClient(r) \/ CreatePublicClient(r)
  BY <1>0, <1>5 DEF CreateClient, CreatePublicClient, InsertRow, Answers, Inserting
<1>6. CASE RevokeClient(r) \/ DeleteRead(r)
  BY <1>0, <1>6 DEF RevokeClient, DeleteRead
<1>7. CASE DeleteClient(r) \/ CleanupUnclaimed(r)
  BY <1>0, <1>7 DEF DeleteClient, CleanupUnclaimed, Removes
<1>8. CASE DatabaseError(r)
  BY <1>0, <1>8 DEF DatabaseError
<1>9. QED
  BY <1>1, <1>2, <1>3, <1>4, <1>5, <1>6, <1>7, <1>8 DEF Handles, Register, Panel

\* The clock and a crash change neither rows, owners nor answers, and a crash stops
\* those only who wait for a call.
Aside ==
    /\ UNCHANGED <<rows, owner, on, given>>
    /\ \A q \in Requests : \/ pc'[q] = pc[q] /\ faults' \in {faults, faults + 1}
                           \/ pc[q] \in Call /\ pc'[q] = "crashed" /\ faults' = faults + 1

\* A device that ages, a crash and a stutter leave every row and every choice alone.
LEMMA AsideSteps ==
    ASSUME TypeOK, (\E c \in Requests : Ages(c)) \/ (\E p \in Procs : Crash(p))
                   \/ UNCHANGED vars
    PROVE  Aside
  BY DEF TypeOK, Ages, Crash, Aside, vars, clients

\* A step is a handler's, or leaves rows and choices alone.
LEMMA StepCases ==
    ASSUME TypeOK, [Next]_vars
    PROVE  (\E r \in Requests : Handles(r)) \/ Aside
  BY AsideSteps DEF Next, Handles

\* Rows and answers stay together.
LEMMA RowsNext == TypeOK /\ RowsInv /\ [Next]_vars => RowsInv'
<1> SUFFICES ASSUME TypeOK, RowsInv, [Next]_vars PROVE RowsInv'
  OBVIOUS
<1> USE DEF Call, Outcome, Idle
<1>0. /\ pc \in [Requests -> {Idle} \cup Call \cup Outcome]
      /\ rows \subseteq Requests
      /\ given \in [Requests -> Requests \cup {NoClient}]
      /\ NoClient \notin Requests
  BY RegistrationAssumption DEF TypeOK
<1>1. CASE \E r \in Requests : Handles(r)
  <2>1. PICK r \in Requests : Handles(r)
    BY <1>1
  <2>2. \A q \in Requests : pc[q] = "ok" => pc'[q] = "ok" /\ q # r
    BY <1>0, <2>1, Effects
  <2>3. \A c \in rows' : pc'[c] = "ok" /\ given'[c] = c
    BY <1>0, <2>1, <2>2, Effects DEF RowsInv
  <2>4. ASSUME NEW q \in Requests, given'[q] # NoClient
        PROVE  /\ pc'[q] = "ok"
               /\ pc'[given'[q]] = "ok" /\ given'[given'[q]] = given'[q]
    <3>1. CASE given'[q] = given[q]
      BY <1>0, <2>1, <2>2, <2>4, <3>1, Effects DEF RowsInv
    <3>2. CASE given'[q] # given[q]
      <4>1. q = r /\ pc'[r] = "ok"
        BY <2>1, <3>2, Effects
      <4>2. CASE given'[r] = r
        BY <4>1, <4>2
      <4>3. CASE given'[r] \in rows
        BY <1>0, <2>1, <2>2, <4>1, <4>3, Effects DEF RowsInv
      <4>4. QED
        BY <2>1, <3>2, <4>1, <4>2, <4>3, Effects
    <3>3. QED
      BY <3>1, <3>2
  <2>5. QED
    BY <2>3, <2>4 DEF RowsInv
<1>2. CASE Aside
  BY <1>0, <1>2 DEF Aside, RowsInv
<1>3. QED
  BY <1>1, <1>2, StepCases

-----------------------------------------------------------------------------
(* Who fails.                                                               *)

\* Another program of r's fingerprint has had a row, and the row is not offered.
Collided(r, c) == c # r /\ given[c] = c /\ FingerOf[c] = FingerOf[r]
NotOffered(c) == c \in rows \cap on => owner[c] # NoUser

\* Who looks again has collided, and has a fingerprint.
RaceInv ==
    /\ FailsOnlyByRace
    /\ \A r \in Requests : Kind[r] = "dcr" /\ pc[r] = "reselect" =>
          FingerOf[r] # Generic /\ \E c \in Requests : Collided(r, c)

\* What a registration has collided with stays collided with, and is not offered
\* again once it is not.
LEMMA CollisionsStay ==
    ASSUME TypeOK, RowsInv, [Next]_vars, NEW r \in Requests, NEW c \in Requests,
           Collided(r, c)
    PROVE  Collided(r, c)' /\ (NotOffered(c) => NotOffered(c)')
<1> USE DEF Call, Outcome, Idle, Collided, NotOffered
<1>0. /\ c # NoClient /\ pc[c] = "ok"
      /\ owner[c] # NoUser => c \in rows
      /\ rows \subseteq Requests
  BY RegistrationAssumption DEF RowsInv, TypeOK
<1>1. CASE \E q \in Requests : Handles(q)
  <2>1. PICK q \in Requests : Handles(q)
    BY <1>1
  <2>2. q # c
    BY <1>0, <2>1, Effects
  <2>3. given'[c] = c
    BY <2>1, <2>2, Effects
  <2>4. c \in rows' => c \in rows
    BY <2>1, <2>2, Effects
  <2>5. c \in on' => c \in on
    BY <2>1, <2>2, Effects
  <2>6. owner[c] # NoUser /\ c \in rows' => owner'[c] = owner[c]
    BY <2>1, Effects
  <2>7. QED
    BY <2>3, <2>4, <2>5, <2>6
<1>2. CASE Aside
  BY <1>2 DEF Aside
<1>3. QED
  BY <1>1, <1>2, StepCases

\* Registrations that look again or fail have lost a race, or have met a fault.
LEMMA LosersRaced ==
    ASSUME TypeOK, RowsInv, RaceInv, NEW r \in Requests, Handles(r), Kind[r] = "dcr"
    PROVE  /\ pc'[r] = "reselect" =>
                 FingerOf[r] # Generic /\ \E c \in Requests : Collided(r, c)
           /\ pc'[r] = "failed" /\ faults' = 0 =>
                 \E c \in Requests : Collided(r, c) /\ NotOffered(c)
<1> USE DEF Asks, Goes, Starts, Runs, Moves, clients, Call, Outcome, Idle
<1>0. /\ pc \in [Requests -> {Idle} \cup Call \cup Outcome]
      /\ rows \subseteq Requests
      /\ r \in rows => pc[r] = "ok"
      /\ \A c \in rows : given[c] = c
      /\ faults \in Nat
  BY RegistrationAssumption DEF TypeOK, RowsInv
<1>1. CASE Select(r)
  BY <1>0, <1>1 DEF Select
<1>2. CASE Insert(r)
  <2>1. CASE Unclaimed(FingerOf[r]) = {}
    BY <1>0, <1>2, <2>1 DEF Insert
  <2>2. CASE Unclaimed(FingerOf[r]) # {}
    <3>1. PICK c \in rows : c \in Unclaimed(FingerOf[r])
      BY <2>2 DEF Unclaimed
    <3>2. FingerOf[r] # Generic /\ Collided(r, c)
      BY <1>0, <1>2, <2>2, <3>1 DEF Unclaimed, Collided, Insert
    <3>3. pc'[r] = "reselect"
      BY <1>0, <1>2, <2>2 DEF Insert
    <3>4. QED
      BY <1>0, <3>2, <3>3
  <2>3. QED
    BY <2>1, <2>2
<1>3. CASE Reselect(r)
  <2>1. pc[r] = "reselect" /\ pc'[r] \in {"ok", "failed"}
    BY <1>0, <1>3 DEF Reselect
  <2>2. FingerOf[r] # Generic /\ \E c \in Requests : Collided(r, c)
    BY <2>1 DEF RaceInv
  <2>3. pc'[r] = "failed" => Offered(FingerOf[r]) = {}
    BY <1>0, <1>3 DEF Reselect
  <2>4. QED
    BY <2>1, <2>2, <2>3 DEF Offered, Unclaimed, Collided, NotOffered
<1>4. CASE Claim(r)
  BY <1>4 DEF Claim, ClaimLoad, ClaimRead, ClaimDuplicates, ClaimWrite, ClaimReread
<1>5. CASE Panel(r)
  BY <1>5 DEF Panel, CreateClient, CreatePublicClient, RevokeClient, DeleteRead,
              DeleteClient, CleanupUnclaimed
<1>6. CASE DatabaseError(r)
  BY <1>0, <1>6 DEF DatabaseError
<1>7. QED
  BY <1>1, <1>2, <1>3, <1>4, <1>5, <1>6 DEF Handles, Register

\* Every step keeps what a failed registration says of its rival.
LEMMA RaceNext == TypeOK /\ RowsInv /\ RaceInv /\ [Next]_vars => RaceInv'
<1> SUFFICES ASSUME TypeOK, RowsInv, RaceInv, [Next]_vars PROVE RaceInv'
  OBVIOUS
<1> USE DEF Call, Outcome, Idle
<1>0. faults \in Nat
  BY RegistrationAssumption DEF TypeOK
<1>1. ASSUME NEW r \in Requests, Kind[r] = "dcr"
      PROVE  /\ pc'[r] = "reselect" =>
                   FingerOf[r] # Generic /\ \E c \in Requests : Collided(r, c)
             /\ pc'[r] = "failed" /\ faults' = 0 =>
                   \E c \in Requests : Collided(r, c) /\ (NotOffered(c) \/ NotOffered(c)')
  <2>1. CASE pc'[r] = pc[r] /\ faults' \in {faults, faults + 1}
    BY <1>0, <1>1, <2>1 DEF RaceInv, FailsOnlyByRace, Collided, NotOffered
  <2>2. CASE \E q \in Requests : Handles(q)
    <3>1. PICK q \in Requests : Handles(q)
      BY <2>2
    <3>2. CASE q = r
      BY <1>1, <3>1, <3>2, LosersRaced
    <3>3. CASE q # r
      <4>1. pc'[r] = pc[r] /\ faults' \in {faults, faults + 1}
        BY <3>1, <3>3, Effects DEF TypeOK
      <4>2. QED
        BY <2>1, <4>1
    <3>4. QED
      BY <3>2, <3>3
  <2>3. CASE Aside
    BY <2>1, <2>3 DEF Aside
  <2>4. QED
    BY <2>2, <2>3, StepCases
<1>2. ASSUME NEW r \in Requests, Kind[r] = "dcr", pc'[r] = "reselect"
      PROVE  FingerOf[r] # Generic /\ \E c \in Requests : Collided(r, c)'
  BY <1>1, <1>2, CollisionsStay
<1>3. ASSUME NEW r \in Requests, Kind[r] = "dcr", pc'[r] = "failed", faults' = 0
      PROVE  \E c \in Requests : Collided(r, c)' /\ NotOffered(c)'
  BY <1>1, <1>3, CollisionsStay
<1>4. FailsOnlyByRace'
  BY <1>3 DEF FailsOnlyByRace, Collided, NotOffered
<1>5. QED
  BY <1>2, <1>4 DEF RaceInv

\* Of registrations that race each is answered, unless the row that one has collided
\* with was claimed, switched off or removed before it looked again.
THEOREM RacesAreAnswered == Spec => []FailsOnlyByRace
<1>1. Init => TypeOK /\ RowsInv /\ RaceInv
  BY InitType, RegistrationAssumption
     DEF Init, EventLoopInit, RowsInv, RaceInv, FailsOnlyByRace, Idle
<1>2. TypeOK /\ RowsInv /\ RaceInv /\ [Next]_vars => (TypeOK /\ RowsInv /\ RaceInv)'
  BY NextType, RowsNext, RaceNext
<1>3. RaceInv => FailsOnlyByRace
  BY DEF RaceInv
<1>4. QED
  BY <1>1, <1>2, <1>3, PTL DEF Spec

-----------------------------------------------------------------------------
(* Who is refused.                                                          *)

\* A claim is of a client that was handed out, and one that has written nothing finds
\* an owner or nothing when it looks again.
ClaimInv ==
    /\ RefusedOnlyByOther
    /\ \A r \in Requests : Kind[r] = "claim" =>
          /\ pc[r] \in Call \cup {"refused"} =>
                pc[For[r]] = "ok" /\ Claimed(r) # NoClient
          /\ pc[r] = "claimReread" => Gone(r) \/ owner[Claimed(r)] # NoUser

\* A client that is claimed or gone stays it.
LEMMA ClaimsStay ==
    ASSUME TypeOK, RowsInv, [Next]_vars, NEW r \in Requests,
           pc[For[r]] = "ok", Claimed(r) # NoClient
    PROVE  /\ pc'[For[r]] = "ok" /\ Claimed(r)' = Claimed(r)
           /\ Gone(r) => Gone(r)'
           /\ owner[Claimed(r)] # NoUser =>
                 Gone(r)' \/ owner'[Claimed(r)] = owner[Claimed(r)]
<1> USE DEF Call, Outcome, Idle, Claimed, Gone
<1>0. /\ For[r] \in Requests /\ given[For[r]] \in Requests
      /\ pc[given[For[r]]] = "ok"
  BY RegistrationAssumption DEF TypeOK, RowsInv
<1>1. CASE \E q \in Requests : Handles(q)
  <2>1. PICK q \in Requests : Handles(q)
    BY <1>1
  <2>2. q # For[r] /\ q # given[For[r]]
    BY <1>0, <2>1, Effects
  <2>3. pc'[For[r]] = "ok" /\ given'[For[r]] = given[For[r]]
    BY <1>0, <2>1, <2>2, Effects DEF TypeOK
  <2>4. given[For[r]] \in rows' => given[For[r]] \in rows
    BY <2>1, <2>2, Effects
  <2>5. owner[given[For[r]]] # NoUser /\ given[For[r]] \in rows' =>
           owner'[given[For[r]]] = owner[given[For[r]]]
    BY <1>0, <2>1, Effects
  <2>6. QED
    BY <2>3, <2>4, <2>5
<1>2. CASE Aside
  BY <1>0, <1>2 DEF Aside
<1>3. QED
  BY <1>1, <1>2, StepCases

\* A step of a claim refuses nobody but for another owner.
LEMMA ClaimSteps ==
    ASSUME TypeOK, RowsInv, ClaimInv, NEW r \in Requests, Handles(r), Kind[r] = "claim"
    PROVE  /\ pc[For[r]] = "ok" /\ Claimed(r) # NoClient
           /\ UNCHANGED <<rows, given>>
           /\ pc'[r] = "claimReread" => Gone(r)' \/ owner'[Claimed(r)] # NoUser
           /\ pc'[r] = "refused" /\ ~ Gone(r) => owner'[Claimed(r)] \notin {NoUser, UserOf[r]}
<1> USE DEF Asks, Goes, Starts, Runs, Moves, clients, Call, Outcome, Idle, Gone, Claimed
<1>0. /\ pc \in [Requests -> {Idle} \cup Call \cup Outcome]
      /\ pc[r] \in Call => pc[For[r]] = "ok" /\ given[For[r]] # NoClient
      /\ pc[r] = "claimReread" =>
            given[For[r]] \notin rows \/ owner[given[For[r]]] # NoUser
  BY DEF TypeOK, ClaimInv
<1>1. CASE ClaimLoad(r)
  BY <1>0, <1>1 DEF ClaimLoad
<1>2. CASE ClaimRead(r)
  BY <1>0, <1>2 DEF ClaimRead
<1>3. CASE ClaimDuplicates(r)
  BY <1>0, <1>3 DEF ClaimDuplicates
<1>4. CASE ClaimWrite(r)
  BY <1>0, <1>4 DEF ClaimWrite
<1>5. CASE ClaimReread(r)
  BY <1>0, <1>5 DEF ClaimReread
<1>6. CASE Register(r) \/ Panel(r)
  BY <1>6 DEF Register, Select, Insert, Reselect, Panel, CreateClient,
              CreatePublicClient, RevokeClient, DeleteRead, DeleteClient,
              CleanupUnclaimed
<1>7. CASE DatabaseError(r)
  BY <1>0, <1>7 DEF DatabaseError
<1>8. QED
  BY <1>1, <1>2, <1>3, <1>4, <1>5, <1>6, <1>7 DEF Handles, Claim

\* Every step keeps what a refused claim says of the device's owner.
LEMMA ClaimNext == TypeOK /\ RowsInv /\ ClaimInv /\ [Next]_vars => ClaimInv'
<1> SUFFICES ASSUME TypeOK, RowsInv, ClaimInv, [Next]_vars,
                    NEW r \in Requests, Kind[r] = "claim"
             PROVE  /\ pc'[r] = "refused" /\ ~ Gone(r)' =>
                          owner'[Claimed(r)'] \notin {NoUser, UserOf[r]}
                    /\ pc'[r] \in Call \cup {"refused"} =>
                          pc'[For[r]] = "ok" /\ Claimed(r)' # NoClient
                    /\ pc'[r] = "claimReread" => Gone(r)' \/ owner'[Claimed(r)'] # NoUser
  BY DEF ClaimInv, RefusedOnlyByOther, Claimed
<1> USE DEF Call, Outcome, Idle
<1>1. CASE pc'[r] = pc[r] \/ pc'[r] = "crashed"
  <2>1. CASE pc[r] \in Call \cup {"refused"}
    <3>1. pc[For[r]] = "ok" /\ Claimed(r) # NoClient
      BY <2>1 DEF ClaimInv
    <3>2. /\ pc[r] = "refused" /\ ~ Gone(r) => owner[Claimed(r)] \notin {NoUser, UserOf[r]}
          /\ pc[r] = "claimReread" => Gone(r) \/ owner[Claimed(r)] # NoUser
      BY DEF ClaimInv, RefusedOnlyByOther
    <3>3. QED
      BY <1>1, <3>1, <3>2, ClaimsStay
  <2>2. CASE pc[r] \notin Call \cup {"refused"}
    BY <1>1, <2>2
  <2>3. QED
    BY <2>1, <2>2
<1>2. CASE \E q \in Requests : Handles(q)
  <2>1. PICK q \in Requests : Handles(q)
    BY <1>2
  <2>2. CASE q = r
    <3>1. /\ pc[For[r]] = "ok" /\ Claimed(r) # NoClient
          /\ UNCHANGED <<rows, given>>
          /\ pc'[r] = "claimReread" => Gone(r)' \/ owner'[Claimed(r)] # NoUser
          /\ pc'[r] = "refused" /\ ~ Gone(r) => owner'[Claimed(r)] \notin {NoUser, UserOf[r]}
      BY <2>1, <2>2, ClaimSteps
    <3>2. Claimed(r)' = Claimed(r) /\ Gone(r)' = Gone(r) /\ pc'[For[r]] = "ok"
      BY <3>1, ClaimsStay DEF Claimed, Gone
    <3>3. QED
      BY <3>1, <3>2
  <2>3. CASE q # r
    BY <1>1, <2>1, <2>3, Effects DEF TypeOK
  <2>4. QED
    BY <2>2, <2>3
<1>3. CASE Aside
  BY <1>1, <1>3 DEF Aside
<1>4. QED
  BY <1>2, <1>3, StepCases

\* A user whose claim is refused does not own the client, whatever the order of the
\* statements of those who claim it.
THEOREM RefusalsAreOthers == Spec => []RefusedOnlyByOther
<1>1. Init => TypeOK /\ RowsInv /\ ClaimInv
  BY InitType, RegistrationAssumption
     DEF Init, EventLoopInit, RowsInv, ClaimInv, RefusedOnlyByOther, Idle, Call
<1>2. TypeOK /\ RowsInv /\ ClaimInv /\ [Next]_vars => (TypeOK /\ RowsInv /\ ClaimInv)'
  BY NextType, RowsNext, ClaimNext
<1>3. ClaimInv => RefusedOnlyByOther
  BY DEF ClaimInv
<1>4. QED
  BY <1>1, <1>2, <1>3, PTL DEF Spec
-----------------------------------------------------------------------------
(* What the devices are promised.                                           *)

\* Who goes on to claim a client has been handed one that is not public.
PublicInv ==
    \A r \in Requests :
        Kind[r] = "claim" /\ pc[r] \in Call =>
            /\ pc[For[r]] = "ok" /\ Claimed(r) # NoClient
            /\ Kind[Claimed(r)] # "public"

\* A step of a claim looks up what it claims, and goes on only if it is not public.
LEMMA ClaimsPrivate ==
    ASSUME TypeOK, RowsInv, PublicInv, NEW r \in Requests, Handles(r), Kind[r] = "claim",
           pc'[r] \in Call
    PROVE  /\ pc[For[r]] = "ok" /\ Claimed(r) # NoClient
           /\ Kind[Claimed(r)] # "public"
<1>0. pc \in [Requests -> {Idle} \cup Call \cup Outcome]
  BY DEF TypeOK
<1>1. CASE pc[r] \in Call
  BY <1>1 DEF PublicInv
<1>2. CASE pc[r] \notin Call
  <2>1. CASE ClaimLoad(r)
    <3>1. Gone(r) \/ Kind[Claimed(r)] = "public" => pc'[r] = "ignored"
      BY <1>0, <2>1 DEF ClaimLoad, Asks, Starts, Runs, Moves
    <3>2. QED
      BY <2>1, <3>1 DEF ClaimLoad, Call
  <2>2. CASE ClaimRead(r) \/ ClaimDuplicates(r) \/ ClaimWrite(r) \/ ClaimReread(r)
             \/ DatabaseError(r)
    BY <1>2, <2>2 DEF ClaimRead, ClaimDuplicates, ClaimWrite, ClaimReread,
                      DatabaseError, Goes, Runs, Moves, Call
  <2>3. CASE Register(r) \/ Panel(r)
    BY <2>3 DEF Register, Select, Insert, Reselect, Panel, CreateClient, Asks, Goes,
                CreatePublicClient, RevokeClient, DeleteRead, DeleteClient,
                CleanupUnclaimed
  <2>4. QED
    BY <2>1, <2>2, <2>3 DEF Handles, Claim
<1>3. QED
  BY <1>1, <1>2

\* No public client comes to be claimed.
LEMMA PublicNext == TypeOK /\ RowsInv /\ PublicInv /\ [Next]_vars => PublicInv'
<1> SUFFICES ASSUME TypeOK, RowsInv, PublicInv, [Next]_vars,
                    NEW r \in Requests, Kind[r] = "claim", pc'[r] \in Call
             PROVE  /\ pc'[For[r]] = "ok" /\ Claimed(r)' # NoClient
                    /\ Kind[Claimed(r)'] # "public"
  BY DEF PublicInv, Claimed
<1>1. /\ pc[For[r]] = "ok" /\ Claimed(r) # NoClient
      /\ Kind[Claimed(r)] # "public"
  <2>1. CASE pc[r] \in Call
    BY <2>1 DEF PublicInv
  <2>2. CASE pc[r] \notin Call /\ \E q \in Requests : Handles(q)
    <3>1. PICK q \in Requests : Handles(q)
      BY <2>2
    <3>2. q = r
      BY <2>2, <3>1, Effects DEF TypeOK
    <3>3. QED
      BY <3>1, <3>2, ClaimsPrivate
  <2>3. CASE pc[r] \notin Call /\ Aside
    BY <2>3 DEF Aside, Call
  <2>4. QED
    BY <2>1, <2>2, <2>3, StepCases
<1>2. QED
  BY <1>1, ClaimsStay

\* The panel has switched off a client only after its registration was answered.
RevokeInv ==
    \A q \in Requests : Kind[q] = "revoke" /\ pc[q] = "ok" => pc[For[q]] \in Outcome

\* An answered request stays as it is answered.
LEMMA AnswersStay ==
    ASSUME TypeOK, RowsInv, [Next]_vars, NEW q \in Requests, pc[q] \in Outcome
    PROVE  pc'[q] = pc[q] /\ given'[q] = given[q]
<1> USE DEF Call, Outcome, Idle
<1>1. CASE \E r \in Requests : Handles(r)
  <2>1. PICK r \in Requests : Handles(r)
    BY <1>1
  <2>2. q # r
    BY <2>1, Effects
  <2>3. QED
    BY <2>1, <2>2, Effects DEF TypeOK
<1>2. CASE Aside
  BY <1>2 DEF Aside
<1>3. QED
  BY <1>1, <1>2, StepCases

\* Who comes to have switched a client off, did so in this step.
LEMMA RevokeSteps ==
    ASSUME TypeOK, RowsInv, [Next]_vars, NEW q \in Requests, Kind[q] = "revoke",
           pc[q] # "ok", pc'[q] = "ok"
    PROVE  RevokeClient(q)
<1> USE DEF Call, Outcome, Idle
<1>1. CASE \E r \in Requests : Handles(r)
  <2>1. PICK r \in Requests : Handles(r)
    BY <1>1
  <2>2. q = r
    BY <2>1, Effects DEF TypeOK
  <2>3. CASE DatabaseError(q)
    BY <2>3 DEF DatabaseError, Runs, Moves, TypeOK
  <2>4. CASE Register(q) \/ Claim(q) \/ Panel(q)
    BY <2>4 DEF Register, Select, Insert, Reselect, Claim, ClaimLoad, ClaimRead,
                ClaimDuplicates, ClaimWrite, ClaimReread, Panel, CreateClient,
                CreatePublicClient, DeleteRead, DeleteClient, CleanupUnclaimed, Asks, Goes
  <2>5. QED
    BY <2>1, <2>2, <2>3, <2>4 DEF Handles
<1>2. CASE Aside
  BY <1>2 DEF Aside
<1>3. QED
  BY <1>1, <1>2, StepCases

\* A switch-off looks up an answered registration, and leaves the answers alone.
LEMMA RevokeReads ==
    ASSUME TypeOK, NEW r \in Requests, RevokeClient(r)
    PROVE  /\ pc[For[r]] \in Outcome
           /\ Kind[r] = "revoke" /\ pc'[r] = "ok"
           /\ UNCHANGED given
  BY DEF RevokeClient, Asks, Starts, Runs, Moves, TypeOK

\* The panel switches off what it could look up.
LEMMA RevokeNext == TypeOK /\ RowsInv /\ RevokeInv /\ [Next]_vars => RevokeInv'
<1> SUFFICES ASSUME TypeOK, RowsInv, RevokeInv, [Next]_vars,
                    NEW q \in Requests, Kind[q] = "revoke", pc'[q] = "ok"
             PROVE  pc'[For[q]] \in Outcome
  BY DEF RevokeInv
<1>1. pc[For[q]] \in Outcome
  <2>1. CASE pc[q] = "ok"
    BY <2>1 DEF RevokeInv
  <2>2. CASE pc[q] # "ok"
    BY <2>2, RevokeSteps, RevokeReads
  <2>3. QED
    BY <2>1, <2>2
<1>2. QED
  BY <1>1, AnswersStay, RegistrationAssumption

\* The clients it has switched off change with its requests alone.
LEMMA RevokedGrows ==
    ASSUME TypeOK, RowsInv, RevokeInv, [Next]_vars
    PROVE  /\ \A r \in Requests : RevokeClient(r) =>
                 Revoked' = Revoked \cup ({Claimed(r)} \ {NoClient})
           /\ (\A r \in Requests : ~ RevokeClient(r)) => Revoked' = Revoked
<1>1. \A q \in Requests : Kind[q] = "revoke" /\ pc[q] = "ok" =>
         pc'[q] = "ok" /\ given'[For[q]] = given[For[q]]
  BY AnswersStay, RegistrationAssumption DEF RevokeInv, Outcome
<1>2. ASSUME NEW r \in Requests, RevokeClient(r)
      PROVE  Revoked' = Revoked \cup ({Claimed(r)} \ {NoClient})
  <2>1. \A q \in Requests : Kind[q] = "revoke" /\ pc'[q] = "ok" =>
           q = r \/ pc[q] = "ok"
    BY <1>2 DEF RevokeClient, Asks, Starts, Runs, Moves, TypeOK
  <2>2. QED
    BY <1>1, <1>2, <2>1, RevokeReads DEF Revoked, Claimed
<1>3. ASSUME \A r \in Requests : ~ RevokeClient(r)
      PROVE  Revoked' = Revoked
  BY <1>1, <1>3, RevokeSteps DEF Revoked, Claimed
<1>4. QED
  BY <1>2, <1>3

\* Of the panel's switch-offs a step takes at most that of the request which it
\* handles.
LEMMA OneRevokes ==
    ASSUME TypeOK, NEW r \in Requests, Handles(r)
    PROVE  \A q \in Requests : RevokeClient(q) => q = r
<1>1. SUFFICES ASSUME NEW q \in Requests, RevokeClient(q), q # r PROVE FALSE
  OBVIOUS
<1>2. pc'[q] = "ok" /\ pc[q] = Idle /\ pc'[r] = pc[r]
  BY <1>1 DEF RevokeClient, Asks, Starts, Runs, Moves, TypeOK
<1>3. pc'[r] # pc[r]
  BY DEF Handles, Register, Select, Insert, Reselect, Claim, ClaimLoad, ClaimRead,
         ClaimDuplicates, ClaimWrite, ClaimReread, Panel, CreateClient, RevokeClient,
         CreatePublicClient, DeleteRead, DeleteClient, CleanupUnclaimed, Asks, Goes,
         Starts, Runs, Moves, TypeOK, DatabaseError, Idle, Call
<1>4. QED
  BY <1>2, <1>3

\* Registration hands out devices as promised.
LEMMA RegisterMaps ==
    ASSUME TypeOK, RowsInv, NEW r \in Requests, Register(r), UNCHANGED Revoked
    PROVE  D!Next \/ UNCHANGED <<rows, owner, on, Revoked, given>>
<1> USE DEF Asks, Goes, Starts, Runs, Moves, clients, Idle
<1>0. /\ r \in {q \in Requests : Kind[q] = "dcr"}
      /\ rows \subseteq Requests
      /\ given[r] # NoClient => pc[r] = "ok"
  BY DEF Register, Select, Insert, Reselect, TypeOK, RowsInv
<1>1. ASSUME NEW c \in Offered(FingerOf[r]), pc[r] # "ok", Answers(r, c),
             UNCHANGED <<rows, owner, on>>
      PROVE  D!Next
  <2>1. c \in Requests /\ D!Offer(r, c)
    BY <1>0, <1>1 DEF Offered, Unclaimed, Answers, D!Offer, D!Free, D!Answer
  <2>2. QED
    BY <1>0, <2>1 DEF D!Next
<1>2. CASE Select(r)
  BY <1>1, <1>2 DEF Select
<1>3. CASE Insert(r)
  <2>1. CASE Unclaimed(FingerOf[r]) = {}
    <3>1. D!Make(r)
      BY <1>0, <1>3, <2>1 DEF Insert, InsertRow, Answers, Unclaimed, D!Make, D!Free, D!Answer
    <3>2. QED
      BY <3>1 DEF D!Next
  <2>2. CASE Unclaimed(FingerOf[r]) # {}
    BY <1>3, <2>2 DEF Insert
  <2>3. QED
    BY <2>1, <2>2
<1>4. CASE Reselect(r)
  BY <1>1, <1>4 DEF Reselect
<1>5. QED
  BY <1>2, <1>3, <1>4 DEF Register

\* Claims take and replace them as promised.
LEMMA ClaimMaps ==
    ASSUME TypeOK, RowsInv, PublicInv, NEW r \in Requests, Claim(r), UNCHANGED Revoked
    PROVE  D!Next \/ UNCHANGED <<rows, owner, on, Revoked, given>>
<1> USE DEF clients
<1>0. /\ For[r] \in Requests /\ UserOf[r] \in Users
      /\ rows \subseteq Requests
      /\ given \in [Requests -> Requests \cup {NoClient}]
  BY RegistrationAssumption DEF TypeOK
<1>1. ASSUME pc[r] \in Call, Kind[r] = "claim"
      PROVE  /\ Claimed(r) \in Requests /\ D!HandedOut(Claimed(r))
             /\ Claimed(r) \notin {q \in Requests : Kind[q] = "public"}
  BY <1>0, <1>1 DEF PublicInv, Claimed, D!HandedOut
<1>2. CASE ClaimLoad(r) \/ ClaimRead(r) \/ ClaimReread(r)
  BY <1>2 DEF ClaimLoad, ClaimRead, ClaimReread
<1>3. CASE ClaimDuplicates(r)
  <2>1. Claimed(r) \in Requests /\ D!Replace(Claimed(r), UserOf[r])
    BY <1>1, <1>3 DEF ClaimDuplicates, Namesakes, Goes, Runs, Moves, Call, D!Replace,
                        D!SwitchOff
  <2>2. QED
    BY <1>0, <2>1 DEF D!Next
<1>4. CASE ClaimWrite(r)
  <2>1. CASE ~ Gone(r) /\ owner[Claimed(r)] = NoUser
    <3>1. Claimed(r) \in Requests /\ D!Take(Claimed(r), UserOf[r])
      BY <1>1, <1>4, <2>1 DEF ClaimWrite, Goes, Runs, Moves, Call, Gone, D!Take
    <3>2. QED
      BY <1>0, <3>1 DEF D!Next
  <2>2. CASE ~ (~ Gone(r) /\ owner[Claimed(r)] = NoUser)
    BY <1>4, <2>2 DEF ClaimWrite
  <2>3. QED
    BY <2>1, <2>2
<1>5. QED
  BY <1>2, <1>3, <1>4 DEF Claim

\* The panel makes, switches off and removes them as promised; what it asks of a
\* client that nobody was answered with changes nothing.
LEMMA PanelMaps ==
    ASSUME TypeOK, RowsInv, NEW r \in Requests, Panel(r),
           Revoked' = IF RevokeClient(r) THEN Revoked \cup ({Claimed(r)} \ {NoClient})
                                         ELSE Revoked
    PROVE  D!Next \/ UNCHANGED <<rows, owner, on, Revoked, given>>
<1> USE DEF clients
<1>0. /\ rows \subseteq Requests /\ on \subseteq rows /\ old \subseteq rows
      /\ owner \in [Requests -> Users \cup {NoUser}]
      /\ given[r] # NoClient => pc[r] = "ok"
  BY DEF TypeOK, RowsInv
<1>9. ASSUME \/ CreateClient(r) \/ CreatePublicClient(r) \/ DeleteRead(r)
             \/ DeleteClient(r) \/ CleanupUnclaimed(r)
      PROVE  UNCHANGED Revoked
  BY <1>9 DEF CreateClient, CreatePublicClient, DeleteRead, DeleteClient,
              CleanupUnclaimed, RevokeClient, Asks, Goes
<1>1. CASE CreateClient(r) \/ CreatePublicClient(r)
  <2>1. /\ Kind[r] \in {"create", "public"} /\ pc[r] = Idle
        /\ InsertRow(r)
    BY <1>1 DEF CreateClient, CreatePublicClient, Asks, Starts, Runs, Moves
  <2>2. FingerOf[r] = Generic
    BY <2>1, RegistrationAssumption
  <2>3. D!Make(r)
    BY <1>0, <1>1, <1>9, <2>1, <2>2 DEF InsertRow, Answers, Idle, D!Make, D!Free, D!Answer
  <2>4. QED
    BY <2>3 DEF D!Next
<1>2. CASE RevokeClient(r)
  <2>1. /\ on' = on \ {Claimed(r)} /\ UNCHANGED <<rows, owner, given>>
        /\ Revoked' = Revoked \cup ({Claimed(r)} \ {NoClient})
        /\ Claimed(r) \in Requests \cup {NoClient}
    BY <1>2, RegistrationAssumption DEF RevokeClient, Claimed, TypeOK
  <2>2. CASE Claimed(r) \in Requests
    <3>1. D!Revoke(Claimed(r))
      BY <2>1, <2>2, RegistrationAssumption DEF D!Revoke, D!SwitchOff
    <3>2. QED
      BY <2>2, <3>1 DEF D!Next
  <2>3. CASE Claimed(r) \notin Requests
    BY <1>0, <2>1, <2>3
  <2>4. QED
    BY <2>2, <2>3
<1>3. CASE DeleteRead(r)
  BY <1>3, <1>9 DEF DeleteRead
<1>4. CASE DeleteClient(r)
  <2>1. Removes({Claimed(r)}) /\ UNCHANGED <<Revoked, given>>
    BY <1>4, <1>9 DEF DeleteClient
  <2>2. CASE Claimed(r) \in Requests
    BY <2>1, <2>2 DEF D!Next, D!Remove, Removes
  <2>3. CASE Claimed(r) \notin Requests
    <3>1. rows' = rows /\ on' = on
      BY <1>0, <2>1, <2>3 DEF Removes
    <3>2. owner' = owner
      BY <1>0, <2>1, <2>3 DEF Removes
    <3>3. QED
      BY <2>1, <3>1, <3>2
  <2>4. QED
    BY <2>2, <2>3
<1>5. CASE CleanupUnclaimed(r)
  <2>1. D!Sweep(Stale) /\ Stale \in SUBSET rows
    BY <1>0, <1>5, <1>9 DEF CleanupUnclaimed, Removes, Stale, D!Sweep, D!Remove
  <2>2. QED
    BY <2>1 DEF D!Next
<1>6. QED
  BY <1>1, <1>2, <1>3, <1>4, <1>5 DEF Panel

\* Every step of the registrations is one of the devices, or changes none.
LEMMA StepMaps ==
    ASSUME TypeOK, RowsInv, PublicInv, RevokeInv, [Next]_vars
    PROVE  [D!Next]_<<rows, owner, on, Revoked, given>>
<1>1. CASE \E r \in Requests : Handles(r)
  <2>1. PICK r \in Requests : Handles(r)
    BY <1>1
  <2>2. Revoked' = IF RevokeClient(r) THEN Revoked \cup ({Claimed(r)} \ {NoClient})
                                      ELSE Revoked
    BY <2>1, OneRevokes, RevokedGrows
  <2>3. CASE Panel(r)
    BY <2>2, <2>3, PanelMaps
  <2>4. CASE Register(r) \/ Claim(r) \/ DatabaseError(r)
    <3>1. ~ RevokeClient(r)
      BY <2>4 DEF Register, Select, Insert, Reselect, Claim, ClaimLoad, ClaimRead,
                  ClaimDuplicates, ClaimWrite, ClaimReread, RevokeClient, Asks, Goes,
                  Starts, Runs, Moves, TypeOK, DatabaseError, Idle, Call
    <3>2. DatabaseError(r) => UNCHANGED <<rows, owner, on, given>>
      BY DEF DatabaseError, clients
    <3>3. QED
      BY <2>2, <2>4, <3>1, <3>2, RegisterMaps, ClaimMaps
  <2>5. QED
    BY <2>1, <2>3, <2>4 DEF Handles
<1>2. CASE Aside
  <2>1. \A r \in Requests : ~ RevokeClient(r)
    BY <1>2 DEF Aside, RevokeClient, Asks, Starts, Runs, Moves, TypeOK, Idle, Call
  <2>2. QED
    BY <1>2, <2>1, RevokedGrows DEF Aside
<1>3. QED
  BY <1>1, <1>2, StepCases

\* With any number of programs, users, processes and faults, the registrations
\* implement what Devices promises: a client is handed out while it is free and on,
\* taken once by a user it was handed to, and his until the panel removes it.
THEOREM RegistrationImplementsDevices == Spec => DevicesSpec
<1>1. Init => D!Init
  BY DEF Init, EventLoopInit, Idle, Revoked, D!Init
<1>2. Init => TypeOK /\ RowsInv /\ PublicInv /\ RevokeInv
  BY InitType, RegistrationAssumption
     DEF Init, EventLoopInit, RowsInv, PublicInv, RevokeInv, Idle, Call
<1>3. TypeOK /\ RowsInv /\ PublicInv /\ RevokeInv /\ [Next]_vars =>
         (TypeOK /\ RowsInv /\ PublicInv /\ RevokeInv)'
  BY NextType, RowsNext, PublicNext, RevokeNext
<1>4. TypeOK /\ RowsInv /\ PublicInv /\ RevokeInv /\ [Next]_vars =>
         [D!Next]_<<rows, owner, on, Revoked, given>>
  BY StepMaps
<1>5. QED
  BY <1>1, <1>2, <1>3, <1>4, PTL DEF Spec, DevicesSpec, D!Spec
=============================================================================
