---------------------------- MODULE CallsProofs ----------------------------
(* Proofs about Calls for every set of calls and processes, any number of   *)
(* attempts, and any number of faults.                                      *)
EXTENDS Calls, TLAPS

Handles(r) == pc[r] \notin Outcome /\ (Prices(r) \/ Admin(r) \/ Upstream(r))

-----------------------------------------------------------------------------
(* Type correctness.  A call is settled as its last step, which makes the   *)
(* settlements countable.                                                   *)

Unbilled == \A r \in Requests : pc[r] \notin Outcome => billed[r] = 0
TypeInv == TypeOK /\ Unbilled

\* Each way of moving on keeps the types of where requests are.
LEMMA MoveType ==
    ASSUME TypeOK, NEW r \in Requests, NEW from, NEW to,
           to \in {Idle} \cup Stage \cup Outcome,
           \/ Goes(r, from, to) \/ Awaits(r, from, to) \/ Resumes(r, from, to)
           \/ Starts(r, to) \/ Runs(r, from, to) \/ Steps(r, from, to)
    PROVE  /\ pc' \in [Requests -> {Idle} \cup Stage \cup Outcome]
           /\ at' \in [Requests -> Procs]
           /\ loop' \in [Procs -> Requests \cup {NoRequest}]
           /\ \A q \in Requests : q # r => pc'[q] = pc[q]
           /\ pc'[r] = to
<1>1. \E source : Moves(r, source, to)
  BY DEF Goes, Awaits, Resumes, Starts, Runs, Steps
<1>2. pc \in [Requests -> {Idle} \cup Stage \cup Outcome] /\ at \in [Requests -> Procs]
  BY DEF TypeOK
<1>3. pc' = [pc EXCEPT ![r] = to] /\ at' = at
  BY <1>1 DEF Moves
<1>4. loop' \in [Procs -> Requests \cup {NoRequest}]
  <2>1. loop \in [Procs -> Requests \cup {NoRequest}]
    BY DEF TypeOK
  <2>2. \/ loop' = loop
        \/ loop' = [loop EXCEPT ![at[r]] = NoRequest]
        \/ loop' = [loop EXCEPT ![at[r]] = r]
    <3>1. Runs(r, from, to) \/ Runs(r, Idle, to) => \/ loop' = [loop EXCEPT ![at[r]] = NoRequest]
                                 \/ loop' = [loop EXCEPT ![at[r]] = r]
      BY DEF Runs
    <3>2. Awaits(r, from, to) => loop' = [loop EXCEPT ![at[r]] = NoRequest]
      BY DEF Awaits
    <3>3. Steps(r, from, to) => loop' = loop
      BY DEF Steps
    <3>4. QED
      BY <3>1, <3>2, <3>3 DEF Goes, Resumes, Starts
  <2>3. QED
    BY <2>1, <2>2
<1>5. QED
  BY <1>2, <1>3, <1>4

\* A lookup that found its price goes on to a stage, with a table to look in.
LEMMA AfterType ==
    ASSUME NEW r \in Requests, Looking(r)
    PROVE  After(r) \in Stage /\ TableOf(pc[r]) \in Tables
  BY DEF Looking, After, TableOf, Stage, Tables

\* Pricing a call keeps the types.
LEMMA PricesType ==
    ASSUME TypeInv, NEW r \in Requests, pc[r] \notin Outcome, Prices(r)
    PROVE  TypeInv'
<1> USE DEF upstream, pricing, TypeInv
<1>0. /\ billed[r] = 0 /\ at[r] \in Procs /\ TypeOK
      /\ pc[r] \in {Idle} \cup Stage \cup Outcome
      /\ MaxFaults \in Nat
  BY CallsAssumption DEF Unbilled, TypeOK
<1>1. CASE CacheHit(r)
  BY <1>0, <1>1, MoveType, AfterType DEF CacheHit, TypeOK, Unbilled
<1>2. CASE CacheMiss(r)
  BY <1>0, <1>2, MoveType, AfterType DEF CacheMiss, TypeOK, Unbilled
<1>3. CASE ReadFails(r)
  <2>1. CASE pc[r] = "model"
    <3>1. Goes(r, "model", "charge") /\ UNCHANGED <<upstream, saved, kept, fetched, excused, billed>>
      BY <1>3, <2>1 DEF ReadFails
    <3>2. faults' \in 0 .. MaxFaults
      BY <1>0, <1>3 DEF ReadFails, TypeOK
    <3>3. QED
      BY <1>0, <3>1, <3>2, MoveType DEF TypeOK, Unbilled, Stage
  <2>2. CASE pc[r] # "model"
    <3>1. /\ Goes(r, pc[r], pc[r]) /\ UNCHANGED <<upstream, saved, kept, excused, billed>>
          /\ fetched' \in [Requests -> Versions \cup {"fallback", Nothing}]
      BY <1>0, <1>3, <2>2 DEF ReadFails, TypeOK
    <3>2. faults' \in 0 .. MaxFaults
      BY <1>0, <1>3 DEF ReadFails, TypeOK
    <3>3. QED
      BY <1>0, <3>1, <3>2, MoveType DEF TypeOK, Unbilled
  <2>3. QED
    BY <2>1, <2>2
<1>4. CASE CacheSet(r)
  <2>1. kept' \in [Procs -> [Tables -> Versions \cup {"fallback", Nothing}]]
    BY <1>0, <1>4, AfterType DEF CacheSet, TypeOK
  <2>2. excused' \in [Procs -> SUBSET Tables]
    BY <1>0, <1>4, AfterType DEF CacheSet, TypeOK
  <2>3. fetched' \in [Requests -> Versions \cup {"fallback", Nothing}]
    BY <1>0, <1>4 DEF CacheSet, TypeOK
  <2>4. Goes(r, pc[r], After(r)) /\ Looking(r) /\ UNCHANGED <<upstream, saved, billed, faults>>
    BY <1>4 DEF CacheSet
  <2>5. QED
    BY <1>0, <2>1, <2>2, <2>3, <2>4, MoveType, AfterType DEF TypeOK, Unbilled
<1>5. CASE StartCost(r)
  BY <1>0, <1>5, MoveType DEF StartCost, TypeOK, Unbilled, Stage
<1>6. CASE Settle(r)
  BY <1>0, <1>6, MoveType DEF Settle, TypeOK, Unbilled, Outcome
<1>7. CASE SettleFails(r)
  BY <1>0, <1>7, MoveType, CallsAssumption DEF SettleFails, TypeOK, Unbilled, Outcome
<1>8. QED
  BY <1>1, <1>2, <1>3, <1>4, <1>5, <1>6, <1>7 DEF Prices

\* Saving prices keeps the types.
LEMMA AdminType ==
    ASSUME TypeInv, NEW r \in Requests, pc[r] \notin Outcome, Admin(r)
    PROVE  TypeInv'
<1> USE DEF upstream, pricing, TypeInv
<1>0. /\ at[r] \in Procs /\ TypeOK
      /\ pc[r] \in {Idle} \cup Stage \cup Outcome
      /\ MaxFaults \in Nat
  BY CallsAssumption DEF Unbilled, TypeOK
<1>a. Kind[r] \in Savers => Writes(Kind[r]) \in Tables
  BY DEF Writes, Savers, Tables
<1>1. CASE ReceiveForm(r)
  BY <1>0, <1>1, MoveType DEF ReceiveForm, TypeOK, Unbilled, Stage
<1>2. CASE Save(r)
  <2>1. saved' \in [Tables -> Versions] /\ excused' \in [Procs -> SUBSET Tables]
    BY <1>0, <1>a, <1>2 DEF Save, Saved, TypeOK, Versions
  <2>2. QED
    BY <1>0, <1>2, <2>1, MoveType DEF Save, TypeOK, Unbilled, Stage
<1>3. CASE Invalidate(r)
  BY <1>0, <1>3, MoveType DEF Invalidate, InvalidateCaches, Blank, TypeOK, Unbilled, Outcome
<1>4. CASE RefreshFails(r)
  BY <1>0, <1>4, MoveType DEF RefreshFails, TypeOK, Unbilled, Outcome
<1>5. CASE SaveFails(r)
  <2>1. saved' \in [Tables -> Versions] /\ excused' \in [Procs -> SUBSET Tables]
    <3>1. CASE UNCHANGED <<saved, excused>>
      BY <1>0, <3>1 DEF TypeOK
    <3>2. CASE ~ UNCHANGED <<saved, excused>>
      <4>1. /\ saved' = [saved EXCEPT ![Writes(Kind[r])] =
                           IF Kind[r] = "drop" THEN "gone" ELSE "new"]
            /\ excused' = [p \in Procs |-> excused[p] \cup {Writes(Kind[r])}]
            /\ Kind[r] \in Savers
        BY <1>5, <3>2 DEF SaveFails
      <4>2. QED
        BY <1>0, <1>a, <4>1 DEF TypeOK, Versions
    <3>3. QED
      BY <3>1, <3>2
  <2>2. /\ Resumes(r, "form", "failed") \/ Starts(r, "failed")
        /\ UNCHANGED <<upstream, kept, fetched, billed>>
    BY <1>5 DEF SaveFails
  <2>3. faults' \in 0 .. MaxFaults
    BY <1>0, <1>5 DEF SaveFails, TypeOK
  <2>4. QED
    BY <1>0, <2>1, <2>2, <2>3, MoveType DEF TypeOK, Unbilled, Outcome
<1>6. QED
  BY <1>1, <1>2, <1>3, <1>4, <1>5 DEF Admin

\* Calling the upstream keeps the types.
LEMMA UpstreamType ==
    ASSUME TypeInv, NEW r \in Requests, pc[r] \notin Outcome, Upstream(r)
    PROVE  TypeInv'
<1> USE DEF upstream, pricing, TypeInv
<1>0. /\ at[r] \in Procs /\ TypeOK
      /\ pc[r] \in {Idle} \cup Stage \cup Outcome
      /\ MaxAttempts \in Nat /\ MaxFaults \in Nat
      /\ candidate[r] \in 1 .. 5 /\ attempt[r] \in 1 .. MaxAttempts
      /\ ran[r] \in Nat
  BY CallsAssumption DEF Unbilled, TypeOK
<1>1. CASE InvokeTool(r)
  BY <1>0, <1>1, MoveType DEF InvokeTool, TypeOK, Unbilled, Stage, Outcome
<1>2. CASE HasMinBalance(r)
  <2>1. /\ Awaits(r, "balance", "try") \/ Runs(r, "balance", "refused")
        /\ UNCHANGED <<upstream, pricing, billed>>
    BY <1>2 DEF HasMinBalance
  <2>2. faults' \in 0 .. MaxFaults
    BY <1>0, <1>2 DEF HasMinBalance, TypeOK
  <2>3. QED
    BY <1>0, <2>1, <2>2, MoveType DEF TypeOK, Unbilled, Stage, Outcome
<1>3. CASE StartList(r)
  BY <1>0, <1>3, MoveType DEF StartList, TypeOK, Unbilled, Stage
<1>4. CASE Answered(r)
  <2>1. reply' \in [Requests -> Error \cup Answer \cup {Nothing}]
    BY <1>0, <1>4 DEF Answered, TypeOK, Answer
  <2>2. ran' \in [Requests -> Nat]
    BY <1>0, <1>4 DEF Answered, TypeOK
  <2>3. QED
    BY <1>0, <1>4, <2>1, <2>2, MoveType DEF Answered, TypeOK, Unbilled, Stage, Outcome
<1>5. CASE Cancelled(r)
  <2>1. ran' \in [Requests -> Nat]
    BY <1>0, <1>5 DEF Cancelled, TypeOK
  <2>2. QED
    BY <1>0, <1>5, <2>1, MoveType DEF Cancelled, TypeOK, Unbilled, Outcome
<1>6. ASSUME NEW e \in Error, NextCandidate(r, e) \/ Retry(r, e) \/ GiveUp(r, e)
      PROVE  TypeInv'
  <2>1. Fails(r, e)
    BY <1>6 DEF NextCandidate, Retry, GiveUp
  <2>2. /\ reply' \in [Requests -> Error \cup Answer \cup {Nothing}]
        /\ ran' \in [Requests -> Nat]
        /\ UNCHANGED <<pricing, billed, faults>>
    BY <1>0, <2>1 DEF Fails, TypeOK
  <2>3. CASE NextCandidate(r, e)
    <3>1. candidate' \in [Requests -> 1 .. 5] /\ UNCHANGED attempt
      BY <1>0, <2>3 DEF NextCandidate, Candidates, TypeOK
    <3>2. Awaits(r, "try", "try")
      BY <2>3 DEF NextCandidate
    <3>3. QED
      BY <1>0, <2>2, <3>1, <3>2, MoveType DEF TypeOK, Unbilled, Stage
  <2>4. CASE Retry(r, e)
    <3>1. /\ candidate' \in [Requests -> 1 .. 5]
          /\ attempt' \in [Requests -> 1 .. MaxAttempts]
      BY <1>0, <2>4 DEF Retry, Retries, TypeOK
    <3>2. Awaits(r, "try", "try")
      BY <2>4 DEF Retry
    <3>3. QED
      BY <1>0, <2>2, <3>1, <3>2, MoveType DEF TypeOK, Unbilled, Stage
  <2>5. CASE GiveUp(r, e)
    <3>1. /\ \E to \in {"config", "ok", "failed"} : Resumes(r, "try", to)
          /\ UNCHANGED <<candidate, attempt>> /\ pc[r] = "try"
      BY <2>1, <2>5 DEF GiveUp, Fails
    <3>2. QED
      BY <1>0, <2>2, <3>1, MoveType DEF TypeOK, Unbilled, Stage, Outcome
  <2>6. QED
    BY <1>6, <2>3, <2>4, <2>5
<1>7. QED
  BY <1>1, <1>2, <1>3, <1>4, <1>5, <1>6 DEF Upstream

\* Before any request, every variable has its type and nothing is billed.
LEMMA InitType == Init => TypeInv
  BY CallsAssumption
     DEF Init, Start, EventLoopInit, TypeInv, TypeOK, Unbilled, Blank, Tables,
         Versions, Idle

\* Every step keeps the types.
LEMMA NextType == TypeInv /\ [Next]_vars => TypeInv'
<1> SUFFICES ASSUME TypeInv, [Next]_vars PROVE TypeInv'
  OBVIOUS
<1>1. CASE \E r \in Requests : Handles(r)
  BY <1>1, PricesType, AdminType, UpstreamType DEF Handles
<1>2. CASE \E p \in Procs : Crash(p)
  BY <1>2, CallsAssumption DEF TypeInv, Unbilled, Crash, Blank, TypeOK, upstream, Outcome
<1>3. CASE \E p \in Procs : \E t \in Tables : Expire(p, t)
  BY <1>3 DEF TypeInv, Unbilled, Expire, TypeOK, upstream
<1>4. CASE UNCHANGED vars
  BY <1>4 DEF TypeInv, Unbilled, vars, upstream, pricing, TypeOK
<1>5. QED
  BY <1>1, <1>2, <1>3, <1>4 DEF Next, Handles

\* Every reachable state of the calls and their prices is well typed; in particular
\* no call is settled twice.
THEOREM TypeCorrect == Spec => []TypeOK
<1>1. Init => TypeInv
  BY InitType
<1>2. TypeInv /\ [Next]_vars => TypeInv'
  BY NextType
<1>3. TypeInv => TypeOK
  BY DEF TypeInv
<1>4. QED
  BY <1>1, <1>2, <1>3, PTL DEF Spec

-----------------------------------------------------------------------------
(* What runs, how often, and what is settled.                               *)

Before == {Idle, "min", "balance"}

\* The tries that lie behind a call that is about to make another one.
Tried(r) == Candidates(r) * (attempt[r] - 1) + candidate[r] - 1

\* How far a tool call has come tells whether its tool may have run, and how often:
\* once per try at most.  While it goes on nothing has been heard of it, and an answer
\* that is settled is one of a tool that has run.
CallOK(r) ==
    /\ pc[r] \notin {"form", "clear"}
    /\ pc[r] \in Before => ran[r] = 0
    /\ pc[r] \in Before \cup {"try"} => Heard(r) = "nothing"
    /\ reply[r] \in Answer => ran[r] > 0
    /\ billed[r] > 0 => reply[r] \in Answer
    /\ pc[r] = "ok" /\ faults = 0 /\ reply[r] = "answered" => billed[r] = 1
    /\ candidate[r] <= Candidates(r) /\ attempt[r] <= Attempts(r)
    /\ ran[r] <= Tried(r) + 1
    /\ pc[r] = "try" => ran[r] <= Tried(r)
CallInv == \A r \in Called : CallOK(r)

\* What a step does to what the caller knows of a call: a try is lost, fails or is
\* answered, an answer is charged for, or nothing happens that the promise names.
Progress(r) ==
    \/ UNCHANGED <<ran[r], reply[r], billed[r]>>
    \/ /\ Heard(r) = "nothing" /\ UNCHANGED billed[r]
       /\ \/ ran'[r] \in {ran[r], ran[r] + 1} /\ Heard(r)' \in {"nothing", "error"}
          \/ ran'[r] = ran[r] + 1 /\ Heard(r)' = "answer"
    \/ /\ Heard(r) = "answer" /\ UNCHANGED <<ran[r], reply[r]>>
       /\ billed[r] = 0 /\ billed'[r] = 1

\* The caller has heard an answer, or an error, or nothing.
LEMMA HeardIs ==
    ASSUME TypeOK, NEW r \in Called
    PROVE  /\ Heard(r) \in {"nothing", "error", "answer"}
           /\ Heard(r) = "answer" <=> reply[r] \in Answer
           /\ reply[r] = Nothing => Heard(r) = "nothing"
  BY CallsAssumption DEF Heard, Answer, TypeOK

\* The tries behind a call add up, and are fewer than what its attempts allow.
LEMMA TriedBound ==
    ASSUME TypeOK, NEW r \in Called, candidate[r] <= Candidates(r),
           attempt[r] <= Attempts(r)
    PROVE  /\ Tried(r) \in Nat /\ Candidates(r) \in {2, 5}
           /\ Tried(r) + 1 <= Candidates(r) * Attempts(r)
<1>1. /\ candidate[r] \in Nat /\ attempt[r] \in Nat /\ Attempts(r) \in Nat
      /\ candidate[r] >= 1 /\ attempt[r] >= 1
  <2>1. candidate[r] \in 1 .. 5 /\ attempt[r] \in 1 .. MaxAttempts
    BY DEF TypeOK, Called
  <2>2. MaxAttempts \in Nat
    BY CallsAssumption
  <2>3. QED
    BY <2>1, <2>2 DEF Attempts
<1>2. CASE Candidates(r) = 2
  BY <1>1, <1>2 DEF Tried
<1>3. CASE Candidates(r) = 5
  BY <1>1, <1>3 DEF Tried
<1>4. QED
  BY <1>2, <1>3 DEF Candidates

\* A step of a request is felt by no other one.
LEMMA Frame ==
    ASSUME TypeOK, NEW r \in Requests, Handles(r), NEW q \in Requests, q # r
    PROVE  /\ pc'[q] = pc[q] /\ reply'[q] = reply[q] /\ ran'[q] = ran[q]
           /\ billed'[q] = billed[q] /\ candidate'[q] = candidate[q]
           /\ attempt'[q] = attempt[q] /\ fetched'[q] = fetched[q]
           /\ at' = at /\ faults' \in {faults, faults + 1}
<1> USE DEF upstream, pricing, Goes, Awaits, Resumes, Starts, Runs, Steps, Moves
<1>1. CASE Prices(r)
  BY <1>1 DEF TypeOK, Prices, CacheHit, CacheMiss, ReadFails, CacheSet, StartCost, Settle,
              SettleFails
<1>2. CASE Admin(r)
  BY <1>2 DEF TypeOK, Admin, ReceiveForm, Save, Invalidate, RefreshFails, SaveFails
<1>3. CASE Upstream(r)
  <2>1. CASE InvokeTool(r) \/ HasMinBalance(r) \/ StartList(r)
    BY <2>1 DEF TypeOK, InvokeTool, HasMinBalance, StartList
  <2>2. CASE Answered(r) \/ Cancelled(r)
    BY <2>2 DEF TypeOK, Answered, Cancelled
  <2>3. ASSUME NEW e \in Error, NextCandidate(r, e) \/ Retry(r, e) \/ GiveUp(r, e)
        PROVE  /\ pc'[q] = pc[q] /\ reply'[q] = reply[q] /\ ran'[q] = ran[q]
               /\ billed'[q] = billed[q] /\ candidate'[q] = candidate[q]
               /\ attempt'[q] = attempt[q] /\ fetched'[q] = fetched[q]
               /\ at' = at /\ faults' \in {faults, faults + 1}
    BY <2>3 DEF TypeOK, NextCandidate, Retry, GiveUp, Fails
  <2>4. QED
    BY <1>3, <2>1, <2>2, <2>3 DEF Upstream
<1>4. QED
  BY <1>1, <1>2, <1>3 DEF Handles

\* A try that ends in an error leads to the next URL, to the next attempt, or to the
\* end of the call, and to no other try once something was heard.
LEMMA TryMoves ==
    ASSUME TypeInv, NEW r \in Called, CallOK(r), NEW e \in Error,
           NextCandidate(r, e) \/ Retry(r, e) \/ GiveUp(r, e)
    PROVE  CallOK(r)' /\ Progress(r)
<1> USE DEF Awaits, Resumes, Runs, Moves, Outcome, Idle, Before
<1>0. /\ pc[r] = "try" /\ billed[r] = 0 /\ ran[r] \in Nat
      /\ r \in Requests /\ Kind[r] \in ToolKinds
      /\ pc \in [Requests -> {Idle} \cup Stage \cup Outcome]
      /\ candidate \in [Requests -> 1 .. 5] /\ attempt \in [Requests -> 1 .. MaxAttempts]
      /\ reply'[r] = e /\ ran'[r] \in {ran[r], ran[r] + 1} /\ billed' = billed
  <2>1. Fails(r, e)
    BY DEF NextCandidate, Retry, GiveUp
  <2>2. /\ pc[r] = "try" /\ ran \in [Requests -> Nat] /\ r \in Requests
        /\ reply \in [Requests -> Error \cup Answer \cup {Nothing}]
        /\ pc \in [Requests -> {Idle} \cup Stage \cup Outcome]
        /\ candidate \in [Requests -> 1 .. 5] /\ attempt \in [Requests -> 1 .. MaxAttempts]
    BY <2>1 DEF TypeInv, TypeOK, Fails, Called
  <2>3. billed[r] = 0
    BY <2>2 DEF TypeInv, Unbilled
  <2>4. reply'[r] = e /\ ran'[r] \in {ran[r], ran[r] + 1} /\ billed' = billed
    BY <2>1, <2>2 DEF Fails
  <2>5. QED
    BY <2>2, <2>3, <2>4 DEF Called
<1>1. /\ Tried(r) \in Nat /\ Candidates(r) \in {2, 5} /\ ran[r] <= Tried(r)
      /\ candidate[r] <= Candidates(r) /\ attempt[r] <= Attempts(r)
  BY <1>0, TriedBound DEF TypeInv, CallOK
<1>2. Progress(r)
  <2>1. Heard(r)' \in {"nothing", "error"}
    BY <1>0 DEF Heard, Answer, Error
  <2>2. Heard(r) = "nothing"
    BY <1>0 DEF CallOK
  <2>3. QED
    BY <1>0, <2>1, <2>2 DEF Progress
<1>3. reply'[r] \notin Answer /\ billed'[r] = 0
  BY <1>0 DEF Answer, Error
<1>4. CASE NextCandidate(r, e)
  <2>1. /\ TriesNext(r, e) /\ pc'[r] = "try" /\ candidate[r] < Candidates(r)
        /\ candidate'[r] = candidate[r] + 1 /\ attempt' = attempt
    BY <1>0, <1>4 DEF NextCandidate
  <2>2. Heard(r)' = "nothing"
    BY <1>0, <2>1 DEF TriesNext, TextTriesNext, StructuredTriesNext, Heard, Answer, ToolKinds
  <2>3. Tried(r)' = Tried(r) + 1
    BY <1>0, <1>1, <2>1 DEF Tried, Candidates
  <2>4. candidate'[r] <= Candidates(r) /\ ran'[r] <= Tried(r)' /\ ran'[r] <= Tried(r)' + 1
    BY <1>0, <1>1, <2>1, <2>3
  <2>5. QED
    BY <1>1, <1>2, <1>3, <2>1, <2>2, <2>4 DEF CallOK, Attempts, Candidates
<1>5. CASE Retry(r, e)
  <2>1. /\ Retries(r, e) /\ pc'[r] = "try"
        /\ candidate'[r] = 1 /\ attempt'[r] = attempt[r] + 1
    BY <1>0, <1>5 DEF Retry
  <2>2. Heard(r)' = "nothing"
    BY <1>0, <2>1 DEF Retries, Heard, Answer
  <2>3. Tried(r)' >= Tried(r) + 1
    <3>1. CASE Candidates(r) = 2
      BY <1>0, <1>1, <2>1, <3>1 DEF Tried, Candidates
    <3>2. CASE Candidates(r) = 5
      BY <1>0, <1>1, <2>1, <3>2 DEF Tried, Candidates
    <3>3. QED
      BY <1>1, <3>1, <3>2
  <2>4. candidate'[r] <= Candidates(r) /\ attempt'[r] <= Attempts(r)
    BY <1>0, <1>1, <2>1, CallsAssumption DEF Retries, Attempts
  <2>5. Tried(r)' \in Nat
    BY <1>1, <1>0, <2>1 DEF Tried, Candidates
  <2>6. ran'[r] <= Tried(r)' /\ ran'[r] <= Tried(r)' + 1
    BY <1>0, <1>1, <2>3, <2>5
  <2>7. QED
    BY <1>2, <1>3, <2>1, <2>2, <2>4, <2>6 DEF CallOK, Attempts, Candidates
<1>6. CASE GiveUp(r, e)
  <2>1. pc'[r] \in {"config", "failed"} /\ UNCHANGED <<candidate, attempt>>
    BY <1>0, <1>6 DEF GiveUp, ToolKinds
  <2>2. Tried(r)' = Tried(r) /\ ran'[r] <= Tried(r) + 1
    BY <1>0, <1>1, <2>1 DEF Tried, Candidates
  <2>3. QED
    BY <1>1, <1>2, <1>3, <2>1, <2>2 DEF CallOK, Attempts, Candidates
<1>7. QED
  BY <1>2, <1>4, <1>5, <1>6

\* Every other step of a tool call keeps what is known of it as well.
LEMMA CallMoves ==
    ASSUME TypeInv, NEW r \in Called, CallOK(r), Handles(r)
    PROVE  CallOK(r)' /\ Progress(r)
<1> USE DEF Goes, Awaits, Resumes, Starts, Runs, Steps, Moves, upstream, pricing,
            ToolKinds, Outcome, Idle, Before
<1>0. /\ billed[r] = 0 /\ ran[r] \in Nat /\ pc[r] \notin {"form", "clear"}
      /\ billed \in [Requests -> 0 .. 1] /\ r \in Requests /\ Kind[r] \in ToolKinds
      /\ pc \in [Requests -> {Idle} \cup Stage \cup Outcome]
      /\ reply \in [Requests -> Error \cup Answer \cup {Nothing}]
      /\ ran \in [Requests -> Nat] /\ faults \in Nat
      /\ ~ Threaded(r)
  BY CallsAssumption DEF TypeInv, TypeOK, Unbilled, Handles, CallOK, Threaded, Called
<1>1. /\ Tried(r) \in Nat /\ Candidates(r) \in {2, 5} /\ ran[r] <= Tried(r) + 1
      /\ candidate[r] <= Candidates(r) /\ attempt[r] <= Attempts(r)
      /\ pc[r] = "try" => ran[r] <= Tried(r)
  BY TriedBound DEF TypeInv, CallOK
<1>t. ASSUME UNCHANGED <<candidate, attempt>>
      PROVE  /\ Tried(r)' = Tried(r) /\ candidate'[r] <= Candidates(r)
             /\ attempt'[r] <= Attempts(r)
  BY <1>1, <1>t DEF Tried, Candidates
<1>h. UNCHANGED reply => Heard(r)' = Heard(r)
  BY DEF Heard
<1>2. CASE Prices(r)
  <2>t. UNCHANGED <<ran, reply, candidate, attempt>>
    BY <1>2 DEF Prices, CacheHit, CacheMiss, ReadFails, CacheSet, StartCost, Settle, SettleFails
  <2>1. CASE CacheHit(r) \/ CacheMiss(r) \/ ReadFails(r) \/ CacheSet(r)
    <3>1. /\ UNCHANGED <<ran, reply, billed>>
          /\ pc'[r] \in {pc[r], After(r), "charge"} /\ Looking(r)
      BY <1>0, <2>1 DEF CacheHit, CacheMiss, ReadFails, CacheSet
    <3>2. /\ pc'[r] \in {"balance", "config", "profile", "rate", "model", "charge", "min"}
          /\ pc'[r] \in {"balance", "min"} => pc[r] = "min"
      <4>1. /\ After(r) \in {"balance", "profile", "rate", "model", "charge"}
            /\ After(r) = "balance" => pc[r] = "min"
        BY <3>1 DEF Looking, After
      <4>2. QED
        BY <3>1, <4>1 DEF Looking
    <3>3. CallOK(r)'
      BY <1>0, <1>1, <1>t, <1>h, <2>t, <3>1, <3>2 DEF CallOK
    <3>4. QED
      BY <3>1, <3>3 DEF Progress
  <2>2. CASE Settle(r) \/ SettleFails(r)
    <3>1. /\ pc[r] = "charge" /\ pc'[r] \in {"failed", "ok"}
          /\ billed'[r] \in {0, 1} /\ (billed'[r] = 1 => Billable(r))
          /\ \/ faults' = faults + 1
             \/ faults' = faults /\ (Billable(r) => billed'[r] = 1)
      BY <1>0, <2>2 DEF Settle, SettleFails
    <3>2. Billable(r) => reply[r] \in Answer
      BY <1>0 DEF Billable, Answer
    <3>3. reply[r] = "answered" => Billable(r)
      BY <1>0 DEF Billable
    <3>4. reply[r] \in Answer => Heard(r) = "answer"
      BY HeardIs DEF TypeInv
    <3>5. CallOK(r)'
      BY <1>0, <1>1, <1>t, <2>t, <3>1, <3>2, <3>3 DEF CallOK
    <3>6. QED
      BY <1>0, <2>t, <3>1, <3>2, <3>4, <3>5 DEF Progress
  <2>3. CASE StartCost(r)
    BY <1>0, <2>3 DEF StartCost, Costing
  <2>4. QED
    BY <1>2, <2>1, <2>2, <2>3 DEF Prices
<1>3. CASE Admin(r)
  BY <1>0, <1>3 DEF Admin, ReceiveForm, Save, Invalidate, RefreshFails, SaveFails, Savers
<1>4. CASE InvokeTool(r) \/ HasMinBalance(r) \/ StartList(r)
  <2>1. /\ UNCHANGED <<ran, reply, billed, candidate, attempt>>
        /\ pc[r] \in {Idle, "balance"} /\ pc'[r] \in {"refused", "min", "try"}
    BY <1>0, <1>4 DEF InvokeTool, HasMinBalance, StartList, ListKinds
  <2>2. ran[r] = 0 /\ Heard(r) = "nothing"
    BY <2>1 DEF CallOK
  <2>3. CallOK(r)'
    BY <1>0, <1>1, <1>t, <1>h, <2>1, <2>2 DEF CallOK
  <2>4. QED
    BY <2>1, <2>3 DEF Progress
<1>5. CASE Answered(r) \/ Cancelled(r)
  <2>1. /\ pc[r] = "try" /\ UNCHANGED <<billed, candidate, attempt>>
        /\ pc'[r] \in {"config", "failed"}
        /\ \/ ran'[r] = ran[r] + 1 /\ reply'[r] \in Answer
           \/ ran'[r] \in {ran[r], ran[r] + 1} /\ reply' = reply
    BY <1>0, <1>5 DEF Answered, Cancelled
  <2>2. Heard(r) = "nothing"
    BY <2>1 DEF CallOK
  <2>3. reply'[r] \in Answer => Heard(r)' = "answer"
    BY CallsAssumption DEF Heard, Answer
  <2>4. CallOK(r)'
    BY <1>0, <1>1, <1>t, <1>h, <2>1, <2>2 DEF CallOK
  <2>5. QED
    BY <1>h, <2>1, <2>2, <2>3, <2>4 DEF Progress
<1>6. ASSUME NEW e \in Error, NextCandidate(r, e) \/ Retry(r, e) \/ GiveUp(r, e)
      PROVE  CallOK(r)' /\ Progress(r)
  BY <1>6, TryMoves
<1>7. QED
  BY <1>2, <1>3, <1>4, <1>5, <1>6 DEF Handles, Upstream

\* Time and crashes leave the calls alone.
Aside ==
    /\ UNCHANGED <<ran, reply, billed, candidate, attempt>>
    /\ \A q \in Requests : pc'[q] \in {pc[q], "crashed"}
    /\ faults' \in {faults, faults + 1}

\* A step is a handler's, or leaves what has run, was answered and was billed alone.
LEMMA StepCases ==
    ASSUME TypeOK, [Next]_vars
    PROVE  (\E r \in Requests : Handles(r)) \/ Aside
<1>1. CASE \E r \in Requests : Handles(r)
  BY <1>1
<1>2. CASE \E p \in Procs : Crash(p)
  BY <1>2 DEF Crash, Aside, upstream, TypeOK
<1>3. CASE \E p \in Procs : \E t \in Tables : Expire(p, t)
  BY <1>3 DEF Expire, Aside, upstream
<1>4. CASE UNCHANGED vars
  BY <1>4 DEF Aside, vars, upstream, pricing
<1>5. QED
  BY <1>1, <1>2, <1>3, <1>4 DEF Next, Handles

\* What has not moved is known as before.
LEMMA CallStays ==
    ASSUME TypeInv, NEW r \in Called, CallOK(r),
           UNCHANGED <<ran[r], reply[r], billed[r], candidate[r], attempt[r]>>,
           pc'[r] \in {pc[r], "crashed"}, faults' \in {faults, faults + 1}
    PROVE  CallOK(r)'
<1>1. Heard(r)' = Heard(r) /\ Tried(r)' = Tried(r) /\ faults \in Nat
  BY CallsAssumption DEF Heard, Tried, Candidates, TypeInv, TypeOK
<1>2. QED
  BY <1>1 DEF CallOK, Before, Idle, Attempts, Candidates

\* A step keeps what is known of every call, and takes one of them further at most.
LEMMA CallNext ==
    ASSUME TypeInv, CallInv, [Next]_vars
    PROVE  /\ CallInv'
           /\ \/ UNCHANGED <<ran, reply, billed>>
              \/ \E r \in Requests :
                    /\ r \in Called => Progress(r)
                    /\ \A q \in Requests : q # r =>
                          UNCHANGED <<ran[q], reply[q], billed[q]>>
<1>0. TypeOK /\ \A r \in Called : r \in Requests /\ CallOK(r)
  BY DEF CallInv, TypeInv, Called
<1>1. CASE \E q \in Requests : Handles(q)
  <2>1. PICK q \in Requests : Handles(q)
    BY <1>1
  <2>2. q \in Called => CallOK(q)' /\ Progress(q)
    BY <1>0, <2>1, CallMoves
  <2>3. ASSUME NEW r \in Requests, r # q
        PROVE  /\ r \in Called => CallOK(r)'
               /\ UNCHANGED <<ran[r], reply[r], billed[r]>>
    BY <1>0, <2>1, <2>3, Frame, CallStays
  <2>4. CallInv'
    BY <1>0, <2>2, <2>3 DEF CallInv, Called
  <2>5. QED
    BY <2>1, <2>2, <2>3, <2>4
<1>2. CASE Aside
  <2>1. ASSUME NEW r \in Called
        PROVE  CallOK(r)'
    BY <1>0, <1>2, CallStays DEF Aside
  <2>2. QED
    BY <1>2, <2>1 DEF Aside, CallInv, Called
<1>3. QED
  BY <1>0, <1>1, <1>2, StepCases

\* Before any request, nothing has run and nothing is billed.
LEMMA CallInit == Init => CallInv
<1> SUFFICES ASSUME Init, NEW r \in Called
             PROVE  CallOK(r)
  BY DEF CallInv
<1>1. /\ r \in Requests /\ pc[r] = Idle /\ reply[r] = Nothing /\ ran[r] = 0
      /\ billed[r] = 0 /\ candidate[r] = 1 /\ attempt[r] = 1 /\ TypeOK
  BY InitType DEF Init, Start, EventLoopInit, Called, TypeInv
<1>2. Heard(r) = "nothing" /\ reply[r] \notin Answer
  BY <1>1, HeardIs
<1>3. 1 <= Candidates(r) /\ 1 <= Attempts(r)
  BY CallsAssumption DEF Candidates, Attempts
<1>4. Tried(r) \in Nat
  BY <1>1, <1>3, TriedBound
<1>5. QED
  BY <1>1, <1>2, <1>3, <1>4 DEF CallOK, Idle

\* Whatever its URLs, attempts and errors, a call is settled only for a tool that has
\* run and been heard, and without a fault whenever one has answered.
THEOREM CallsAreBilledAsAnswered == Spec => []BilledAsAnswered
<1>1. Init => TypeInv /\ CallInv
  BY InitType, CallInit
<1>2. TypeInv /\ CallInv /\ [Next]_vars => (TypeInv /\ CallInv)'
  BY NextType, CallNext
<1>3. CallInv => BilledAsAnswered
  BY DEF CallInv, CallOK, BilledAsAnswered, ToolCalls, Called
<1>4. QED
  BY <1>1, <1>2, <1>3, PTL DEF Spec

\* A step of a call is one of the delivery, or none.
LEMMA DeliveryStep ==
    ASSUME TypeInv, CallInv, CallInv', TypeInv', NEW r \in Called, Progress(r),
           \A q \in Requests : q # r => UNCHANGED <<ran[q], reply[q], billed[q]>>
    PROVE  [D!Next]_(D!vars)
<1> DEFINE runs == [q \in Called |-> ran[q]]
           heard == [q \in Called |-> Heard(q)]
           charges == [q \in Called |-> billed[q]]
<1>0. Called' = Called /\ \A q \in Called : q \in Requests
  BY DEF Called
<1>1. \A q \in Called : q # r =>
         ran'[q] = ran[q] /\ Heard(q)' = Heard(q) /\ billed'[q] = billed[q]
  BY <1>0 DEF Heard
<1>2. ran'[r] <= Candidates(r) * Attempts(r)
  <2>1. CallOK(r)' /\ TypeOK' /\ ran'[r] \in Nat /\ Attempts(r) \in Nat
    BY <1>0, CallsAssumption DEF CallInv, TypeInv, TypeOK, Attempts
  <2>2. (Tried(r) \in Nat /\ Tried(r) + 1 <= Candidates(r) * Attempts(r))'
    BY <2>1, TriedBound, PTL DEF CallOK
  <2>3. QED
    BY <2>1, <2>2 DEF CallOK, Candidates, Attempts
<1>3. /\ r \in DOMAIN runs /\ runs[r] = ran[r] /\ charges[r] = billed[r]
      /\ heard[r] = Heard(r)
      /\ [q \in Called |-> Candidates(q) * Attempts(q)][r] = Candidates(r) * Attempts(r)
  OBVIOUS
<1>4. CASE UNCHANGED <<ran[r], reply[r], billed[r]>>
  <2>1. Heard(r)' = Heard(r)
    BY <1>4 DEF Heard
  <2>2. runs' = runs /\ heard' = heard /\ charges' = charges
    BY <1>0, <1>1, <1>4, <2>1
  <2>3. QED
    BY <2>2 DEF D!vars
<1>5. CASE /\ Heard(r) = "nothing" /\ UNCHANGED billed[r]
           /\ \/ ran'[r] \in {ran[r], ran[r] + 1} /\ Heard(r)' \in {"nothing", "error"}
              \/ ran'[r] = ran[r] + 1 /\ Heard(r)' = "answer"
  <2>1. charges' = charges
    BY <1>0, <1>1, <1>5
  <2>2. ASSUME NEW times \in {0, 1}, ran'[r] = ran[r] + times
        PROVE  D!Run(r, times)
    <3>1. runs' = [runs EXCEPT ![r] = @ + times] /\ runs'[r] = ran'[r]
      BY <1>0, <1>1, <2>2
    <3>2. QED
      BY <1>2, <1>3, <1>5, <2>1, <3>1 DEF D!Run
  <2>3. heard' = [heard EXCEPT ![r] = Heard(r)']
    BY <1>0, <1>1
  <2>4. CASE ran'[r] \in {ran[r], ran[r] + 1} /\ Heard(r)' \in {"nothing", "error"}
    <3>1. \E times \in {0, 1} : D!Run(r, times)
      BY <2>2, <2>4 DEF TypeInv, TypeOK, Called
    <3>2. CASE Heard(r)' = "nothing"
      <4>1. heard' = heard
        BY <1>5, <2>3, <3>2
      <4>2. D!Lose(r)
        BY <3>1, <4>1 DEF D!Lose
      <4>3. QED
        BY <4>2 DEF D!Next
    <3>3. CASE Heard(r)' = "error"
      <4>1. D!Fail(r)
        BY <2>3, <3>1, <3>3 DEF D!Fail
      <4>2. QED
        BY <4>1 DEF D!Next
    <3>4. QED
      BY <2>4, <3>2, <3>3
  <2>5. CASE ran'[r] = ran[r] + 1 /\ Heard(r)' = "answer"
    <3>1. D!Answer(r)
      BY <2>2, <2>3, <2>5 DEF D!Answer
    <3>2. QED
      BY <3>1 DEF D!Next
  <2>6. QED
    BY <1>5, <2>4, <2>5
<1>6. CASE /\ Heard(r) = "answer" /\ UNCHANGED <<ran[r], reply[r]>>
           /\ billed[r] = 0 /\ billed'[r] = 1
  <2>1. Heard(r)' = Heard(r)
    BY <1>6 DEF Heard
  <2>2. /\ runs' = runs /\ heard' = heard
        /\ charges' = [charges EXCEPT ![r] = 1]
    BY <1>0, <1>1, <1>6, <2>1
  <2>3. D!Charge(r)
    BY <1>3, <1>6, <2>2 DEF D!Charge
  <2>4. QED
    BY <2>3 DEF D!Next
<1>7. QED
  BY <1>4, <1>5, <1>6 DEF Progress

\* The calls implement the delivery, whatever the number of URLs, attempts, processes
\* and faults: a tool runs once per URL and attempt at most, and never again once an
\* answer or a definite error was heard; what was answered is charged for once at most.
THEOREM CallsImplementDelivery == Spec => DeliverySpec
<1>1. Init => TypeInv /\ CallInv
  BY InitType, CallInit
<1>2. TypeInv /\ CallInv /\ [Next]_vars => (TypeInv /\ CallInv)'
  BY NextType, CallNext
<1>3. Init => D!Init
  BY InitType, HeardIs DEF Init, Start, D!Init, TypeInv, Called
<1>4. TypeInv /\ CallInv /\ [Next]_vars => [D!Next]_(D!vars)
  <2> SUFFICES ASSUME TypeInv, CallInv, [Next]_vars
               PROVE  [D!Next]_(D!vars)
    OBVIOUS
  <2>1. ASSUME UNCHANGED <<ran, reply, billed>>
        PROVE  [D!Next]_(D!vars)
    BY <2>1 DEF D!vars, Heard, Called
  <2>2. ASSUME NEW r \in Requests, r \in Called => Progress(r),
               \A q \in Requests : q # r => UNCHANGED <<ran[q], reply[q], billed[q]>>
        PROVE  [D!Next]_(D!vars)
    <3>1. CASE r \in Called
      BY <1>2, <2>2, <3>1, DeliveryStep
    <3>2. CASE r \notin Called
      BY <2>2, <3>2 DEF D!vars, Heard, Called
    <3>3. QED
      BY <3>1, <3>2
  <2>3. QED
    BY <2>1, <2>2, CallNext
<1>5. QED
  BY <1>1, <1>2, <1>3, <1>4, PTL DEF Spec, DeliverySpec, D!Spec

-----------------------------------------------------------------------------
(* What the caches hold.                                                    *)

\* Between these calls a coroutine does not await.
Holding == {"min", "balance", "config", "profile", "rate", "model", "charge", "clear"}

LoopInv ==
    /\ \A r \in Requests : ~ Threaded(r) /\ pc[r] \in Holding => loop[at[r]] = r
    /\ \A r \in Requests : Threaded(r) =>
          pc[r] \notin {"min", "balance", "try", "form", "clear"}
    /\ \A r \in Requests : fetched[r] # Nothing => Looking(r)

\* What a coroutine has read and not cached yet is what is saved, if no other process
\* saves.
FetchedIsSaved(r) ==
    fetched[r] # Nothing /\ ~ Threaded(r) /\ Procs = {at[r]} =>
        fetched[r] \in {"fallback", saved[TableOf(pc[r])]}

Clearing(p) == \E r \in Requests : at[r] = p /\ pc[r] = "clear"
KeptIsSaved(p) == \A t \in Tables \ excused[p] : kept[p][t] \in {Nothing, saved[t]}

PriceInv ==
    /\ LoopInv
    /\ \A r \in Requests : FetchedIsSaved(r)
    /\ \A p \in Procs : Clearing(p) \/ KeptIsSaved(p)

\* A step of a thread leaves the loop alone; one of a coroutine finds it free or
\* holds it, and keeps it only until it awaits or returns.
LEMMA LoopMoves ==
    ASSUME TypeInv, LoopInv, NEW r \in Requests, Handles(r)
    PROVE  \/ /\ Threaded(r) /\ loop' = loop
              /\ pc'[r] \notin {"min", "balance", "try", "form", "clear"}
           \/ /\ ~ Threaded(r)
              /\ loop[at[r]] \in {NoRequest, r}
              /\ loop' = [loop EXCEPT ![at[r]] = loop'[at[r]]]
              /\ loop'[at[r]] \in {NoRequest, r}
              /\ pc'[r] \in Holding => loop'[at[r]] = r
<1> USE DEF Goes, Awaits, Resumes, Starts, Runs, Steps, Moves, Holding, Outcome, Idle
<1>0. /\ at[r] \in Procs
      /\ pc \in [Requests -> {Idle} \cup Stage \cup Outcome]
      /\ loop \in [Procs -> Requests \cup {NoRequest}]
      /\ ~ Threaded(r) /\ pc[r] \in Holding => loop[at[r]] = r
      /\ pc[r] \notin Outcome
  BY DEF TypeInv, TypeOK, LoopInv, Handles
<1>1. CASE Prices(r)
  <2>1. CASE CacheHit(r) \/ CacheMiss(r) \/ ReadFails(r) \/ CacheSet(r)
    <3>1. /\ \E to \in Holding \ {"clear"} :
                Goes(r, pc[r], to) /\ (to \in {"min", "balance"} => pc[r] = "min")
          /\ pc[r] \in Holding
      BY <2>1 DEF CacheHit, CacheMiss, ReadFails, CacheSet, Looking, After
    <3>2. CASE Threaded(r)
      BY <1>0, <3>1, <3>2 DEF LoopInv
    <3>3. CASE ~ Threaded(r)
      BY <1>0, <3>1, <3>3
    <3>4. QED
      BY <3>2, <3>3
  <2>2. CASE StartCost(r)
    BY <1>0, <2>2 DEF StartCost
  <2>3. CASE Settle(r)
    BY <1>0, <2>3 DEF Settle
  <2>4. CASE SettleFails(r)
    BY <1>0, <2>4 DEF SettleFails
  <2>5. QED
    BY <1>1, <2>1, <2>2, <2>3, <2>4 DEF Prices
<1>2. CASE Admin(r)
  <2>1. ~ Threaded(r)
    BY <1>2 DEF Admin, ReceiveForm, Save, Invalidate, RefreshFails, SaveFails, Savers,
                Threaded, LoopInv
  <2>2. QED
    BY <1>0, <1>2, <2>1 DEF Admin, ReceiveForm, Save, Invalidate, RefreshFails, SaveFails
<1>3. CASE Upstream(r)
  <2>1. ~ Threaded(r)
    <3>1. CASE pc[r] = Idle
      BY <1>3, <3>1 DEF Upstream, InvokeTool, HasMinBalance, StartList, Answered,
                 Cancelled, NextCandidate, Retry, GiveUp, Threaded, ToolKinds, ListKinds
    <3>2. CASE pc[r] # Idle
      BY <1>3, <3>2 DEF Upstream, InvokeTool, HasMinBalance, StartList, Answered,
                 Cancelled, NextCandidate, Retry, GiveUp, LoopInv
    <3>3. QED
      BY <3>1, <3>2
  <2>2. CASE InvokeTool(r) \/ HasMinBalance(r) \/ StartList(r)
    BY <1>0, <2>1, <2>2 DEF InvokeTool, HasMinBalance, StartList
  <2>3. CASE Answered(r) \/ Cancelled(r)
    BY <1>0, <2>1, <2>3 DEF Answered, Cancelled
  <2>4. CASE \E e \in Error : NextCandidate(r, e) \/ Retry(r, e) \/ GiveUp(r, e)
    <3>1. Awaits(r, "try", "try") \/ \E to \in {"config", "ok", "failed"} : Resumes(r, "try", to)
      BY <2>4 DEF NextCandidate, Retry, GiveUp
    <3>2. QED
      BY <1>0, <2>1, <3>1
  <2>5. QED
    BY <1>3, <2>2, <2>3, <2>4 DEF Upstream
<1>4. QED
  BY <1>1, <1>2, <1>3 DEF Handles
\* Reading and caching, the one action that fills a cache.
LEMMA FetchMoves ==
    ASSUME TypeInv, PriceInv, NEW r \in Requests, Handles(r)
    PROVE  /\ fetched'[r] # Nothing => Looking(r)'
           /\ fetched'[r] # Nothing /\ saved' = saved => FetchedIsSaved(r)'
           /\ \A p \in Procs : p # at[r] =>
                 \A t \in Tables : kept'[p][t] = kept[p][t]
           /\ saved' = saved => \A p \in Procs : KeptIsSaved(p) => KeptIsSaved(p)'
<1> USE DEF Goes, Awaits, Resumes, Starts, Runs, Steps, Moves, upstream, pricing, Outcome, Idle
<1>0. /\ at[r] \in Procs /\ at \in [Requests -> Procs]
      /\ pc \in [Requests -> {Idle} \cup Stage \cup Outcome]
      /\ kept \in [Procs -> [Tables -> Versions \cup {"fallback", Nothing}]]
      /\ fetched \in [Requests -> Versions \cup {"fallback", Nothing}]
      /\ excused \in [Procs -> SUBSET Tables]
      /\ fetched[r] # Nothing => Looking(r)
      /\ FetchedIsSaved(r)
      /\ Nothing # "fallback"
  BY CallsAssumption DEF TypeInv, TypeOK, PriceInv, LoopInv
<1>1. CASE CacheHit(r)
  BY <1>0, <1>1 DEF CacheHit, KeptIsSaved
<1>2. CASE CacheMiss(r)
  <2>1. /\ pc'[r] = pc[r] /\ Looking(r) /\ at' = at
        /\ fetched'[r] = saved[TableOf(pc[r])]
        /\ UNCHANGED <<saved, kept, excused>>
    BY <1>0, <1>2 DEF CacheMiss
  <2>2. QED
    BY <2>1 DEF FetchedIsSaved, KeptIsSaved, Looking
<1>3. CASE ReadFails(r)
  <2>1. /\ UNCHANGED <<saved, kept, excused>> /\ Looking(r)
        /\ fetched'[r] = Nothing \/ (fetched'[r] = "fallback" /\ pc'[r] = pc[r])
    BY <1>0, <1>3 DEF ReadFails
  <2>2. QED
    BY <2>1 DEF FetchedIsSaved, KeptIsSaved, Looking
<1>4. CASE CacheSet(r)
  <2> DEFINE t == TableOf(pc[r])
             overtaken == fetched[r] # saved[t] /\ (Threaded(r) \/ Procs # {at[r]})
  <2>1. t \in Tables
    BY <1>4, AfterType DEF CacheSet
  <2>2. /\ fetched[r] # Nothing /\ fetched'[r] = Nothing /\ saved' = saved
        /\ kept' = [kept EXCEPT ![at[r]][t] = fetched[r]]
        /\ excused' = [excused EXCEPT ![at[r]] =
               IF fetched[r] = "fallback" \/ overtaken THEN @ \cup {t} ELSE @ \ {t}]
    BY <1>0, <1>4 DEF CacheSet
  <2>3. fetched[r] = "fallback" \/ overtaken \/ fetched[r] = saved[t]
    BY <1>0, <2>2 DEF FetchedIsSaved
  <2>4. ASSUME NEW p \in Procs, KeptIsSaved(p) PROVE KeptIsSaved(p)'
    <3>1. CASE p # at[r]
      BY <1>0, <2>2, <2>4, <3>1 DEF KeptIsSaved
    <3>2. CASE p = at[r]
      <4>1. ASSUME NEW u \in Tables, u # t, u \notin excused'[p]
            PROVE  kept'[p][u] \in {Nothing, saved'[u]}
        <5>1. kept'[p][u] = kept[p][u] /\ u \notin excused[p]
          BY <1>0, <2>1, <2>2, <3>2, <4>1
        <5>2. QED
          BY <2>2, <2>4, <4>1, <5>1 DEF KeptIsSaved
      <4>2. t \notin excused'[p] => kept'[p][t] = saved'[t]
        BY <1>0, <2>1, <2>2, <2>3, <3>2
      <4>3. QED
        BY <4>1, <4>2 DEF KeptIsSaved
    <3>3. QED
      BY <3>1, <3>2
  <2>5. QED
    BY <1>0, <2>2, <2>4
<1>5. CASE StartCost(r) \/ Settle(r) \/ SettleFails(r)
  <2>1. UNCHANGED <<fetched, saved, kept, excused>> /\ ~ Looking(r)
    BY <1>5 DEF StartCost, Settle, SettleFails, Looking
  <2>2. QED
    BY <1>0, <2>1 DEF KeptIsSaved
<1>6. CASE Invalidate(r)
  <2>1. /\ UNCHANGED <<fetched, saved>> /\ ~ Looking(r)
        /\ kept' = [kept EXCEPT ![at[r]] = Blank]
        /\ excused' = [excused EXCEPT ![at[r]] = {}]
    BY <1>6 DEF Invalidate, InvalidateCaches, Looking
  <2>2. QED
    BY <1>0, <2>1 DEF KeptIsSaved, Blank
<1>7. CASE ReceiveForm(r) \/ Save(r) \/ RefreshFails(r) \/ SaveFails(r)
  <2>1. UNCHANGED <<fetched, kept>> /\ ~ Looking(r)
    BY <1>7 DEF ReceiveForm, Save, RefreshFails, SaveFails, Looking
  <2>2. saved' = saved => \A p \in Procs : excused[p] \subseteq excused'[p]
    <3>1. ReceiveForm(r) \/ RefreshFails(r) => excused' = excused
      BY DEF ReceiveForm, RefreshFails
    <3>2. Save(r) => \A p \in Procs : excused[p] \subseteq excused'[p]
      BY <1>0 DEF Save, Saved
    <3>3. SaveFails(r) => \A p \in Procs : excused[p] \subseteq excused'[p]
      BY <1>0 DEF SaveFails, Saved
    <3>4. QED
      BY <1>7, <3>1, <3>2, <3>3
  <2>3. QED
    BY <1>0, <2>1, <2>2 DEF KeptIsSaved
<1>8. CASE Upstream(r)
  <2>1. UNCHANGED pricing /\ ~ Looking(r)
    BY <1>8 DEF Upstream, InvokeTool, HasMinBalance, StartList, Answered, Cancelled,
                NextCandidate, Retry, GiveUp, Fails, Looking
  <2>2. QED
    BY <1>0, <2>1 DEF KeptIsSaved
<1>9. QED
  BY <1>1, <1>2, <1>3, <1>4, <1>5, <1>6, <1>7, <1>8 DEF Handles, Prices, Admin

\* A save excuses what other processes keep, finds its own loop free, and is about to
\* clear its own caches or has failed, which excuses everybody.
LEMMA SaveMoves ==
    ASSUME TypeInv, PriceInv, NEW r \in Requests, Handles(r), saved' # saved
    PROVE  /\ loop[at[r]] = NoRequest /\ fetched' = fetched /\ pc'[r] \in {"clear", "failed"}
           /\ \A p \in Procs : p # at[r] \/ pc'[r] = "failed" =>
                 (KeptIsSaved(p) => KeptIsSaved(p)')
<1> USE DEF Resumes, Starts, Runs, Moves, Outcome, Idle
<1>0. /\ at[r] \in Procs
      /\ pc \in [Requests -> {Idle} \cup Stage \cup Outcome]
      /\ saved \in [Tables -> Versions]
      /\ excused \in [Procs -> SUBSET Tables]
  BY DEF TypeInv, TypeOK
<1>1. Save(r) \/ SaveFails(r)
  <2>1. ~ Prices(r)
    BY DEF Prices, CacheHit, CacheMiss, ReadFails, CacheSet, StartCost, Settle,
           SettleFails, pricing
  <2>2. ~ Upstream(r)
    BY DEF Upstream, InvokeTool, HasMinBalance, StartList, Answered, Cancelled,
           NextCandidate, Retry, GiveUp, Fails, pricing
  <2>3. QED
    BY <2>1, <2>2 DEF Handles, Admin, ReceiveForm, Invalidate, RefreshFails, pricing
<1> DEFINE t == Writes(Kind[r])
<1>2. CASE Save(r)
  <2>1. /\ saved' = [saved EXCEPT ![t] = IF Kind[r] = "drop" THEN "gone" ELSE "new"]
        /\ excused' = [p \in Procs |->
               IF p # at[r] /\ kept[p][t] \notin {Nothing, saved'[t]}
                 THEN excused[p] \cup {t} ELSE excused[p]]
        /\ UNCHANGED <<kept, fetched>>
        /\ loop[at[r]] = NoRequest /\ pc'[r] = "clear"
    BY <1>0, <1>2 DEF Save, Saved
  <2>2. QED
    BY <1>0, <2>1 DEF KeptIsSaved
<1>3. CASE SaveFails(r)
  <2>1. /\ saved' = [saved EXCEPT ![t] = IF Kind[r] = "drop" THEN "gone" ELSE "new"]
        /\ excused' = [p \in Procs |-> excused[p] \cup {t}]
        /\ UNCHANGED <<kept, fetched>>
        /\ loop[at[r]] = NoRequest /\ pc'[r] = "failed"
    BY <1>0, <1>3 DEF SaveFails
  <2>2. QED
    BY <1>0, <2>1 DEF KeptIsSaved
<1>4. QED
  BY <1>1, <1>2, <1>3
\* Who is about to clear the caches of his process clears them.
LEMMA ClearMoves ==
    ASSUME TypeInv, NEW r \in Requests, Handles(r), pc[r] = "clear"
    PROVE  KeptIsSaved(at[r])'
<1> USE DEF Goes, Awaits, Resumes, Starts, Runs, Steps, Moves, Idle
<1>0. at[r] \in Procs /\ kept \in [Procs -> [Tables -> Versions \cup {"fallback", Nothing}]]
  BY DEF TypeInv, TypeOK
<1>1. ~ Prices(r)
  BY DEF Prices, CacheHit, CacheMiss, ReadFails, CacheSet, StartCost, Settle,
         SettleFails, Looking
<1>2. ~ Upstream(r)
  BY DEF Upstream, InvokeTool, HasMinBalance, StartList, Answered, Cancelled,
         NextCandidate, Retry, GiveUp
<1>3. Invalidate(r)
  BY <1>1, <1>2 DEF Handles, Admin, ReceiveForm, Save, RefreshFails, SaveFails
<1>4. kept' = [kept EXCEPT ![at[r]] = Blank] /\ at' = at
  BY <1>3 DEF Invalidate, InvalidateCaches
<1>5. QED
  BY <1>0, <1>4 DEF KeptIsSaved, Blank

\* A step of a handler leaves the caches as they should be.
LEMMA PriceStep ==
    ASSUME TypeInv, PriceInv, NEW r \in Requests, Handles(r)
    PROVE  PriceInv'
<1>0. /\ at \in [Requests -> Procs] /\ at' = at
      /\ \A q \in Requests : q # r => pc'[q] = pc[q] /\ fetched'[q] = fetched[q]
      /\ loop \in [Procs -> Requests \cup {NoRequest}]
      /\ NoRequest \notin Requests
      /\ LoopInv
  <2>1. at \in [Requests -> Procs] /\ loop \in [Procs -> Requests \cup {NoRequest}]
    BY DEF TypeInv, TypeOK
  <2>2. at' = at
    <3>1. CASE \E q \in Requests : q # r
      BY <3>1, Frame DEF TypeInv
    <3>2. CASE \A q \in Requests : q = r
      BY <3>2 DEF Handles, Prices, CacheHit, CacheMiss, ReadFails, CacheSet, StartCost,
             Settle, SettleFails, Admin, ReceiveForm, Save, Invalidate, RefreshFails,
             SaveFails, Upstream, InvokeTool, HasMinBalance, StartList, Answered,
             Cancelled, NextCandidate, Retry, GiveUp, Goes, Awaits, Resumes, Starts,
             Runs, Steps, Moves
    <3>3. QED
      BY <3>1, <3>2
  <2>3. \A q \in Requests : q # r => pc'[q] = pc[q] /\ fetched'[q] = fetched[q]
    BY Frame DEF TypeInv
  <2>4. QED
    BY <2>1, <2>2, <2>3, CallsAssumption DEF PriceInv
<1>1. LoopInv'
  <2>1. ASSUME NEW q \in Requests, ~ Threaded(q), pc'[q] \in Holding
        PROVE  loop'[at[q]] = q
    <3>1. CASE q = r
      BY <1>0, <2>1, <3>1, LoopMoves
    <3>2. CASE q # r
      <4>1. pc[q] \in Holding /\ loop[at[q]] = q
        BY <1>0, <2>1, <3>2 DEF LoopInv
      <4>2. QED
        BY <1>0, <3>2, <4>1, LoopMoves
    <3>3. QED
      BY <3>1, <3>2
  <2>2. ASSUME NEW q \in Requests, Threaded(q)
        PROVE  pc'[q] \notin {"min", "balance", "try", "form", "clear"}
    <3>1. CASE q = r
      BY <1>0, <2>2, <3>1, LoopMoves
    <3>2. CASE q # r
      BY <1>0, <2>2, <3>2 DEF LoopInv
    <3>3. QED
      BY <3>1, <3>2
  <2>3. ASSUME NEW q \in Requests, fetched'[q] # Nothing
        PROVE  Looking(q)'
    <3>1. CASE q = r
      BY <2>3, <3>1, FetchMoves
    <3>2. CASE q # r
      BY <1>0, <2>3, <3>2 DEF LoopInv, Looking
    <3>3. QED
      BY <3>1, <3>2
  <2>4. QED
    BY <1>0, <2>1, <2>2, <2>3 DEF LoopInv, Threaded
<1>2. ASSUME NEW q \in Requests PROVE FetchedIsSaved(q)'
  <2>1. CASE saved' = saved
    <3>1. CASE q = r
      BY <2>1, <3>1, FetchMoves DEF FetchedIsSaved
    <3>2. CASE q # r
      BY <1>0, <2>1, <3>2 DEF FetchedIsSaved, PriceInv, Threaded
    <3>3. QED
      BY <3>1, <3>2
  <2>2. CASE saved' # saved
    <3>1. loop[at[r]] = NoRequest /\ fetched' = fetched /\ pc'[r] \in {"clear", "failed"}
      BY <2>2, SaveMoves
    <3>2. SUFFICES ASSUME fetched[q] # Nothing, ~ Threaded(q), Procs = {at[q]}
                   PROVE  FALSE
      BY <1>0, <3>1 DEF FetchedIsSaved, Threaded
    <3>3. CASE q = r
      BY <1>1, <3>1, <3>2, <3>3 DEF LoopInv, Looking
    <3>4. CASE q # r
      <4>1. pc[q] \in Holding
        BY <1>0, <3>2 DEF LoopInv, Looking, Holding
      <4>2. loop[at[q]] = q /\ at[q] = at[r]
        BY <1>0, <3>2, <4>1 DEF LoopInv
      <4>3. QED
        BY <1>0, <3>1, <4>2
    <3>5. QED
      BY <3>3, <3>4
  <2>3. QED
    BY <2>1, <2>2
<1>3. ASSUME NEW p \in Procs PROVE Clearing(p)' \/ KeptIsSaved(p)'
  <2>1. CASE KeptIsSaved(p)
    <3>1. CASE saved' = saved
      BY <2>1, <3>1, FetchMoves
    <3>2. CASE saved' # saved
      BY <1>0, <2>1, <3>2, SaveMoves DEF Clearing
    <3>3. QED
      BY <3>1, <3>2
  <2>2. CASE Clearing(p)
    <3>1. PICK q \in Requests : at[q] = p /\ pc[q] = "clear"
      BY <2>2 DEF Clearing
    <3>2. CASE q = r
      BY <3>1, <3>2, <1>0, ClearMoves DEF KeptIsSaved
    <3>3. CASE q # r
      BY <1>0, <3>1, <3>3 DEF Clearing
    <3>4. QED
      BY <3>2, <3>3
  <2>3. QED
    BY <2>1, <2>2 DEF PriceInv
<1>4. QED
  BY <1>1, <1>2, <1>3 DEF PriceInv

\* A process that dies takes its caches and its coroutines with it.
LEMMA PriceCrash ==
    ASSUME TypeInv, PriceInv, NEW p \in Procs, Crash(p)
    PROVE  PriceInv'
<1>0. /\ at \in [Requests -> Procs] /\ at' = at /\ saved' = saved
      /\ pc' = [r \in Requests |-> IF at[r] = p /\ pc[r] \in Stage THEN "crashed" ELSE pc[r]]
      /\ loop' = [loop EXCEPT ![p] = NoRequest]
      /\ kept' = [kept EXCEPT ![p] = Blank]
      /\ fetched' = [r \in Requests |-> IF at[r] = p THEN Nothing ELSE fetched[r]]
      /\ excused' = [excused EXCEPT ![p] = {}]
      /\ loop \in [Procs -> Requests \cup {NoRequest}]
      /\ kept \in [Procs -> [Tables -> Versions \cup {"fallback", Nothing}]]
      /\ excused \in [Procs -> SUBSET Tables]
  BY DEF TypeInv, TypeOK, Crash
<1>1. \A q \in Requests : at[q] = p => pc'[q] \notin Stage
  BY <1>0 DEF Stage
<1>2. \A q \in Requests : at[q] # p => pc'[q] = pc[q] /\ fetched'[q] = fetched[q]
  BY <1>0
<1>3. LoopInv'
  BY <1>0, <1>1, <1>2 DEF PriceInv, LoopInv, Holding, Stage, Looking, Threaded
<1>4. ASSUME NEW q \in Requests PROVE FetchedIsSaved(q)'
  BY <1>0, <1>2 DEF PriceInv, FetchedIsSaved, Threaded
<1>5. ASSUME NEW o \in Procs PROVE Clearing(o)' \/ KeptIsSaved(o)'
  <2>1. CASE o = p
    BY <1>0, <2>1 DEF KeptIsSaved, Blank
  <2>2. CASE o # p
    BY <1>0, <1>2, <2>2 DEF PriceInv, KeptIsSaved, Clearing
  <2>3. QED
    BY <2>1, <2>2
<1>6. QED
  BY <1>3, <1>4, <1>5 DEF PriceInv

\* An entry that has run out was right or excused, and its absence is right.
LEMMA PriceExpire ==
    ASSUME TypeInv, PriceInv, NEW p \in Procs, NEW t \in Tables, Expire(p, t)
    PROVE  PriceInv'
<1>0. /\ UNCHANGED <<at, saved, pc, loop, fetched>>
      /\ kept' = [kept EXCEPT ![p][t] = Nothing]
      /\ excused' = [excused EXCEPT ![p] = @ \ {t}]
      /\ kept \in [Procs -> [Tables -> Versions \cup {"fallback", Nothing}]]
      /\ excused \in [Procs -> SUBSET Tables]
  BY DEF TypeInv, TypeOK, Expire
<1>1. LoopInv' /\ \A q \in Requests : FetchedIsSaved(q)'
  BY <1>0 DEF PriceInv, LoopInv, FetchedIsSaved, Looking, Threaded
<1>2. ASSUME NEW o \in Procs, KeptIsSaved(o) PROVE KeptIsSaved(o)'
  BY <1>0, <1>2 DEF KeptIsSaved
<1>3. \A o \in Procs : Clearing(o) => Clearing(o)'
  BY <1>0 DEF Clearing
<1>4. QED
  BY <1>1, <1>2, <1>3 DEF PriceInv

\* Every step keeps what the caches and the fetched prices say of the tables.
LEMMA PriceNext == TypeInv /\ PriceInv /\ [Next]_vars => PriceInv'
<1> SUFFICES ASSUME TypeInv, PriceInv, [Next]_vars PROVE PriceInv'
  OBVIOUS
<1>1. CASE \E r \in Requests : Handles(r)
  BY <1>1, PriceStep
<1>2. CASE \E p \in Procs : Crash(p)
  BY <1>2, PriceCrash
<1>3. CASE \E p \in Procs : \E t \in Tables : Expire(p, t)
  BY <1>3, PriceExpire
<1>4. CASE UNCHANGED vars
  BY <1>4 DEF vars, pricing, PriceInv, LoopInv, FetchedIsSaved, Clearing, KeptIsSaved,
              Looking, Threaded
<1>5. QED
  BY <1>1, <1>2, <1>3, <1>4 DEF Next, Handles

\* Before any request, every cache is empty.
LEMMA PriceInit == Init => PriceInv
<1> SUFFICES ASSUME Init PROVE PriceInv
  OBVIOUS
<1>1. /\ \A r \in Requests : pc[r] = Idle /\ fetched[r] = Nothing
      /\ \A p \in Procs : \A t \in Tables : kept[p][t] = Nothing
  BY DEF Init, Start, EventLoopInit, Blank
<1>2. QED
  BY <1>1 DEF PriceInv, LoopInv, FetchedIsSaved, KeptIsSaved, Holding, Idle

\* With any number of processes, threads and faults, a coroutine finds no price in the
\* cache but the saved one, if nothing has excused the entry since it was read.
THEOREM PricesAreCurrent == Spec => []PriceIsCurrent
<1>1. Init => TypeInv /\ PriceInv
  BY InitType, PriceInit
<1>2. TypeInv /\ PriceInv /\ [Next]_vars => (TypeInv /\ PriceInv)'
  BY NextType, PriceNext
<1>3. TypeInv /\ PriceInv => PriceIsCurrent
  <2> SUFFICES ASSUME TypeInv, PriceInv, NEW p \in Procs, loop[p] = NoRequest
               PROVE  KeptIsSaved(p)
    BY DEF PriceIsCurrent, KeptIsSaved
  <2>1. ~ Clearing(p)
    BY CallsAssumption DEF PriceInv, LoopInv, Clearing, Holding
  <2>2. QED
    BY <2>1 DEF PriceInv
<1>4. QED
  BY <1>1, <1>2, <1>3, PTL DEF Spec
=============================================================================
