---------------------------- MODULE WalletProofs ----------------------------
(* Proofs about Wallet for every set of users, processes, requests, kinds   *)
(* and amounts.                                                             *)
EXTENDS Wallet, TLAPS

-----------------------------------------------------------------------------
(* Type correctness. *)

\* Every step of a request handler keeps the types: the building blocks.
LEMMA MovesType ==
    ASSUME TypeOK, NEW d \in Requests, NEW from, NEW to,
           to \in {Idle} \cup Call \cup Outcome, Moves(d, from, to)
    PROVE  /\ pc' \in [Requests -> {Idle} \cup Call \cup Outcome]
           /\ at' \in [Requests -> Procs]
  BY DEF TypeOK, Moves

\* A step to a call or an outcome keeps the types of the control state.
LEMMA RunsType ==
    ASSUME TypeOK, NEW d \in Requests, NEW from, NEW to,
           to \in {Idle} \cup Call \cup Outcome, Runs(d, from, to)
    PROVE  /\ pc' \in [Requests -> {Idle} \cup Call \cup Outcome]
           /\ at' \in [Requests -> Procs]
           /\ loop' \in [Procs -> Requests \cup {NoRequest}]
  BY MovesType DEF TypeOK, Runs, Moves

\* So does a step of a pool thread.
LEMMA StepsType ==
    ASSUME TypeOK, NEW d \in Requests, NEW from, NEW to,
           to \in {Idle} \cup Call \cup Outcome, Steps(d, from, to)
    PROVE  /\ pc' \in [Requests -> {Idle} \cup Call \cup Outcome]
           /\ at' \in [Requests -> Procs]
           /\ loop' \in [Procs -> Requests \cup {NoRequest}]
  BY MovesType DEF TypeOK, Steps, Moves

\* The amount a delivery moves is an integer, whichever its sign.
LEMMA DeltaType ==
    ASSUME NEW e \in Events
    PROVE  /\ Delta(e) \in Int
           /\ Amount[e] \in Nat
           /\ Owner[e] \in Users
  BY WalletAssumption DEF Delta

\* Booking a move keeps the type of the count.
LEMMA BooksType ==
    ASSUME TypeOK, NEW d \in Requests, Books(d)
    PROVE  applied' \in [Events -> Nat]
  BY WalletAssumption DEF TypeOK, Books

\* The atomic increment keeps the types of the balance and the count.
LEMMA RpcType ==
    ASSUME TypeOK, NEW d \in Requests, Rpc(d)
    PROVE  /\ balance' \in [Users -> Int]
           /\ applied' \in [Events -> Nat]
<1>1. EventOf[d] \in Events /\ Delta(EventOf[d]) \in Int
  BY WalletAssumption, DeltaType
<1>2. balance' \in [Users -> Int]
  BY <1>1, DeltaType DEF TypeOK, Rpc, UserOf
<1>3. QED
  BY <1>2, BooksType DEF Rpc

\* So does writing a balance computed from one read before.
LEMMA OverwritesType ==
    ASSUME TypeOK, NEW d \in Requests, Overwrites(d)
    PROVE  /\ balance' \in [Users -> Int]
           /\ applied' \in [Events -> Nat]
<1>1. EventOf[d] \in Events /\ Amount[EventOf[d]] \in Nat
  BY WalletAssumption, DeltaType
<1>2. seen[d] + Amount[EventOf[d]] \in Int
  BY <1>1 DEF TypeOK
<1>3. balance' \in [Users -> Int]
  BY <1>2 DEF TypeOK, Overwrites
<1>4. QED
  BY <1>3, BooksType DEF Overwrites

\* Reading a balance keeps the type of what was read.
LEMMA ReadsType ==
    ASSUME TypeOK, NEW d \in Requests, ReadsBalance(d)
    PROVE  seen' \in [Requests -> Int]
  BY WalletAssumption DEF TypeOK, ReadsBalance, UserOf

\* Before any request, every variable has its type.
LEMMA InitType == Init => TypeOK
  BY WalletAssumption
     DEF Init, Start, EventLoopInit, TypeOK, TopupStatus

\* A handler's step keeps the types.
LEMMA HandleType ==
    ASSUME TypeOK, NEW d \in Requests, Handle(d)
    PROVE  TypeOK'
<1> USE DEF Call, Outcome, Idle, Enters, Starts, database
<1>0. EventOf[d] \in Events /\ UserOf(d) \in Users
  BY WalletAssumption DEF UserOf
<1>1. CASE Debit(d)
  <2>1. CASE DebitCheck(d)
    BY <2>1, StepsType DEF DebitCheck, TypeOK
  <2>2. CASE DebitSettle(d)
    BY <2>2, StepsType, RpcType DEF DebitSettle, TypeOK
  <2>3. CASE DebitLog(d)
    BY <2>3, <1>0, StepsType DEF DebitLog, TypeOK
  <2>4. QED
    BY <1>1, <2>1, <2>2, <2>3 DEF Debit
<1>2. CASE Grant(d)
  <2>1. CASE GrantCheck(d)
    BY <2>1, RunsType DEF GrantCheck, TypeOK
  <2>2. CASE AddCreditsRead(d)
    BY <2>2, RunsType, ReadsType DEF AddCreditsRead, TypeOK
  <2>3. CASE AddCreditsWrite(d)
    BY <2>3, RunsType, OverwritesType DEF AddCreditsWrite, TypeOK
  <2>4. CASE GrantLog(d)
    BY <2>4, <1>0, RunsType DEF GrantLog, TypeOK
  <2>5. QED
    BY <1>2, <2>1, <2>2, <2>3, <2>4 DEF Grant
<1>3. CASE Checkout(d)
  <2>1. CASE CheckoutCheck(d)
    BY <2>1, RunsType DEF CheckoutCheck, TypeOK
  <2>2. CASE CheckoutCredit(d)
    BY <2>2, RunsType, RpcType DEF CheckoutCredit, TypeOK
  <2>3. CASE CheckoutRecord(d)
    BY <2>3, <1>0, RunsType DEF CheckoutRecord, TypeOK
  <2>4. QED
    BY <1>3, <2>1, <2>2, <2>3 DEF Checkout
<1>4. CASE Refund(d)
  <2>1. CASE RefundLookup(d)
    BY <2>1, RunsType DEF RefundLookup, TypeOK
  <2>2. CASE RefundDebit(d)
    BY <2>2, RunsType, RpcType DEF RefundDebit, TypeOK
  <2>3. QED
    BY <1>4, <2>1, <2>2 DEF Refund
<1>5. CASE Approve(d)
  <2>1. CASE ApproveCheck(d)
    BY <2>1, RunsType DEF ApproveCheck, TypeOK
  <2>2. CASE ApproveRead(d)
    BY <2>2, RunsType, ReadsType DEF ApproveRead, TypeOK
  <2>3. CASE ApproveWrite(d)
    BY <2>3, RunsType, OverwritesType DEF ApproveWrite, TypeOK
  <2>4. CASE ApproveMark(d)
    BY <2>4, <1>0, RunsType DEF ApproveMark, TypeOK, TopupStatus
  <2>5. QED
    BY <1>5, <2>1, <2>2, <2>3, <2>4 DEF Approve
<1>6. CASE Reject(d)
  <2>1. CASE RejectTelegramCheck(d)
    BY <2>1, RunsType DEF RejectTelegramCheck, TypeOK
  <2>2. CASE RejectTelegramMark(d)
    BY <2>2, <1>0, RunsType DEF RejectTelegramMark, TypeOK, TopupStatus
  <2>3. CASE RejectWeb(d)
    BY <2>3, <1>0, RunsType DEF RejectWeb, TypeOK, TopupStatus
  <2>4. QED
    BY <1>6, <2>1, <2>2, <2>3 DEF Reject
<1>7. CASE Signup(d)
  <2>1. CASE SignupRead(d)
    BY <2>1, RunsType, ReadsType DEF SignupRead, TypeOK
  <2>2. CASE SignupWrite(d)
    BY <2>2, <1>0, RunsType, OverwritesType DEF SignupWrite, TypeOK
  <2>3. QED
    BY <1>7, <2>1, <2>2 DEF Signup
<1>8. CASE ToolCall(d)
  <2>1. CASE CallPrecheck(d)
    BY <2>1, StepsType DEF CallPrecheck, TypeOK
  <2>2. CASE CallSettle(d)
    BY <2>2, StepsType, RpcType DEF CallSettle, TypeOK
  <2>3. CASE CallUpstreamError(d)
    BY <2>3, StepsType DEF CallUpstreamError, TypeOK
  <2>4. QED
    BY <1>8, <2>1, <2>2, <2>3 DEF ToolCall
<1>9. QED
  BY <1>1, <1>2, <1>3, <1>4, <1>5, <1>6, <1>7, <1>8 DEF Handle

\* A failed call and a crash keep the types.
LEMMA FaultType ==
    ASSUME TypeOK,
           \/ \E d \in Requests : DatabaseError(d) \/ SwallowedError(d)
           \/ \E p \in Procs : Crash(p)
    PROVE  TypeOK'
<1> USE WalletAssumption DEF Call, Outcome, Idle, database
<1>1. ASSUME NEW d \in Requests, DatabaseError(d)
      PROVE  TypeOK'
  BY <1>1, RunsType, StepsType DEF DatabaseError, TypeOK
<1>2. ASSUME NEW d \in Requests, SwallowedError(d)
      PROVE  TypeOK'
  BY <1>2, RunsType, StepsType DEF SwallowedError, TypeOK
<1>3. ASSUME NEW p \in Procs, Crash(p)
      PROVE  TypeOK'
  BY <1>3 DEF Crash, TypeOK
<1>4. QED
  BY <1>1, <1>2, <1>3

\* Every step keeps the types.
LEMMA NextType == TypeOK /\ [Next]_vars => TypeOK'
<1> SUFFICES ASSUME TypeOK, [Next]_vars
             PROVE  TypeOK'
  OBVIOUS
<1>1. ASSUME NEW e \in Events, CreditsRequest(e)
      PROVE  TypeOK'
  BY <1>1 DEF CreditsRequest, TypeOK, TopupStatus
<1>2. CASE UNCHANGED vars
  BY <1>2 DEF vars, database, TypeOK
<1>3. QED
  BY <1>1, <1>2, HandleType, FaultType DEF Next

\* Every variable keeps its type in every behaviour.
THEOREM TypeCorrect == Spec => []TypeOK
  BY InitType, NextType, PTL DEF Spec

-----------------------------------------------------------------------------
(* The books: nothing counts as done before its credits have moved.        *)

\* What makes RecordsBacked inductive: a handler that is about to write its
\* record has moved the credits already.
MovedBeforeRecord ==
    \A d \in Requests :
        pc[d] \in {"log", "record", "mark"} => applied[EventOf[d]] > 0

BackedInv == TypeOK /\ RecordsBacked /\ MovedBeforeRecord

\* Booking a move counts it, and uncounts none.
LEMMA BooksCounts ==
    ASSUME TypeOK, NEW d \in Requests, Books(d)
    PROVE  /\ applied'[EventOf[d]] > 0
           /\ \A e \in Events : applied[e] > 0 => applied'[e] > 0
<1>1. EventOf[d] \in Events
  BY WalletAssumption
<1>2. QED
  BY <1>1 DEF TypeOK, Books

\* A handler's step leaves each record backed by a move.
LEMMA BackedStep ==
    ASSUME BackedInv, NEW d \in Requests, Handle(d)
    PROVE  RecordsBacked' /\ MovedBeforeRecord'
<1> USE WalletAssumption
    DEF BackedInv, TypeOK, RecordsBacked, MovedBeforeRecord, KindOf, UserOf,
        Enters, Starts, Runs, Steps, Moves, Outcome, Call, Idle, database
<1>1. CASE Debit(d)
  <2>1. CASE DebitCheck(d)
    BY <2>1 DEF DebitCheck
  <2>2. CASE DebitSettle(d)
    BY <2>2, BooksCounts DEF DebitSettle, Rpc
  <2>3. CASE DebitLog(d)
    BY <2>3 DEF DebitLog
  <2>4. QED
    BY <1>1, <2>1, <2>2, <2>3 DEF Debit
<1>2. CASE Grant(d)
  <2>1. CASE GrantCheck(d)
    BY <2>1 DEF GrantCheck
  <2>2. CASE AddCreditsRead(d)
    BY <2>2 DEF AddCreditsRead
  <2>3. CASE AddCreditsWrite(d)
    BY <2>3, BooksCounts DEF AddCreditsWrite, Overwrites
  <2>4. CASE GrantLog(d)
    BY <2>4 DEF GrantLog
  <2>5. QED
    BY <1>2, <2>1, <2>2, <2>3, <2>4 DEF Grant
<1>3. CASE Checkout(d)
  <2>1. CASE CheckoutCheck(d)
    BY <2>1 DEF CheckoutCheck
  <2>2. CASE CheckoutCredit(d)
    BY <2>2, BooksCounts DEF CheckoutCredit, Rpc
  <2>3. CASE CheckoutRecord(d)
    BY <2>3 DEF CheckoutRecord
  <2>4. QED
    BY <1>3, <2>1, <2>2, <2>3 DEF Checkout
<1>4. CASE Refund(d)
  <2>1. CASE RefundLookup(d)
    BY <2>1 DEF RefundLookup
  <2>2. CASE RefundDebit(d)
    BY <2>2, BooksCounts DEF RefundDebit, Rpc
  <2>3. QED
    BY <1>4, <2>1, <2>2 DEF Refund
<1>5. CASE Approve(d)
  <2>1. CASE ApproveCheck(d)
    BY <2>1 DEF ApproveCheck
  <2>2. CASE ApproveRead(d)
    BY <2>2 DEF ApproveRead
  <2>3. CASE ApproveWrite(d)
    BY <2>3, BooksCounts DEF ApproveWrite, Overwrites
  <2>4. CASE ApproveMark(d)
    BY <2>4 DEF ApproveMark
  <2>5. QED
    BY <1>5, <2>1, <2>2, <2>3, <2>4 DEF Approve
<1>6. CASE Reject(d)
  <2>1. CASE RejectTelegramCheck(d)
    BY <2>1 DEF RejectTelegramCheck
  <2>2. CASE RejectTelegramMark(d)
    BY <2>2 DEF RejectTelegramMark
  <2>3. CASE RejectWeb(d)
    BY <2>3 DEF RejectWeb
  <2>4. QED
    BY <1>6, <2>1, <2>2, <2>3 DEF Reject
<1>7. CASE Signup(d)
  <2>1. CASE SignupRead(d)
    BY <2>1 DEF SignupRead
  <2>2. CASE SignupWrite(d)
    BY <2>2, BooksCounts DEF SignupWrite, Overwrites
  <2>3. QED
    BY <1>7, <2>1, <2>2 DEF Signup
<1>8. CASE ToolCall(d)
  <2>1. CASE CallPrecheck(d)
    BY <2>1 DEF CallPrecheck
  <2>2. CASE CallSettle(d)
    BY <2>2, BooksCounts DEF CallSettle, Rpc
  <2>3. CASE CallUpstreamError(d)
    BY <2>3 DEF CallUpstreamError
  <2>4. QED
    BY <1>8, <2>1, <2>2, <2>3 DEF ToolCall
<1>9. QED
  BY <1>1, <1>2, <1>3, <1>4, <1>5, <1>6, <1>7, <1>8 DEF Handle

\* Every step does.
LEMMA BackedNext == BackedInv /\ [Next]_vars => BackedInv'
<1> SUFFICES ASSUME BackedInv, [Next]_vars
             PROVE  RecordsBacked' /\ MovedBeforeRecord'
  BY NextType DEF BackedInv
<1> USE WalletAssumption
    DEF BackedInv, TypeOK, RecordsBacked, MovedBeforeRecord, KindOf,
        Runs, Steps, Moves, Outcome, Call, Idle, database
<1>0. CASE UNCHANGED vars
  BY <1>0 DEF vars
<1>1. ASSUME NEW d \in Requests, DatabaseError(d)
      PROVE  RecordsBacked' /\ MovedBeforeRecord'
  BY <1>1 DEF DatabaseError
<1>2. ASSUME NEW d \in Requests, SwallowedError(d)
      PROVE  RecordsBacked' /\ MovedBeforeRecord'
  BY <1>2 DEF SwallowedError
<1>3. ASSUME NEW e \in Events, CreditsRequest(e)
      PROVE  RecordsBacked' /\ MovedBeforeRecord'
  BY <1>3 DEF CreditsRequest
<1>4. ASSUME NEW p \in Procs, Crash(p)
      PROVE  RecordsBacked' /\ MovedBeforeRecord'
  BY <1>4 DEF Crash
<1>5. QED
  BY <1>0, <1>1, <1>2, <1>3, <1>4, BackedStep DEF Next

\* With any number of processes, crashes and database errors, whatever is
\* recorded, granted, approved or answered as done has moved its credits.
THEOREM RecordsAreBacked == Spec => []RecordsBacked
<1>1. Init => BackedInv
  BY InitType, WalletAssumption
     DEF Init, Start, EventLoopInit, BackedInv, RecordsBacked, MovedBeforeRecord, Idle
<1>2. QED
  BY <1>1, BackedNext, PTL DEF Spec, BackedInv

-----------------------------------------------------------------------------
(* The event loop is a mutex: a coroutine between two database calls holds *)
(* the loop of its process.  Only the handlers of debits and tool calls    *)
(* stand between two of their calls without it.                            *)

HoldsLoop ==
    \A d \in Requests :
        pc[d] \in Call =>
            \/ KindOf(d) = "debit" /\ pc[d] \in {"settle", "log"}
            \/ KindOf(d) = "call" /\ pc[d] = "upstream"
            \/ KindOf(d) \notin {"debit", "call"} /\ loop[at[d]] = d

LoopInv == TypeOK /\ HoldsLoop

\* A handler's step leaves one coroutine of a process between two awaits.
LEMMA HoldsLoopStep ==
    ASSUME LoopInv, NEW d \in Requests, Handle(d)
    PROVE  HoldsLoop'
<1> USE WalletAssumption
    DEF LoopInv, TypeOK, HoldsLoop, KindOf, Enters, Starts, Runs, Steps, Moves,
        Outcome, Call, Idle
<1>1. CASE Debit(d)
  <2>1. CASE DebitCheck(d)
    BY <2>1 DEF DebitCheck
  <2>2. CASE DebitSettle(d)
    BY <2>2 DEF DebitSettle
  <2>3. CASE DebitLog(d)
    BY <2>3 DEF DebitLog
  <2>4. QED
    BY <1>1, <2>1, <2>2, <2>3 DEF Debit
<1>2. CASE Grant(d)
  <2>1. CASE GrantCheck(d)
    BY <2>1 DEF GrantCheck
  <2>2. CASE AddCreditsRead(d)
    BY <2>2 DEF AddCreditsRead
  <2>3. CASE AddCreditsWrite(d)
    BY <2>3 DEF AddCreditsWrite
  <2>4. CASE GrantLog(d)
    BY <2>4 DEF GrantLog
  <2>5. QED
    BY <1>2, <2>1, <2>2, <2>3, <2>4 DEF Grant
<1>3. CASE Checkout(d)
  <2>1. CASE CheckoutCheck(d)
    BY <2>1 DEF CheckoutCheck
  <2>2. CASE CheckoutCredit(d)
    BY <2>2 DEF CheckoutCredit
  <2>3. CASE CheckoutRecord(d)
    BY <2>3 DEF CheckoutRecord
  <2>4. QED
    BY <1>3, <2>1, <2>2, <2>3 DEF Checkout
<1>4. CASE Refund(d)
  <2>1. CASE RefundLookup(d)
    BY <2>1 DEF RefundLookup
  <2>2. CASE RefundDebit(d)
    BY <2>2 DEF RefundDebit
  <2>3. QED
    BY <1>4, <2>1, <2>2 DEF Refund
<1>5. CASE Approve(d)
  <2>1. CASE ApproveCheck(d)
    BY <2>1 DEF ApproveCheck
  <2>2. CASE ApproveRead(d)
    BY <2>2 DEF ApproveRead
  <2>3. CASE ApproveWrite(d)
    BY <2>3 DEF ApproveWrite
  <2>4. CASE ApproveMark(d)
    BY <2>4 DEF ApproveMark
  <2>5. QED
    BY <1>5, <2>1, <2>2, <2>3, <2>4 DEF Approve
<1>6. CASE Reject(d)
  <2>1. CASE RejectTelegramCheck(d)
    BY <2>1 DEF RejectTelegramCheck
  <2>2. CASE RejectTelegramMark(d)
    BY <2>2 DEF RejectTelegramMark
  <2>3. CASE RejectWeb(d)
    BY <2>3 DEF RejectWeb
  <2>4. QED
    BY <1>6, <2>1, <2>2, <2>3 DEF Reject
<1>7. CASE Signup(d)
  <2>1. CASE SignupRead(d)
    BY <2>1 DEF SignupRead
  <2>2. CASE SignupWrite(d)
    BY <2>2 DEF SignupWrite
  <2>3. QED
    BY <1>7, <2>1, <2>2 DEF Signup
<1>8. CASE ToolCall(d)
  <2>1. CASE CallPrecheck(d)
    BY <2>1 DEF CallPrecheck
  <2>2. CASE CallSettle(d)
    BY <2>2 DEF CallSettle
  <2>3. CASE CallUpstreamError(d)
    BY <2>3 DEF CallUpstreamError
  <2>4. QED
    BY <1>8, <2>1, <2>2, <2>3 DEF ToolCall
<1>9. QED
  BY <1>1, <1>2, <1>3, <1>4, <1>5, <1>6, <1>7, <1>8 DEF Handle

\* Every step does.
LEMMA LoopNext == LoopInv /\ [Next]_vars => LoopInv'
<1> SUFFICES ASSUME LoopInv, [Next]_vars
             PROVE  HoldsLoop'
  BY NextType DEF LoopInv
<1> USE WalletAssumption
    DEF LoopInv, TypeOK, HoldsLoop, KindOf, Runs, Steps, Moves, Outcome,
        Call, Idle
<1>0. CASE UNCHANGED vars
  BY <1>0 DEF vars
<1>1. ASSUME NEW d \in Requests, DatabaseError(d)
      PROVE  HoldsLoop'
  BY <1>1 DEF DatabaseError
<1>2. ASSUME NEW d \in Requests, SwallowedError(d)
      PROVE  HoldsLoop'
  BY <1>2 DEF SwallowedError
<1>3. ASSUME NEW e \in Events, CreditsRequest(e)
      PROVE  HoldsLoop'
  BY <1>3 DEF CreditsRequest
<1>4. ASSUME NEW p \in Procs, Crash(p)
      PROVE  HoldsLoop'
  BY <1>4 DEF Crash
<1>5. QED
  BY <1>0, <1>1, <1>2, <1>3, <1>4, HoldsLoopStep DEF Next

\* Before any request no coroutine runs.
LEMMA LoopInit == Init => LoopInv
  BY InitType DEF Init, Start, EventLoopInit, LoopInv, HoldsLoop, Idle, Call

\* In one process, while a coroutine stands between two of its calls the loop
\* is its own, seen from any request.
LEMMA LoneCoroutine ==
    ASSUME OneProcess, LoopInv, NEW c \in Requests, NEW d \in Requests,
           pc[c] \in Call, KindOf(c) \notin {"debit", "call"}
    PROVE  loop[at[d]] = c
<1>1. loop[at[c]] = c
  BY DEF LoopInv, HoldsLoop
<1>2. at[c] = at[d]
  BY DEF OneProcess, LoopInv, TypeOK
<1>3. QED
  BY <1>1, <1>2

\* While a coroutine runs or may start, no other one is between two calls.
LEMMA OthersRest ==
    ASSUME OneProcess, LoopInv, NEW d \in Requests,
           loop[at[d]] \in {d, NoRequest}, NEW c \in Requests, c # d,
           KindOf(c) \notin {"debit", "call"}
    PROVE  pc[c] \notin Call
  BY LoneCoroutine, WalletAssumption

\* A coroutine takes a step only when the loop is its own or free, a tool call
\* only when it is free.
LEMMA CoroutineLoop ==
    ASSUME LoopInv, NEW d \in Requests, Handle(d),
           KindOf(d) # "debit"
    PROVE  loop[at[d]] \in {d, NoRequest}
  BY WalletAssumption
     DEF LoopInv, HoldsLoop, Handle, Debit, Grant, Checkout, Refund, Approve,
         Reject, Signup, ToolCall, DebitCheck, DebitSettle, DebitLog,
         CallPrecheck, CallSettle, CallUpstreamError, GrantCheck,
         AddCreditsRead, AddCreditsWrite, GrantLog, CheckoutCheck,
         CheckoutCredit, CheckoutRecord, RefundLookup, RefundDebit,
         ApproveCheck, ApproveRead, ApproveWrite, ApproveMark,
         RejectTelegramCheck, RejectTelegramMark, RejectWeb, SignupRead,
         SignupWrite, Enters, Starts, Runs, Moves, Call, KindOf

-----------------------------------------------------------------------------
(* Once, because it was checked: in one process what is checked before the *)
(* credits move still holds when they do.  A fault between a move and its  *)
(* record undoes that, except for a signup, which writes both at once.     *)

OnceKinds == {k \in {"grant", "checkout", "topup", "signup"} :
                 k = "signup" \/ MaxFaults = 0}

\* What the check of a handler looks for.
Done(e) ==
    \/ Kind[e] = "grant" /\ e \in usageLog
    \/ Kind[e] = "checkout" /\ e \in recorded
    \/ Kind[e] = "topup" /\ topup[e] \in {"approved", "rejected"}
    \/ Kind[e] = "signup" /\ Owner[e] \in granted

\* Once credits have moved, the check finds it or the record is being written.
AppliedIsRecorded ==
    \A e \in Events :
        Kind[e] \in OnceKinds /\ applied[e] > 0 =>
            \/ Done(e)
            \/ /\ Kind[e] # "signup"
               /\ \E d \in Requests :
                     EventOf[d] = e /\ pc[d] \in {"log", "record", "mark"}

\* Between its check and its write a handler's check would still pass.
CheckStillHolds ==
    \A d \in Requests :
        KindOf(d) \in OnceKinds /\ pc[d] \in {"read", "write", "credit"} =>
            applied[EventOf[d]] = 0 /\ ~ Done(EventOf[d])

\* The kinds whose handler checks move a balance once, and a user gets one signup
\* grant.
KindsOnce ==
    /\ \A e \in Events : Kind[e] \in OnceKinds => applied[e] <= 1
    /\ \A e, f \in Events :
          /\ Kind[e] = "signup" /\ Kind[f] = "signup" /\ Owner[e] = Owner[f]
          /\ applied[e] > 0 /\ applied[f] > 0
          => e = f

OnceInv == LoopInv /\ KindsOnce /\ AppliedIsRecorded /\ CheckStillHolds

\* A handler's step applies no event twice.
LEMMA OnceStep ==
    ASSUME OneProcess, OnceInv, NEW d \in Requests, Handle(d)
    PROVE  KindsOnce' /\ AppliedIsRecorded' /\ CheckStillHolds'
<1>a. ASSUME KindOf(d) \notin {"debit", "call"},
             NEW c \in Requests, c # d, KindOf(c) \in OnceKinds
      PROVE  pc[c] \notin Call
  BY <1>a, CoroutineLoop, OthersRest DEF OnceInv, OnceKinds
<1> USE WalletAssumption
    DEF OnceInv, LoopInv, TypeOK, KindsOnce, AppliedIsRecorded,
        CheckStillHolds, OnceKinds, Done, KindOf, UserOf, Enters, Starts, Runs, Steps,
        Moves, Outcome, Call, Idle, database
<1>1. CASE Debit(d)
  <2>1. CASE DebitCheck(d)
    BY <2>1 DEF DebitCheck
  <2>2. CASE DebitSettle(d)
    BY <2>2, <1>a DEF DebitSettle, Rpc, Books
  <2>3. CASE DebitLog(d)
    BY <2>3 DEF DebitLog
  <2>4. QED
    BY <1>1, <2>1, <2>2, <2>3 DEF Debit
<1>2. CASE Grant(d)
  <2>1. CASE GrantCheck(d)
    BY <2>1, <1>a DEF GrantCheck
  <2>2. CASE AddCreditsRead(d)
    BY <2>2, <1>a DEF AddCreditsRead
  <2>3. CASE AddCreditsWrite(d)
    <3>1. CASE KindOf(d) = "grant" /\ Runs(d, "write", "log")
      BY <2>3, <3>1, <1>a DEF AddCreditsWrite, Overwrites, Books
    <3>2. CASE KindOf(d) = "add" /\ Runs(d, "write", "ok")
      BY <2>3, <3>2, <1>a DEF AddCreditsWrite, Overwrites, Books
    <3>3. QED
      BY <2>3, <3>1, <3>2 DEF AddCreditsWrite
  <2>4. CASE GrantLog(d)
    BY <2>4, <1>a DEF GrantLog
  <2>5. QED
    BY <1>2, <2>1, <2>2, <2>3, <2>4 DEF Grant
<1>3. CASE Checkout(d)
  <2>1. CASE CheckoutCheck(d)
    BY <2>1, <1>a DEF CheckoutCheck
  <2>2. CASE CheckoutCredit(d)
    BY <2>2, <1>a DEF CheckoutCredit, Rpc, Books
  <2>3. CASE CheckoutRecord(d)
    BY <2>3, <1>a DEF CheckoutRecord
  <2>4. QED
    BY <1>3, <2>1, <2>2, <2>3 DEF Checkout
<1>4. CASE Refund(d)
  <2>1. CASE RefundLookup(d)
    BY <2>1, <1>a DEF RefundLookup
  <2>2. CASE RefundDebit(d)
    BY <2>2, <1>a DEF RefundDebit, Rpc, Books
  <2>3. QED
    BY <1>4, <2>1, <2>2 DEF Refund
<1>5. CASE Approve(d)
  <2>1. CASE ApproveCheck(d)
    BY <2>1, <1>a DEF ApproveCheck
  <2>2. CASE ApproveRead(d)
    BY <2>2, <1>a DEF ApproveRead
  <2>3. CASE ApproveWrite(d)
    BY <2>3, <1>a DEF ApproveWrite, Overwrites, Books
  <2>4. CASE ApproveMark(d)
    BY <2>4, <1>a DEF ApproveMark
  <2>5. QED
    BY <1>5, <2>1, <2>2, <2>3, <2>4 DEF Approve
<1>6. CASE Reject(d)
  <2>1. CASE RejectTelegramCheck(d)
    BY <2>1, <1>a DEF RejectTelegramCheck
  <2>2. CASE RejectTelegramMark(d)
    BY <2>2, <1>a DEF RejectTelegramMark
  <2>3. CASE RejectWeb(d)
    BY <2>3, <1>a DEF RejectWeb
  <2>4. QED
    BY <1>6, <2>1, <2>2, <2>3 DEF Reject
<1>7. CASE Signup(d)
  <2>1. CASE SignupRead(d)
    BY <2>1, <1>a DEF SignupRead
  <2>2. CASE SignupWrite(d)
    <3>a. EventOf[d] \in Events /\ Kind[EventOf[d]] = "signup" /\ pc[d] = "write"
      BY <2>2 DEF SignupWrite
    <3>b. \A f \in Events :
             Kind[f] = "signup" /\ Owner[f] = UserOf(d) => applied[f] = 0
      <4> SUFFICES ASSUME NEW f \in Events, Kind[f] = "signup",
                          Owner[f] = UserOf(d), applied[f] > 0
                   PROVE  FALSE
        OBVIOUS
      <4>1. UserOf(d) \in granted
        BY ONLY <3>a, OnceInv, Kind[f] = "signup", Owner[f] = UserOf(d), applied[f] > 0
           DEF OnceInv, AppliedIsRecorded, OnceKinds, Done
      <4>2. QED
        BY ONLY <3>a, <4>1, OnceInv
           DEF OnceInv, CheckStillHolds, OnceKinds, KindOf, UserOf, Done
    <3>c. \A f \in Events :
             applied'[f] = IF f = EventOf[d] THEN 1 ELSE applied[f]
      BY <2>2, <3>a, <3>b DEF SignupWrite, Overwrites, Books
    <3>1. KindsOnce'
      <4>1. \A f \in Events : Kind[f] \in OnceKinds => applied'[f] <= 1
        BY ONLY <3>c, OnceInv DEF OnceInv, KindsOnce
      <4>2. ASSUME NEW f \in Events, NEW g \in Events,
                   Kind[f] = "signup", Kind[g] = "signup", Owner[f] = Owner[g],
                   applied'[f] > 0, applied'[g] > 0
            PROVE  f = g
        <5>1. CASE f = EventOf[d] \/ g = EventOf[d]
          BY ONLY <3>b, <3>c, <4>2, <5>1 DEF UserOf
        <5>2. CASE f # EventOf[d] /\ g # EventOf[d]
          BY ONLY <3>c, <4>2, <5>2, OnceInv DEF OnceInv, KindsOnce
        <5>3. QED
          BY ONLY <5>1, <5>2
      <4>3. QED
        BY ONLY <4>1, <4>2 DEF KindsOnce, OnceKinds
    <3>2. AppliedIsRecorded'
      BY <2>2, <1>a DEF SignupWrite, Overwrites, Books
    <3>3. CheckStillHolds'
      BY <2>2, <1>a DEF SignupWrite, Overwrites, Books
    <3>4. QED
      BY <3>1, <3>2, <3>3
  <2>3. QED
    BY <1>7, <2>1, <2>2 DEF Signup
<1>8. CASE ToolCall(d)
  <2>1. CASE CallPrecheck(d)
    BY <2>1 DEF CallPrecheck
  <2>2. CASE CallSettle(d)
    BY <2>2, <1>a DEF CallSettle, Rpc, Books
  <2>3. CASE CallUpstreamError(d)
    BY <2>3 DEF CallUpstreamError
  <2>4. QED
    BY <1>8, <2>1, <2>2, <2>3 DEF ToolCall
<1>9. QED
  BY <1>1, <1>2, <1>3, <1>4, <1>5, <1>6, <1>7, <1>8 DEF Handle

\* No step does, in one process.
LEMMA OnceNext ==
    ASSUME OneProcess
    PROVE  OnceInv /\ [Next]_vars => OnceInv'
<1> SUFFICES ASSUME OnceInv, [Next]_vars
             PROVE  KindsOnce' /\ AppliedIsRecorded' /\ CheckStillHolds'
  BY LoopNext DEF OnceInv
<1> USE WalletAssumption
    DEF OnceInv, LoopInv, TypeOK, KindsOnce, AppliedIsRecorded,
        CheckStillHolds, OnceKinds, Done, KindOf, UserOf, Runs, Steps, Moves,
        Outcome, Call, Idle, database
<1>0. CASE UNCHANGED vars
  BY <1>0 DEF vars
<1>1. ASSUME NEW d \in Requests, DatabaseError(d)
      PROVE  KindsOnce' /\ AppliedIsRecorded' /\ CheckStillHolds'
  BY <1>1 DEF DatabaseError
<1>2. ASSUME NEW d \in Requests, SwallowedError(d)
      PROVE  KindsOnce' /\ AppliedIsRecorded' /\ CheckStillHolds'
  BY <1>2 DEF SwallowedError
<1>3. ASSUME NEW e \in Events, CreditsRequest(e)
      PROVE  KindsOnce' /\ AppliedIsRecorded' /\ CheckStillHolds'
  BY <1>3 DEF CreditsRequest
<1>4. ASSUME NEW p \in Procs, Crash(p)
      PROVE  KindsOnce' /\ AppliedIsRecorded' /\ CheckStillHolds'
  BY <1>4 DEF Crash
<1>5. QED
  BY <1>0, <1>1, <1>2, <1>3, <1>4, OnceStep DEF Next

-----------------------------------------------------------------------------
(* Rejection: a top-up whose approval is under way is pending still.       *)

PendingWhileApproving ==
    \A d \in Requests :
        KindOf(d) = "topup" /\ pc[d] \in {"read", "write"} =>
            topup[EventOf[d]] = "pending"

PendingInv == LoopInv /\ PendingWhileApproving

RejectedStays ==
    \A e \in Events :
        Kind[e] = "topup" /\ topup[e] = "rejected" => applied'[e] = applied[e]

\* A handler's step changes no rejected top-up.
LEMMA PendingStep ==
    ASSUME OneProcess, PendingInv, NEW d \in Requests, Handle(d)
    PROVE  PendingWhileApproving' /\ RejectedStays
<1>a. ASSUME KindOf(d) \notin {"debit", "call"},
             NEW c \in Requests, c # d, KindOf(c) = "topup"
      PROVE  pc[c] \notin Call
  BY <1>a, CoroutineLoop, OthersRest DEF PendingInv
<1> USE WalletAssumption
    DEF PendingInv, LoopInv, TypeOK, PendingWhileApproving, RejectedStays,
        KindOf, Enters, Starts, Runs, Steps, Moves, Outcome, Call, Idle, database
<1>1. CASE Debit(d)
  <2>1. CASE DebitCheck(d)
    BY <2>1 DEF DebitCheck
  <2>2. CASE DebitSettle(d)
    BY <2>2 DEF DebitSettle, Rpc, Books
  <2>3. CASE DebitLog(d)
    BY <2>3 DEF DebitLog
  <2>4. QED
    BY <1>1, <2>1, <2>2, <2>3 DEF Debit
<1>2. CASE Grant(d)
  <2>1. CASE GrantCheck(d)
    BY <2>1, <1>a DEF GrantCheck
  <2>2. CASE AddCreditsRead(d)
    BY <2>2, <1>a DEF AddCreditsRead
  <2>3. CASE AddCreditsWrite(d)
    BY <2>3, <1>a DEF AddCreditsWrite, Overwrites, Books
  <2>4. CASE GrantLog(d)
    BY <2>4, <1>a DEF GrantLog
  <2>5. QED
    BY <1>2, <2>1, <2>2, <2>3, <2>4 DEF Grant
<1>3. CASE Checkout(d)
  <2>1. CASE CheckoutCheck(d)
    BY <2>1, <1>a DEF CheckoutCheck
  <2>2. CASE CheckoutCredit(d)
    BY <2>2, <1>a DEF CheckoutCredit, Rpc, Books
  <2>3. CASE CheckoutRecord(d)
    BY <2>3, <1>a DEF CheckoutRecord
  <2>4. QED
    BY <1>3, <2>1, <2>2, <2>3 DEF Checkout
<1>4. CASE Refund(d)
  <2>1. CASE RefundLookup(d)
    BY <2>1, <1>a DEF RefundLookup
  <2>2. CASE RefundDebit(d)
    BY <2>2, <1>a DEF RefundDebit, Rpc, Books
  <2>3. QED
    BY <1>4, <2>1, <2>2 DEF Refund
<1>5. CASE Approve(d)
  <2>1. CASE ApproveCheck(d)
    BY <2>1, <1>a DEF ApproveCheck
  <2>2. CASE ApproveRead(d)
    BY <2>2, <1>a DEF ApproveRead
  <2>3. CASE ApproveWrite(d)
    BY <2>3, <1>a DEF ApproveWrite, Overwrites, Books
  <2>4. CASE ApproveMark(d)
    BY <2>4, <1>a DEF ApproveMark
  <2>5. QED
    BY <1>5, <2>1, <2>2, <2>3, <2>4 DEF Approve
<1>6. CASE Reject(d)
  <2>1. CASE RejectTelegramCheck(d)
    BY <2>1, <1>a DEF RejectTelegramCheck
  <2>2. CASE RejectTelegramMark(d)
    BY <2>2, <1>a DEF RejectTelegramMark
  <2>3. CASE RejectWeb(d)
    BY <2>3, <1>a DEF RejectWeb
  <2>4. QED
    BY <1>6, <2>1, <2>2, <2>3 DEF Reject
<1>7. CASE Signup(d)
  <2>1. CASE SignupRead(d)
    BY <2>1, <1>a DEF SignupRead
  <2>2. CASE SignupWrite(d)
    BY <2>2, <1>a DEF SignupWrite, Overwrites, Books
  <2>3. QED
    BY <1>7, <2>1, <2>2 DEF Signup
<1>8. CASE ToolCall(d)
  <2>1. CASE CallPrecheck(d)
    BY <2>1 DEF CallPrecheck
  <2>2. CASE CallSettle(d)
    BY <2>2 DEF CallSettle, Rpc, Books
  <2>3. CASE CallUpstreamError(d)
    BY <2>3 DEF CallUpstreamError
  <2>4. QED
    BY <1>8, <2>1, <2>2, <2>3 DEF ToolCall
<1>9. QED
  BY <1>1, <1>2, <1>3, <1>4, <1>5, <1>6, <1>7, <1>8 DEF Handle

\* No step does, in one process.
LEMMA PendingNext ==
    ASSUME OneProcess
    PROVE  PendingInv /\ [Next]_vars => PendingInv' /\ (RejectedStays \/ UNCHANGED vars)
<1> SUFFICES ASSUME PendingInv, [Next]_vars
             PROVE  PendingWhileApproving' /\ (RejectedStays \/ UNCHANGED vars)
  BY LoopNext DEF PendingInv
<1> USE WalletAssumption
    DEF PendingInv, LoopInv, TypeOK, PendingWhileApproving, RejectedStays,
        KindOf, Runs, Steps, Moves, Outcome, Call, Idle, database
<1>0. CASE UNCHANGED vars
  BY <1>0 DEF vars
<1>1. ASSUME NEW d \in Requests, DatabaseError(d)
      PROVE  PendingWhileApproving' /\ RejectedStays
  BY <1>1 DEF DatabaseError
<1>2. ASSUME NEW d \in Requests, SwallowedError(d)
      PROVE  PendingWhileApproving' /\ RejectedStays
  BY <1>2 DEF SwallowedError
<1>3. ASSUME NEW e \in Events, CreditsRequest(e)
      PROVE  PendingWhileApproving' /\ RejectedStays
  BY <1>3 DEF CreditsRequest
<1>4. ASSUME NEW p \in Procs, Crash(p)
      PROVE  PendingWhileApproving' /\ RejectedStays
  BY <1>4 DEF Crash
<1>5. QED
  BY <1>0, <1>1, <1>2, <1>3, <1>4, PendingStep DEF Next

\* In one process a top-up that has been rejected is not credited any more,
\* crashes and database errors included.
THEOREM RejectionHolds ==
    ASSUME OneProcess
    PROVE  Spec => RejectedIsFinal
<1>1. Init => PendingInv
  BY LoopInit DEF Init, Start, EventLoopInit, PendingInv, PendingWhileApproving, Idle
<1>2. PendingInv /\ [Next]_vars => PendingInv' /\ [RejectedStays]_vars
  BY PendingNext
<1>3. QED
  BY <1>1, <1>2, PTL DEF Spec, RejectedIsFinal, RejectedStays

-----------------------------------------------------------------------------
(* What a handler's step does to the wallet. *)

\* A request that stands here has moved its credits, or will not.
Moved == {"log", "record", "mark"} \cup Outcome

\* A step leaves the wallet alone, adds the amount to it, or, in the handlers that
\* compute a balance, writes what it computed.  A request moves credits once, and
\* one that is about to write has just read.
Effect(d) ==
    /\ \/ UNCHANGED <<balance, applied>>
       \/ pc[d] \notin Moved /\ KindOf(d) \notin Computing /\ Rpc(d)
       \/ pc[d] = "write" /\ KindOf(d) \in Computing /\ Overwrites(d)
    /\ pc' = [pc EXCEPT ![d] = pc'[d]]
    /\ pc'[d] \in Moved \/ (pc[d] \notin Moved /\ UNCHANGED <<balance, applied>>)
    /\ UNCHANGED seen \/ ReadsBalance(d)
    /\ pc'[d] = "write" =>
          KindOf(d) \in Computing /\ ReadsBalance(d) /\ UNCHANGED balance

\* Every step of a handler has this effect.
LEMMA HandleEffect ==
    ASSUME TypeOK, NEW d \in Requests, Handle(d)
    PROVE  Effect(d)
<1> USE WalletAssumption
    DEF TypeOK, Effect, Moved, Computing, KindOf, Enters, Starts, Runs, Steps,
        Moves, Outcome, Call, Idle, database
<1>1. CASE Debit(d)
  <2>1. CASE DebitCheck(d)
    BY <2>1 DEF DebitCheck
  <2>2. CASE DebitSettle(d)
    BY <2>2 DEF DebitSettle
  <2>3. CASE DebitLog(d)
    BY <2>3 DEF DebitLog
  <2>4. QED
    BY <1>1, <2>1, <2>2, <2>3 DEF Debit
<1>2. CASE Grant(d)
  <2>1. CASE GrantCheck(d)
    BY <2>1 DEF GrantCheck
  <2>2. CASE AddCreditsRead(d)
    BY <2>2 DEF AddCreditsRead
  <2>3. CASE AddCreditsWrite(d)
    BY <2>3 DEF AddCreditsWrite
  <2>4. CASE GrantLog(d)
    BY <2>4 DEF GrantLog
  <2>5. QED
    BY <1>2, <2>1, <2>2, <2>3, <2>4 DEF Grant
<1>3. CASE Checkout(d)
  <2>1. CASE CheckoutCheck(d)
    BY <2>1 DEF CheckoutCheck
  <2>2. CASE CheckoutCredit(d)
    BY <2>2 DEF CheckoutCredit
  <2>3. CASE CheckoutRecord(d)
    BY <2>3 DEF CheckoutRecord
  <2>4. QED
    BY <1>3, <2>1, <2>2, <2>3 DEF Checkout
<1>4. CASE Refund(d)
  <2>1. CASE RefundLookup(d)
    BY <2>1 DEF RefundLookup
  <2>2. CASE RefundDebit(d)
    BY <2>2 DEF RefundDebit
  <2>3. QED
    BY <1>4, <2>1, <2>2 DEF Refund
<1>5. CASE Approve(d)
  <2>1. CASE ApproveCheck(d)
    BY <2>1 DEF ApproveCheck
  <2>2. CASE ApproveRead(d)
    BY <2>2 DEF ApproveRead
  <2>3. CASE ApproveWrite(d)
    BY <2>3 DEF ApproveWrite
  <2>4. CASE ApproveMark(d)
    BY <2>4 DEF ApproveMark
  <2>5. QED
    BY <1>5, <2>1, <2>2, <2>3, <2>4 DEF Approve
<1>6. CASE Reject(d)
  <2>1. CASE RejectTelegramCheck(d)
    BY <2>1 DEF RejectTelegramCheck
  <2>2. CASE RejectTelegramMark(d)
    BY <2>2 DEF RejectTelegramMark
  <2>3. CASE RejectWeb(d)
    BY <2>3 DEF RejectWeb
  <2>4. QED
    BY <1>6, <2>1, <2>2, <2>3 DEF Reject
<1>7. CASE Signup(d)
  <2>1. CASE SignupRead(d)
    BY <2>1 DEF SignupRead
  <2>2. CASE SignupWrite(d)
    BY <2>2 DEF SignupWrite
  <2>3. QED
    BY <1>7, <2>1, <2>2 DEF Signup
<1>8. CASE ToolCall(d)
  <2>1. CASE CallPrecheck(d)
    BY <2>1 DEF CallPrecheck
  <2>2. CASE CallSettle(d)
    BY <2>2 DEF CallSettle
  <2>3. CASE CallUpstreamError(d)
    BY <2>3 DEF CallUpstreamError
  <2>4. QED
    BY <1>8, <2>1, <2>2, <2>3 DEF ToolCall
<1>9. QED
  BY <1>1, <1>2, <1>3, <1>4, <1>5, <1>6, <1>7, <1>8 DEF Handle

\* A step that leaves the wallet alone and takes a request at most to an outcome or
\* into a tool call.
NoEffect ==
    /\ UNCHANGED <<balance, seen, applied>>
    /\ \A d \in Requests : \/ pc'[d] = pc[d]
                           \/ pc'[d] \in Outcome
                           \/ pc[d] = Idle /\ pc'[d] = "upstream"

\* The other steps are such steps.
LEMMA OtherEffect ==
    ASSUME TypeOK, [Next]_vars, ~ \E d \in Requests : Handle(d)
    PROVE  NoEffect
<1> USE DEF NoEffect, TypeOK, Runs, Steps, Moves, Outcome, Call, Idle, database
<1>0. CASE UNCHANGED vars
  BY <1>0 DEF vars
<1>1. ASSUME NEW d \in Requests, DatabaseError(d)
      PROVE  NoEffect
  BY <1>1 DEF DatabaseError
<1>2. ASSUME NEW d \in Requests, SwallowedError(d)
      PROVE  NoEffect
  BY <1>2 DEF SwallowedError
<1>3. ASSUME NEW e \in Events, CreditsRequest(e)
      PROVE  NoEffect
  BY <1>3 DEF CreditsRequest
<1>4. ASSUME NEW p \in Procs, Crash(p)
      PROVE  NoEffect
  BY <1>4 DEF Crash
<1>5. QED
  BY <1>0, <1>1, <1>2, <1>3, <1>4 DEF Next

-----------------------------------------------------------------------------
(* Once, because it arrives once. *)

\* An event that one request carries is applied by that request, and not before it
\* stands where credits have moved.
SingleOnce ==
    \A d \in Requests : Single(EventOf[d]) =>
        /\ applied[EventOf[d]] <= 1
        /\ pc[d] \notin Moved => applied[EventOf[d]] = 0

\* An event that no request carries is not applied.
Carried == \A e \in Events : applied[e] > 0 => \E d \in Requests : EventOf[d] = e

SingleInv == TypeOK /\ SingleOnce /\ Carried

\* Every step keeps that.
LEMMA SingleNext == SingleInv /\ [Next]_vars => SingleInv'
<1> SUFFICES ASSUME SingleInv, [Next]_vars
             PROVE  SingleOnce' /\ Carried'
  BY NextType DEF SingleInv
<1> USE DEF SingleInv
<1>1. ASSUME NEW d \in Requests, Handle(d)
      PROVE  SingleOnce' /\ Carried'
  <2>1. Effect(d) /\ EventOf[d] \in Events
    BY <1>1, HandleEffect, WalletAssumption
  <2>2. UNCHANGED applied \/ (pc[d] \notin Moved /\ Books(d))
    BY <2>1 DEF Effect, Rpc, Overwrites, Moved, Outcome
  <2>3. SingleOnce'
    <3> SUFFICES ASSUME NEW c \in Requests, Single(EventOf[c])
                 PROVE  /\ applied'[EventOf[c]] <= 1
                        /\ pc'[c] \notin Moved => applied'[EventOf[c]] = 0
      BY DEF SingleOnce
    <3>1. EventOf[c] \in Events
      BY WalletAssumption
    <3>2. CASE c = d
      <4>1. CASE UNCHANGED applied
        BY <4>1, <3>2, <2>1 DEF SingleOnce, Effect
      <4>2. CASE pc[d] \notin Moved /\ Books(d)
        <5>1. pc'[d] \in Moved
          BY <2>1, <2>2, <4>2, <3>1, <3>2 DEF Effect, Books, TypeOK
        <5>2. QED
          BY <4>2, <3>1, <3>2, <5>1 DEF SingleOnce, Books, TypeOK
      <4>3. QED
        BY <2>2, <4>1, <4>2
    <3>3. CASE c # d
      <4>1. EventOf[c] # EventOf[d]
        BY <3>3 DEF Single
      <4>2. applied'[EventOf[c]] = applied[EventOf[c]]
        BY <2>1, <2>2, <3>1, <4>1 DEF Books, TypeOK
      <4>3. pc'[c] = pc[c]
        BY <2>1, <3>3 DEF Effect, TypeOK
      <4>4. QED
        BY <4>2, <4>3 DEF SingleOnce
    <3>4. QED
      BY <3>2, <3>3
  <2>4. Carried'
    BY <2>1, <2>2 DEF Carried, Books, TypeOK
  <2>5. QED
    BY <2>3, <2>4
<1>2. CASE ~ \E d \in Requests : Handle(d)
  <2>1. /\ UNCHANGED applied
        /\ \A d \in Requests : pc'[d] \in Moved \/ (pc[d] \notin Moved)
    BY <1>2, OtherEffect DEF NoEffect, Moved, Outcome, Idle
  <2>2. QED
    BY <2>1 DEF SingleOnce, Carried
<1>3. QED
  BY <1>1, <1>2

\* What both ways of being applied once add up to.
LEMMA OnceAtMost ==
    ASSUME SingleInv, OneProcess => OnceInv
    PROVE  AppliedOnce
<1>1. ASSUME NEW e \in Once
      PROVE  applied[e] <= 1
  <2>1. e \in Events /\ applied[e] \in Nat
    BY DEF Once, SingleInv, TypeOK
  <2>2. CASE Single(e)
    BY <2>1, <2>2 DEF SingleInv, SingleOnce, Carried
  <2>3. CASE ~ Single(e)
    BY <2>1, <2>3 DEF Once, OnceInv, KindsOnce, OnceKinds
  <2>4. QED
    BY <2>2, <2>3
<1>2. QED
  BY <1>1 DEF AppliedOnce, OnceInv, KindsOnce

AtMostInv == SingleInv /\ (OneProcess => OnceInv)

\* Both hold in the beginning and every step keeps both.
LEMMA AtMostInductive ==
    /\ Init => AtMostInv
    /\ AtMostInv /\ [Next]_vars => AtMostInv'
<1>1. Init => AtMostInv
  BY LoopInit, InitType, WalletAssumption
     DEF Init, Start, EventLoopInit, AtMostInv, SingleInv, SingleOnce, Carried,
         OnceInv, KindsOnce, AppliedIsRecorded, CheckStillHolds, Idle
<1>2. AtMostInv /\ [Next]_vars => AtMostInv'
  BY SingleNext, OnceNext DEF AtMostInv, OneProcess
<1>3. QED
  BY <1>1, <1>2

\* In any number of processes and whatever fails, what is delivered once moves a
\* balance once; in one process a user gets one signup grant and, as long as it
\* meets no fault, a grant, a paid session and a top-up move a balance once however
\* often they are delivered.
THEOREM EventsApplyOnce == Spec => []AppliedOnce
<1>1. AtMostInv => AppliedOnce
  BY OnceAtMost DEF AtMostInv
<1>2. QED
  BY <1>1, AtMostInductive, PTL DEF Spec

-----------------------------------------------------------------------------
(* The wallet implements the ledger. *)

\* A handler that is about to write a computed balance computes one, and has seen
\* the current one if the user is guarded.
SeenIsCurrent ==
    \A d \in Requests : pc[d] = "write" =>
        /\ KindOf(d) \in Computing
        /\ UserOf(d) \in Guarded => seen[d] = balance[UserOf(d)]

SeenInv == LoopInv /\ SeenIsCurrent

\* Nobody else moves the balance of a guarded user while a handler is about to
\* write it.
LEMMA OnlyWriterMoves ==
    ASSUME SeenInv, NEW c \in Requests, NEW d \in Requests, c # d,
           pc[c] = "write", UserOf(c) \in Guarded, Handle(d)
    PROVE  UserOf(d) # UserOf(c)
<1>1. SUFFICES ASSUME UserOf(d) = UserOf(c)
               PROVE  FALSE
  OBVIOUS
<1>2. EventOf[c] \in Of(UserOf(c)) /\ EventOf[d] \in Of(UserOf(c))
  BY <1>1, WalletAssumption DEF Of, UserOf
<1>3. KindOf(c) \in Computing
  BY DEF SeenInv, SeenIsCurrent
<1>4. OneProcess /\ KindOf(d) # "debit"
  BY <1>2, <1>3 DEF Guarded, KindOf
<1>5. loop[at[d]] = c
  BY <1>3, <1>4, LoneCoroutine DEF SeenInv, Computing, Call
<1>6. loop[at[d]] \in {d, NoRequest}
  BY <1>4, CoroutineLoop DEF SeenInv
<1>7. QED
  BY <1>5, <1>6, WalletAssumption

\* Every step keeps what was read of a guarded balance current until it is written.
LEMMA SeenNext == SeenInv /\ [Next]_vars => SeenInv'
<1> SUFFICES ASSUME SeenInv, [Next]_vars
             PROVE  SeenIsCurrent'
  BY LoopNext DEF SeenInv
<1> USE DEF SeenInv, LoopInv
<1>1. ASSUME NEW d \in Requests, Handle(d), NEW c \in Requests, pc'[c] = "write"
      PROVE  /\ KindOf(c) \in Computing
             /\ UserOf(c) \in Guarded => seen'[c] = balance'[UserOf(c)]
  <2>1. Effect(d) /\ UserOf(c) \in Users /\ UserOf(d) \in Users
    BY <1>1, HandleEffect, WalletAssumption DEF UserOf
  <2>2. CASE c = d
    BY <1>1, <2>1, <2>2 DEF Effect, ReadsBalance, TypeOK
  <2>3. CASE c # d
    <3>1. pc[c] = "write" /\ seen'[c] = seen[c]
      BY <1>1, <2>1, <2>3 DEF Effect, ReadsBalance, TypeOK
    <3>2. KindOf(c) \in Computing
      BY <3>1 DEF SeenIsCurrent
    <3>3. ASSUME UserOf(c) \in Guarded
          PROVE  seen'[c] = balance'[UserOf(c)]
      <4>1. UserOf(d) # UserOf(c)
        BY <1>1, <2>3, <3>1, <3>3, OnlyWriterMoves
      <4>2. balance'[UserOf(c)] = balance[UserOf(c)]
        BY <2>1, <4>1 DEF Effect, Rpc, Overwrites, TypeOK
      <4>3. QED
        BY <3>1, <3>3, <4>2 DEF SeenIsCurrent
    <3>4. QED
      BY <3>2, <3>3
  <2>4. QED
    BY <2>2, <2>3
<1>2. CASE ~ \E d \in Requests : Handle(d)
  BY <1>2, OtherEffect DEF NoEffect, SeenIsCurrent, Outcome
<1>3. SeenIsCurrent' = \A c \in Requests : pc'[c] = "write" =>
                          /\ KindOf(c) \in Computing
                          /\ UserOf(c) \in Guarded => seen'[c] = balance'[UserOf(c)]
  BY DEF SeenIsCurrent, KindOf, UserOf, Guarded, Of, OneProcess
<1>4. QED
  BY <1>1, <1>2, <1>3

\* A handler's step leaves the wallet alone, or moves by its own amount the balance
\* of the one user whose event it counts, if that user is guarded.
LEMMA MovesOwnAmount ==
    ASSUME SeenInv, NEW d \in Requests, Handle(d)
    PROVE  \/ UNCHANGED <<balance, applied>>
           \/ /\ Books(d)
              /\ \A u \in Guarded :
                    balance'[u] = IF u = UserOf(d)
                                  THEN balance[u] + Delta(EventOf[d]) ELSE balance[u]
<1> USE DEF SeenInv, LoopInv
<1>1. Effect(d) /\ UserOf(d) \in Users /\ Guarded \subseteq Users
  BY HandleEffect, WalletAssumption DEF UserOf, Guarded
<1>2. CASE Rpc(d)
  BY <1>1, <1>2 DEF Rpc, TypeOK
<1>3. CASE pc[d] = "write" /\ KindOf(d) \in Computing /\ Overwrites(d)
  <2>1. Delta(EventOf[d]) = Amount[EventOf[d]]
    BY <1>3 DEF Computing, KindOf, Delta, Charges
  <2>2. UserOf(d) \in Guarded => seen[d] = balance[UserOf(d)]
    BY <1>3 DEF SeenIsCurrent
  <2>3. QED
    BY <1>1, <1>3, <2>1, <2>2 DEF Overwrites, TypeOK
<1>4. QED
  BY <1>1, <1>2, <1>3 DEF Effect

LedgerInv == SeenInv /\ AtMostInv

\* Every step maps to a step of the ledger or a stutter.
LEMMA LedgerNext == LedgerInv /\ [Next]_vars => LedgerInv' /\ [L!Next]_(L!vars)
<1> SUFFICES ASSUME LedgerInv, [Next]_vars
             PROVE  [L!Next]_(L!vars)
  BY SeenNext, AtMostInductive DEF LedgerInv
<1> DEFINE Entries == {f \in Events : Owner[f] \in Guarded}
           bal == [u \in Guarded |-> balance[u]]
           posted == [f \in Entries |-> applied[f]]
<1>1. ASSUME UNCHANGED <<balance, applied>>
      PROVE  [L!Next]_(L!vars)
  BY <1>1 DEF L!vars, Guarded, Of, OneProcess
<1>2. ASSUME NEW d \in Requests, Handle(d)
      PROVE  [L!Next]_(L!vars)
  <2> DEFINE e == EventOf[d]
  <2>1. CASE UNCHANGED <<balance, applied>>
    BY <1>1, <2>1
  <2>2. ASSUME Books(d),
               \A u \in Guarded :
                  balance'[u] = IF u = UserOf(d)
                                THEN balance[u] + Delta(e) ELSE balance[u]
        PROVE  [L!Next]_(L!vars)
    <3>1. e \in Events /\ UserOf(d) = Owner[e] /\ applied \in [Events -> Nat]
      BY WalletAssumption DEF UserOf, LedgerInv, SeenInv, LoopInv, TypeOK
    <3>2. \A f \in Events : applied'[f] = IF f = e THEN applied[e] + 1 ELSE applied[f]
      BY <2>2, <3>1 DEF Books
    <3>3. e \in Once => applied[e] = 0
      <4>1. AppliedOnce'
        BY AtMostInductive, OnceAtMost, PTL DEF AtMostInv, LedgerInv
      <4>2. QED
        BY <3>1, <3>2, <4>1 DEF AppliedOnce
    <3>4. Guarded' = Guarded
      BY DEF Guarded, Of, OneProcess
    <3>5. CASE Owner[e] \notin Guarded
      <4>1. bal' = bal /\ posted' = posted
        BY <2>2, <3>1, <3>2, <3>4, <3>5
      <4>2. QED
        BY <4>1 DEF L!vars
    <3>6. CASE Owner[e] \in Guarded
      <4>1. e \in Entries /\ (e \in Once => posted[e] = 0)
        BY <3>1, <3>3, <3>6
      <4>2. posted' = [posted EXCEPT ![e] = @ + 1]
        BY <3>1, <3>2, <3>4, <3>6
      <4>3. bal' = [bal EXCEPT ![Owner[e]] = @ + [f \in Events |-> Delta(f)][e]]
        BY <2>2, <3>1, <3>4, <3>6
      <4>4. L!Post(e)
        BY <4>1, <4>2, <4>3 DEF L!Post
      <4>5. QED
        BY <4>1, <4>4 DEF L!Next
    <3>7. QED
      BY <3>5, <3>6
  <2>3. QED
    BY <1>2, <2>1, <2>2, MovesOwnAmount DEF LedgerInv
<1>3. CASE ~ \E d \in Requests : Handle(d)
  BY <1>1, <1>3, OtherEffect DEF NoEffect, LedgerInv, SeenInv, LoopInv
<1>4. QED
  BY <1>2, <1>3

\* The wallet implements the ledger: however many processes and faults there are,
\* the balance of a user whom no handler computes a balance for, or whose requests
\* all run as coroutines of one process, is the initial one plus the amounts of the
\* events that moved it, and none that must move it once moves it again.
THEOREM WalletImplementsLedger == Spec => LedgerSpec
<1>1. Init => LedgerInv /\ L!Init
  BY AtMostInductive, LoopInit, WalletAssumption
     DEF Init, Start, EventLoopInit, LedgerInv, SeenInv, SeenIsCurrent, Idle,
         Guarded, L!Init
<1>2. LedgerInv /\ [Next]_vars => LedgerInv' /\ [L!Next]_(L!vars)
  BY LedgerNext
<1>3. QED
  BY <1>1, <1>2, PTL DEF Spec, LedgerSpec, L!Spec
=============================================================================
