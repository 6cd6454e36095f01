------------------------------- MODULE Wallet -------------------------------
(***************************************************************************)
(* Every writer of users.credit_balance, at the grain of database calls.   *)
(*                                                                         *)
(* A request is an HTTP request that reaches the service: a POST           *)
(* /wallet/debit of the scholar BFF, an internal grant, a Stripe webhook   *)
(* event, a press on an approve or reject button, a signup, a tool call.   *)
(* Several requests may carry the same event (a retry, a redelivery, a     *)
(* second click).                                                          *)
(*                                                                         *)
(* The handlers are coroutines, but POST /wallet/debit is a plain function *)
(* on the thread pool and interleaves with everything.  Two processes run  *)
(* while a deploy rolls over; any of them may die between two calls.       *)
(***************************************************************************)
EXTENDS Integers, EventLoop

CONSTANTS
    Users,
    Events,       \* what the requests are about
    Kind,         \* Kind[e]: which handler serves e
    Owner,        \* Owner[e]: the user whose wallet e moves
    Amount,       \* Amount[e]: the credits e moves
    SessionOf,    \* SessionOf[e]: the checkout a refund e undoes
    EventOf,      \* EventOf[d]: the event that request d carries
    InitialBalance,
    MinBalance,   \* billing.get_min_balance_to_call()
    MaxFaults     \* bound: crashes and failed database calls in a behaviour

Kinds == {"debit", "grant", "add", "checkout", "refund", "topup", "signup",
          "call"}

ASSUME WalletAssumption ==
    /\ Kind \in [Events -> Kinds]
    /\ Owner \in [Events -> Users]
    /\ Amount \in [Events -> Nat]
    /\ SessionOf \in [Events -> Events]
    /\ EventOf \in [Requests -> Events]
    /\ NoRequest \notin Requests
    /\ InitialBalance \in Int
    /\ MinBalance \in Int
    /\ MaxFaults \in Nat

VARIABLES
    \* database
    balance,      \* users.credit_balance
    usageLog,     \* request_id values in oauth_usage_logs (unique index)
    recorded,     \* stripe_session_id values in credit_topup_requests (unique)
    topup,        \* credit_topup_requests.status
    granted,      \* users whose signup_grant_at is set
    \* requests
    seen,         \* the balance a read-modify-write handler has read
    faults,
    \* history
    applied       \* how often an event has moved a balance

database == <<balance, usageLog, recorded, topup, granted>>
vars == <<database, at, pc, seen, loop, faults, applied>>

Call == {"settle", "log", "read", "write", "credit", "record",
         "debit", "mark", "markRejected", "upstream"}
TopupStatus == {"none", "pending", "approved", "rejected"}

Charges == {"debit", "refund", "call"}

KindOf(d) == Kind[EventOf[d]]
UserOf(d) == Owner[EventOf[d]]
Delta(e) == IF Kind[e] \in Charges THEN - Amount[e] ELSE Amount[e]

TypeOK ==
    /\ balance \in [Users -> Int]
    /\ usageLog \subseteq Events
    /\ recorded \subseteq Events
    /\ topup \in [Events -> TopupStatus]
    /\ granted \subseteq Users
    /\ at \in [Requests -> Procs]
    /\ pc \in [Requests -> {Idle} \cup Call \cup Outcome]
    /\ seen \in [Requests -> Int]
    /\ loop \in [Procs -> Requests \cup {NoRequest}]
    /\ faults \in 0 .. MaxFaults
    /\ applied \in [Events -> Nat]

Start ==
    /\ balance = [u \in Users |-> InitialBalance]
    /\ usageLog = {}
    /\ recorded = {}
    /\ topup = [e \in Events |-> "none"]
    /\ granted = {}
    /\ seen = [d \in Requests |-> 0]
    /\ faults = 0
    /\ applied = [e \in Events |-> 0]

Init == Start /\ EventLoopInit

-----------------------------------------------------------------------------
(* What the handlers share. *)

Enters(d, kind, to) ==
    /\ KindOf(d) = kind
    /\ Starts(d, to)

Books(d) == applied' = [applied EXCEPT ![EventOf[d]] = @ + 1]

\* settle_credits_user and credit_wallet_user: one UPDATE adds the amount.
Rpc(d) ==
    /\ balance' = [balance EXCEPT ![UserOf(d)] = @ + Delta(EventOf[d])]
    /\ Books(d)

\* An UPDATE with a value computed from the balance read before.
Overwrites(d) ==
    /\ balance' = [balance EXCEPT ![UserOf(d)] = seen[d] + Amount[EventOf[d]]]
    /\ Books(d)

ReadsBalance(d) == seen' = [seen EXCEPT ![d] = balance[UserOf(d)]]

-----------------------------------------------------------------------------
(* POST /api/v1/wallet/debit, on the thread pool.                          *)

DebitCheck(d) ==
    /\ KindOf(d) = "debit"
    /\ Steps(d, Idle, IF EventOf[d] \in usageLog THEN "duplicate" ELSE "settle")
    /\ UNCHANGED <<database, seen, faults, applied>>

\* Mutant: a settlement whose reply was lost is sent again.
DebitSettleRetried(d) ==
    /\ KindOf(d) = "debit"
    /\ \E to \in {"settle", "log"} : Steps(d, "settle", to)
    /\ Rpc(d)
    /\ UNCHANGED <<usageLog, recorded, topup, granted, seen, faults>>

DebitSettle(d) ==
    /\ KindOf(d) = "debit"
    /\ Steps(d, "settle", "log")
    /\ Rpc(d)
    /\ UNCHANGED <<usageLog, recorded, topup, granted, seen, faults>>

\* A second row with the same request_id violates the unique index: HTTP 500.
DebitLog(d) ==
    /\ KindOf(d) = "debit"
    /\ Steps(d, "log", IF EventOf[d] \in usageLog THEN "failed" ELSE "ok")
    /\ usageLog' = usageLog \cup {EventOf[d]}
    /\ UNCHANGED <<balance, recorded, topup, granted, seen, faults, applied>>

-----------------------------------------------------------------------------
(* POST /api/internal/admin/credits and POST /admin/users/{id}/add-credits. *)

\* Mutant: no look at oauth_usage_logs before the credits are added.
GrantUnchecked(d) ==
    /\ Enters(d, "grant", "read")
    /\ UNCHANGED <<database, seen, faults, applied>>

GrantCheck(d) ==
    /\ Enters(d, "grant",
              IF EventOf[d] \in usageLog THEN "duplicate" ELSE "read")
    /\ UNCHANGED <<database, seen, faults, applied>>

\* Mutant: an await between the read and the write.
AddCreditsAwaits(d) ==
    /\ KindOf(d) = "add"
    /\ loop[at[d]] = NoRequest
    /\ Steps(d, Idle, "write")
    /\ ReadsBalance(d)
    /\ UNCHANGED <<database, faults, applied>>

AddCreditsRead(d) ==
    /\ \/ KindOf(d) = "grant" /\ Runs(d, "read", "write")
       \/ Enters(d, "add", "write")
    /\ ReadsBalance(d)
    /\ UNCHANGED <<database, faults, applied>>

AddCreditsWrite(d) ==
    /\ \/ KindOf(d) = "grant" /\ Runs(d, "write", "log")
       \/ KindOf(d) = "add" /\ Runs(d, "write", "ok")
    /\ Overwrites(d)
    /\ UNCHANGED <<usageLog, recorded, topup, granted, seen, faults>>

\* Mutant: the row carries the user's id where the request's belongs.
GrantLogsUser(d) ==
    /\ KindOf(d) = "grant"
    /\ Runs(d, "log", "ok")
    /\ usageLog' = usageLog \cup {UserOf(d)}
    /\ UNCHANGED <<balance, recorded, topup, granted, seen, faults, applied>>

\* The insert is tried last and any exception of it is swallowed, a violation
\* of the unique index included.
GrantLog(d) ==
    /\ KindOf(d) = "grant"
    /\ Runs(d, "log", "ok")
    /\ usageLog' = usageLog \cup {EventOf[d]}
    /\ UNCHANGED <<balance, recorded, topup, granted, seen, faults, applied>>

-----------------------------------------------------------------------------
(* POST /webhook/stripe. *)

\* Mutant: the session is recorded before its credits are added.
CheckoutClaims(d) ==
    /\ Enters(d, "checkout",
              IF EventOf[d] \in recorded THEN "duplicate" ELSE "credit")
    /\ recorded' = recorded \cup {EventOf[d]}
    /\ UNCHANGED <<balance, usageLog, topup, granted, seen, faults, applied>>

CheckoutCheck(d) ==
    /\ Enters(d, "checkout",
              IF EventOf[d] \in recorded THEN "duplicate" ELSE "credit")
    /\ UNCHANGED <<database, seen, faults, applied>>

CheckoutCredit(d) ==
    /\ KindOf(d) = "checkout"
    /\ Runs(d, "credit", "record")
    /\ Rpc(d)
    /\ UNCHANGED <<usageLog, recorded, topup, granted, seen, faults>>

CheckoutRecord(d) ==
    /\ KindOf(d) = "checkout"
    /\ Runs(d, "record", IF EventOf[d] \in recorded THEN "failed" ELSE "ok")
    /\ recorded' = recorded \cup {EventOf[d]}
    /\ UNCHANGED <<balance, usageLog, topup, granted, seen, faults, applied>>

\* A refund of a payment that is not recorded is answered with 200.
RefundLookup(d) ==
    /\ Enters(d, "refund",
              IF SessionOf[EventOf[d]] \in recorded THEN "debit" ELSE "ignored")
    /\ UNCHANGED <<database, seen, faults, applied>>

RefundDebit(d) ==
    /\ KindOf(d) = "refund"
    /\ Runs(d, "debit", "ok")
    /\ Rpc(d)
    /\ UNCHANGED <<usageLog, recorded, topup, granted, seen, faults>>

-----------------------------------------------------------------------------
(* Top-up requests: the portal files them, Telegram or the panel decides.  *)

CreditsRequest(e) ==
    /\ Kind[e] = "topup"
    /\ topup[e] = "none"
    /\ \E p \in Procs : loop[p] = NoRequest
    /\ topup' = [topup EXCEPT ![e] = "pending"]
    /\ UNCHANGED <<balance, usageLog, recorded, granted, at, pc, seen, loop,
                   faults, applied>>

\* Mutant: an approval does not look at the status.
ApproveUnchecked(d) ==
    /\ topup[EventOf[d]] # "none"
    /\ Enters(d, "topup", "read")
    /\ UNCHANGED <<database, seen, faults, applied>>

\* The buttons exist once the request does.
ApproveCheck(d) ==
    /\ KindOf(d) = "topup"
    /\ topup[EventOf[d]] # "none"
    /\ Enters(d, "topup",
              IF topup[EventOf[d]] = "pending" THEN "read" ELSE "duplicate")
    /\ UNCHANGED <<database, seen, faults, applied>>

ApproveRead(d) ==
    /\ KindOf(d) = "topup"
    /\ Runs(d, "read", "write")
    /\ ReadsBalance(d)
    /\ UNCHANGED <<database, faults, applied>>

ApproveWrite(d) ==
    /\ KindOf(d) = "topup"
    /\ Runs(d, "write", "mark")
    /\ Overwrites(d)
    /\ UNCHANGED <<usageLog, recorded, topup, granted, seen, faults>>

ApproveMark(d) ==
    /\ KindOf(d) = "topup"
    /\ Runs(d, "mark", "ok")
    /\ topup' = [topup EXCEPT ![EventOf[d]] = "approved"]
    /\ UNCHANGED <<balance, usageLog, recorded, granted, seen, faults, applied>>

RejectTelegramCheck(d) ==
    /\ topup[EventOf[d]] # "none"
    /\ Enters(d, "topup", IF topup[EventOf[d]] = "pending"
                            THEN "markRejected" ELSE "duplicate")
    /\ UNCHANGED <<database, seen, faults, applied>>

RejectTelegramMark(d) ==
    /\ KindOf(d) = "topup"
    /\ Runs(d, "markRejected", "ok")
    /\ topup' = [topup EXCEPT ![EventOf[d]] = "rejected"]
    /\ UNCHANGED <<balance, usageLog, recorded, granted, seen, faults, applied>>

\* The panel's reject does not look at the status.
RejectWeb(d) ==
    /\ topup[EventOf[d]] # "none"
    /\ Enters(d, "topup", "ok")
    /\ topup' = [topup EXCEPT ![EventOf[d]] = "rejected"]
    /\ UNCHANGED <<balance, usageLog, recorded, granted, seen, faults, applied>>

-----------------------------------------------------------------------------
(* apply_signup_grant: one UPDATE sets the balance and signup_grant_at.    *)

SignupRead(d) ==
    /\ Enters(d, "signup", IF UserOf(d) \in granted THEN "duplicate" ELSE "write")
    /\ ReadsBalance(d)
    /\ UNCHANGED <<database, faults, applied>>

SignupWrite(d) ==
    /\ KindOf(d) = "signup"
    /\ Runs(d, "write", "ok")
    /\ Overwrites(d)
    /\ granted' = granted \cup {UserOf(d)}
    /\ UNCHANGED <<usageLog, recorded, topup, seen, faults>>

-----------------------------------------------------------------------------
(* A tool call: the coroutine awaits the upstream between its balance      *)
(* check and its settlement, and the loop serves others meanwhile.         *)

CallPrecheck(d) ==
    /\ KindOf(d) = "call"
    /\ loop[at[d]] = NoRequest
    /\ Steps(d, Idle,
             IF balance[UserOf(d)] >= MinBalance THEN "upstream" ELSE "refused")
    /\ UNCHANGED <<database, seen, faults, applied>>

CallSettle(d) ==
    /\ KindOf(d) = "call"
    /\ loop[at[d]] = NoRequest
    /\ Steps(d, "upstream", "ok")
    /\ Rpc(d)
    /\ UNCHANGED <<usageLog, recorded, topup, granted, seen, faults>>

\* An error of the upstream is not billed.
CallUpstreamError(d) ==
    /\ KindOf(d) = "call"
    /\ loop[at[d]] = NoRequest
    /\ Steps(d, "upstream", "failed")
    /\ UNCHANGED <<database, seen, faults, applied>>

-----------------------------------------------------------------------------
(* Faults.  A call whose reply is lost after the database did it is this   *)
(* call followed by a fault of the next one.                               *)

\* An exception in a handler: HTTP 500 or 502, or an error the caller of
\* apply_signup_grant or _do_approve_topup does not see.  A grant reads the
\* balance for its answer before it writes its audit row, and that may fail.
DatabaseError(d) ==
    /\ pc[d] \in Call
    /\ KindOf(d) # "call"
    /\ IF KindOf(d) = "debit" THEN Steps(d, pc[d], "failed")
                              ELSE Runs(d, pc[d], "failed")
    /\ faults < MaxFaults
    /\ faults' = faults + 1
    /\ UNCHANGED <<database, seen, applied>>

\* Exceptions that the code swallows: the audit row of a grant, the balance
\* check of a tool call (which then passes), its settlement (not billed).
SwallowedError(d) ==
    /\ \/ KindOf(d) = "grant" /\ Runs(d, "log", "ok")
       \/ /\ KindOf(d) = "call"
          /\ loop[at[d]] = NoRequest
          /\ Steps(d, Idle, "upstream") \/ Steps(d, "upstream", "ok")
    /\ faults < MaxFaults
    /\ faults' = faults + 1
    /\ UNCHANGED <<database, seen, applied>>

Crash(p) ==
    /\ \E d \in Requests : at[d] = p /\ pc[d] \in Call
    /\ pc' = [d \in Requests |->
                IF at[d] = p /\ pc[d] \in Call THEN "crashed" ELSE pc[d]]
    /\ loop' = [loop EXCEPT ![p] = NoRequest]
    /\ faults < MaxFaults
    /\ faults' = faults + 1
    /\ UNCHANGED <<database, at, seen, applied>>

-----------------------------------------------------------------------------
Debit(d) == DebitCheck(d) \/ DebitSettle(d) \/ DebitLog(d)
Grant(d) ==
    \/ GrantCheck(d)
    \/ AddCreditsRead(d)
    \/ AddCreditsWrite(d)
    \/ GrantLog(d)
Checkout(d) == CheckoutCheck(d) \/ CheckoutCredit(d) \/ CheckoutRecord(d)
Refund(d) == RefundLookup(d) \/ RefundDebit(d)
Approve(d) ==
    \/ ApproveCheck(d)
    \/ ApproveRead(d)
    \/ ApproveWrite(d)
    \/ ApproveMark(d)
Reject(d) == RejectTelegramCheck(d) \/ RejectTelegramMark(d) \/ RejectWeb(d)
Signup(d) == SignupRead(d) \/ SignupWrite(d)
ToolCall(d) == CallPrecheck(d) \/ CallSettle(d) \/ CallUpstreamError(d)

Handle(d) ==
    \/ Debit(d)
    \/ Grant(d)
    \/ Checkout(d)
    \/ Refund(d)
    \/ Approve(d)
    \/ Reject(d)
    \/ Signup(d)
    \/ ToolCall(d)

Next ==
    \/ \E d \in Requests : Handle(d) \/ DatabaseError(d) \/ SwallowedError(d)
    \/ \E e \in Events : CreditsRequest(e)
    \/ \E p \in Procs : Crash(p)

Spec == Init /\ [][Next]_vars

(* A coroutine or a thread that can take its next step takes it, and Stripe *)
(* redelivers an event until it is answered with 200.                      *)
FairSpec == Spec /\ \A d \in Requests : WF_vars(Handle(d))

-----------------------------------------------------------------------------
(* Properties. *)

\* Every handler moves the money before it writes what makes a retry a no-op,
\* so no crash, error or race leaves a request that counts as done, or was
\* answered as done, without its credits having moved.
RecordsBacked ==
    /\ \A e \in usageLog \cup recorded : applied[e] > 0
    /\ \A e \in Events : topup[e] = "approved" => applied[e] > 0
    /\ \A u \in granted :
          \E e \in Events : Kind[e] = "signup" /\ Owner[e] = u /\ applied[e] > 0
    /\ \A d \in Requests :
          /\ KindOf(d) \in {"debit", "grant", "checkout"}
          /\ pc[d] \in {"ok", "duplicate"}
          => applied[EventOf[d]] > 0

\* One process serves.
OneProcess == \A p, q \in Procs : p = q

Single(e) == \A c, d \in Requests : EventOf[c] = e /\ EventOf[d] = e => c = d

\* The events that may move a balance once: those that arrive once, and those whose
\* handler checks and records in one process, unless it dies between the two.
Once == {e \in Events :
            \/ Single(e)
            \/ OneProcess /\ Kind[e] = "signup"
            \/ OneProcess /\ MaxFaults = 0 /\ Kind[e] \in {"grant", "checkout", "topup"}}

\* The check of a coroutine and the write that makes it true lie between two
\* awaits: in one process that neither dies nor loses the database, a grant,
\* a paid session and a top-up move a balance once however often they are
\* delivered, and a user gets one signup grant.  What is delivered once moves it
\* once, in any number of processes.
AppliedOnce ==
    /\ \A e \in Once : applied[e] <= 1
    /\ OneProcess => \A e, f \in Events :
          /\ Kind[e] = "signup" /\ Kind[f] = "signup" /\ Owner[e] = Owner[f]
          /\ applied[e] > 0 /\ applied[f] > 0
          => e = f

\* Credits of a top-up that was rejected are not added any more.
RejectedIsFinal ==
    [][\A e \in Events :
          Kind[e] = "topup" /\ topup[e] = "rejected" => applied'[e] = applied[e]]_vars

\* A checkout that Stripe redelivers until it is answered with 200 ends up in
\* the wallet, whatever crashes on the way.
CheckoutCredited ==
    \A e \in Events : Kind[e] = "checkout" => <>(applied[e] > 0)

\* The users whose balances lose no move: nobody computes a balance of theirs from
\* one that was read before, or those who do are coroutines of one process, and so
\* is everybody else who moves it.
Computing == {"grant", "add", "topup", "signup"}
Of(u) == {e \in Events : Owner[e] = u}
Guarded == {u \in Users :
               \/ \A e \in Of(u) : Kind[e] \notin Computing
               \/ OneProcess /\ \A e \in Of(u) : Kind[e] # "debit"}

L == INSTANCE Ledger WITH
        Accounts <- Guarded, Entries <- {e \in Events : Owner[e] \in Guarded},
        Account <- Owner, Change <- [e \in Events |-> Delta(e)],
        balance <- [u \in Guarded |-> balance[u]],
        posted <- [e \in {f \in Events : Owner[f] \in Guarded} |-> applied[e]]

\* The balances of guarded users are a ledger, whatever faults and other users'
\* requests there are: no write of a computed balance undoes a move, no event moves
\* a balance by another amount than its own, or twice if it may move it once.
LedgerSpec == L!Spec

\* "a duplicate call returns the current balance without billing or logging
\* again" (src/src/gateway/wallet_api.py).
DebitBilledOnce == \A e \in Events : Kind[e] = "debit" => applied[e] <= 1
=============================================================================
