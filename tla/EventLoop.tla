----------------------------- MODULE EventLoop -----------------------------
(***************************************************************************)
(* How the service runs requests.  A handler is a coroutine of its process *)
(* or a function on the process's thread pool; `pc' is the next database   *)
(* call of a request, or the outcome it was answered with.                 *)
(*                                                                         *)
(* The database client is synchronous, so a coroutine keeps the event loop *)
(* from one await to the next, whatever calls it makes in between, and     *)
(* `loop' is a mutex.  A function on the thread pool needs no loop.        *)
(***************************************************************************)
CONSTANTS
    Procs,        \* the uvicorn processes that serve at the same time
    Requests,
    NoRequest

VARIABLES
    at,           \* the process a request is routed to
    pc,
    loop          \* the coroutine that holds a process's event loop

Idle == "idle"
Outcome == {"ok", "duplicate", "ignored", "refused", "failed", "crashed"}

EventLoopInit ==
    /\ at \in [Requests -> Procs]
    /\ pc = [d \in Requests |-> Idle]
    /\ loop = [p \in Procs |-> NoRequest]

Moves(d, from, to) ==
    /\ pc[d] = from
    /\ pc' = [pc EXCEPT ![d] = to]
    /\ UNCHANGED at

\* A coroutine goes from one database call to the next without giving up the
\* loop, and gives it up when it returns.
Runs(d, from, to) ==
    /\ Moves(d, from, to)
    /\ loop' = [loop EXCEPT ![at[d]] = IF to \in Outcome THEN NoRequest ELSE d]

\* A coroutine that awaits gives the loop up: others run until it goes on.
Awaits(d, from, to) ==
    /\ loop[at[d]] \in {NoRequest, d}
    /\ Moves(d, from, to)
    /\ loop' = [loop EXCEPT ![at[d]] = NoRequest]

Resumes(d, from, to) ==
    /\ loop[at[d]] = NoRequest
    /\ Runs(d, from, to)

\* A new request gets the loop only when no coroutine holds it.
Starts(d, to) ==
    /\ loop[at[d]] = NoRequest
    /\ Runs(d, Idle, to)

\* A thread of the pool needs no loop.
Steps(d, from, to) ==
    /\ Moves(d, from, to)
    /\ UNCHANGED loop
=============================================================================
