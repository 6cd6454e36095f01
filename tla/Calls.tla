------------------------------- MODULE Calls -------------------------------
(***************************************************************************)
(* Calls to the upstream MCP servers and what they cost.                    *)
(*                                                                          *)
(* A call tries the URLs that the registered one may stand for, one after   *)
(* the other, and each way of calling has its own rules for which errors    *)
(* lead to the next URL, which to another round, and which to the caller.   *)
(* The coroutine awaits every try.  The price of an answered call is read   *)
(* from four tables through caches of the process; an admin who saves a     *)
(* price clears the caches of the process that serves him.                  *)
(*                                                                          *)
(* The wallet itself is module Wallet; here a balance suffices or not.      *)
(***************************************************************************)
EXTENDS Naturals, EventLoop

CONSTANTS
    Kind,         \* Kind[r]: what r asks for
    Suffix,       \* Suffix[r]: how the registered URL of its MCP ends
    Stateful,     \* the tool calls that a stateful MCP takes only as `run'
    Tokens,       \* the calls whose usage names a model and its tokens
    MaxAttempts,  \* _RETRY_MAX_ATTEMPTS
    Nothing,      \* no entry in a cache, nothing read
    MaxFaults     \* bound: crashes and failed database calls in a behaviour

ToolKinds == {"invoke", "promoted"}
ListKinds == {"tools", "resources", "read"}
Costing == {"debit", "preview"}
Savers == {"config", "rate", "model", "drop", "refresh", "profiles"}
Tables == {"config", "profile", "rate", "model"}
Versions == {"old", "new", "gone"}
Error == {"timeout", "terminated", "misdirected", "unauthorized", "broken"}
Answer == {"answered", "flagged", "errorText"}

ASSUME CallsAssumption ==
    /\ Kind \in [Requests -> ToolKinds \cup ListKinds \cup Costing \cup Savers]
    /\ Suffix \in [Requests -> {"mcp", "sse", "other"}]
    /\ Stateful \cup Tokens \subseteq Requests
    /\ MaxAttempts \in Nat \ {0}
    /\ Nothing \notin Versions \cup {"fallback"} \cup Error \cup Answer
    /\ NoRequest \notin Requests
    /\ MaxFaults \in Nat

VARIABLES
    saved,        \* the rows of the four pricing tables
    kept,         \* per process, the pricing caches
    fetched,      \* what a lookup has read and not put in the cache yet
    candidate,    \* the URL that a call tries
    attempt,
    reply,        \* what the last try has ended with
    ran,          \* how many times the upstream has run the tool of a call
    billed,       \* how many times a call was settled
    excused,      \* history: per process, the caches that may be out of date
    faults

upstream == <<candidate, attempt, reply, ran>>
pricing == <<saved, kept, fetched, excused>>
vars == <<upstream, pricing, billed, at, pc, loop, faults>>

Stage == {"form", "min", "balance", "try", "config", "profile", "rate", "model",
          "charge", "clear"}

TypeOK ==
    /\ saved \in [Tables -> Versions]
    /\ kept \in [Procs -> [Tables -> Versions \cup {"fallback", Nothing}]]
    /\ fetched \in [Requests -> Versions \cup {"fallback", Nothing}]
    /\ candidate \in [Requests -> 1 .. 5]
    /\ attempt \in [Requests -> 1 .. MaxAttempts]
    /\ reply \in [Requests -> Error \cup Answer \cup {Nothing}]
    /\ ran \in [Requests -> Nat]
    /\ billed \in [Requests -> 0 .. 1]
    /\ excused \in [Procs -> SUBSET Tables]
    /\ at \in [Requests -> Procs]
    /\ pc \in [Requests -> {Idle} \cup Stage \cup Outcome]
    /\ loop \in [Procs -> Requests \cup {NoRequest}]
    /\ faults \in 0 .. MaxFaults

Blank == [t \in Tables |-> Nothing]

Start ==
    /\ saved = [t \in Tables |-> "old"]
    /\ kept = [p \in Procs |-> Blank]
    /\ fetched = [r \in Requests |-> Nothing]
    /\ candidate = [r \in Requests |-> 1]
    /\ attempt = [r \in Requests |-> 1]
    /\ reply = [r \in Requests |-> Nothing]
    /\ ran = [r \in Requests |-> 0]
    /\ billed = [r \in Requests |-> 0]
    /\ excused = [p \in Procs |-> {}]
    /\ faults = 0

Init == Start /\ EventLoopInit

\* /wallet/debit is a function on the thread pool; all others are coroutines.
Threaded(r) == Kind[r] = "debit"
Goes(r, from, to) == IF Threaded(r) THEN Steps(r, from, to) ELSE Runs(r, from, to)

-----------------------------------------------------------------------------
(* Prices: a lookup in a cache, or a read that ends up there.               *)

TableOf(stage) == IF stage = "min" THEN "config" ELSE stage

After(r) ==
    CASE pc[r] = "min" -> "balance"
      [] pc[r] = "config" -> "profile"
      [] pc[r] = "profile" -> "rate"
      [] pc[r] = "rate" ->
            IF r \in Tokens /\ reply[r] \notin Error THEN "model" ELSE "charge"
      [] pc[r] = "model" -> "charge"

Looking(r) == pc[r] \in {"min", "config", "profile", "rate", "model"}

CacheHit(r) ==
    /\ Looking(r)
    /\ fetched[r] = Nothing
    /\ kept[at[r]][TableOf(pc[r])] # Nothing
    /\ Goes(r, pc[r], After(r))
    /\ UNCHANGED <<upstream, pricing, billed, faults>>

CacheMiss(r) ==
    /\ Looking(r)
    /\ fetched[r] = Nothing
    /\ kept[at[r]][TableOf(pc[r])] = Nothing
    /\ Goes(r, pc[r], pc[r])
    /\ fetched' = [fetched EXCEPT ![r] = saved[TableOf(pc[r])]]
    /\ UNCHANGED <<upstream, saved, kept, excused, billed, faults>>

\* The three tables with a fallback cache it as if it had been read; the
\* price of a model is left out of this call and not cached.
ReadFails(r) ==
    /\ faults < MaxFaults
    /\ Looking(r)
    /\ fetched[r] = Nothing
    /\ kept[at[r]][TableOf(pc[r])] = Nothing
    /\ IF pc[r] = "model"
         THEN Goes(r, "model", "charge") /\ UNCHANGED fetched
         ELSE /\ Goes(r, pc[r], pc[r])
              /\ fetched' = [fetched EXCEPT ![r] = "fallback"]
    /\ faults' = faults + 1
    /\ UNCHANGED <<upstream, saved, kept, excused, billed>>

\* An entry is out of date from the start when the read has failed, or when the
\* price was saved in between, which only a thread or another process lets
\* happen.
CacheSet(r) ==
    LET t == TableOf(pc[r])
        overtaken == fetched[r] # saved[t] /\ (Threaded(r) \/ Procs # {at[r]})
    IN
    /\ Looking(r)
    /\ fetched[r] # Nothing
    /\ Goes(r, pc[r], After(r))
    /\ kept' = [kept EXCEPT ![at[r]][t] = fetched[r]]
    /\ excused' = [excused EXCEPT ![at[r]] =
           IF fetched[r] = "fallback" \/ overtaken THEN @ \cup {t} ELSE @ \ {t}]
    /\ fetched' = [fetched EXCEPT ![r] = Nothing]
    /\ UNCHANGED <<upstream, saved, billed, faults>>

StartCost(r) ==
    /\ Kind[r] \in Costing
    /\ IF Threaded(r) THEN Steps(r, Idle, "config") ELSE Starts(r, "config")
    /\ UNCHANGED <<upstream, pricing, billed, faults>>

\* Mutant: an error of the upstream is settled like an answer.
BillableAlways(r) == Kind[r] # "preview"

\* The text of a result is parsed and an object with an `error' is not billed;
\* a structured result is not billed when the upstream has flagged it.
Billable(r) ==
    CASE Kind[r] = "invoke" -> reply[r] \in {"answered", "flagged"}
      [] Kind[r] = "promoted" -> reply[r] \in {"answered", "errorText"}
      [] OTHER -> Kind[r] = "debit"

Settle(r) ==
    /\ pc[r] = "charge"
    /\ Goes(r, "charge", IF reply[r] \in Error THEN "failed" ELSE "ok")
    /\ billed' = [billed EXCEPT ![r] = IF Billable(r) THEN @ + 1 ELSE @]
    /\ UNCHANGED <<upstream, pricing, faults>>

\* Mutant: a settlement whose answer was lost is tried again.
SettleFailsAndRetries(r) ==
    /\ faults < MaxFaults
    /\ pc[r] = "charge"
    /\ Billable(r)
    /\ Goes(r, "charge", "charge")
    /\ billed' = [billed EXCEPT ![r] = @ + 1]
    /\ faults' = faults + 1
    /\ UNCHANGED <<upstream, pricing>>

\* A settlement that fails may have been applied; a tool call hides the failure.
SettleFails(r) ==
    /\ faults < MaxFaults
    /\ pc[r] = "charge"
    /\ Billable(r)
    /\ Goes(r, "charge", IF Kind[r] = "debit" THEN "failed" ELSE "ok")
    /\ \E applied \in {0, 1} : billed' = [billed EXCEPT ![r] = @ + applied]
    /\ faults' = faults + 1
    /\ UNCHANGED <<upstream, pricing>>

-----------------------------------------------------------------------------
(* The admin's pricing pages.                                               *)

Writes(kind) ==
    CASE kind = "profiles" -> "profile"
      [] kind \in {"model", "drop", "refresh"} -> "model"
      [] OTHER -> kind

ReceiveForm(r) ==
    /\ Kind[r] = "profiles"
    /\ Awaits(r, Idle, "form")
    /\ UNCHANGED <<upstream, pricing, billed, faults>>

\* The entry of another process is out of date from now on.
Saved(r) ==
    LET t == Writes(Kind[r]) IN
    /\ saved' = [saved EXCEPT ![t] = IF Kind[r] = "drop" THEN "gone" ELSE "new"]
    /\ excused' = [p \in Procs |->
           IF p # at[r] /\ kept[p][t] \notin {Nothing, saved'[t]}
             THEN excused[p] \cup {t} ELSE excused[p]]

Save(r) ==
    /\ Kind[r] \in Savers
    /\ IF Kind[r] = "profiles" THEN Resumes(r, "form", "clear") ELSE Starts(r, "clear")
    /\ Saved(r)
    /\ UNCHANGED <<upstream, kept, fetched, billed, faults>>

\* Mutant: the long-lived cache of the models is left alone.
KeepsModels(p) ==
    kept' = [kept EXCEPT ![p] = [t \in Tables |-> IF t = "model" THEN @[t] ELSE Nothing]]

InvalidateCaches(p) == kept' = [kept EXCEPT ![p] = Blank]

Invalidate(r) ==
    /\ pc[r] = "clear"
    /\ Runs(r, "clear", "ok")
    /\ InvalidateCaches(at[r])
    /\ excused' = [excused EXCEPT ![at[r]] = {}]
    /\ UNCHANGED <<upstream, saved, fetched, billed, faults>>

\* OpenRouter does not answer, or has nothing new: no row is written.  The request
\* to it is synchronous and blocks the loop.
RefreshFails(r) ==
    /\ Kind[r] = "refresh"
    /\ Starts(r, "failed")
    /\ UNCHANGED <<upstream, pricing, billed, faults>>

\* A save that fails, after some of its rows or with its answer, clears nothing.
SaveFails(r) ==
    /\ faults < MaxFaults
    /\ Kind[r] \in Savers
    /\ IF Kind[r] = "profiles" THEN Resumes(r, "form", "failed") ELSE Starts(r, "failed")
    /\ \/ UNCHANGED <<saved, excused>>
       \/ LET t == Writes(Kind[r]) IN
             /\ saved' = [saved EXCEPT ![t] = IF Kind[r] = "drop" THEN "gone" ELSE "new"]
             /\ excused' = [p \in Procs |-> excused[p] \cup {t}]
    /\ faults' = faults + 1
    /\ UNCHANGED <<upstream, kept, fetched, billed>>

-----------------------------------------------------------------------------
(* A tool call before and after it goes to the upstream.                    *)

\* An MCP with state is called through its code tool only.
InvokeTool(r) ==
    /\ Kind[r] \in ToolKinds
    /\ Starts(r, IF Kind[r] = "invoke" /\ r \in Stateful THEN "refused" ELSE "min")
    /\ UNCHANGED <<upstream, pricing, billed, faults>>

\* The balance suffices, or not; if it cannot be read, the call goes on.
HasMinBalance(r) ==
    /\ pc[r] = "balance"
    /\ \/ Awaits(r, "balance", "try") /\ UNCHANGED faults
       \/ Runs(r, "balance", "refused") /\ UNCHANGED faults
       \/ faults < MaxFaults /\ Awaits(r, "balance", "try") /\ faults' = faults + 1
    /\ UNCHANGED <<upstream, pricing, billed>>

StartList(r) ==
    /\ Kind[r] \in ListKinds
    /\ Awaits(r, Idle, "try")
    /\ UNCHANGED <<upstream, pricing, billed, faults>>

-----------------------------------------------------------------------------
(* The tries.                                                               *)

\* The registered URL and the ones with and without a trailing slash, or, if its
\* suffix is unknown, the four that it may stand for.
Candidates(r) == IF Suffix[r] = "other" THEN 5 ELSE 2

TextTriesNext(e) == e \in {"timeout", "terminated", "misdirected"}
StructuredTriesNext(e) == e \in {"timeout", "misdirected"}
ReadTriesNext(e) == e # "unauthorized"

\* Mutant: whatever the error, the next URL is tried.
TriesNextAlways(r, e) == TRUE

TriesNext(r, e) ==
    CASE Kind[r] = "invoke" -> TextTriesNext(e)
      [] Kind[r] = "promoted" -> StructuredTriesNext(e)
      [] Kind[r] = "read" -> ReadTriesNext(e)
      [] OTHER -> TRUE

Retries(r, e) ==
    /\ Kind[r] = "invoke"
    /\ e \in {"timeout", "misdirected"}
    /\ attempt[r] < MaxAttempts

\* A request that timed out or was cut off may have run the tool all the same.
Fails(r, e) ==
    /\ pc[r] = "try"
    /\ reply' = [reply EXCEPT ![r] = e]
    /\ \E times \in IF Kind[r] \in ToolKinds /\ e \in {"timeout", "terminated", "broken"}
                      THEN {0, 1} ELSE {0} :
          ran' = [ran EXCEPT ![r] = @ + times]
    /\ UNCHANGED <<pricing, billed, faults>>

NextCandidate(r, e) ==
    /\ Fails(r, e)
    /\ candidate[r] < Candidates(r) /\ TriesNext(r, e)
    /\ Awaits(r, "try", "try")
    /\ candidate' = [candidate EXCEPT ![r] = @ + 1]
    /\ UNCHANGED attempt

GivesUpOn(r, e) == candidate[r] = Candidates(r) \/ ~ TriesNext(r, e)

Retry(r, e) ==
    /\ Fails(r, e)
    /\ GivesUpOn(r, e) /\ Retries(r, e)
    /\ Awaits(r, "try", "try")
    /\ attempt' = [attempt EXCEPT ![r] = @ + 1]
    /\ candidate' = [candidate EXCEPT ![r] = 1]

\* The error reaches the caller: a text call computes the cost it will not
\* settle, and resources that cannot be listed are none.
GiveUp(r, e) ==
    /\ Fails(r, e)
    /\ GivesUpOn(r, e) /\ ~ Retries(r, e)
    /\ Resumes(r, "try", CASE Kind[r] = "invoke" -> "config"
                           [] Kind[r] = "resources" -> "ok"
                           [] OTHER -> "failed")
    /\ UNCHANGED <<candidate, attempt>>

Answered(r) ==
    /\ pc[r] = "try"
    /\ \E a \in IF Kind[r] \in ToolKinds THEN Answer ELSE {"answered"} :
          reply' = [reply EXCEPT ![r] = a]
    /\ ran' = [ran EXCEPT ![r] = IF Kind[r] \in ToolKinds THEN @ + 1 ELSE @]
    /\ Resumes(r, "try", IF Kind[r] \in ToolKinds THEN "config" ELSE "ok")
    /\ UNCHANGED <<pricing, candidate, attempt, billed, faults>>

\* The client goes away, or the time that list_tools has for all its MCPs is over.
Cancelled(r) ==
    /\ pc[r] = "try"
    /\ Resumes(r, "try", "failed")
    /\ \E times \in IF Kind[r] \in ToolKinds THEN {0, 1} ELSE {0} :
          ran' = [ran EXCEPT ![r] = @ + times]
    /\ UNCHANGED <<pricing, candidate, attempt, reply, billed, faults>>

-----------------------------------------------------------------------------
(* Time and faults.                                                         *)

\* A minute after it was cached, five for a model, an entry is gone.
Expire(p, t) ==
    /\ kept[p][t] # Nothing
    /\ kept' = [kept EXCEPT ![p][t] = Nothing]
    /\ excused' = [excused EXCEPT ![p] = @ \ {t}]
    /\ UNCHANGED <<upstream, saved, fetched, billed, at, pc, loop, faults>>

Crash(p) ==
    /\ faults < MaxFaults
    /\ \E r \in Requests : at[r] = p /\ pc[r] \in Stage
    /\ pc' = [r \in Requests |-> IF at[r] = p /\ pc[r] \in Stage THEN "crashed" ELSE pc[r]]
    /\ loop' = [loop EXCEPT ![p] = NoRequest]
    /\ kept' = [kept EXCEPT ![p] = Blank]
    /\ fetched' = [r \in Requests |-> IF at[r] = p THEN Nothing ELSE fetched[r]]
    /\ excused' = [excused EXCEPT ![p] = {}]
    /\ faults' = faults + 1
    /\ UNCHANGED <<upstream, saved, billed, at>>

Prices(r) ==
    \/ CacheHit(r) \/ CacheMiss(r) \/ ReadFails(r) \/ CacheSet(r) \/ StartCost(r)
    \/ Settle(r) \/ SettleFails(r)

Admin(r) ==
    \/ ReceiveForm(r) \/ Save(r) \/ Invalidate(r) \/ RefreshFails(r) \/ SaveFails(r)

Upstream(r) ==
    \/ InvokeTool(r) \/ HasMinBalance(r) \/ StartList(r) \/ Answered(r) \/ Cancelled(r)
    \/ \E e \in Error : NextCandidate(r, e) \/ Retry(r, e) \/ GiveUp(r, e)

Next ==
    \/ \E r \in Requests :
          /\ pc[r] \notin Outcome
          /\ Prices(r) \/ Admin(r) \/ Upstream(r)
    \/ \E p \in Procs : Crash(p) \/ \E t \in Tables : Expire(p, t)

Spec == Init /\ [][Next]_vars

-----------------------------------------------------------------------------
(* Properties.                                                              *)

ToolCalls == {r \in Requests : Kind[r] \in ToolKinds /\ pc[r] # "ignored"}

\* A call is settled only if its tool has run and the answer got through, and, unless
\* a fault intervenes, whenever it did.
BilledAsAnswered ==
    \A r \in ToolCalls :
        /\ billed[r] > 0 => ran[r] > 0 /\ reply[r] \in Answer
        /\ pc[r] = "ok" /\ faults = 0 /\ reply[r] = "answered" => billed[r] = 1

\* What the caller knows after the last try: of one that timed out, that Railway's
\* edge misdirected or, for a text call, whose session was terminated, nothing.
Heard(r) ==
    CASE reply[r] \in Answer -> "answer"
      [] \/ reply[r] \in {Nothing, "timeout", "misdirected"}
         \/ reply[r] = "terminated" /\ Kind[r] = "invoke" -> "nothing"
      [] OTHER -> "error"

Called == {r \in Requests : Kind[r] \in ToolKinds}
Attempts(r) == IF Kind[r] = "invoke" THEN MaxAttempts ELSE 1

D == INSTANCE Delivery WITH
        Calls <- Called, MostRuns <- [r \in Called |-> Candidates(r) * Attempts(r)],
        runs <- [r \in Called |-> ran[r]],
        heard <- [r \in Called |-> Heard(r)],
        charges <- [r \in Called |-> billed[r]]

\* The tool of a call runs once per URL and attempt at most, and again only after a
\* try that may not have reached it: a connection that breaks, a refusal, an answer
\* end the call wherever they happen.  What was answered is charged for once at most.
DeliverySpec == D!Spec

\* Whenever a coroutine of a process may run, a cached price is the saved one,
\* unless it could not be read, a thread of the pool was overtaken by the save,
\* another process has saved, or the save itself has failed.
PriceIsCurrent ==
    \A p \in Procs : loop[p] = NoRequest =>
        \A t \in Tables \ excused[p] : kept[p][t] \in {Nothing, saved[t]}

\* "Skip settlement on upstream errors -- user got nothing": a call whose result
\* the upstream has flagged as an error is not settled.
ErrorsAreFree ==
    \A r \in ToolCalls : reply[r] = "flagged" => billed[r] = 0
=============================================================================
