------------------------------ MODULE Delivery ------------------------------
(* What a tool call promises: its tool runs again only while nothing has    *)
(* been heard of it, and so often at most; what has answered may be charged *)
(* for, once.                                                               *)
EXTENDS Naturals

CONSTANTS
    Calls,
    MostRuns      \* MostRuns[c]: how often the tool may run for call c

VARIABLES
    runs,
    heard,        \* "nothing", "error" or "answer"
    charges

Init ==
    /\ runs = [c \in Calls |-> 0]
    /\ heard = [c \in Calls |-> "nothing"]
    /\ charges = [c \in Calls |-> 0]

Run(c, times) ==
    /\ heard[c] = "nothing"
    /\ runs' = [runs EXCEPT ![c] = @ + times]
    /\ runs'[c] <= MostRuns[c]
    /\ UNCHANGED charges

\* What the tool did, if it ran, stays unknown.
Lose(c) == (\E times \in {0, 1} : Run(c, times)) /\ UNCHANGED heard

Fail(c) ==
    /\ \E times \in {0, 1} : Run(c, times)
    /\ heard' = [heard EXCEPT ![c] = "error"]

Answer(c) == Run(c, 1) /\ heard' = [heard EXCEPT ![c] = "answer"]

Charge(c) ==
    /\ heard[c] = "answer"
    /\ charges[c] = 0
    /\ charges' = [charges EXCEPT ![c] = 1]
    /\ UNCHANGED <<runs, heard>>

Next == \E c \in Calls : Lose(c) \/ Fail(c) \/ Answer(c) \/ Charge(c)

vars == <<runs, heard, charges>>

Spec == Init /\ [][Next]_vars
=============================================================================
