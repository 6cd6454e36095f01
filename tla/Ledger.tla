------------------------------- MODULE Ledger -------------------------------
(* What the wallet promises: a balance is the initial one plus the changes  *)
(* of the entries posted to it, each as often as it was posted, and what    *)
(* must be posted once is not posted again.                                 *)
EXTENDS Integers

CONSTANTS
    Accounts, Entries,
    Once,         \* the entries that are posted at most once
    Account, Change, InitialBalance

VARIABLES
    balance,
    posted        \* how often an entry was posted

vars == <<balance, posted>>

Init ==
    /\ balance = [a \in Accounts |-> InitialBalance]
    /\ posted = [e \in Entries |-> 0]

Post(e) ==
    /\ e \in Once => posted[e] = 0
    /\ posted' = [posted EXCEPT ![e] = @ + 1]
    /\ balance' = [balance EXCEPT ![Account[e]] = @ + Change[e]]

Next == \E e \in Entries : Post(e)

Spec == Init /\ [][Next]_vars
=============================================================================
