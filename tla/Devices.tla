------------------------------ MODULE Devices ------------------------------
(* What dynamic registration promises of a client, the device of a user: a  *)
(* program that registers is handed the one that is free for programs like  *)
(* it, or else a new one; somebody takes it once, giving up what he had of  *)
(* that name, and it is his until the panel removes it; what was switched   *)
(* off is never on again.                                                   *)

CONSTANTS
    Clients,      \* what may become a client: whoever has it made
    Sessions,     \* the programs that register themselves
    Public,       \* the clients that all users share
    Users, NoUser,
    NoClient,
    Program,      \* Program[c]: the program that c is made for
    Unmatched,    \* a program that no other one can be matched with
    Name,         \* Name[c]: what its user sees it called
    Unnamed

VARIABLES
    rows,         \* the clients that there are
    owner,        \* the user who has taken a client
    on,           \* the clients that are not switched off
    revoked,      \* the clients that the panel has switched off
    given         \* the client that each was answered with

Init ==
    /\ rows = {}
    /\ owner = [c \in Clients |-> NoUser]
    /\ on = {}
    /\ revoked = {}
    /\ given = [c \in Clients |-> NoClient]

Free(p) == {c \in rows : p # Unmatched /\ Program[c] = p /\ owner[c] = NoUser}

Answer(s, c) ==
    /\ given[s] = NoClient
    /\ given' = [given EXCEPT ![s] = c]

\* At most one client is free for programs of one kind.
Make(c) ==
    /\ Free(Program[c]) = {}
    /\ Answer(c, c)
    /\ rows' = rows \cup {c}
    /\ on' = on \cup {c}
    /\ UNCHANGED <<owner, revoked>>

Offer(s, c) ==
    /\ c \in Free(Program[s]) \cap on
    /\ Answer(s, c)
    /\ UNCHANGED <<rows, owner, on, revoked>>

HandedOut(c) == \E s \in Clients : given[s] = c

Take(c, u) ==
    /\ HandedOut(c) /\ c \in rows \ Public
    /\ owner[c] = NoUser
    /\ owner' = [owner EXCEPT ![c] = u]
    /\ UNCHANGED <<rows, on, revoked, given>>

SwitchOff(C) ==
    /\ on' = on \ C
    /\ UNCHANGED <<rows, owner, given>>

Revoke(c) ==
    /\ SwitchOff({c})
    /\ revoked' = revoked \cup {c}

\* Who takes a client gives up what he had of the same name.
Replace(c, u) ==
    /\ HandedOut(c) /\ c \notin Public
    /\ SwitchOff({d \in rows : owner[d] = u /\ Name[d] = Name[c] /\ Name[d] # Unnamed})
    /\ UNCHANGED revoked

Remove(C) ==
    /\ rows' = rows \ C
    /\ owner' = [c \in Clients |-> IF c \in C THEN NoUser ELSE owner[c]]
    /\ on' = on \ C
    /\ UNCHANGED <<revoked, given>>

\* Only the panel removes a client that somebody has taken.
Sweep(C) == (\A c \in C : owner[c] = NoUser) /\ Remove(C)

Next ==
    \/ \E c \in Clients : \/ Make(c) \/ Revoke(c) \/ Remove({c})
                          \/ \E s \in Sessions : Offer(s, c)
                          \/ \E u \in Users : Take(c, u) \/ Replace(c, u)
    \/ \E C \in SUBSET rows : Sweep(C)

Spec == Init /\ [][Next]_<<rows, owner, on, revoked, given>>
=============================================================================
