------------------------------ MODULE Consent ------------------------------
(* What an authorization session promises: one user consents to it, once,   *)
(* and it yields at most one pair of tokens, which is that user's.  A pair   *)
(* that nobody was asked for is the client's owner's, if it has one: a       *)
(* client is claimed by one user, and a shared one by nobody.                *)

CONSTANTS Users, NoUser, Clients, Shared, Sessions, ClientOf, Pairs

VARIABLES
    owner,        \* the user who has claimed a client
    consent,      \* the user who consented to a session
    issued,       \* the pairs a session has yielded
    bearer        \* the user a pair acts for

Init ==
    /\ owner = [c \in Clients |-> NoUser]
    /\ consent = [s \in Sessions |-> NoUser]
    /\ issued = [s \in Sessions |-> {}]
    /\ bearer = [x \in Pairs |-> NoUser]

Claim(c, u) ==
    /\ c \notin Shared
    /\ owner[c] = NoUser
    /\ owner' = [owner EXCEPT ![c] = u]
    /\ UNCHANGED <<consent, issued, bearer>>

Agree(s, u) ==
    /\ consent[s] = NoUser
    /\ issued[s] = {}
    /\ consent' = [consent EXCEPT ![s] = u]
    /\ UNCHANGED <<owner, issued, bearer>>

IssueFor(s, x, u) ==
    /\ issued[s] = {}
    /\ issued' = [issued EXCEPT ![s] = {x}]
    /\ bearer' = [bearer EXCEPT ![x] = u]
    /\ UNCHANGED <<owner, consent>>

Issue(s, x) ==
    /\ consent[s] # NoUser
    /\ IssueFor(s, x, consent[s])

IssueUnasked(s, x) ==
    /\ consent[s] = NoUser
    /\ \E u \in {NoUser, owner[ClientOf[s]]} : IssueFor(s, x, u)

Next ==
    \/ \E c \in Clients, u \in Users : Claim(c, u)
    \/ \E s \in Sessions :
          \/ \E u \in Users : Agree(s, u)
          \/ \E x \in Pairs : Issue(s, x) \/ IssueUnasked(s, x)

Spec == Init /\ [][Next]_<<owner, consent, issued, bearer>>
=============================================================================
