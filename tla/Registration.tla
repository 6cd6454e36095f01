---------------------------- MODULE Registration ----------------------------
(***************************************************************************)
(* Dynamic client registration: a program registers, its user signs in and *)
(* claims the client, and the next session of a program of that name must  *)
(* get a client of its own.  Registrations find each other by fingerprint, *)
(* and the unique index covers rows without a user, active or not; a claim *)
(* finds the user's other devices by the name that their rows carry.       *)
(*                                                                         *)
(* A client is named by the request that inserts its row.  The grain is    *)
(* one database call.                                                      *)
(***************************************************************************)
EXTENDS Naturals, EventLoop

CONSTANTS
    Users, NoUser,
    Fingers,      \* compute_dcr_fingerprint: name in small letters, redirect URIs
    Generic,      \* no fingerprint: the default name without URIs, or a form's client
    Names,        \* client_name, letter by letter
    Unnamed,      \* the empty name
    NoClient,
    Kind,         \* Kind[r]: what r asks for
    FingerOf,     \* FingerOf[r]: the fingerprint of r's program
    NameOf,       \* NameOf[r]: the name of r's program
    UserOf,       \* UserOf[r]: who signs in to claim
    For,          \* For[r]: the request whose client r is about
    MaxFaults     \* bound: crashes and failed database calls in a behaviour

Kinds == {"dcr", "create", "public", "claim", "revoke", "delete", "cleanup"}
Inserting == {"dcr", "create", "public"}

ASSUME RegistrationAssumption ==
    /\ NoUser \notin Users
    /\ Generic \notin Fingers
    /\ NoClient \notin Requests /\ NoRequest \notin Requests
    /\ Kind \in [Requests -> Kinds]
    /\ FingerOf \in [Requests -> Fingers \cup {Generic}]
    /\ Unnamed \notin Names
    /\ NameOf \in [Requests -> Names \cup {Unnamed}]
    /\ \A r \in Requests : Kind[r] \in {"create", "public"} => FingerOf[r] = Generic
    /\ UserOf \in [Requests -> Users]
    /\ For \in [Requests -> Requests]
    /\ MaxFaults \in Nat

VARIABLES
    rows,         \* oauth_clients
    owner,        \* oauth_clients.user_id
    on,           \* oauth_clients.is_active
    old,          \* the rows more than a day old
    given,        \* the client that a registration was answered with
    faults

clients == <<rows, owner, on, old>>
vars == <<clients, given, at, pc, loop, faults>>

Call == {"insert", "reselect", "claimRead", "claimDuplicates", "claimWrite",
         "claimReread", "drop"}

TypeOK ==
    /\ rows \subseteq {r \in Requests : Kind[r] \in Inserting}
    /\ owner \in [Requests -> Users \cup {NoUser}]
    /\ on \cup old \cup {c \in Requests : owner[c] # NoUser} \subseteq rows
    /\ given \in [Requests -> Requests \cup {NoClient}]
    /\ at \in [Requests -> Procs]
    /\ pc \in [Requests -> {Idle} \cup Call \cup Outcome]
    /\ loop \in [Procs -> Requests \cup {NoRequest}]
    /\ faults \in 0 .. MaxFaults

Init ==
    /\ rows = {}
    /\ owner = [r \in Requests |-> NoUser]
    /\ on = {}
    /\ old = {}
    /\ given = [r \in Requests |-> NoClient]
    /\ EventLoopInit
    /\ faults = 0

-----------------------------------------------------------------------------
(* POST /register. *)

\* The rows that the index keeps unique, and those that a SELECT offers.
Unclaimed(f) == {c \in rows : f # Generic /\ FingerOf[c] = f /\ owner[c] = NoUser}

Offered(f) == Unclaimed(f) \cap on

Asks(r, kinds, to) == Kind[r] \in kinds /\ Starts(r, to)
Goes(r, kinds, from, to) == Kind[r] \in kinds /\ Runs(r, from, to)
Answers(r, c) == given' = [given EXCEPT ![r] = c]

Select(r) ==
    /\ \/ \E c \in Offered(FingerOf[r]) : Asks(r, {"dcr"}, "ok") /\ Answers(r, c)
       \/ /\ Offered(FingerOf[r]) = {}
          /\ Asks(r, {"dcr"}, "insert")
          /\ UNCHANGED given
    /\ UNCHANGED <<clients, faults>>

InsertRow(r) ==
    /\ rows' = rows \cup {r}
    /\ on' = on \cup {r}
    /\ Answers(r, r)
    /\ UNCHANGED <<owner, old, faults>>

\* Mutant: whoever loses the race is not told who won.
InsertRaises(r) ==
    IF Unclaimed(FingerOf[r]) = {}
      THEN Goes(r, {"dcr"}, "insert", "ok") /\ InsertRow(r)
      ELSE /\ Goes(r, {"dcr"}, "insert", "failed")
           /\ UNCHANGED <<clients, given, faults>>

Insert(r) ==
    IF Unclaimed(FingerOf[r]) = {}
      THEN Goes(r, {"dcr"}, "insert", "ok") /\ InsertRow(r)
      ELSE /\ Goes(r, {"dcr"}, "insert", "reselect")
           /\ UNCHANGED <<clients, given, faults>>

Reselect(r) ==
    /\ \/ \E c \in Offered(FingerOf[r]) :
             Goes(r, {"dcr"}, "reselect", "ok") /\ Answers(r, c)
       \/ /\ Offered(FingerOf[r]) = {}
          /\ Goes(r, {"dcr"}, "reselect", "failed")
          /\ UNCHANGED given
    /\ UNCHANGED <<clients, faults>>

\* The panel's own forms make clients that have no fingerprint.
CreateClient(r) == Asks(r, {"create"}, "ok") /\ InsertRow(r)
CreatePublicClient(r) == Asks(r, {"public"}, "ok") /\ InsertRow(r)

-----------------------------------------------------------------------------
(* The user of a session claims the client that the session was handed.     *)

Claimed(r) == given[For[r]]

\* Mutant: a statement that hits no row makes one.
NeverGone(r) == FALSE

Gone(r) == Claimed(r) \notin rows

\* A public client is not claimed; of a row that is gone nothing is.
ClaimLoad(r) ==
    /\ pc[For[r]] = "ok" /\ Claimed(r) # NoClient
    /\ Asks(r, {"claim"},
            IF Gone(r) \/ Kind[Claimed(r)] = "public" THEN "ignored" ELSE "claimRead")
    /\ UNCHANGED <<clients, given, faults>>

ClaimRead(r) ==
    /\ Goes(r, {"claim"}, "claimRead",
            CASE Gone(r)                                        -> "refused"
              [] ~ Gone(r) /\ owner[Claimed(r)] = UserOf[r]     -> "ok"
              [] ~ Gone(r) /\ owner[Claimed(r)] = NoUser        -> "claimDuplicates"
              [] OTHER                                          -> "refused")
    /\ UNCHANGED <<clients, given, faults>>

\* Mutant: devices are matched by fingerprint here too.
SameProgram(r) ==
    {c \in rows : owner[c] = UserOf[r] /\ FingerOf[c] = FingerOf[Claimed(r)]}

\* The user's devices of the name that the claimed row carries, whatever their
\* fingerprints and whoever made them.  The UPDATE of each is folded into one step.
Namesakes(r) ==
    {c \in rows : owner[c] = UserOf[r] /\ NameOf[c] = NameOf[Claimed(r)] /\ NameOf[c] # Unnamed}

ClaimDuplicates(r) ==
    /\ Goes(r, {"claim"}, "claimDuplicates", "claimWrite")
    /\ on' = on \ Namesakes(r)
    /\ UNCHANGED <<rows, owner, old, given, faults>>

ClaimWrite(r) ==
    /\ pc[r] = "claimWrite"
    /\ IF ~ Gone(r) /\ owner[Claimed(r)] = NoUser
         THEN /\ Goes(r, {"claim"}, "claimWrite", "ok")
              /\ owner' = [owner EXCEPT ![Claimed(r)] = UserOf[r]]
         ELSE /\ Goes(r, {"claim"}, "claimWrite", "claimReread")
              /\ UNCHANGED owner
    /\ UNCHANGED <<rows, on, old, given, faults>>

\* Mutant: a claim that wrote nothing is lost.
RereadRefuses(r) ==
    /\ Goes(r, {"claim"}, "claimReread", "refused")
    /\ UNCHANGED <<clients, given, faults>>

ClaimReread(r) ==
    /\ Goes(r, {"claim"}, "claimReread",
            IF ~ Gone(r) /\ owner[Claimed(r)] = UserOf[r] THEN "ok" ELSE "refused")
    /\ UNCHANGED <<clients, given, faults>>

-----------------------------------------------------------------------------
(* The admin panel, and the clock. *)

\* A switch-off is an UPDATE, whether or not there is a row.
RevokeClient(r) ==
    /\ pc[For[r]] \in Outcome
    /\ Asks(r, {"revoke"}, "ok")
    /\ on' = on \ {Claimed(r)}
    /\ UNCHANGED <<rows, owner, old, given, faults>>

DeleteRead(r) ==
    /\ pc[For[r]] \in Outcome
    /\ Asks(r, {"delete"}, IF Gone(r) THEN "refused" ELSE "drop")
    /\ UNCHANGED <<clients, given, faults>>

Removes(C) ==
    /\ rows' = rows \ C
    /\ owner' = [c \in Requests |-> IF c \in C THEN NoUser ELSE owner[c]]
    /\ on' = on \ C
    /\ old' = old \ C

DeleteClient(r) ==
    /\ Goes(r, {"delete"}, "drop", "ok")
    /\ Removes({Claimed(r)})
    /\ UNCHANGED <<given, faults>>

Ages(c) ==
    /\ c \in rows \ old
    /\ old' = old \cup {c}
    /\ UNCHANGED <<rows, owner, on, given, at, pc, loop, faults>>

Stale == {c \in old : owner[c] = NoUser}

CleanupUnclaimed(r) ==
    /\ Asks(r, {"cleanup"}, "ok")
    /\ Removes(Stale)
    /\ UNCHANGED <<given, faults>>

-----------------------------------------------------------------------------
(* Faults: an INSERT that fails for another reason is not taken for a race. *)

DatabaseError(r) ==
    /\ pc[r] \in Call
    /\ Runs(r, pc[r], "failed")
    /\ faults < MaxFaults
    /\ faults' = faults + 1
    /\ UNCHANGED <<clients, given>>

Crash(p) ==
    /\ \E r \in Requests : at[r] = p /\ pc[r] \in Call
    /\ pc' = [r \in Requests |->
                IF at[r] = p /\ pc[r] \in Call THEN "crashed" ELSE pc[r]]
    /\ loop' = [loop EXCEPT ![p] = NoRequest]
    /\ faults < MaxFaults
    /\ faults' = faults + 1
    /\ UNCHANGED <<clients, given, at>>

-----------------------------------------------------------------------------
Register(r) == Select(r) \/ Insert(r) \/ Reselect(r)
Claim(r) == \/ ClaimLoad(r) \/ ClaimRead(r) \/ ClaimDuplicates(r) \/ ClaimWrite(r)
            \/ ClaimReread(r)
Panel(r) == \/ CreateClient(r) \/ CreatePublicClient(r) \/ RevokeClient(r)
            \/ DeleteRead(r) \/ DeleteClient(r) \/ CleanupUnclaimed(r)

Next ==
    \/ \E r \in Requests : Register(r) \/ Claim(r) \/ Panel(r) \/ DatabaseError(r)
    \/ \E c \in Requests : Ages(c)
    \/ \E p \in Procs : Crash(p)

Spec == Init /\ [][Next]_vars

-----------------------------------------------------------------------------
(* Properties. *)

\* The clients that the panel was asked to switch off, and has.
Revoked == {Claimed(q) : q \in {r \in Requests : Kind[r] = "revoke" /\ pc[r] = "ok"}} \ {NoClient}

D == INSTANCE Devices
       WITH Clients <- Requests, Program <- FingerOf, Unmatched <- Generic, Name <- NameOf,
            Sessions <- {r \in Requests : Kind[r] = "dcr"}, revoked <- Revoked,
            Public <- {r \in Requests : Kind[r] = "public"}

\* The server keeps what it promises of devices, whoever registers, claims, cleans
\* up or dies in between: nobody is handed a device that is somebody's or switched
\* off, in either select; a device is taken once, by who was handed it, and no
\* claim, no switch-off and no clean-up takes it away from him.  A claim switches
\* off what its user has of the name of the device he claims, and nothing else.
DevicesSpec == D!Spec

\* Two registrations that race are both answered.  One fails only if the row it
\* collided with was claimed, switched off or removed before it looked again.
FailsOnlyByRace ==
    \A r \in Requests :
        Kind[r] = "dcr" /\ pc[r] = "failed" /\ faults = 0 =>
            \E c \in Requests :
                /\ c # r /\ given[c] = c /\ FingerOf[c] = FingerOf[r]
                /\ c \in rows \cap on => owner[c] # NoUser

\* A user whose claim is refused does not own the client: two tabs of one user
\* that claim together both go on, whatever order their statements take.
RefusedOnlyByOther ==
    \A r \in Requests :
        Kind[r] = "claim" /\ pc[r] = "refused" /\ ~ Gone(r) =>
            owner[Claimed(r)] \notin {NoUser, UserOf[r]}
=============================================================================
