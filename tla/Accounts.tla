------------------------------ MODULE Accounts ------------------------------
(***************************************************************************)
(* The users table and who writes it: the JWT bridge on the thread pool,   *)
(* social sign-in, self-service registration, the admin panel, the links   *)
(* that set and reset passwords, the settings page, deletion.  The grain   *)
(* is one database call; processes and faults are those of EventLoop.      *)
(*                                                                         *)
(* An account is named by the request that inserts its row, a link (a row  *)
(* of portal_setup_tokens) by the request that mints it, a password by the *)
(* request that sets it.                                                   *)
(***************************************************************************)
EXTENDS Integers, EventLoop

CONSTANTS
    Emails, Identities, Subs,
    Placeholder,  \* the address of an account whose JWT carries none
    None,
    Kind,         \* Kind[r]: what r asks for
    EmailOf,      \* EmailOf[r]: the address r carries, in lower case
    Mixed,        \* requests that carry it as typed, in mixed case
    IdentityOf,   \* IdentityOf[r]: the subject of r's Supabase JWT
    SubOf,        \* SubOf[r]: (provider, sub) of r's social profile
    Presents,     \* Presents[r]: whose link, or whose session, r presents
    Pending,      \* addresses with a registration request left to decide
    MaxFaults     \* bound: crashes and failed database calls in a behaviour

Bridged == {"jwt", "bff"}
Creators == {"social", "register", "approve", "invite"}
Kinds == Bridged \cup Creators \cup
         {"setup", "reset", "forgot", "login", "plugin", "rename",
          "newPassword", "delete", "reject"}
Of(kinds) == {r \in Requests : Kind[r] \in kinds}
Bridges == Of(Bridged)
Redeemers == Of({"setup", "reset"})
Plugins == Of({"plugin"})

ASSUME AccountsAssumption ==
    /\ None \notin Emails \cup Identities \cup Subs \cup Requests \cup {Placeholder}
    /\ Placeholder \notin Emails
    /\ NoRequest \notin Requests
    /\ Kind \in [Requests -> Kinds]
    /\ EmailOf \in [Requests -> Emails \cup {Placeholder}]
    /\ Mixed \subseteq Requests
    /\ IdentityOf \in [Requests -> Identities]
    /\ SubOf \in [Requests -> Subs]
    /\ Presents \in [Requests -> Requests]
    /\ Pending \subseteq Emails
    /\ MaxFaults \in Nat

VARIABLES
    \* database
    email,        \* users.email, unique; None where there is no row
    identity,     \* users.supabase_user_id, unique
    social,       \* (users.oauth_provider, users.oauth_sub), unique
    password,     \* users.password_hash
    active,       \* users.is_active
    funded,       \* accounts with credit_balance > 0
    device,       \* the row of oauth_clients that a request inserted
    link,         \* portal_setup_tokens
    applied,      \* oauth_registration_requests, by contact_email
    \* requests
    subject,      \* the account that a request works on or was answered with
    faults

users == <<email, identity, social, password, active, funded>>
database == <<users, device, link, applied>>
vars == <<database, subject, at, pc, loop, faults>>

Call == {"byEmail", "linkIdentity", "reclaim", "insertIdentity", "reread",
         "byAddress", "linkSocial", "linkShell", "lookup", "create", "insert",
         "grant", "device", "decide", "mint", "load", "setPassword",
         "activate", "consume", "findPlugin", "insertPlugin", "token",
         "rename", "remove", "drop"}

TypeOK ==
    /\ email \in [Requests -> Emails \cup {Placeholder, None}]
    /\ identity \in [Requests -> Identities \cup {None}]
    /\ social \in [Requests -> Subs \cup {None}]
    /\ password \in [Requests -> Requests \cup {None}]
    /\ active \subseteq Requests
    /\ funded \subseteq Requests
    /\ device \in [Requests -> {"none", "inactive", "active"}]
    /\ link \in [Requests -> {"none", "fresh", "lapsed", "used"}]
    /\ applied \in [Emails \cup {Placeholder} -> {"none", "pending", "approved"}]
    /\ subject \in [Requests -> Requests \cup {None}]
    /\ at \in [Requests -> Procs]
    /\ pc \in [Requests -> {Idle} \cup Call \cup Outcome]
    /\ loop \in [Procs -> Requests \cup {NoRequest}]
    /\ faults \in 0 .. MaxFaults
    /\ \A a \in Requests : email[a] = None =>   \* the columns are of rows
          identity[a] = None /\ social[a] = None /\ password[a] = None
    /\ active \cup funded \subseteq {a \in Requests : email[a] # None}

Nothing == [r \in Requests |-> None]

InitRows ==
    /\ email = Nothing
    /\ identity = Nothing
    /\ social = Nothing
    /\ password = Nothing
    /\ active = {}
    /\ funded = {}
    /\ device = [r \in Requests |-> "none"]
    /\ link = [r \in Requests |-> "none"]
    /\ applied = [e \in Emails \cup {Placeholder} |->
                    IF e \in Pending THEN "pending" ELSE "none"]
    /\ subject = Nothing
    /\ faults = 0

Init == InitRows /\ EventLoopInit

-----------------------------------------------------------------------------
(* What the handlers share. *)

\* Mutant: a statement that hits no row makes one.
ExistedOnce(a) == a # None

Exists(a) == a # None /\ email[a] # None
AccountsAt(e) == {a \in Requests : email[a] = e /\ e \in Emails}

\* get_user_by_email of an address as it was typed: rows are in lower case.
Looked(r) == IF r \in Mixed THEN {} ELSE AccountsAt(EmailOf[r])

Asks(r, kinds, to) == Kind[r] \in kinds /\ Starts(r, to)
Goes(r, kinds, from, to) == Kind[r] \in kinds /\ Runs(r, from, to)
Finds(r, a) == subject' = [subject EXCEPT ![r] = a]

\* The session cookie of whoever Presents[r] signed in.
SignedIn(r) ==
    /\ Kind[Presents[r]] \in {"login", "social", "setup", "reset"}
    /\ pc[Presents[r]] = "ok"

-----------------------------------------------------------------------------
(* resolve_or_create_user: for current_jwt_user on the thread pool, for the *)
(* scholar back end's grant and usage routes on the loop.                  *)

Resolves(r, from, to) ==
    \/ /\ Kind[r] = "jwt"
       /\ Steps(r, from, to)
    \/ /\ Kind[r] = "bff"
       /\ loop[at[r]] \in {r, NoRequest}
       /\ Runs(r, from, to)

Bound(r) == {a \in Requests : identity[a] = IdentityOf[r]}

ByIdentity(r) ==
    /\ pc[r] = Idle
    /\ \/ \E a \in Bound(r) : Resolves(r, Idle, "ok") /\ Finds(r, a)
       \/ /\ Bound(r) = {}
          /\ Resolves(r, Idle,
                IF EmailOf[r] = Placeholder THEN "insertIdentity" ELSE "byEmail")
          /\ UNCHANGED subject
    /\ UNCHANGED <<database, faults>>

\* Mutant: a row that is linked is linked again.
LinkedElsewhereIgnored(r, a) == FALSE

\* One verified address is one person: refusing to merge wallets.
LinkedElsewhere(r, a) == identity[a] \notin {None, IdentityOf[r]}

ByEmail(r) ==
    /\ pc[r] = "byEmail"
    /\ \/ /\ AccountsAt(EmailOf[r]) = {}
          /\ Resolves(r, "byEmail", "insertIdentity")
          /\ UNCHANGED subject
       \/ \E a \in AccountsAt(EmailOf[r]) :
             /\ Resolves(r, "byEmail",
                   CASE LinkedElsewhere(r, a) -> "failed"
                     [] ~ LinkedElsewhere(r, a) /\ a \in active -> "linkIdentity"
                     [] ~ LinkedElsewhere(r, a) /\ a \notin active
                        /\ a \in funded -> "failed"
                     [] OTHER -> "reclaim")
             /\ Finds(r, a)
    /\ UNCHANGED <<database, faults>>

\* UPDATE ... SET supabase_user_id WHERE user_id = subject: the unique index
\* refuses an identity that another row has, and a row that is gone is not hit.
LinkIdentity(r) ==
    /\ pc[r] \in {"linkIdentity", "reclaim"}
    /\ IF Exists(subject[r]) /\ Bound(r) \ {subject[r]} # {}
         THEN /\ Resolves(r, pc[r], "failed")
              /\ UNCHANGED <<identity, active>>
         ELSE /\ Resolves(r, pc[r], "ok")
              /\ identity' = IF Exists(subject[r])
                               THEN [identity EXCEPT ![subject[r]] = IdentityOf[r]]
                               ELSE identity
              /\ active' = IF Exists(subject[r]) /\ pc[r] = "reclaim"
                             THEN active \cup {subject[r]} ELSE active
    /\ UNCHANGED <<email, social, password, funded, device, link, applied,
                   subject, faults>>

InsertIdentity(r) ==
    /\ pc[r] = "insertIdentity"
    /\ IF AccountsAt(EmailOf[r]) # {} \/ Bound(r) # {}
         THEN /\ Resolves(r, "insertIdentity", "reread")
              /\ UNCHANGED <<email, identity, active, subject>>
         ELSE /\ Resolves(r, "insertIdentity", "ok")
              /\ email' = [email EXCEPT ![r] = EmailOf[r]]
              /\ identity' = [identity EXCEPT ![r] = IdentityOf[r]]
              /\ active' = active \cup {r}
              /\ Finds(r, r)
    /\ UNCHANGED <<social, password, funded, device, link, applied, faults>>

Reread(r) ==
    /\ pc[r] = "reread"
    /\ \/ \E a \in Bound(r) : Resolves(r, "reread", "ok") /\ Finds(r, a)
       \/ /\ Bound(r) = {}
          /\ Resolves(r, "reread", "failed")
          /\ UNCHANGED subject
    /\ UNCHANGED <<database, faults>>

-----------------------------------------------------------------------------
(* create_user, and the four routes that call it.                          *)

\* What a route answers when create_user raises: the form of registration
\* pretends, the panel shows an error, the others let it through.
Answer(r) == CASE Kind[r] = "register" -> "ignored"
               [] Kind[r] = "invite"   -> "refused"
               [] OTHER                -> "failed"

Create(r) ==
    /\ pc[r] \in {Idle, "create"}
    /\ \/ /\ Kind[r] = "invite"
          /\ Starts(r, IF AccountsAt(EmailOf[r]) = {} THEN "insert" ELSE "refused")
       \/ Goes(r, Creators \ {"invite"}, "create",
               IF AccountsAt(EmailOf[r]) = {} THEN "insert" ELSE Answer(r))
    /\ UNCHANGED <<database, subject, faults>>

Taken(r) == \/ AccountsAt(EmailOf[r]) # {}
            \/ Kind[r] = "social" /\ SubOf[r] \in {social[a] : a \in Requests}

Insert(r) ==
    /\ pc[r] = "insert"
    /\ IF Taken(r)
         THEN /\ Goes(r, Creators, "insert", Answer(r))
              /\ UNCHANGED <<users, subject>>
         ELSE /\ Goes(r, Creators, "insert",
                      IF Kind[r] = "invite" THEN "device" ELSE "grant")
              /\ email' = [email EXCEPT ![r] = EmailOf[r]]
              /\ social' = IF Kind[r] = "social"
                             THEN [social EXCEPT ![r] = SubOf[r]] ELSE social
              /\ active' = IF Kind[r] = "social" THEN active \cup {r} ELSE active
              /\ funded' = IF Kind[r] = "invite" THEN funded \cup {r} ELSE funded
              /\ Finds(r, r)
              /\ UNCHANGED <<identity, password>>
    /\ UNCHANGED <<device, link, applied, faults>>

\* apply_signup_grant, whose own calls are module Wallet's.
Grant(r) ==
    /\ Goes(r, Creators, "grant", IF Kind[r] = "social" THEN "ok" ELSE "device")
    /\ funded' = IF Exists(subject[r]) THEN funded \cup {subject[r]} ELSE funded
    /\ UNCHANGED <<email, identity, social, password, active, device, link,
                   applied, subject, faults>>

\* INSERT of the account's oauth_clients row; user_id is a foreign key.
InsertDevice(r) ==
    /\ pc[r] = "device"
    /\ IF Exists(subject[r])
         THEN /\ Goes(r, Creators, "device",
                      IF Kind[r] = "approve" THEN "decide" ELSE "mint")
              /\ device' = [device EXCEPT ![r] =
                              IF Kind[r] = "register" THEN "inactive" ELSE "active"]
         ELSE /\ Goes(r, Creators, "device", "failed")
              /\ UNCHANGED device
    /\ UNCHANGED <<users, link, applied, subject, faults>>

\* create_setup_token.  The mail that carries the link is awaited after it.
Mint(r) ==
    /\ Goes(r, {"register", "approve", "invite", "forgot"}, "mint", "ok")
    /\ link' = [link EXCEPT ![r] = "fresh"]
    /\ UNCHANGED <<users, device, applied, subject, faults>>

\* An account that was never confirmed gets another link by registering again.
RegisterLookup(r) ==
    /\ pc[r] = Idle
    /\ \/ /\ Looked(r) = {}
          /\ Asks(r, {"register"}, "create")
          /\ UNCHANGED subject
       \/ \E a \in Looked(r) :
             /\ Asks(r, {"register"},
                     IF a \notin active /\ password[a] = None
                       THEN "mint" ELSE "refused")
             /\ Finds(r, a)
    /\ UNCHANGED <<database, faults>>

ApproveRead(r) ==
    /\ Asks(r, {"approve"},
            CASE applied[EmailOf[r]] = "pending"  -> "lookup"
              [] applied[EmailOf[r]] = "approved" -> "duplicate"
              [] OTHER                            -> "refused")
    /\ UNCHANGED <<database, subject, faults>>

ApproveLookup(r) ==
    /\ pc[r] = "lookup"
    /\ \/ /\ Looked(r) = {}
          /\ Goes(r, {"approve"}, "lookup", "create")
          /\ UNCHANGED subject
       \/ \E a \in Looked(r) :
             /\ Goes(r, {"approve"}, "lookup", "device")
             /\ Finds(r, a)
    /\ UNCHANGED <<database, faults>>

Decide(r) ==
    /\ Goes(r, {"approve"}, "decide", "mint")
    /\ applied' = [applied EXCEPT ![EmailOf[r]] = IF @ = "none" THEN @ ELSE "approved"]
    /\ UNCHANGED <<users, device, link, subject, faults>>

RejectRead(r) ==
    /\ Asks(r, {"reject"}, IF applied[EmailOf[r]] = "none" THEN "refused" ELSE "drop")
    /\ UNCHANGED <<database, subject, faults>>

RejectDrop(r) ==
    /\ Goes(r, {"reject"}, "drop", "ok")
    /\ applied' = [applied EXCEPT ![EmailOf[r]] = "none"]
    /\ UNCHANGED <<users, device, link, subject, faults>>

BySub(r) ==
    /\ pc[r] = Idle
    /\ \/ \E a \in {b \in Requests : social[b] = SubOf[r]} :
             Asks(r, {"social"}, "ok") /\ Finds(r, a)
       \/ /\ SubOf[r] \notin {social[b] : b \in Requests}
          /\ Asks(r, {"social"}, "byAddress")
          /\ UNCHANGED subject
    /\ UNCHANGED <<database, faults>>

ByAddress(r) ==
    /\ pc[r] = "byAddress"
    /\ \/ /\ AccountsAt(EmailOf[r]) = {}
          /\ Goes(r, {"social"}, "byAddress", "create")
          /\ UNCHANGED subject
       \/ \E a \in AccountsAt(EmailOf[r]) :
             /\ Goes(r, {"social"}, "byAddress",
                     IF a \in active THEN "linkSocial" ELSE "linkShell")
             /\ Finds(r, a)
    /\ UNCHANGED <<database, faults>>

LinkSocial(r) ==
    /\ pc[r] \in {"linkSocial", "linkShell"}
    /\ IF Exists(subject[r])
          /\ SubOf[r] \in {social[b] : b \in Requests \ {subject[r]}}
         THEN /\ Goes(r, {"social"}, pc[r], "failed")
              /\ UNCHANGED social
         ELSE /\ Goes(r, {"social"}, pc[r],
                      IF pc[r] = "linkShell" THEN "activate" ELSE "ok")
              /\ social' = IF Exists(subject[r])
                             THEN [social EXCEPT ![subject[r]] = SubOf[r]]
                             ELSE social
    /\ UNCHANGED <<email, identity, password, active, funded, device, link,
                   applied, subject, faults>>

-----------------------------------------------------------------------------
(* Links and passwords. *)

\* Time passes: a link is past its expires_at.
Lapse(m) ==
    /\ link[m] = "fresh"
    /\ link' = [link EXCEPT ![m] = "lapsed"]
    /\ UNCHANGED <<users, device, applied, subject, at, pc, loop, faults>>

\* Mutant: a link works until it lapses.
NotLapsed(r) == link[Presents[r]] \in {"fresh", "used"}

Fresh(r) == link[Presents[r]] = "fresh"

\* The link is of the purpose that the route expects.
Purpose(r) == Kind[r] = IF Kind[Presents[r]] = "forgot" THEN "reset" ELSE "setup"

Redeem(r) ==
    /\ pc[r] = Idle
    /\ pc[Presents[r]] = "ok" /\ link[Presents[r]] # "none"
    /\ IF Fresh(r) /\ Purpose(r)
         THEN /\ Asks(r, {"setup", "reset"},
                      IF Kind[r] = "setup" THEN "load" ELSE "setPassword")
              /\ Finds(r, subject[Presents[r]])
         ELSE /\ Asks(r, {"setup", "reset"}, "refused")
              /\ UNCHANGED subject
    /\ UNCHANGED <<database, faults>>

\* Mutant: a link sets a password whether or not there is one.
SetupLoadUnchecked(r) ==
    /\ Goes(r, {"setup"}, "load",
            IF Exists(subject[r]) THEN "setPassword" ELSE "refused")
    /\ UNCHANGED <<database, subject, faults>>

SetupLoad(r) ==
    /\ Goes(r, {"setup"}, "load",
            IF Exists(subject[r]) /\ password[subject[r]] = None
              THEN "setPassword" ELSE "refused")
    /\ UNCHANGED <<database, subject, faults>>

SetPassword(r) ==
    /\ Goes(r, {"setup", "reset", "newPassword"}, "setPassword",
            CASE Kind[r] = "setup" -> "activate"
              [] Kind[r] = "reset" -> "consume"
              [] OTHER             -> "ok")
    /\ password' = IF Exists(subject[r])
                     THEN [password EXCEPT ![subject[r]] = r] ELSE password
    /\ UNCHANGED <<email, identity, social, active, funded, device, link,
                   applied, subject, faults>>

Activate(r) ==
    /\ Goes(r, {"setup", "social"}, "activate",
            IF Kind[r] = "setup" THEN "consume" ELSE "ok")
    /\ active' = IF Exists(subject[r]) THEN active \cup {subject[r]} ELSE active
    /\ UNCHANGED <<email, identity, social, password, funded, device, link,
                   applied, subject, faults>>

Consume(r) ==
    /\ Goes(r, {"setup", "reset"}, "consume", "ok")
    /\ link' = [link EXCEPT ![Presents[r]] = "used"]
    /\ UNCHANGED <<users, device, applied, subject, faults>>

\* A link to reset is mailed only to who has a password; nobody is told.
ForgotLookup(r) ==
    /\ pc[r] = Idle
    /\ \/ \E a \in AccountsAt(EmailOf[r]) :
             /\ Asks(r, {"forgot"}, IF password[a] # None THEN "mint" ELSE "ignored")
             /\ Finds(r, a)
       \/ /\ AccountsAt(EmailOf[r]) = {}
          /\ Asks(r, {"forgot"}, "ignored")
          /\ UNCHANGED subject
    /\ UNCHANGED <<database, faults>>

-----------------------------------------------------------------------------
(* Signing in, settings, deletion. *)

Login(r) ==
    /\ pc[r] = Idle
    /\ \/ \E a \in AccountsAt(EmailOf[r]) :
             /\ Asks(r, {"login"},
                     IF password[a] # None /\ a \in active THEN "ok" ELSE "refused")
             /\ Finds(r, a)
       \/ /\ AccountsAt(EmailOf[r]) = {}
          /\ Asks(r, {"login"}, "refused")
          /\ UNCHANGED subject
    /\ UNCHANGED <<database, faults>>

\* The Zotero plugin signs in whether or not the account is active.
PluginLogin(r) ==
    /\ pc[r] = Idle
    /\ \/ \E a \in AccountsAt(EmailOf[r]) :
             /\ Asks(r, {"plugin"},
                     IF password[a] # None THEN "findPlugin" ELSE "refused")
             /\ Finds(r, a)
       \/ /\ AccountsAt(EmailOf[r]) = {}
          /\ Asks(r, {"plugin"}, "refused")
          /\ UNCHANGED subject
    /\ UNCHANGED <<database, faults>>

PluginDevices(a) ==
    {d \in Plugins : device[d] # "none" /\ subject[d] = a}

FindPlugin(r) ==
    /\ Goes(r, {"plugin"}, "findPlugin",
            IF PluginDevices(subject[r]) # {} THEN "token" ELSE "insertPlugin")
    /\ UNCHANGED <<database, subject, faults>>

InsertPlugin(r) ==
    /\ Goes(r, {"plugin"}, "insertPlugin",
            IF Exists(subject[r]) THEN "token" ELSE "failed")
    /\ device' = IF Exists(subject[r])
                   THEN [device EXCEPT ![r] = "active"] ELSE device
    /\ UNCHANGED <<users, link, applied, subject, faults>>

\* The token is a row of the device, like those of module OAuthGrants.
PluginToken(r) ==
    /\ Goes(r, {"plugin"}, "token",
            IF PluginDevices(subject[r]) # {} THEN "ok" ELSE "failed")
    /\ UNCHANGED <<database, subject, faults>>

\* Both settings forms ask for the current password.
SettingsLoad(r) ==
    /\ pc[r] = Idle
    /\ SignedIn(r)
    /\ LET a == subject[Presents[r]] IN
          /\ Asks(r, {"rename", "newPassword"},
                  CASE ~ Exists(a) \/ password[a] = None -> "refused"
                    [] Kind[r] = "newPassword" /\ Exists(a) /\ password[a] # None
                       -> "setPassword"
                    [] OTHER -> IF AccountsAt(EmailOf[r]) = {}
                                  THEN "rename" ELSE "refused")
          /\ Finds(r, a)
    /\ UNCHANGED <<database, faults>>

Rename(r) ==
    /\ pc[r] = "rename"
    /\ IF Exists(subject[r]) /\ AccountsAt(EmailOf[r]) \ {subject[r]} # {}
         THEN /\ Goes(r, {"rename"}, "rename", "failed")
              /\ UNCHANGED email
         ELSE /\ Goes(r, {"rename"}, "rename", "ok")
              /\ email' = IF Exists(subject[r])
                            THEN [email EXCEPT ![subject[r]] = EmailOf[r]]
                            ELSE email
    /\ UNCHANGED <<identity, social, password, active, funded, device, link,
                   applied, subject, faults>>

DeleteLoad(r) ==
    /\ pc[r] = Idle
    /\ \/ \E a \in AccountsAt(EmailOf[r]) :
             Asks(r, {"delete"}, "remove") /\ Finds(r, a)
       \/ /\ AccountsAt(EmailOf[r]) = {}
          /\ Asks(r, {"delete"}, "refused")
          /\ UNCHANGED subject
    /\ UNCHANGED <<database, faults>>

\* The account's devices go by cascade; its links stay.
Remove(r) ==
    /\ Goes(r, {"delete"}, "remove", "ok")
    /\ LET a == subject[r] IN
          /\ email' = [email EXCEPT ![a] = None]
          /\ identity' = [identity EXCEPT ![a] = None]
          /\ social' = [social EXCEPT ![a] = None]
          /\ password' = [password EXCEPT ![a] = None]
          /\ active' = active \ {a}
          /\ funded' = funded \ {a}
          /\ device' = [d \in Requests |->
                          IF subject[d] = a THEN "none" ELSE device[d]]
    /\ UNCHANGED <<link, applied, subject, faults>>

-----------------------------------------------------------------------------
(* Faults. *)

\* A call fails.  The bridge takes any failure of its INSERT for a lost race,
\* create_user turns one of its own into ValueError, a failed grant is a warning.
AfterError(r) ==
    CASE pc[r] = "insertIdentity" -> "reread"
      [] pc[r] = "insert"         -> Answer(r)
      [] pc[r] = "grant"          -> IF Kind[r] = "social" THEN "ok" ELSE "device"
      [] OTHER                    -> "failed"

DatabaseError(r) ==
    /\ pc[r] \in Call
    /\ IF Kind[r] = "jwt" THEN Steps(r, pc[r], AfterError(r))
                          ELSE Runs(r, pc[r], AfterError(r))
    /\ faults < MaxFaults
    /\ faults' = faults + 1
    /\ UNCHANGED <<database, subject>>

Crash(p) ==
    /\ \E r \in Requests : at[r] = p /\ pc[r] \in Call
    /\ pc' = [r \in Requests |->
                IF at[r] = p /\ pc[r] \in Call THEN "crashed" ELSE pc[r]]
    /\ loop' = [loop EXCEPT ![p] = NoRequest]
    /\ faults < MaxFaults
    /\ faults' = faults + 1
    /\ UNCHANGED <<database, subject, at>>

-----------------------------------------------------------------------------
(* The handlers. *)

Resolve(r) ==
    /\ Kind[r] \in Bridged
    /\ \/ ByIdentity(r) \/ ByEmail(r) \/ LinkIdentity(r) \/ InsertIdentity(r)
       \/ Reread(r)

NewAccount(r) == Create(r) \/ Insert(r) \/ Grant(r) \/ InsertDevice(r) \/ Mint(r)

Register(r) == Kind[r] = "register" /\ (RegisterLookup(r) \/ NewAccount(r))
Invite(r) == Kind[r] = "invite" /\ NewAccount(r)
Approve(r) ==
    /\ Kind[r] = "approve"
    /\ ApproveRead(r) \/ ApproveLookup(r) \/ NewAccount(r) \/ Decide(r)
Reject(r) == Kind[r] = "reject" /\ (RejectRead(r) \/ RejectDrop(r))
SocialCallback(r) ==
    /\ Kind[r] = "social"
    /\ BySub(r) \/ ByAddress(r) \/ LinkSocial(r) \/ Activate(r) \/ NewAccount(r)

SetupPassword(r) ==
    /\ Kind[r] = "setup"
    /\ Redeem(r) \/ SetupLoad(r) \/ SetPassword(r) \/ Activate(r) \/ Consume(r)
ForgotPassword(r) == Kind[r] = "forgot" /\ (ForgotLookup(r) \/ Mint(r))
ResetPassword(r) ==
    Kind[r] = "reset" /\ (Redeem(r) \/ SetPassword(r) \/ Consume(r))
PluginSignIn(r) ==
    /\ Kind[r] = "plugin"
    /\ PluginLogin(r) \/ FindPlugin(r) \/ InsertPlugin(r) \/ PluginToken(r)
SettingsEmail(r) == Kind[r] = "rename" /\ (SettingsLoad(r) \/ Rename(r))
SettingsPassword(r) == Kind[r] = "newPassword" /\ (SettingsLoad(r) \/ SetPassword(r))
DeleteUser(r) == Kind[r] = "delete" /\ (DeleteLoad(r) \/ Remove(r))

Handle(r) ==
    /\ pc[r] \notin Outcome
    /\ \/ Resolve(r) \/ Register(r) \/ Invite(r) \/ Approve(r) \/ Reject(r)
       \/ SocialCallback(r) \/ SetupPassword(r) \/ ForgotPassword(r)
       \/ ResetPassword(r) \/ Login(r) \/ PluginSignIn(r) \/ SettingsEmail(r)
       \/ SettingsPassword(r) \/ DeleteUser(r)

Next ==
    \/ \E r \in Requests : Handle(r) \/ DatabaseError(r) \/ Lapse(r)
    \/ \E p \in Procs : Crash(p)

Spec == Init /\ [][Next]_vars

-----------------------------------------------------------------------------
(* Properties. *)

\* One process serves.
OneProcess == \A p, q \in Procs : p = q

\* Supabase has one subject for a verified address: two subjects carry one address
\* only to coroutines of one process, which do not overlap.  The settings page moves
\* no account to an address that comes in a JWT.
SubjectsApart ==
    /\ \A r, s \in Bridges :
          /\ EmailOf[r] = EmailOf[s] /\ EmailOf[r] # Placeholder
          /\ IdentityOf[r] # IdentityOf[s]
          => OneProcess /\ Kind[r] = "bff"
    /\ \A q \in Of({"rename"}), r \in Bridges : EmailOf[q] # EmailOf[r]

\* Whoever is answered for a Supabase identity acts on the account that has
\* that identity, from the answer on: no thread that read the row earlier, no
\* sign-up that won the race and no later link moves a wallet to another one.
IdentityKeepsAccount ==
    \A r \in Bridges :
        pc[r] = "ok" /\ Exists(subject[r]) => identity[subject[r]] = IdentityOf[r]

\* However many links to set up an account are out, and whichever handlers die
\* half way, none of them replaces a password that was set.
SetupNeverResets ==
    [][\A a \in Requests :
          password[a] # None /\ password'[a] \notin {password[a], None} =>
              Kind[password'[a]] \in {"reset", "newPassword"}]_vars

\* A link is redeemed in one statement and consumed three statements later: in
\* one process it is still answered for once.
LinkUsedOnce ==
    \A r, s \in Redeemers :
        pc[r] = "ok" /\ pc[s] = "ok" /\ Presents[r] = Presents[s] => r = s
=============================================================================
