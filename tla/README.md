# A specification of the DS-MOZ Connect OAuth server and gateway

TLA+ modules for the parts of `mcp-oauth-server` where the order of steps
matters: who is credited or charged, how often, who a token acts for, which
account an identity gets, what is in a toolbox, which settings, prices and
tokens a call is made with. TLC checks the modules on small instances, TLAPS
proves the main results for every value of the constants. Paths below are those
of the repository; the Python code is under `src/src/` and `src/main.py`,
migrations under `src/migrations/`.

## 1. The system

One FastAPI service (`src/main.py`) in front of a Supabase database. It is an
OAuth 2.0 authorization server, a gateway that forwards MCP tool calls to
upstream servers and bills them, a user portal, an admin panel and a REST API
for the scholar web application.

**How requests run.** One uvicorn process serves; during a rolling deploy the
old and the new one overlap. The Supabase client is synchronous, so an
`async def` handler keeps its process's event loop from one `await` to the next,
*through* all the database calls between them. Handlers that are plain
functions (`post_debit`, `post_checkout`, the `/api/v1/tokens` routes,
`current_jwt_user`) and `asyncio.to_thread` calls run on the thread pool and
interleave with everything. There are no transactions: a handler that makes four
calls can die, or lose the database, after any of them. Much of what is correct
here is correct only because of where an `await` is *not*.

### Inventory

| component | state | operations | correct when | module |
|---|---|---|---|---|
| **Credit wallet** — `gateway/wallet_api.py`, `stripe_webhook.py`, `admin_internal_api.py`, `users/provider.py`, top-ups in `portal/`, `admin/`, `oauth/routes.py` (Telegram), tool calls | `users.credit_balance`, `users.signup_grant_at`, `oauth_usage_logs.request_id`, `credit_topup_requests` | debit, grant, add credits, checkout and refund events, request/approve/reject a top-up, signup grant, tool call | an event moves the balance once, no move is undone, nothing counts as done before its credits moved | `Wallet`, `Ledger` |
| **OAuth authorization server** — `oauth/provider.py`, `oauth/routes.py`, consent in `portal/routes.py`, revocation in `portal/` and `admin/` | clients, codes, access and refresh tokens, the access-token cache of each process | authorize, consent and device claim, exchange, refresh, revoke, delete, authenticate | a code is used once, a token acts for who consented (or, where nobody was asked, for no one but the client's owner), revocation ends access, one live refresh token and one active device | `OAuthGrants`, `Consent` |
| **Dynamic client registration** — `oauth/routes.py`, `oauth/provider.py` | unclaimed `oauth_clients`, fingerprints and their unique index | register, claim, switch off, delete, clean up | a registration gets a client of its own or an unclaimed one with its fingerprint, races are answered, nobody is refused his own, a claim gives up the user's devices of the same name | `Registration` |
| **User identity and portal accounts** — `gateway/jwt_auth.py`, `users/provider.py`, `portal/routes.py`, `portal/social.py`, registration in `oauth/` and `admin/` | `users` (unique `email`, `supabase_user_id`, social sub), setup and reset tokens, registration requests | resolve or create on threads, sign-up, approval, links, login, rename, deletion | an identity keeps its account, a link works once, no setup link replaces a password | `Accounts` |
| **Toolbox and catalogue** — `gateway/routes.py`, `gateway/admin_toolbox_api.py`, `portal/routes.py`, `admin/routes.py` | `users.allowed_mcp_resources`, `mcp_catalogue`, `users.tier`, the catalogue caches | seven writers of the list, the panel's catalogue, publication of what is new on Railway | a request changes what it was asked to, what an admin has hidden stays hidden | `Toolbox` |
| **Upstream calls** — `gateway/upstream.py`, `gateway/routes.py` | candidate URL, attempt | call, list, read; classify errors, retry | a tool is run again only if nobody has heard it, billed once and only if answered | `Calls` |
| **Usage pricing** — `gateway/billing.py`, `admin/cost_model.py`, `wallet_api.py` | four price tables, four caches per process | `compute_cost`, save, invalidate | a saved price takes effect | `Calls` |
| **Saved settings and Scholar provisioning** — `gateway/routes.py`, `rest_proxy.py`, `portal/routes.py` | `user_mcp_configs`, `_user_config_cache`, `_tool_cache`; the tenant at Scholar | save, call, list tools, provision, link, tear down | caches follow the save, what was torn down stays down | `Credentials` |
| **Microsoft Graph** — `integrations/microsoft_graph.py`, `portal/integrations.py` | `user_ms_graph_tokens`, a lock per user and process | connect, refresh, disconnect | no replaced refresh token is sent while its replacement can still come, a disconnected account stays so | `Credentials` |
| **Agent and wallet tokens** — `users/agent_tokens.py`, `gateway/wallet_api.py` | `user_agent_tokens`, the agents' client row | mint, use, revoke, delete | one client row per user | `Credentials` |
| **TTL cache** — `cache.py` | entries with an expiry, bounded size | get, set, pop, clear | serves nothing expired | in each module: an entry may go at any time |
| **Admin panel** | one-row forms beside the above | | | in the modules above |
| **Notifications, landing, configuration** | outgoing messages, read-only pages | | | not modelled |

**Interactions.** All state that components share is in the database; the
caches are per process. Stripe and the scholar back end call in, and call again
until they see a 2xx. Telegram's buttons and the panel decide the same top-up. The
portal drives the second half of `/authorize`, and its sign-in gives the user
that consents and claims a registered client. The gateway believes the
access-token cache of its own process, the price and catalogue caches and the
cached settings, and bills after it has awaited an upstream.

**What is hard.** A request delivered twice, at once or much later; a crash
between two calls; reads that are stale when they are used (a balance, an
owner, a toolbox, settings, a price); work that goes on across an `await` while
others undo what it rests on; two processes that overlap; and handlers on the
thread pool for which the missing `await` protects nothing. `PROJECT.json` lists
each hazard at its line with the property that covers it.

## 2. Modules

`EventLoop` is what all modules share: `pc` per request, `at` its process, and
`loop` per process, a mutex for coroutines. `Starts` and `Runs` are a
coroutine's steps from one database call to the next, `Awaits` gives the loop up
and `Resumes` takes it again, `Steps` is a step of a thread.

| module | what it is | its MC module | its proofs |
|---|---|---|---|
| `Wallet` | every writer of `users.credit_balance` | `MCWallet` | `WalletProofs` |
| `Ledger` | abstract: the balance is the sum of what was posted, and what must be posted once is | | `WalletProofs` |
| `OAuthGrants` | from `/authorize` to the last revocation | `MCOAuthGrants` | `OAuthGrantsProofs`, `OAuthLoopProofs` |
| `Consent` | abstract: one user consents to a session, which yields one pair of tokens, that user's; a pair that nobody was asked for is the client's owner's or nobody's | | `OAuthGrantsProofs` |
| `Registration` | clients from registration to claim or cleanup | `MCRegistration` | `RegistrationProofs` |
| `Devices` | abstract: a device is handed out by fingerprint while it is free, taken once, given up for another one of its name, and never switched on again | | `RegistrationProofs` |
| `Accounts` | the `users` table, its links and its registration requests | `MCAccounts` | `AccountsProofs` |
| `Toolbox` | one user's toolbox and the catalogue | `MCToolbox` | `ToolboxProofs` |
| `Calls` | upstream calls and their prices | `MCCalls` | `CallsProofs` |
| `Delivery` | abstract: a tool runs again only while nothing was heard, a bounded number of times, and is charged for once | | `CallsProofs` |
| `Credentials` | what a user's calls carry upstream, and agent tokens | `MCCredentials` | `CredentialsProofs` |

The grain is one database call per action, except where a section below says
otherwise. In every module a request is named in the constants by what it asks
for (`Kind`), and a row by the request that inserts it. `DatabaseError` is a
call that fails, `Crash` a process that is replaced or killed with its caches
and its coroutines; both count towards `MaxFaults`. Definitions marked *Mutant*
are plausible bugs, used to see that each property can fail.

### Wallet

*State.* The database part is `balance`, `usageLog` (the unique `request_id`s),
`recorded` (the unique `stripe_session_id`s), `topup` (status of a request) and
`granted` (`signup_grant_at` is set). `seen` is the local variable of a
read-modify-write handler. `applied` is history: how often an event moved a balance.
What the balance would be had no move been lost is the abstract `Ledger`'s to say.

*Events and requests.* An event is what happened (a session was paid, a button
exists); a request is one delivery of it. Retries, redeliveries and second
clicks are several requests with the same event.

*Actions.* `DebitCheck/Settle/Log` are the calls of `post_debit` and take no
loop. `GrantCheck`, `AddCreditsRead/Write`, `GrantLog` are `grant_credits`
around `add_credits`; the panel's add-credits route enters at the read.
`CheckoutCheck/Credit/Record` and `RefundLookup/Debit` are the Stripe webhook.
`Approve*` and `Reject*` are the Telegram and panel buttons, which differ: the
panel's reject looks at no status. `Signup*` is `apply_signup_grant`, `Call*`
a tool call with its upstream await in the middle. `Rpc` is an UPDATE that adds
(`settle_credits_user`, `credit_wallet_user`), `Overwrites` an UPDATE with a
number computed from an earlier read.

*Abstractions.* Amounts are integers; a refund debits the whole amount of its
checkout, as the code does. A reply that is lost after the database did the
work is that call followed by a fault of the next.

### OAuthGrants

*State.* `status` and `owner` of a client, `code` of a session (pending, the
consent that answered it, or gone), the `access` and `refresh` rows of a pair,
their `holder`, and `cache` per process. `consented` is history.

*Names.* A code is named by the consent that wrote it, a pair of tokens by the
request to `/token` that issued it. A client presents only what it was `Handed`: a code
or a token by the answer to the request that wrote it, and the id of its session by
`/authorize` (oauth/routes.py:149). That id stands in the column where the code will be
(provider.py:141), and `/token` takes whatever is in that column (provider.py:226): the
requests in `Early` present it. Secrets, PKCE verifiers and redirect URIs are the set
`Genuine`.

*Actions.* `Authorize`, `Expire`; `ConsentLoad`, `Claim*`, `Approve*` are
`_complete_oauth_session` with `claim_unclaimed_client` and `complete_authorization`;
`TokenClient`, `Exchange*`, `Refresh*`, `Issue*` are `/token`, in which `ExchangeBind` and
`RefreshBind` settle whom the pair acts for: the user whom the code's row or the old
token's names, and where it names none the owner in the client's row, or, at an exchange for a public
client, an error; `RevokeStart` .. `RevokeRefreshToken` are `/revoke` and the panel's
token inspector; `DeviceCheck` .. `RevokeAllRefresh` the revoke buttons; `Delete*` the
deletion of a client; `Authenticate` and `CacheDrop` the cache (an entry may go at any
time: it expires after a minute, or a full cache evicts it).

*Abstractions.* The UPDATEs that switch off duplicates of a device are one
step. Clients have names, which stay. Deletion does not rely on foreign-key cascades. The
plugin's login issues a token of its own (portal/routes.py:381-391), without code or
session; it is no exchange and not modelled.

### Registration

*State.* `rows`, `owner`, `on` (`is_active`), `old` (past the cleanup's day) and
`given`, the client a registration was answered with.

*Actions.* `Register` is `/register`: the select of an unclaimed client with the
fingerprint, the insert that the unique index of unclaimed fingerprints may refuse, the
second select. `Claim` is `claim_unclaimed_client`, which first switches off `Namesakes`,
the user's other devices of the claimed client's name; `Panel` is creation, revocation,
deletion and the cleanup of unclaimed clients; `Ages` lets a day pass.

*Names and fingerprints.* A registration finds a client by `FingerOf`, a hash of the name
in small letters and of the redirect URIs (crypto.py:36-43); it is `Generic`, which matches
nothing, for a program with the default name and no URIs and for the clients that the panel
makes. A claim goes by `NameOf`, the name letter by letter (provider.py:72-84), and by none
if it is empty. The two are independent constants: devices of one name may differ in their
URIs or be the panel's, and names that differ in case may share a fingerprint.

*Abstractions.* The UPDATEs that switch off namesakes are one step. A name stays as it was
registered: the panel's form that edits it (admin/routes.py:412-426) is left out. So is
what no decision here looks at (scope, logo, the secret).

### Accounts

*State.* The columns of `users` that identify a row or open it: `email`,
`identity` (Supabase subject), `social`, `password`, `active`, `funded` (holds
credit); `device`, the client row made with an account; `link`, the setup and
reset tokens; `applied`, the registration requests; `subject`, the account a
request works on.

*Actions.* `resolve_or_create_user` on the thread pool and on the loop
(`byEmail` .. `reread`); social sign-in (`byAddress` .. `linkShell`);
`/register`, the admin's approval, rejection and invitation (`lookup` ..
`mint`); setup and reset (`load`, `setPassword`, `activate`, `consume`); login
and the plugin's login; change of address and password; deletion. `Lapse` lets a
link run out.

*Abstractions.* Addresses are values in lower case; `Mixed` are the requests
that carry one as it was typed. A password is named by who sets it. Verification
of JWTs and cookies is left out.

### Toolbox

*State.* `toolbox`, `tier`, the catalogue as the sets `listed`, `published` and
`premium`, `credential`, the two caches per process, and `seen`, the list a
request has in hand. `blind` is history: where the list in hand does not show what the
toolbox holds, because somebody has changed it since or because the reader left out
what the catalogue does not offer.

*Actions.* `Agent` is `add_mcp`, `remove_mcp` and `browse_mcps` of the gateway,
whose list is read when the HTTP request begins; `Portal` the catalogue page,
its buttons and its form, and the Scholar service's enable and disable; `Panel`
create, edit, toggle, bulk, delete, the visit that publishes what is new on
Railway, and the tier.

*Abstractions.* One user. The read of the list and the cached reads that go
with it are one step. An admin's form names what it changes in `Change`.

### Calls

*State.* `saved` and `kept`: the rows of the four price tables and the caches of
each process, as versions; `fetched`, what a lookup has read and not cached;
`candidate`, `attempt`, `reply`, `ran`, `billed` of a call. `excused` is history:
the caches that a failed read, a thread that was overtaken, or another process's save has
put out of date.

*Actions.* `Upstream` is the route of a tool call: minimum balance, form, balance,
each try on each candidate URL (`TriesNext` has the rules for which error leads on,
per kind of call), and the settlement. `Prices` is `compute_cost`: four lookups,
each a cache hit or a read followed by the insert. `Admin` is each save with
`invalidate_*` behind it. `Expire` is the end of an entry.

*Abstractions.* What an error is (`timeout`, `terminated`, `misdirected`, ...) is
the outcome of a try; that the tool has run is independent of whether the answer
arrived. The price formula and the time limits are left out. The wallet is
`Wallet`'s; here a balance suffices or not.

### Credentials

*State.* `config`, `configCache`, `toolCache`, `tenant` (external) and `carry`, the
settings a request took along; `graph`, the connection with the serial of its refresh
token, `issued` and `spent` (external: the refresh tokens that Microsoft has issued, and
those it has replaced), `lock`, `held`; `status` of an agent token and `agentClients`.
`lagging`, `behind`, `torn` and `stranded` are history: requests whose reading was
replaced since, caches filled too late, a teardown after which nothing was saved, and a
connection whose row holds a replaced token for good.

*Actions.* `Config` is save, call, REST proxy, list of tools, edit in the panel,
provisioning, automatic link and teardown, in which `ScholarDeletes` and the arrival of its
answer (`TornDown`) are two steps; `Graph` is connect, disconnect and
`get_user_graph_token` with its lock, second look, refresh and upsert; `Agent` mints,
uses, revokes and deletes. `ExpireAccess` ends the hour of an access token.

*Abstractions.* One user, and of the MCPs the one whose upstream provisions on contact.
Microsoft answers a refresh with a new refresh token, in place of the one it was sent, or
with none, or refuses; and its answer may be lost after it has replaced the token
(`AnswerLost`: a time-out, a task that `list_tools` cancels, a crash). Both upstreams are
external, modelled from what the code sends them.

## 3. What is checked

A behaviour of an MC module with a constant `Scenarios` takes one of these sets of
requests and routes them to processes at will; the other requests count as answered.
Where a cfg's list is empty, a behaviour has all the requests.

| run | bounds | properties | shows |
|---|---|---|---|
| `one_process` | 1 process, no fault; grant, checkout and top-up delivered twice, two signups, a refund, a panel grant, a tool call | `TypeOK`, `AppliedOnce`, `RejectedIsFinal`, `LedgerSpec` | each event moves its balance once, a rejection is final, the wallet implements `Ledger` |
| `faults` | 2 processes, 1 fault, fair; one user's debit, call, and checkout delivered twice, another one's top-up and grant | `RecordsBacked`, `LedgerSpec`, `CheckoutCredited` | nothing counts as done before its credits moved; the first user's balance is a ledger all the same; a paid checkout reaches the wallet |
| `races` | 2 processes, 1 fault; four scenarios: two users answer one session beside two exchanges of the code and one of the session's id, or the latter and a refresh of its pair; deletion of the client beside either | `TypeOK`, `CodeRedeemedOnce`, `TokensFollowConsent`, `ConsentSpec` | one pair of tokens, the consenter's, or the owner's or nobody's where nobody was asked; implements `Consent` |
| `oauth_one_process` | 1 process, 1 fault; two devices of one name, one of them claimed twice, exchange, two refreshes with one token, revocation by portal and panel, deletion | `OneLiveRefresh`, `RevokedDeviceIsDead`, `CacheFollowsRows`, `OneActiveDevice`, `ConsentHandedOut` | rotation, revocation and the cache where coroutines do not interleave |
| `oauth_live` | 2 processes, no fault, fair; a public client, an exchange of the session's id, a refresh, `/revoke` of an access token, the inspector | `TokensFollowConsent`, `RevocationLands` | a session's id gets no token, and tokens stay the consenter's, where no row has an owner; no cache lets a revoked token in for ever |
| `registration` | 2 processes, 1 fault; nine scenarios: up to three registrations with one fingerprint, one name with other URIs or in other letters, no name, the panel's clients; claims by two users and two tabs, revocation, deletion, cleanup | `TypeOK`, `DevicesSpec`, `FailsOnlyByRace`, `RefusedOnlyByOther` | implements `Devices`, by fingerprint and by name; nobody fails without a race or is refused his own |
| `accounts` | 1 process and its threads, 1 fault; six scenarios of up to seven requests: bearers of one and of two subjects against sign-up and deletion, links, approvals, logins | `TypeOK`, `IdentityKeepsAccount`, `LinkUsedOnce`, `SetupNeverResets` | an identity keeps its account, a link works once, no setup link replaces a password |
| `toolbox` | 2 processes, 1 fault; eight scenarios over three MCPs | `TypeOK`, `ChangesWhatItMust`, `OnlyAgentsAreStale`, `StaysUnpublished` | what a request changes beyond its order is what its reading did not show |
| `calls` | 2 processes, 1 fault; every kind of call alone, each saver of prices beside a call, a debit or a preview; 2 attempts | `TypeOK`, `BilledAsAnswered`, `DeliverySpec`, `PriceIsCurrent` | implements `Delivery`; billed only if answered, and then always; saved prices but where a refill or another process was in the way |
| `credentials` | 2 processes, 1 fault; twelve scenarios of three or four requests | `TypeOK`, `SettingsFollow`, `TornDownStaysDown`, `RefreshesLatest`, `AccountKept`, `OneAgentClient` | caches follow the save; a refresh sends no replaced token while its replacement can still come; what was torn down or disconnected comes back only by what overlapped it |

Two runs end in a violation, each of a sentence in the repository:

| run | sentence | what happens |
|---|---|---|
| `debit_twice` | wallet_api.py:209 "a duplicate call returns the current balance without billing or logging again" | two deliveries on two threads pass the check at line 217 before either logs at 254 |
| `flagged` | gateway/routes.py:1356 "Skip settlement on upstream errors — user got nothing" | a result the upstream flags with `isError` loses the flag in `_call_via_url` and is settled |

### Why the bounds are enough

The races are between *two* deliveries, users, processes or devices; each run
has two of what its property is about, and three where a third is the victim (a
registration that finds neither of two others, a coroutine that queues behind two). One
fault is enough for an ordering error between two calls to show, because a handler
never retries; a call's own retries are outcomes of its tries and not faults. Amounts
are pairwise different, so that a lost move is not mistaken for another one. Every
action fires in a passing run. What the bounds leave open the theorems close for the
properties they cover. Deadlock is not checked: a workload is finite and a run stops
when every request is answered.

### Fairness

`Wallet!FairSpec` has weak fairness of each request's handler: a coroutine or a
thread that can take a step takes it, and Stripe redelivers until it is answered
with 200 (the second delivery exists and is handled). Nothing is assumed of faults.
`OAuthGrants!FairSpec` assumes only that no entry stays in a cache for ever
(`ACCESS_TOKEN_CACHE_TTL`, provider.py:21): no request has to arrive.

## 4. What is proved

All proofs are for arbitrary sets of users, requests and processes and any bound on
faults, from each module's assumption on the types of its constants. Where a theorem
says "one process" it has `OneProcess` as its hypothesis: while two overlap the property
fails, and the hypothesis is the point.

| module | theorem | needs | says |
|---|---|---|---|
| `WalletProofs` | `TypeCorrect`, `RecordsAreBacked` | | `TypeOK`, `RecordsBacked` |
| | `EventsApplyOnce` | | `AppliedOnce` (which says what it needs of each event) |
| | `RejectionHolds` | one process | `RejectedIsFinal` |
| | `WalletImplementsLedger` | | `LedgerSpec`, for the users that are `Guarded` |
| `OAuthGrantsProofs` | `TypeCorrect`, `CodesAreSingleUse`, `TokensAreTheConsenters` | | `TypeOK`, `CodeRedeemedOnce`, `TokensFollowConsent` |
| | `GrantsImplementConsent` | | `ConsentSpec` |
| `OAuthLoopProofs` | `RevokedDevicesAreDead`, `RefreshTokensRotate`, `DevicesDoNotAccumulate`, `ConsentsAreHandedOut`, `CacheIsFollowing` | one process | `RevokedDeviceIsDead`, `OneLiveRefresh`, `OneActiveDevice`, `ConsentHandedOut`, `CacheFollowsRows` |
| `RegistrationProofs` | `TypeCorrect`, `RacesAreAnswered`, `RefusalsAreOthers` | | `TypeOK`, `FailsOnlyByRace`, `RefusedOnlyByOther` |
| | `RegistrationImplementsDevices` | | `DevicesSpec` |
| `AccountsProofs` | `TypeCorrect` | | `TypeOK` |
| | `IdentitiesKeepAccounts` | `SubjectsApart` | `IdentityKeepsAccount` |
| | `LinksWorkOnce`, `SetupLinksNeverReset` | one process | `LinkUsedOnce`, `SetupNeverResets` |
| `ToolboxProofs` | `TypeCorrect`, `ToolboxChangesAsAsked`, `OnlyAgentsWriteStale`, `UnpublishedStays` | | `TypeOK`, `ChangesWhatItMust`, `OnlyAgentsAreStale` (itself about one process), `StaysUnpublished` |
| `CallsProofs` | `TypeCorrect`, `CallsAreBilledAsAnswered`, `PricesAreCurrent` | | `TypeOK`, `BilledAsAnswered`, `PriceIsCurrent` |
| | `CallsImplementDelivery` | | `DeliverySpec` |
| `CredentialsProofs` | `TypeCorrect`, `SettingsAreFollowed`, `TeardownHolds`, `RefreshTokensAreLatest`, `AccountIsKept`, `OneClientPerProcess` | | `TypeOK`, `SettingsFollow`, `TornDownStaysDown`, `RefreshesLatest`, `AccountKept`, `OneAgentClient` |

*The loop.* In every module `HoldsLoop` (`LoopInv`) says that a coroutine between two
calls holds its loop. With one process everyone else then rests, which is what makes a
value read by one statement current in the next.

*Wallet.* `BackedInv` adds to `RecordsBacked` that a request about to
write its record has moved its credits; without it the write
of the record is not covered. `AppliedOnce` has two reasons. What arrives once is applied
once because its request has moved nothing until it stands behind its move
(`SingleInv`): no fault sends a request back. What is checked first is applied once
because between check and write the check would still pass (`CheckStillHolds`, with
`AppliedIsRecorded`), and that is the loop's doing and needs one process; a fault between
a move and its record breaks it for grants, checkouts and top-ups, but not for a signup,
which writes both in one UPDATE. `WalletImplementsLedger` adds `SeenIsCurrent`: the number
that a handler is about to write was computed from the current balance. It holds
for a *guarded* user: nobody computes a balance of his (his wallet moves by UPDATEs
that add), or every request that touches it is a coroutine of one process. A debit on the
thread pool of a user who is granted credits by a read and a write is neither, and
there the code does lose moves. A step that books an event of a guarded user maps to its
posting; moves of others, checks, records and faults are stutters.

*Grants, any processes.* `GrantInv` is four parts. `CodeInv`: a code belongs to the
consent of its session and who takes it is alone, whether he took the code or the id that
stood in its place. `RowInv`: rows exist when and only
when the request that makes them has got there. `OwnerInv`: a consent past its claim is
by the owner, and an owner never changes. `HolderInv`: a pair's holder is the
consenter, carried through every refresh, and if nobody has consented the owner or nobody;
who has taken the session's id has left no row that could be consented to, so that such a
pair is never joined by a consent. None is inductive alone: that nobody
else took the code needs that it is gone from the row, and that needs how far
each exchange has got.

*Grants, one process.* `DeadInv`: whoever is at a statement of `/token` has an active
client, and a revocation has left none of its rows valid. `LiveInv`: at most one pair of
a session is live, counting the one
in the making. `ActiveInv`: between the two statements of a claim no device of that name
is on. `HandedInv`: a session that is about to be answered is pending. `CacheInv`: a
deletion about to remove tokens has emptied the cache.

*Registration.* `RowsInv`: a row is named by a request that was answered with it.
`PublicInv`: a request that goes on to claim claims a client its user was handed, and not
one that all users share; with it each statement maps to a step of `Devices` or a stutter:
an offer is of a row that is free and on, a claim writes only where no owner is and
switches off only devices of its user and of the claimed name, the cleanup removes only
what is free. `RevokeInv`: the panel switches off a client only once its registration was
answered. `RaceInv`: who looks again has collided with a row, which, once it is not
offered, never is again. `ClaimInv`: a claim that wrote nothing finds an owner or no row.
The database's unique index and its conditional UPDATE carry these, so no process count is
assumed.

*Accounts.* `BearerInv`: the accounts of a bearer's address were all made for that
address, and a bearer about to link one works on an account of his address that has no
identity yet or his own; with `RowsInv`, the unique columns of the table.
`SubjectsApart` is the hypothesis it needs, and (e) below why: the UPDATE that links does
not ask whether the row is still unlinked, so two subjects that carry one address on two
threads would take it from one another. Supabase gives a verified address one
subject. `LinkInv`: between redeeming and consuming a link is not used, and after the
answer it is. `SetupInv`: whoever is about to set a first password still finds none.

*Toolbox.* `BlindInv`: where a list in hand is not what the toolbox holds, its reader is
blind. `BulkInv`: a bulk form writes what it has selected. `StaleInv` rests on the loop.

*Calls.* `CallInv`: how far a call has come tells whether its tool may have run, and how
often: once for each try that lies behind it, which its URLs and attempts bound. While it
tries nothing was heard; a reply that is settled is of a tool that has run. Each try then
maps to a lost, failed or answered one of `Delivery`, the settlement to a charge.
`PriceInv`: what a coroutine has read and not cached is what is saved, if no other process
saves; a process's caches hold the saved prices unless excused, or unless one of its
coroutines is about to clear them.

*Credentials.* `CarryInv`: settings that a request carries are the saved ones, or it lags.
`TornInv`: after a teardown there are none. `FollowInv`: the caches hold the saved ones
or are marked, or a coroutine is about to drop them. `LockInv`: the lock is held by a request of
its process that renews the token; with it `GraphInv`: a refresh that nothing overtook
works on the row's account. `SerialInv`: no refresh token is newer than the last one issued.
`TurnInv`: whoever is about to write, and was not overtaken, holds a token that is good and
that nobody else has (`Sole`), or the one that is saved, and a saved token
that was replaced is about to be written over by who holds the new one, or the row is
stranded. `AgentInv`: a row that is found was
inserted by somebody who was answered, in another process if a second one follows.

*Model-checked only.* `CheckoutCredited` and `RevocationLands`:
liveness under fairness is beyond the prover. Every other property of a passing run is
the subject of a theorem. Neither `ENABLED` nor induction over data is used; there is no
RECURSIVE operator.

## 5. Where documents and code part

Beside the two violations above, met while the code was translated:

- *Wallet.* A top-up approval writes back a sum that undoes a debit settled meanwhile
  (wallet_api.py:207 "settles the charge atomically"); while two processes overlap both
  deliveries of a grant add (admin_internal_api.py:45, 70); a fault between credit and
  record credits a checkout twice, and nothing remembers a refund (stripe_webhook.py:4);
  a refund that overtakes its checkout is answered 200 and never debited
  (stripe_webhook.py:3).
- *OAuth.* The portal's revoke routes leave the token cache alone (provider.py:20
  "Cleared/popped on revoke"); a claim that loses has already switched off the user's
  older devices (provider.py:70-84); with two tabs of one user in two processes the late
  claim switches off the very device that the other tab was just given.
- *Tokens without a consent.* `/token` accepts the id of a session, which whoever called
  `/authorize` holds, before anybody has consented (provider.py:226): a client that is not
  public gets a pair bound to its owner, or to nobody while it is unclaimed
  (provider.py:277-282). provider.py:263-266 has the tokens "bound to whoever actually
  authorised" for public clients only, and keeps to that: their row is deleted and the
  exchange then refused, so that the session is spent. A token bound to nobody acts for
  the client's owner as soon as there is one: the gateway looks him up at use
  (gateway/routes.py:275-293, rest_proxy.py:66-85). `TokensFollowConsent` and `Consent`
  say exactly this.
- (a) The unique index of unclaimed fingerprints counts rows that are switched off, the
  selects do not: after such a client is revoked, registrations with its fingerprint fail
  until the cleanup (oauth/routes.py:824).
- (b) oauth/routes.py:692 "activated once the user completes setup-password": nothing
  activates that row.
- (c) A crash between `set_password` and `activate_user` (portal/routes.py:469-470) leaves
  an account with a password that is not active.
- (d) A second registration with the address in other case is answered with success,
  although `create_user` raises and no mail is sent.
- (e) Two Supabase subjects with one address, on two threads: the later link overwrites
  the earlier one, against jwt_auth.py:165-167 "the one case we refuse to merge".
  `SubjectsApart` leaves this case out, of the run `accounts` and of the theorem.
- (f) An unconfirmed registrant holds the signup grant, so jwt_auth.py:158-163 refuses him
  as a possible deactivation instead of reclaiming an abandoned shell.
- (g) A reset leaves other reset links of the user working.
- (h) `add_mcp` and `remove_mcp` write a list read when the HTTP request began, and drop
  what others changed since, though gateway/routes.py:244 says "persist an MCP into the
  user's toolbox"; two presses on a toggle may both publish.
- (i) `client_mcp_credentials` is written (admin_toolbox_api.py:7 "so the gateway proxy
  can inject the token") and read by nothing on the upstream path.
- (j) The order of candidate URLs is not the one of the docstring (upstream.py:307-311);
  "Retries once" (upstream.py:424) is up to two rounds of every candidate.
- (k) `llm_margin_override` is stored and read by no price.
- (l) A failed balance check lets the call through, a failed settlement is logged as
  charged, a client that goes away in the middle is not billed.
- (m) A call under way during a teardown, and one that comes between Scholar's deletion and
  its answer, re-creates the tenant, and the teardown still reports success
  (portal/routes.py:918-919); a cleanup that fails there is reported as done.
- (n) A Graph refresh under way overwrites a new connection or brings a removed one
  back (microsoft_graph.py:298); the lock does not cover connect and disconnect. A
  refresh whose answer or write is lost leaves a replaced token in the row, and so does one
  that another process has overtaken (microsoft_graph.py:233, 256).
- (o) While two processes overlap they may insert two client rows for agent traffic.

## 6. What is not modelled, and why

- *Pure reads and messages:* the landing pages, templates, notifications by e-mail and
  Telegram, reports and dashboards of the panel and portal. They change no state.
- *One-row forms:* categories, packages, testimonials and settings of the panel,
  `/api/v1/tokens`, rotation of a client's secret, the form that renames a client, the token
  of the plugin's login. A single statement that no other
  component reads between two steps has no property worth a model.
- *Data:* the floating-point price formula, markup rounding, fingerprints as strings,
  password hashing, JWT signatures, PKCE, encryption of stored tokens. The models name
  their outcomes.
- *The TTL cache's scan for a victim* (`cache.py:42`): the models let any entry go at any
  time, which covers every choice of victim, but not an exception from a scan while
  another thread inserts.
- *Usage-log rows of tool calls,* but for the `request_id` of debits: nothing reads them back.
- *Time:* rate limits, time-outs and leeways are choices, not clocks.
- *The legacy `oauth_clients.credit_balance`* (introspection only records a
  usage row and ignores the cost it is sent), and the polling store of approved
  redirects, which no caller uses.
- *Several users* in `Toolbox` and `Credentials`: each row belongs to one user and no
  handler there touches two.

Next in the plan: a composition of `Accounts` and `OAuthGrants` for a session whose
consenter is deleted; the finer interleaving of the cached catalogue reads of two
processes; abstract specifications of the links of an account and of a Graph
connection, and of what two overlapping processes still guarantee there.
