# InfraCore backend: TLA+ specifications

Models, model checks and proofs for the back end in `src/` (Express, MongoDB
through Mongoose, Redis, BullMQ). Paths below are relative to the repository's
`src/` directory.

## 1. The system

| Part | State it keeps | Operations | Talks to |
|---|---|---|---|
| Sessions (`modules/auth`, `models/Token.model.js`, `utils/jwt.util.js`) | `tokens` documents, one per refresh JWT; password fields of the user | login, refresh, logout, changePassword, resetPassword | MongoDB, Redis |
| Blocklist and token keys (`cache/token.cache.js`) | Redis `jwt:block:<jti>`, `rt:<user>:<jti>` | block, isBlocked, store, delete by pattern | Redis |
| Authentication (`middlewares/auth.middleware.js`) | none | verify the JWT, look at the blocklist, read the user | Redis, MongoDB |
| Token cleanup (`jobs/cleanup.job.js`, TTL index) | none | delete expired and long revoked documents | MongoDB |
| User endpoints (`modules/users`, `middlewares/permission.middleware.js`, `middlewares/validate.middleware.js`) | `users` documents | list, read, update, role, deactivate, delete, avatar | user cache, MongoDB |
| User cache (`cache/user.cache.js`, `cache/index.js`) | Redis `user:<id>`, 900 s | get, set, delete | Redis |
| Registration and mailed secrets (`modules/auth/auth.service.js`) | hashes and expiries of tokens and OTPs in the user document | register, verify-email, resend, forgot, reset, OTP | MongoDB, mail queue |
| Mail queue (`queues/`, `emails/`) | BullMQ jobs | add, process, retry | Redis, SMTP |
| Server lifecycle (`server.js`, `database/`, `jobs/index.js`, `queues/index.js`) | process flags, connections | boot, listen, shut down | everything |
| Roles (`modules/roles`), seeder (`database/seeder.js`) | `roles` documents, the first super admin | create, update, delete, seed | MongoDB |
| Lists (`core/BaseRepository.js`, `utils/pagination.util.js`) | none | a page and the total | MongoDB |
| Web sockets (`sockets/`) | rooms per user and role | handshake, join, leave | Redis, MongoDB |
| Rate limiter, notifications, events, uploads, helpers, configuration, texts | little or none | | |

`PROJECT.json` lists all of them with what is modelled of each.

What makes this code hard to test:

- **Every await is a point of interleaving.** The handlers read a document,
  await, and act on what they read: refresh (find, read user, revoke, issue),
  login (read, compare, issue), reset (find, hash, update), the cache fill.
- **Two stores without a transaction.** Sessions live in MongoDB, the blocklist
  and the copies in Redis; `Promise.all` and `allSettled` send calls to both at
  once, and Redis failures are swallowed (`cache/index.js`).
- **Four clocks' worth of expiry.** JWTs in whole seconds, `expiresAt` and the
  TTL index, the cleanup job, Redis `EX`.
- **At-least-once mail** with retries, and secrets that are replaced while old
  mails are still on their way.
- **Look, then write** on whole collections: role names, system roles, the first
  super admin, and a client that pages through a list that moves under it.
- **Shutdown** with connections, workers and cron jobs in hand, at any moment
  of the boot sequence, and with handlers whose clients have already gone.

What each part must get right: a consumed, revoked or logged-out session never
becomes usable again, and only its owner's requests end it; a closed account
gets no session; a document that is live outlives its token, and a blocklist key
the access token it stands for; accounts change only on behalf of entitled callers; stale copies are
explained and go away; a mailed secret works once, for the account it was
mailed to; a system role stays one, and whoever follows the list to its end has
seen everybody who was there; the process closes its databases under no client
that is still connected, and does end.

## 2. The modules

| Module | Models | Checked by | Proved in |
|---|---|---|---|
| `Sessions` | token pairs, documents, blocklist, all handlers and handshakes that create, check, rotate or end sessions, cleanup, TTL index, clock | `MCSessions` | `SessionsProofs`, `SessionsTimeProofs`, `SessionsBoundProofs` |
| `SessionContract` | what sessions promise, without handlers, clock or stores | implemented by `Sessions` | `SessionsProofs` |
| `UserDirectory` | user routes, guards, validation, writes, cached copies | `MCUserDirectory` | `UserDirectoryProofs` |
| `Recovery` | registration, mailed secrets, mail queue | `MCRecovery` | `RecoveryProofs` |
| `SecretContract` | what accounts and mailed secrets promise, without requests, queue, clock or failures | implemented by `Recovery` | `RecoveryProofs` |
| `Lifecycle` | boot, serving, shutdown | itself | `LifecycleProofs` |
| `Administration` | role endpoints, seeder, paging through the users | `MCAdministration` | `AdministrationProofs` |
| `Pagination` | pages of a list, as functions; used by `Administration` | with it | `PaginationProofs` |

`MCSessions`, `MCUserDirectory` and `MCAdministration` add symmetry sets,
`MCRecovery` the accounts that exist at the start (none, one or two) and the
constraint that leaves out mirror images.

### How code becomes actions

A request runs on one of `Procs`; `h[p].pc` is the await it is suspended at and
the other fields of `h[p]` are its local variables. Node runs the code between
two awaits alone, so one action is one call to MongoDB or Redis taking effect,
together with everything up to the next await. The calls of a `Promise.all` or
`allSettled` are a set `todo` and land in any order. Guards are the code's
conditions and early returns. Where an answer changes nothing and no property
is about it (a wrong password, a missing token), the request is left out.

**Sessions.** A `jti` names a pair (access and refresh JWT, signed in the same
call); `pair[j]` is what the signatures say, `doc[j]` the `tokens` document,
`block[j]` the expiry of the blocklist key. `Refresh`, `FindRefreshToken`,
`FindActiveUser`, `RevokeRefreshToken`, `Sign`, `SaveRefreshToken`,
`StoreRefreshToken`, `Deliver` are `refreshTokens` and `issueTokenPair`;
`Authenticate`, `IsAccessTokenBlocked`, `LoadPrincipal` are `authenticate`;
`updateMany` of a logout visits documents one at a time (`ScanDocs`,
`RevokeOne`, `ScanDone`), as MongoDB does, but its `updatedAt` is the server's
clock at the moment it was sent (`h[p].at`), because Mongoose puts the timestamp
into the update: a document inserted later and still met is revoked with a
time before its own signing. Time is a tick counter with
`TicksPerSec` ticks to the second, and there is one clock: clock differences
between the hosts of the server, MongoDB and Redis are not modelled.
`updateLoginMeta` changes nothing that sessions read and is part of `Deliver`.
The `rt:*` keys are written and deleted but never read, so those calls only
take time. A web socket's handshake goes through `Authenticate` and
`IsAccessTokenBlocked` like a request, and ends in `Connect`, which asks for
`isActive` alone; a connected socket (`pc = "connected"`) keeps its user until
`Disconnect`. `cut`, `dead` and `refused` are history variables.

**UserDirectory.** `Call` is the middleware chain of `user.routes.js`: the
caller as read, guard, schema, stripping, up to the handler's first await.
A copy in `cache` carries a history flag `missed`: a write has passed it by for
good, because its reader read before the write and fills the cache after it,
because a deletion was rejected, or because the auth module wrote.

**Recovery.** `Ask` and `Store` are the three handlers that draw a secret,
store its hash and queue a mail; `Present` and `Apply` look a token up and then
update by `_id`, clearing whatever is stored by then. Secrets are never equal
by chance. The validity of a token may end at any time (`Expire`), so no property
depends on how long it lasts. A run of a job (`Run`) ends in a delivery, in an
error, which takes one of its `Attempts`, or in the death of the worker, before the
mail went out or after. BullMQ notices a dead worker's job as stalled and runs
it again, `MaxStalled` times; `email.queue.js:26` leaves that at the default of 1, so
the second death fails the job for good, whatever attempts are left. One-time passwords are drawn, stored and mailed, but
`verifyOTP` refuses every one of them: it reads the user without `otpCode`,
which the schema excludes by default; their expiry is never looked at.
`ImplementsContract` maps the state to that of `SecretContract`: an account is its
address, whether that is verified and the token that set its password; the
outstanding secrets are those stored, valid or not; a letter is written when its
job is queued or about to be (`Post`), and has arrived when a worker has sent
it; a claim is a request between its lookup and its update. A crash before the job
is queued loses the letter, one between lookup and update withdraws the claim.

**Lifecycle.** `bootstrap` from the connection attempts to `listen`,
connections that are idle, serving or taken over by Socket.IO, one worker per
queue, the cleanup, and `gracefulShutdown`: the first signal closes the server, the
callback runs when the last connection has gone and starts the closers, whose
rejections are not noticed; fifteen seconds after the signal the process exits
in any case. A client that hangs up (`HangUp`) leaves its handler running as an
"orphan", which `server.close` does not wait for: the databases may close and the
process exit under it, and when it asks for the cache after `disconnect` has run,
`getClient` makes a new Redis client (`UseRedis`). A cleanup that has started
(`CleanUp`) is not waited for either.

**Administration.** What works on a collection as a whole. `Call` is a request
of a super admin to a role endpoint, `Find` its lookup and `CreateRole`,
`UpdateRole`, `DeleteRole` its write by name or `_id`; which fields an update
sets is not told apart, as no property is about them. A seeder sends all its
upserts (`StartSeeder`), which land in any order (`Upsert`) even after it has
failed, looks for a super admin and creates one. `StartWalk`, `FindPage`,
`CountUsers`, `AnswerPage` are a client that asks for page 1, 2, ... while
`hasNextPage`; the two queries of a page are steps of their own. Accounts are
ordered by their `_id`, which stands for `createdAt`; ties are not modelled.
Registration, role changes and deletions of accounts are one step each here and
have their own steps in `Recovery` and `UserDirectory`. An upsert is one atomic
step: MongoDB retries one that loses the race for the unique index. What a
seeder that died had sent may still land, until the seeder is started again.
`walk.missing` (history) holds the accounts that were there from the start of
the walk and have been on none of its pages; the walk is no longer
followed once an account of a page already given has gone (those behind move
up, a known weakness of paging by position) or when one arrived between the
count and the find of a page.

## 3. The runs

| Run | Instance | Properties |
|---|---|---|
| rotation | 1 account, 3 pairs, 2 requests, standing clock, deactivation | `ParentRetired`, `LoggedOutStaysOut`, `ClosedAccountStaysClosed` |
| failures | 2 accounts, 2 pairs, 2 requests, Redis/MongoDB rejections, crashes | `SessionInv`, `ImplementsContract`, `OwnSessionsOnly` |
| expiry | 1 pair, and a second one for logins that meet a logout, 2 requests, clock from 0 to 1.5 seconds, every operation but refresh, crashes | `TypeOK`, `OnlyDatedDocsGo`, `BlockLasts`, `RefusedNeverAdmitted`, `ClosedAccountStaysClosed`, `LockoutWithinASecond` |
| liveness | 2 pairs, 2 requests or sockets, fair handlers | `HandlersGetOn`, `HandlersFinish`, `LogoutTakesEffect` |
| access | 2 accounts, 3 roles, 2 requests, every body | `TypeOK`, `ChangesAreAuthorised` |
| directory | 1 account, all routes, auth writes, Redis rejections | `DirectoryInv`, `StaleOnlyIfMissed`, `CopiesConverge` |
| recovery | 2 documents, 2 addresses, 2 secrets, 2 requests, 2 attempts, 1 stall | `OneAccountPerEmail`, `MailedSecretsKnown`, `SpentSecretsDie`, `ResetByOwnMail`, `JobsSettle`, `ImplementsContract`, `TypeOK` |
| lifecycle | 2 connections or handlers left by their clients, 3 attempts at MongoDB | `RequestsKeepMongo`, `CleanExitIsDrained`, `ClosersRunOnce`, `SignalEndsProcess`, `BootEnds`, `LifeInv` |
| administration | 1 role name, 2 role documents, 2 accounts, pages of 1, 2 seeders, 1 request, rejections | `OneRolePerName`, `SystemRolesFreeze`, `SeededRolesStay`, `FreshRolesAreSystem`, `SeededSuperAdmin`, `WalkSeesAll`, `TypeOK` |
| rotation_once | as rotation | `OneSuccessor` is violated |
| reset_sessions | 2 pairs | `ResetEndsSessions` is violated |
| profile_update | 1 account | `ProfileUpdateAccepted` is violated |

Bounds. Two requests in flight are enough for every race named above: each is
between one handler that holds something it read and one that writes. Three
pairs allow a pair, its successor and a competitor. The clock of `expiry` runs
to one and a half seconds, past the end of tokens of one second that are signed
at its beginning or half a second later; half-second ticks separate
the floor of a time from the time, and the second of a password change from
the second before. In `expiry` most properties are about one token, and one
pair suffices for them; `OnlyDatedDocsGo` needs a document that an `updateMany`
meets although it was signed after the update was sent. The constraint
`SecondPairInLogouts` therefore lets a second pair be drawn only while logins and
logouts of an account in use are under way, and the run reaches a login signed one
tick after a logout's update was sent, met by it, and cleaned up half a second
early. Refresh across an expiry is not in that run. In `recovery` the constraint
`InOrder` leaves out states that are others with documents, addresses, secrets or
requests exchanged: the first secret drawn is `t1`, by `p1`, for `u1` or for a
registration of `e1`, and the first document is `u1`. A symmetry set is not
sound for `JobsSettle`; this constraint is, because every behaviour is, up to such an
exchange, one whose states are all kept, and fairness asks the same of all secrets. In `administration` one name is enough for two creators to meet,
and a second document can only be a second role of that name or its
successor after a deletion; the proofs cover the other sizes.
`Jtis`, `Secrets`, `Ids`, role and account numbers are drawn without replacement, so they also bound
how long a behaviour can be. `MaxTick` bounds the clock, `Attempts` and
`MaxRetries` are the code's own limits with smaller values; `MaxStalled` is BullMQ's.

Deadlock is not checked: the systems really stop when the clock has reached
`MaxTick`, when all uuids or secrets are drawn, when every account is closed,
or when the process has exited.

Fairness. `FairSpec` of `Sessions` and `UserDirectory` is weak fairness of the
handlers' own steps: Node resumes a handler whose call has answered or been
rejected, and the drivers time calls out. `UserDirectory` adds that Redis drops a
key whose time is over. In `Recovery` it is only that BullMQ hands every waiting
job to a worker and that the run ends, in a delivery, an error or the worker's death
(`Work`), in `Lifecycle` that attempts to connect end and that
timers fire. Clients, administrators, connections, jobs in hand and closers
are under no obligation, nor are handlers whose client has gone.

### What the violations say

- **OneSuccessor.** `refreshTokens` looks at `isRevoked` and revokes in two
  round trips, and `revokeRefreshToken` does not look at the old value: two
  refreshes of one token both answer with a new pair, although the comment
  says "Rotate: revoke old token, issue new pair". `DoubleExchangesBounded` says
  how far this can go: one pair for each request in flight.
- **ResetEndsSessions.** "Invalidate all existing sessions" after a reset
  deletes `rt:*` keys that no handler reads; refresh documents stay live. (Access
  tokens signed before the second of the change are refused.)
- **ProfileUpdateAccepted.** `PATCH /users/profile` is validated with a schema
  that requires `params.id`; the integration test expects 200, the code
  answers 400 always.

### Further observations

Seen in the models or while reading, without a run of their own:

- Token reuse deletes the same `rt:*` keys, so "revoke the entire user's
  session" (`auth.service.js:89`) leaves the other sessions usable.
- Logout puts only the access token it came with on the blocklist; other access
  tokens of the user last until they expire. A refresh in flight across a
  logout obtains a live successor. A rejected `updateMany` is dropped by
  `allSettled`, the answer is 200.
- A token signed in the last second before a password change may still be let
  through (`LockoutWithinASecond` bounds it). A login that had compared the old
  password gets a pair after the change that no check of its age can tell from
  others. A web socket's handshake does not ask for the password's age at all,
  and a connected socket outlives logout, deactivation and changes of role.
- `cache/index.js:38` deletes what `KEYS` has listed; a key set in between
  survives. The keys concerned (`rt:*`, `users:list:*`) are read by no handler.
- No guard reads the `roles` collection: changing the permissions of a role
  document has no effect on what its users may do.
- The seeder does not set `isActive`: a role that was switched off before it
  became a system role stays hidden from `GET /roles`, and nobody can switch it
  on again, as system roles may not be updated.
- When a user has registered the seeder's address the seeder fails for as long
  as there is no super admin.
- `GET /users` and `GET /users/:id` admit employees (`user:read`), where the
  README says admin+ and a comment "Admin and above". `authorizeRoles` does
  not use the hierarchy its comment speaks of. `PATCH /users/:id` says "Manager
  and above" and admits owners and admins.
- Deleting an account moves those behind it up: a client between two pages
  misses one. An account registered between the count and the find of a page can
  make it stop a page early.
- An `updateMany` that meets a document signed after it was sent revokes it with
  an `updatedAt` before its `iat`. As refresh tokens live as long as revoked
  documents are kept (seven days), cleanup may take the document a little before the
  token expires; the token is refused all the same, as unknown instead of revoked.
- A worker that dies twice over one job fails it for good, perhaps unsent, with
  attempts left: the user must ask for another mail.
- A demotion that overtakes a request of the demoted account does not stop it:
  the guard's role is the one read when the request began.
- A handler whose client has hung up is not waited for by the shutdown: a refresh
  may lose its databases, or the process, between its revoke and its save. If it
  asks for the cache once Redis has been disconnected, it opens a new client that
  nobody closes. The queues' producers (`email.queue.js:13`) are never closed at all.
  `process.exit(0)` cuts these off without a word.
- A signal during bootstrap does not stop it: the server begins to listen after
  the closers have run. `RequestsKeepMongo` and `CleanExitIsDrained` are stated
  for the other case (history variable `early`).
- Stopping the cron jobs does not wait for a cleanup in hand, and exit code 0 may
  cut it short.

## 4. The proofs

`SessionsProofs` is checked by tlapm for every value of the constants that
satisfies the assumptions of `Sessions` (`NoneIsFresh`, `ClockAssumption`,
`ScopeAssumption`, `LifetimesFit`):

| Theorem | States |
|---|---|
| `TypeCorrect` | `Spec => []TypeOK` |
| `Invariance` | `Spec => []SessionInv` |
| `RotationRetires` | `Spec => []ParentRetired` |
| `LogoutIsFinal` | `Spec => []LoggedOutStaysOut` |
| `OwnSessions` | `Spec => OwnSessionsOnly` |
| `ClosedAccountsGetNothing` | `Spec => ClosedAccountStaysClosed` |
| `Implementation` | `Spec => ImplementsContract`, that is `Contract!Spec` |

and `SessionsTimeProofs`, for any ticks to the second and any lifetimes that fit:

| Theorem | States |
|---|---|
| `TimeInvariance` | `Spec => []TimeInv` |
| `DocumentsGoInTime` | `Spec => OnlyDatedDocsGo` |
| `BlockedUntilExpiry` | `Spec => []BlockLasts` |
| `RefusedStayOut` | `Spec => RefusedNeverAdmitted`, where Redis answers (`"redis" \notin Faults`) |
| `LockoutPrecision` | `Spec => LockoutWithinASecond` |

None of these properties is inductive. `SessionInv` adds what a suspended
handler still knows: the pair it was given was stored and is its user's; the
pair it is about to sign replaces one that is already over; the pair it is
storing is not yet stored, by it or by anybody else (`NewApart`); and the
documents an `updateMany` has yet to visit include every session of its cut
that is live. With that, `ParentRetired` and `LoggedOutStaysOut` follow from
`PairOk` (a replaced pair and a dead one are over, and nothing that is over
becomes live: `SaveRefreshToken` inserts only an unknown pair). The proof has
one lemma per action or group of alike actions. `Implementation` maps a session
to its document, and its owner and predecessor to what the pair says once the
document exists: `SaveRefreshToken` is a `Grant`, revocations are `Retire`,
deletions are `Forget`, every other step stutters. `TimeInv` relates what is
stored to the clock: nothing recorded lies ahead of it, a stored document is
dated at least `DocLife` after its signing, and a refused pair is on the blocklist to
the end of its access token. `DocumentsGoInTime` adds what `Removal` says of the two
steps that delete: the TTL index takes a document only after its JWT, and cleanup a
document that was revoked `RevokedKeep` ago, so that its JWT has expired unless the
revocation is stamped before the signing.
`LockoutPrecision` also needs that the floor of a time and the floor of a later
one are in order (`SecMonotone`, `SecReached`).

`SessionsBoundProofs` has, for finite sets `Jtis` and, in the first, `Procs`:

| Theorem | States |
|---|---|
| `DoubleExchangesBounded` | `Spec => []ExchangesBounded` |
| `RequestsGetOn` | `Spec => HandlersGetOn` |

`ExchangesBounded` bounds how far the double issue of `rotation_once` can go: the
successors of a pair and the requests that are past the check of `isRevoked` for
it are together no more than requests can be in flight, because a successor is
signed only after the pair was revoked, and from then on nobody passes the
check. It is in no run, since to break it takes more pairs than `rotation` can
afford. `RequestsGetOn` is the part of `HandlersFinish` that needs no fairness. What is
left of a request (`Left`) is the number of steps ahead of it (`StepsLeft`, seven at
most) and that of the sessions that are not over yet and that an `updateMany` might
revoke (`Revocable`). Each step of the request lowers the sum, and no step of
another raises it.

`LifecycleProofs` has, for any number of connections and attempts:

| Theorem | States |
|---|---|
| `LifecycleInvariance` | `Spec => []LifeInv` |
| `LifecycleTyped` | `Spec => []TypeOK` |
| `RequestsSafe` | `Spec => []RequestsKeepMongo` |
| `CleanExit` | `Spec => []CleanExitIsDrained` |
| `ClosersOnce` | `Spec => ClosersRunOnce` |
| `BootIsBounded` | `Spec => BootGetsOn` |

The strengthening (`LifeInv`) says how far boot, server and shutdown can be
apart: before the server listens nobody is connected; a shutdown that began
later closes nothing while it drains; and once it closes, no client is connected,
no cron job is scheduled, and MongoDB and the workers are down, waited for or
have rejected. The history variable `orphaned` tells whether a handler without a client saw
the closers start; if none did, no handler is left and the Redis client is accounted
for like the rest, and if one did, nothing is said of either. `BootIsBounded` is the part of `BootEnds` that needs no fairness: `BootLeft`
counts two steps for each attempt that is left and one more, every step of
`bootstrap` lowers it, and no signal, client or closer raises it.

`UserDirectoryProofs` has, for any accounts, requests, field values, routes in
use and faults, from `NoneIsFresh` and `ScopeAssumption` of `UserDirectory`:

| Theorem | States |
|---|---|
| `DirectoryInvariance` | `Spec => []DirectoryInv` |
| `DirectoryTyped` | `Spec => []TypeOK` |
| `StaleCopies` | `Spec => []StaleOnlyIfMissed` |
| `AuthorisedChanges` | `Spec => ChangesAreAuthorised` |
| `CopiesGetWell` | `Spec => CopiesHeal` |
| `RequestsGetOn` | `Spec => HandlersGetOn` |

`StaleOnlyIfMissed` speaks of the copies in Redis; it is not inductive, since a
reader between its `findById` and its `SET` can bring back what it read.
`DirectoryInv` adds that such a reader holds the current document or has been
marked by every write since, and that a write under way is `Entitled`: its
route, its body and the role its caller had at the guard fit together.
`ChangesAreAuthorised` then follows step by step, from which fields `Updated`
changes for which route. The steps fall into those that leave the accounts alone
(`QuietStep`) and the writes (`WriteKeeps`). The last two are the parts of
`CopiesConverge` that need no fairness: while no document is written, no request
comes to hold outdated data (`Late` only shrinks), a copy goes stale only when such
a request fills it, and each request ends after five steps at most. What fairness
adds is that requests do take their steps and that keys expire.

`RecoveryProofs` has, for any accounts, addresses, secrets, requests, attempts
and faults, from `NoneIsFresh`, `OldUsersAssumption`, `AttemptsAssumption` and
`FaultsAssumption`:

| Theorem | States |
|---|---|
| `Invariance` | `Spec => []RecoveryInv` |
| `TypeCorrectness` | `Spec => []TypeOK` |
| `UniqueAddresses` | `Spec => []OneAccountPerEmail` |
| `MailsFollowDocuments` | `Spec => []MailedSecretsKnown` |
| `SpentForGood` | `Spec => []SpentSecretsDie` |
| `ResetsByTheOwner` | `Spec => []ResetByOwnMail` |
| `Implementation` | `Spec => ImplementsContract`, that is `Contract!Spec` |
| `SecretsAreMailedOnce` | `Spec => []OneJob` |
| `QueueGetsOn` | `Spec => MailsGetOn` |

A secret is first with the request that drew it (`Alone`: in no document, no
mail, no other request), then in one slot of one document (`StoredOnce`), then
gone, and what a request remembers of its account stays true because an `_id`
is never given to a second address (`Remembers`). `Addressed` says that a mail
names the account whose secret it carries; `ResetByOwnMail` follows from it.
`Implementation` takes the steps one by one: `Create` is the contract's `Open`,
`Store` an `Issue`, `Present` a `Claim`, `Apply` a `Redeem` or, when the account has
gone, a `Withdraw`, a delivery an `Arrive`, `DeleteUser` a `Close`; `Fail` is a `Lose`
before the mail is queued and a `Withdraw` before the update; everything else
stutters. That a secret is `New` when it is issued, that its letter goes where the
account lives and that a letter which is lost has not arrived are what `Alone`,
`Remembers` and `Addressed` are for. `QueueGetsOn` is the part of `JobsSettle` that
needs no fairness: a job stays in the queue, or its mail arrives, or it comes back
with one more error or death counted, and a run of its worker does not leave it as it
was, since a secret has one job (`OneJob`). So a mail is given up, unsent, after
`Attempts` errors or `MaxStalled + 1` deaths of its workers, and not before; that
every mail arrives is neither true nor claimed.

`AdministrationProofs` has, for any names, documents, accounts, requests,
seeders, page size and faults, from the assumptions of `Administration`:

| Theorem | States |
|---|---|
| `Invariance` | `Spec => []AdminInv` |
| `TypeCorrectness` | `Spec => []TypeOK` |
| `UniqueRoleNames` | `Spec => []OneRolePerName` |
| `FirstSeedUndisturbed` | `Spec => []FreshRolesAreSystem` |
| `SeededRoles` | `Spec => []SeededRolesStay` |
| `SuperAdminAfterSeeding` | `Spec => []SeededSuperAdmin` |
| `FrozenForGood` | `Spec => SystemRolesFreeze` |
| `CompleteWalks` | `Spec => []WalkSeesAll` |
| `WalksEnd` | `Spec => []WalkComesToEnd` |

`SeedInv` counts a seeder's roles one by one: what it has stored is there or
spoiled. `FreshInv` is the order of the first seeding: while an admin exists, or
a request is on its way, all roles are there, so no request of that database can
have found one to write. `WalkInv` is the argument about pages: an account that
the client has missed so far has a position behind the pages it was given, and
the count, once both queries are done, does not let it stop before that
position. Positions are cardinalities, and `NewerGrows` and `NewerStays` say how
arrivals and departures move them. `WalksEnd` says that the walk does not go on
for ever: a count never exceeds the accounts ever registered (`Registered` only
grows), and the next page is asked for only when it starts before the count.

`PaginationProofs` proves `QueriesAreTamed`, `PagesAreDisjoint` and
`NextUpToTheLast` (`hasNextPage` and `totalPages` agree) for all numbers.

Only model-checked: liveness (`HandlersFinish`, `LogoutTakesEffect`,
`CopiesConverge`, `JobsSettle`, `SignalEndsProcess`, `BootEnds`), which is beyond
the prover. `RequestsGetOn`, `CopiesGetWell`, `QueueGetsOn` and `BootIsBounded` are the
step arguments that fairness turns into four of these; `LogoutTakesEffect` and
`SignalEndsProcess` rest on the model check alone. The other way round,
`ExchangesBounded`, `BootGetsOn`, `CopiesHeal`, `OneJob`, `MailsGetOn`, `WalkComesToEnd` and
the `HandlersGetOn` of `UserDirectory` are proved and in no run, although all but the
first are within reach of one.

## 5. Not modelled

- The rate limiter: counting is express-rate-limit's and its Redis store's; the
  file only configures them.
- Events: the only listeners write log lines. Array, date and string helpers,
  `ApiFeatures`, `parseSort`, `parseFieldSelection`, the audit log, the token
  family keys: called by no handler.
- File uploads beyond the avatar field, logging, texts, swagger, configuration:
  libraries, I/O and data.
- The content of names, addresses and passwords, filters and sort orders of
  lists.
- Redis eviction, a Redis client that has given up reconnecting, MongoDB failover,
  clock differences between hosts.

## 6. What could follow

Abstract specifications for the cached directory (an eventually consistent
register) and for the roles, with refinements; the measure of a shutdown; a run for a
signal during boot with a property of its own; pages under ties of `createdAt`.
